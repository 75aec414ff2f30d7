------------------------- MODULE SerialSession_proofs -------------------------
(* Proofs about SerialSession, for any files, block modulus, retry limit and   *)
(* bounds: from the request of a transfer until its end is reported, the line  *)
(* belongs to the transfer; and what the device collects is the file.          *)
EXTENDS SerialSession, SequenceTheorems, TLAPS

(* There is an engine to run, or about to be started.                          *)
Busy == engine # IdleEngine \/ taken.file # NoFile

(* A request, once accepted, reserves the line until the transfer it becomes   *)
(* is concluded.  It is accepted only when nothing else is under way, and the  *)
(* input that was typed before it is gone when the loop takes it.  Outside of  *)
(* a turn of the loop nothing is taken; without a loop there is no engine.     *)
LineInv ==
    /\ Busy => reserved /\ request = NoFile /\ outgoing = <<>>
    /\ request # NoFile => reserved
    /\ engine = IdleEngine \/ taken.file = NoFile
    /\ pc # "Pump" => taken.file = NoFile
    /\ Busy /\ taken.file = NoFile => taken.input = <<>>
    /\ pc \in {"Idle", "Open", "Closed"} => engine = IdleEngine

-----------------------------------------------------------------------------
(* The engine                                                                  *)

(* A fresh engine is neither active nor done; a busy one is left to itself.    *)
LEMMA IdleIsIdle ==
    /\ ~IsActive(IdleEngine) /\ ~IsDone(IdleEngine)
    /\ Nothing.file = NoFile /\ Nothing.input = <<>>
  BY DEF IsActive, IsDone, IdleEngine, ActiveStates, DoneStates, Nothing

(* Without a transfer a turn of the loop leaves the engine as it is, whatever  *)
(* the clock or a late cancel request say.                                     *)
LEMMA NothingPrepared ==
    ASSUME engine = IdleEngine, taken.file = NoFile, NEW expired \in BOOLEAN
    PROVE  Prepared(expired) = IdleEngine
  <1>1. CancelEngine(IdleEngine) = IdleEngine
    BY IdleIsIdle DEF CancelEngine
  <1>2. CheckTimeout(IdleEngine) = IdleEngine
    BY DEF CheckTimeout, IdleEngine
  <1> QED
    BY <1>1, <1>2 DEF Prepared

-----------------------------------------------------------------------------
(* The steps                                                                   *)

LEMMA GuiKeepsLine == ASSUME LineInv, Gui \/ OnSignal PROVE LineInv'
  <1>1. CASE Connect
    BY <1>1 DEF Connect, LineInv, Busy
  <1>2. CASE Disconnect \/ CancelXmodem \/ OnSignal
    BY <1>2 DEF Disconnect, CancelXmodem, OnSignal, LineInv, Busy, flags
  <1>3. CASE Type
    BY <1>3 DEF Type, LineInv, Busy
  <1>4. CASE ChooseFile
    BY <1>4 DEF ChooseFile, LineInv, Busy, flags
  <1>5. CASE StartXmodem
    BY <1>5 DEF StartXmodem, Rejected, LineInv, Busy
  <1> QED
    BY <1>1, <1>2, <1>3, <1>4, <1>5 DEF Gui

LEMMA PumpKeepsLine == ASSUME LineInv, Pump \/ PumpNoFile PROVE LineInv'
  <1>1. CASE PumpNoFile
    BY <1>1, IdleIsIdle DEF PumpNoFile, LineInv, Busy
  <1>2. ASSUME Pump, Busy PROVE LineInv'
    BY <1>2, IdleIsIdle DEF Pump, Concluded, LineInv, Busy
  <1>3. ASSUME Pump, ~Busy PROVE LineInv'
    <2>1. PICK expired \in BOOLEAN : Concluded(Prepared(expired))
      BY <1>3 DEF Pump
    <2>2. Concluded(IdleEngine)
      BY <2>1, <1>3, NothingPrepared DEF Busy
    <2>3. engine' = IdleEngine /\ reserved' = reserved
      BY <2>2, IdleIsIdle DEF Concluded, IdleEngine
    <2> QED
      BY <1>3, <2>3, IdleIsIdle DEF Pump, LineInv, Busy
  <1> QED
    BY <1>1, <1>2, <1>3

LEMMA ThreadKeepsLine == ASSUME LineInv, Thread PROVE LineInv'
  <1>1. CASE OpenPort
    BY <1>1 DEF OpenPort, LineInv, Busy
  <1>2. CASE Top
    BY <1>2 DEF Top, LineInv, Busy
  <1>3. CASE Pump \/ PumpNoFile
    BY <1>3, PumpKeepsLine
  <1>4. CASE Read
    BY <1>4, IdleIsIdle DEF Read, LineInv, Busy, flags
  <1>5. ASSUME PortFails PROVE LineInv'
    <2>1. ~Busy => engine' = IdleEngine
      BY <1>5, NothingPrepared DEF PortFails, Busy
    <2> QED
      BY <1>5, <2>1, IdleIsIdle DEF PortFails, LineInv, Busy, flags
  <1>6. CASE Closing \/ Closed
    BY <1>6 DEF Closing, Closed, LineInv, Busy
  <1> QED
    BY <1>1, <1>2, <1>3, <1>4, <1>5, <1>6 DEF Thread

LEMMA WireKeepsLine == ASSUME LineInv, Wire PROVE LineInv'
  BY DEF Wire, ReceiverStarted, Ask, Device, DamagePacket, DamageAnswer, LineInv, Busy, flags

(* Who may use the line follows from the flags of the worker and of the        *)
(* dialog, whatever the receiver answers and the line does to it               *)
(* (SerialSession::sendInput, startXmodem and the loop of run).                *)
THEOREM LineIsInvariant == Spec => []LineInv
  <1>1. Init => LineInv
    BY IdleIsIdle DEF Init, LineInv, Busy
  <1>2. LineInv /\ [Next]_vars => LineInv'
    <2>1. LineInv /\ UNCHANGED vars => LineInv'
      BY DEF vars, flags, LineInv, Busy
    <2> QED
      BY <2>1, GuiKeepsLine, ThreadKeepsLine, WireKeepsLine DEF Next
  <1> QED
    BY <1>1, <1>2, PTL DEF Spec

(* While a transfer runs, terminal input is refused and none is left over that *)
(* the loop could mix into the packets.                                        *)
THEOREM TransferKeepsLine == Spec => []TransferOwnsLine
  <1>1. LineInv => TransferOwnsLine
    BY IdleIsIdle DEF LineInv, Busy, TransferOwnsLine
  <1> QED
    BY <1>1, LineIsInvariant, PTL
-----------------------------------------------------------------------------
(* Block numbers                                                               *)

(* A multiple of M is zero or at least M away from it.                         *)
LEMMA AtLeastOnce ==
    ASSUME NEW M \in Nat, NEW q \in Int
    PROVE  (q >= 1 => M * q >= M) /\ (q <= -1 => M * q <= -M)
  <1>1. ASSUME q >= 1 PROVE M * q >= M
    <2>1. M * q = M * (q - 1) + M
      OBVIOUS
    <2>2. M * (q - 1) >= 0
      BY <1>1
    <2> QED
      BY <2>1, <2>2
  <1>2. ASSUME q <= -1 PROVE M * q <= -M
    <2>1. M * q = -(M * (-1 - q)) - M
      OBVIOUS
    <2>2. M * (-1 - q) >= 0
      BY <1>2
    <2> QED
      BY <2>1, <2>2
  <1> QED
    BY <1>1, <1>2

(* Numbers less than M apart are told apart modulo M.                          *)
LEMMA ModInjective ==
    ASSUME NEW M \in Nat \ {0}, NEW a \in Int, NEW b \in Int, a <= b, b < a + M, a % M = b % M
    PROVE  a = b
  <1> DEFINE q == (b \div M) - (a \div M)
  <1>1. a = M * (a \div M) + (a % M) /\ b = M * (b \div M) + (b % M)
    OBVIOUS
  <1>2. q \in Int /\ a \div M \in Int /\ b \div M \in Int
    OBVIOUS
  <1>3. b - a = M * q
    BY <1>1, <1>2
  <1> HIDE DEF q
  <1>4. q = 0
    BY <1>2, <1>3, AtLeastOnce
  <1> QED
    BY <1>3, <1>4

(* What is left after taking whole multiples of M away is the remainder.       *)
LEMMA ModUnique ==
    ASSUME NEW M \in Nat \ {0}, NEW r \in 0..(M - 1), NEW q \in Int, NEW a \in Int, a = M * q + r
    PROVE  a % M = r
  <1> DEFINE p == q - (a \div M)
  <1>1. a = M * (a \div M) + (a % M) /\ a % M \in 0..(M - 1) /\ a \div M \in Int
    OBVIOUS
  <1>2. M * p = (a % M) - r /\ p \in Int
    BY <1>1
  <1> HIDE DEF p
  <1>3. p = 0
    BY <1>1, <1>2, AtLeastOnce
  <1> QED
    BY <1>1, <1>2, <1>3

(* The successor of a block number.                                            *)
LEMMA ModStep ==
    ASSUME NEW M \in Nat \ {0, 1}, NEW a \in Nat
    PROVE  ((a % M) + 1) % M = (a + 1) % M
  <1>1. a = M * (a \div M) + (a % M) /\ a % M \in 0..(M - 1) /\ a \div M \in Int
    OBVIOUS
  <1>2. CASE (a % M) + 1 < M
    <2>1. (a + 1) % M = (a % M) + 1
      BY <1>1, <1>2, ModUnique, SMTT(40)
    <2> QED
      BY <2>1, <1>1, <1>2
  <1>3. CASE (a % M) + 1 = M
    <2> DEFINE q == (a \div M) + 1
    <2>1. \A x \in Int : M * (x + 1) = M * x + M
      OBVIOUS
    <2>2. M * q = M * (a \div M) + M /\ q \in Int
      BY <1>1, <2>1
    <2> HIDE DEF q
    <2>3. a + 1 = M * q + 0
      BY <1>1, <1>3, <2>2
    <2>4. (a + 1) % M = 0
      BY <2>2, <2>3, ModUnique, a + 1 \in Int, 0 \in 0..(M - 1)
    <2>5. M % M = 0
      BY ModUnique, M = M * 1 + 0
    <2> QED
      BY <2>4, <2>5, <1>3
  <1> QED
    BY <1>1, <1>2, <1>3

(* The number before that of the next block is that of the last one.           *)
LEMMA ModPrevious ==
    ASSUME NEW M \in Nat \ {0, 1}, NEW a \in Nat
    PROVE  (((a + 1) % M) - 1) % M = a % M
  <1>1. a % M \in 0..(M - 1)
    OBVIOUS
  <1>2. ((a % M) + 1) % M = (a + 1) % M
    BY ModStep
  <1>3. CASE (a % M) + 1 < M
    BY <1>1, <1>2, <1>3
  <1>4. CASE (a % M) + 1 = M
    <2>1. M % M = 0
      BY ModUnique, M = M * 1 + 0
    <2>2. (0 - 1) = M * (-1) + (M - 1)
      OBVIOUS
    <2>3. (0 - 1) % M = M - 1
      BY <2>2, ModUnique
    <2> QED
      BY <1>2, <2>1, <2>3, <1>4, <1>1
  <1> QED
    BY <1>1, <1>3, <1>4

-----------------------------------------------------------------------------
(* Types, and what each call of the engine does                                *)

Blocks == UNION {ToSet(f) : f \in Files}
Numbers == 0..(BlockModulus - 1)
Item == [number : Numbers, block : Blocks] \cup {Key, Byte("EOT"), Byte("CAN")}
UpBytes == {"C", "ACK", "NAK", "CAN"}

States == ActiveStates \cup DoneStates \cup {"Idle"}
Attempts == 0..(MaxRetries + 1)
Items == Seq(Item)
Texts == Seq(Blocks)
Engine ==
    [state : States, file : Texts, pos : Nat, number : Numbers, acked : Nat,
     attempts : Attempts, cancels : Nat, out : Items]

(* All blocks were acknowledged, or are taken to be.                           *)
Ending(e) == e.state \in {"WaitingForEotAck", "Finished"}

(* The counters of the engine agree: the block it waits for is the one after   *)
(* the acknowledged ones, and its number is its place in the file.             *)
EngineOK(e) ==
    /\ e \in Engine
    /\ IsActive(e) => e.attempts <= MaxRetries
    /\ e.acked <= e.pos /\ e.pos <= Len(e.file)
    /\ e.state = "WaitingForReceiver" => e.pos = 0 /\ e.acked = 0 /\ e.number = 1
    /\ e.state = "WaitingForBlockAck" =>
           /\ e.pos >= 1 /\ e.acked = e.pos - 1
           /\ e.number = e.pos % BlockModulus
    /\ Ending(e) => e.pos = Len(e.file) /\ e.acked = e.pos

(* What a call may do with the transfer: nothing, end it without success, send *)
(* the next block, the current one again or the end, or end it with success.   *)
Same(e, r) == r.state = e.state /\ r.pos = e.pos /\ r.acked = e.acked /\ r.out = e.out
Stopped(r) == r.state \in {"Failed", "Cancelled"}
BlockAt(e) == Packet(e.pos % BlockModulus, e.file[e.pos])
SendsNext(e, r) ==
    /\ r.state = "WaitingForBlockAck"
    /\ r.pos = e.pos + 1 /\ r.acked = e.pos
    /\ r.out = Append(e.out, BlockAt(r))
SendsEot(e, r) ==
    /\ r.state = "WaitingForEotAck"
    /\ r.pos = e.pos /\ r.acked = e.pos
    /\ r.out = Append(e.out, Byte("EOT"))
Repeats(e, r) ==
    /\ e.state = "WaitingForBlockAck" /\ r.state = e.state
    /\ r.pos = e.pos /\ r.acked = e.acked
    /\ r.out = Append(e.out, BlockAt(e))
Finishes(e, r) ==
    /\ e.state = "WaitingForEotAck" /\ r.state = "Finished"
    /\ r.pos = e.pos /\ r.acked = e.acked /\ r.out = e.out

LEMMA ItemsAreTyped ==
    /\ Key \in Item /\ Byte("EOT") \in Item /\ Byte("CAN") \in Item
    /\ ~IsPacket(Key) /\ ~IsPacket(Byte("EOT")) /\ ~IsPacket(Byte("CAN"))
    /\ Key # Byte("EOT") /\ Key # Byte("CAN") /\ Byte("EOT") # Byte("CAN")
    /\ \A x \in Item : IsPacket(x) => x.number \in Numbers /\ x.block \in Blocks
    /\ \A x \in Item : IsPacket(x) \/ x \in {Key, Byte("EOT"), Byte("CAN")}
  BY XmodemAssumption DEF Key, Byte, Item, Numbers, IsPacket

(* A packet of the file is a packet, typed, and no other item of the line.     *)
LEMMA PacketsAreTyped ==
    ASSUME NEW f \in Seq(Blocks), NEW k \in 1..Len(f)
    PROVE  LET p == Packet(k % BlockModulus, f[k]) IN
           /\ p \in Item /\ IsPacket(p)
           /\ p.number = k % BlockModulus /\ p.block = f[k]
           /\ p # Key /\ p # Byte("EOT") /\ p # Byte("CAN")
  <1>1. k % BlockModulus \in 0..(BlockModulus - 1)
    BY XmodemAssumption
  <1>2. f[k] \in Blocks
    BY ElementOfSeq
  <1> QED
    BY <1>1, <1>2, XmodemAssumption DEF Packet, Item, Numbers, IsPacket, Key, Byte

LEMMA StatesAreTyped ==
    {"WaitingForReceiver", "WaitingForBlockAck", "WaitingForEotAck", "Finished", "Failed",
     "Cancelled", "Idle"} = States
  BY DEF States, ActiveStates, DoneStates

(* Setting fields of the engine leaves the others as they are, see each lemma.  *)
LEMMA SetState ==
    ASSUME NEW e \in Engine, NEW x \in States
    PROVE  LET r == [e EXCEPT !.state = x] IN
           /\ r \in Engine
           /\ r.state = x /\ r.file = e.file /\ r.pos = e.pos /\ r.number = e.number
           /\ r.acked = e.acked /\ r.attempts = e.attempts /\ r.cancels = e.cancels /\ r.out = e.out
  BY DEF Engine

LEMMA SetFile ==
    ASSUME NEW e \in Engine, NEW x \in Texts
    PROVE  LET r == [e EXCEPT !.file = x] IN
           /\ r \in Engine
           /\ r.state = e.state /\ r.file = x /\ r.pos = e.pos /\ r.number = e.number
           /\ r.acked = e.acked /\ r.attempts = e.attempts /\ r.cancels = e.cancels /\ r.out = e.out
  BY DEF Engine

LEMMA SetPos ==
    ASSUME NEW e \in Engine, NEW x \in Nat
    PROVE  LET r == [e EXCEPT !.pos = x] IN
           /\ r \in Engine
           /\ r.state = e.state /\ r.file = e.file /\ r.pos = x /\ r.number = e.number
           /\ r.acked = e.acked /\ r.attempts = e.attempts /\ r.cancels = e.cancels /\ r.out = e.out
  BY DEF Engine

LEMMA SetNumber ==
    ASSUME NEW e \in Engine, NEW x \in Numbers
    PROVE  LET r == [e EXCEPT !.number = x] IN
           /\ r \in Engine
           /\ r.state = e.state /\ r.file = e.file /\ r.pos = e.pos /\ r.number = x
           /\ r.acked = e.acked /\ r.attempts = e.attempts /\ r.cancels = e.cancels /\ r.out = e.out
  BY DEF Engine

LEMMA SetAcked ==
    ASSUME NEW e \in Engine, NEW x \in Nat
    PROVE  LET r == [e EXCEPT !.acked = x] IN
           /\ r \in Engine
           /\ r.state = e.state /\ r.file = e.file /\ r.pos = e.pos /\ r.number = e.number
           /\ r.acked = x /\ r.attempts = e.attempts /\ r.cancels = e.cancels /\ r.out = e.out
  BY DEF Engine

LEMMA SetAttempts ==
    ASSUME NEW e \in Engine, NEW x \in Attempts
    PROVE  LET r == [e EXCEPT !.attempts = x] IN
           /\ r \in Engine
           /\ r.state = e.state /\ r.file = e.file /\ r.pos = e.pos /\ r.number = e.number
           /\ r.acked = e.acked /\ r.attempts = x /\ r.cancels = e.cancels /\ r.out = e.out
  BY DEF Engine

LEMMA SetCancels ==
    ASSUME NEW e \in Engine, NEW x \in Nat
    PROVE  LET r == [e EXCEPT !.cancels = x] IN
           /\ r \in Engine
           /\ r.state = e.state /\ r.file = e.file /\ r.pos = e.pos /\ r.number = e.number
           /\ r.acked = e.acked /\ r.attempts = e.attempts /\ r.cancels = x /\ r.out = e.out
  BY DEF Engine

LEMMA SetOut ==
    ASSUME NEW e \in Engine, NEW x \in Items
    PROVE  LET r == [e EXCEPT !.out = x] IN
           /\ r \in Engine
           /\ r.state = e.state /\ r.file = e.file /\ r.pos = e.pos /\ r.number = e.number
           /\ r.acked = e.acked /\ r.attempts = e.attempts /\ r.cancels = e.cancels /\ r.out = x
  BY DEF Engine

LEMMA EngineTypes ==
    ASSUME NEW e \in Engine
    PROVE  /\ e.state \in States /\ e.file \in Texts /\ e.pos \in Nat /\ e.number \in Numbers
           /\ e.acked \in Nat /\ e.attempts \in Attempts /\ e.cancels \in Nat /\ e.out \in Items
           /\ Len(e.file) \in Nat /\ e.attempts \in Nat
  <1>1. /\ e.state \in States /\ e.file \in Texts /\ e.pos \in Nat /\ e.number \in Numbers
        /\ e.acked \in Nat /\ e.attempts \in Attempts /\ e.cancels \in Nat /\ e.out \in Items
    BY DEF Engine
  <1> QED
    BY <1>1, XmodemAssumption DEF Texts, Attempts

(* Whatever is sent, the output stays a sequence of items.                     *)
LEMMA OutputIsTyped ==
    ASSUME NEW o \in Items
    PROVE  /\ \A x \in Item : Append(o, x) \in Items
           /\ o \o <<Byte("CAN"), Byte("CAN")>> \in Items
  <1>1. <<Byte("CAN"), Byte("CAN")>> \in Seq(Item)
    BY ItemsAreTyped
  <1> QED
    BY <1>1, AppendProperties, ConcatProperties DEF Items

LEMMA StartTypes ==
    /\ IdleEngine \in Engine
    /\ \A f \in Texts : LET r == StartEngine(f) IN
           /\ r \in Engine
           /\ r.state = "WaitingForReceiver" /\ r.file = f /\ r.pos = 0 /\ r.number = 1
           /\ r.acked = 0 /\ r.attempts = 0 /\ r.out = <<>>
  <1>1. IdleEngine \in Engine
    BY XmodemAssumption, StatesAreTyped
    DEF Engine, IdleEngine, Texts, Items, Numbers, Attempts
  <1>2. /\ IdleEngine.pos = 0 /\ IdleEngine.number = 1 /\ IdleEngine.acked = 0
        /\ IdleEngine.attempts = 0 /\ IdleEngine.out = <<>>
    BY DEF IdleEngine
  <1>3. ASSUME NEW f \in Texts
        PROVE  LET r == StartEngine(f) IN
               /\ r \in Engine
               /\ r.state = "WaitingForReceiver" /\ r.file = f /\ r.pos = 0 /\ r.number = 1
               /\ r.acked = 0 /\ r.attempts = 0 /\ r.out = <<>>
    <2> DEFINE g == [IdleEngine EXCEPT !.state = "WaitingForReceiver"]
               h == [g EXCEPT !.file = f]
    <2>1. StartEngine(f) = h
      BY DEF StartEngine
    <2>2. /\ g \in Engine /\ g.state = "WaitingForReceiver" /\ g.pos = 0 /\ g.number = 1
          /\ g.acked = 0 /\ g.attempts = 0 /\ g.out = <<>>
      BY <1>1, <1>2, StatesAreTyped, SetState
    <2> HIDE DEF g
    <2>3. /\ h \in Engine /\ h.state = "WaitingForReceiver" /\ h.file = f /\ h.pos = 0
          /\ h.number = 1 /\ h.acked = 0 /\ h.attempts = 0 /\ h.out = <<>>
      BY <2>2, SetFile
    <2> QED
      BY <2>1, <2>3
  <1> QED
    BY <1>1, <1>3

LEMMA StartIsOK == EngineOK(IdleEngine) /\ \A f \in Texts : EngineOK(StartEngine(f))
  <1>1. EngineOK(IdleEngine)
    BY StartTypes, XmodemAssumption DEF EngineOK, IdleEngine, IsActive, Ending, ActiveStates
  <1>2. ASSUME NEW f \in Texts PROVE EngineOK(StartEngine(f))
    <2>1. Len(f) \in Nat
      BY DEF Texts
    <2> QED
      BY <2>1, StartTypes, XmodemAssumption DEF EngineOK, IsActive, Ending, ActiveStates
  <1> QED
    BY <1>1, <1>2

LEMMA FailDoes ==
    ASSUME NEW e \in Engine, e.acked <= e.pos, e.pos <= Len(e.file)
    PROVE  EngineOK(Fail(e)) /\ Stopped(Fail(e)) /\ Fail(e).file = e.file
  <1> DEFINE o == e.out \o <<Byte("CAN"), Byte("CAN")>>
             f == [e EXCEPT !.state = "Failed"]
             g == [f EXCEPT !.out = o]
  <1>1. Fail(e) = g
    BY DEF Fail
  <1>2. o \in Items
    BY EngineTypes, OutputIsTyped
  <1>3. "Failed" \in States
    BY StatesAreTyped
  <1> HIDE DEF o
  <1>4. f \in Engine /\ f.state = "Failed" /\ f.file = e.file /\ f.pos = e.pos /\ f.acked = e.acked
    BY <1>3, SetState
  <1> HIDE DEF f
  <1>5. g \in Engine /\ g.state = "Failed" /\ g.file = e.file /\ g.pos = e.pos /\ g.acked = e.acked
    BY <1>2, <1>4, SetOut
  <1> HIDE DEF g
  <1> QED
    BY <1>1, <1>5 DEF EngineOK, Stopped, IsActive, Ending, ActiveStates

(* One attempt too many.                                                       *)
LEMMA GivesUp ==
    ASSUME NEW e \in Engine, e.attempts <= MaxRetries, e.acked <= e.pos, e.pos <= Len(e.file)
    PROVE  LET r == Fail([e EXCEPT !.attempts = @ + 1]) IN
           EngineOK(r) /\ Stopped(r) /\ r.file = e.file
  <1> DEFINE f == [e EXCEPT !.attempts = e.attempts + 1]
  <1>1. e.attempts + 1 \in Attempts
    BY EngineTypes, XmodemAssumption DEF Attempts
  <1>2. f \in Engine /\ f.file = e.file /\ f.pos = e.pos /\ f.acked = e.acked
    BY <1>1, SetAttempts
  <1> HIDE DEF f
  <1>3. EngineOK(Fail(f)) /\ Stopped(Fail(f)) /\ Fail(f).file = f.file
    BY <1>2, FailDoes
  <1> QED
    BY <1>2, <1>3 DEF f

(* Sending the end, or giving up after too many attempts.                      *)
LEMMA SendEotDoes ==
    ASSUME NEW e \in Engine, e.attempts <= MaxRetries, e.pos = Len(e.file), e.acked = e.pos
    PROVE  LET r == SendEot(e) IN
           EngineOK(r) /\ r.file = e.file /\ (Stopped(r) \/ SendsEot(e, r))
  <1>0. Len(e.file) \in Nat
    BY EngineTypes
  <1>1. CASE e.state = "WaitingForEotAck" /\ e.attempts >= MaxRetries
    <2>1. SendEot(e) = Fail([e EXCEPT !.attempts = @ + 1])
      BY <1>1 DEF SendEot
    <2> QED
      BY <1>0, <2>1, GivesUp
  <1>2. CASE ~(e.state = "WaitingForEotAck" /\ e.attempts >= MaxRetries)
    <2> DEFINE n == IF e.state = "WaitingForEotAck" THEN e.attempts + 1 ELSE 0
               o == Append(e.out, Byte("EOT"))
               f == [e EXCEPT !.state = "WaitingForEotAck"]
               g == [f EXCEPT !.attempts = n]
               h == [g EXCEPT !.out = o]
    <2>1. n \in Attempts /\ n <= MaxRetries
      BY <1>2, EngineTypes, XmodemAssumption DEF Attempts
    <2>2. o \in Items
      BY EngineTypes, ItemsAreTyped, OutputIsTyped
    <2>3. SendEot(e) = h
      BY <1>2 DEF SendEot
    <2>4. "WaitingForEotAck" \in States
      BY StatesAreTyped
    <2> HIDE DEF n, o
    <2>5. /\ f \in Engine /\ f.state = "WaitingForEotAck" /\ f.file = e.file /\ f.pos = e.pos
          /\ f.acked = e.acked
      BY <2>4, SetState
    <2> HIDE DEF f
    <2>6. /\ g \in Engine /\ g.state = "WaitingForEotAck" /\ g.file = e.file /\ g.pos = e.pos
          /\ g.acked = e.acked /\ g.attempts = n
      BY <2>1, <2>5, SetAttempts
    <2> HIDE DEF g
    <2>7. /\ h \in Engine /\ h.state = "WaitingForEotAck" /\ h.file = e.file /\ h.pos = e.pos
          /\ h.acked = e.acked /\ h.attempts = n /\ h.out = o
      BY <2>2, <2>6, SetOut
    <2> HIDE DEF h
    <2> QED
      BY <1>0, <2>1, <2>3, <2>7 DEF EngineOK, SendsEot, Ending, o
  <1> QED
    BY <1>1, <1>2

(* Sending the next block, the end after the last one, or giving up on a block *)
(* that cannot be read.                                                        *)
LEMMA SendNextBlockDoes ==
    ASSUME NEW e \in Engine, e.attempts <= MaxRetries, e.acked = e.pos, e.pos <= Len(e.file),
           e.number = (e.pos + 1) % BlockModulus
    PROVE  LET r == SendNextBlock(e) IN
           EngineOK(r) /\ r.file = e.file /\ (Stopped(r) \/ SendsEot(e, r) \/ SendsNext(e, r))
  <1>0. Len(e.file) \in Nat /\ e.pos \in Nat
    BY EngineTypes
  <1>1. CASE e.pos = Len(e.file)
    <2>1. SendNextBlock(e) = SendEot(e)
      BY <1>1 DEF SendNextBlock
    <2> QED
      BY <1>1, <2>1, SendEotDoes
  <1>2. CASE e.pos # Len(e.file) /\ e.file[e.pos + 1] = Unreadable
    <2>1. SendNextBlock(e) = Fail(e)
      BY <1>2 DEF SendNextBlock
    <2> QED
      BY <1>0, <2>1, FailDoes
  <1>3. CASE e.pos # Len(e.file) /\ e.file[e.pos + 1] # Unreadable
    <2> DEFINE k == e.pos + 1
               q == Packet(k % BlockModulus, e.file[k])
               o == Append(e.out, q)
               f == [e EXCEPT !.pos = k]
               g == [f EXCEPT !.state = "WaitingForBlockAck"]
               h == [g EXCEPT !.out = o]
    <2>1. k \in 1..Len(e.file) /\ k \in Nat /\ e.file \in Seq(Blocks)
      BY <1>0, <1>3, EngineTypes DEF Texts
    <2>2. q \in Item
      BY <2>1, PacketsAreTyped
    <2>3. o \in Items
      BY <2>2, EngineTypes, OutputIsTyped
    <2>4. "WaitingForBlockAck" \in States
      BY StatesAreTyped
    <2>5. SendNextBlock(e) = [g EXCEPT !.out = Append(@, CurrentPacket(g))]
      BY <1>3 DEF SendNextBlock
    <2>6. /\ f \in Engine /\ f.pos = k /\ f.file = e.file /\ f.number = e.number
          /\ f.acked = e.acked /\ f.attempts = e.attempts /\ f.out = e.out
      BY <2>1, SetPos
    <2> HIDE DEF f
    <2>7. /\ g \in Engine /\ g.pos = k /\ g.file = e.file /\ g.number = e.number
          /\ g.acked = e.acked /\ g.attempts = e.attempts /\ g.out = e.out
          /\ g.state = "WaitingForBlockAck"
      BY <2>4, <2>6, SetState
    <2>8. SendNextBlock(e) = h
      BY <2>5, <2>7 DEF CurrentPacket
    <2> HIDE DEF g, o
    <2>9. /\ h \in Engine /\ h.pos = k /\ h.file = e.file /\ h.number = e.number
          /\ h.acked = e.acked /\ h.attempts = e.attempts /\ h.out = o
          /\ h.state = "WaitingForBlockAck"
      BY <2>3, <2>7, SetOut
    <2> HIDE DEF h
    <2>10. SendsNext(e, h)
      BY <2>9 DEF SendsNext, BlockAt, o
    <2> QED
      BY <1>0, <2>1, <2>8, <2>9, <2>10 DEF EngineOK, IsActive, Ending, ActiveStates
  <1> QED
    BY <1>1, <1>2, <1>3

(* Sending the current block again, or giving up after too many attempts.      *)
LEMMA RetransmitDoes ==
    ASSUME NEW e, EngineOK(e), e.state = "WaitingForBlockAck"
    PROVE  LET r == Retransmit(e) IN
           EngineOK(r) /\ r.file = e.file /\ (Stopped(r) \/ Repeats(e, r))
  <1>0. /\ e \in Engine /\ e.attempts <= MaxRetries /\ e.acked <= e.pos /\ e.pos <= Len(e.file)
        /\ e.pos >= 1 /\ e.acked = e.pos - 1 /\ e.number = e.pos % BlockModulus
    BY DEF EngineOK, IsActive, ActiveStates
  <1>1. CASE e.attempts >= MaxRetries
    <2>1. Retransmit(e) = Fail([e EXCEPT !.attempts = @ + 1])
      BY <1>1 DEF Retransmit
    <2> QED
      BY <1>0, <2>1, GivesUp
  <1>2. CASE ~(e.attempts >= MaxRetries)
    <2> DEFINE q == BlockAt(e)
               o == Append(e.out, q)
               n == e.attempts + 1
               f == [e EXCEPT !.attempts = n]
               h == [f EXCEPT !.out = o]
    <2>1. e.pos \in 1..Len(e.file) /\ e.file \in Seq(Blocks)
      BY <1>0, EngineTypes DEF Texts
    <2>2. q \in Item
      BY <2>1, PacketsAreTyped DEF BlockAt
    <2>3. o \in Items
      BY <1>0, <2>2, EngineTypes, OutputIsTyped
    <2>4. n \in Attempts /\ n <= MaxRetries
      BY <1>0, <1>2, EngineTypes, XmodemAssumption DEF Attempts
    <2>5. CurrentPacket(e) = q
      BY <1>0 DEF CurrentPacket, BlockAt
    <2>6. Retransmit(e) = h
      BY <1>2, <2>5 DEF Retransmit
    <2> HIDE DEF n, o, q
    <2>7. /\ f \in Engine /\ f.state = e.state /\ f.pos = e.pos /\ f.file = e.file
          /\ f.number = e.number /\ f.acked = e.acked /\ f.attempts = n
      BY <1>0, <2>4, SetAttempts
    <2> HIDE DEF f
    <2>8. /\ h \in Engine /\ h.state = e.state /\ h.pos = e.pos /\ h.file = e.file
          /\ h.number = e.number /\ h.acked = e.acked /\ h.attempts = n /\ h.out = o
      BY <2>3, <2>7, SetOut
    <2> HIDE DEF h
    <2> QED
      BY <1>0, <2>4, <2>6, <2>8 DEF EngineOK, Repeats, IsActive, Ending, ActiveStates, o, q
  <1>3. e.attempts \in Nat
    BY <1>0, EngineTypes
  <1> QED
    BY <1>1, <1>2

(* One byte of the receiver, see the definitions of what a call may do.        *)
LEMMA ProcessDoes ==
    ASSUME NEW e, EngineOK(e), IsActive(e), NEW byte \in UpBytes
    PROVE  LET r == ProcessIncoming(e, byte) IN
           /\ EngineOK(r) /\ r.file = e.file
           /\ \/ Same(e, r)
              \/ Stopped(r)
              \/ /\ SendsNext(e, r) \/ SendsEot(e, r)
                 /\ e.state = "WaitingForReceiver" \/ (e.state = "WaitingForBlockAck" /\ byte = "ACK")
              \/ Repeats(e, r) /\ byte = "NAK"
              \/ SendsEot(e, r) /\ e.state = "WaitingForEotAck"
              \/ Finishes(e, r) /\ byte = "ACK"
  <1> DEFINE c == IF byte = "CAN" THEN e.cancels + 1 ELSE 0
             heard == [e EXCEPT !.cancels = c]
             r == ProcessIncoming(e, byte)
  <1>0. /\ e \in Engine /\ e.attempts <= MaxRetries /\ e.acked <= e.pos /\ e.pos <= Len(e.file)
        /\ Len(e.file) \in Nat /\ e.pos \in Nat /\ e.acked \in Nat /\ c \in Nat
    BY EngineTypes DEF EngineOK
  <1>1. heard = [e EXCEPT !.cancels = IF byte = "CAN" THEN @ + 1 ELSE 0]
    OBVIOUS
  <1> HIDE DEF c
  <1>2. /\ heard \in Engine /\ heard.state = e.state /\ heard.pos = e.pos /\ heard.file = e.file
        /\ heard.number = e.number /\ heard.acked = e.acked /\ heard.attempts = e.attempts
        /\ heard.out = e.out /\ heard.cancels = c
    BY <1>0, SetCancels
  <1>3. EngineOK(heard) /\ IsActive(heard)
    BY <1>2 DEF EngineOK, IsActive, Ending
  <1>4. CASE byte = "CAN"
    <2>1. r = IF c >= 2 THEN [heard EXCEPT !.state = "Cancelled"] ELSE heard
      BY <1>1, <1>2, <1>4 DEF ProcessIncoming
    <2> DEFINE f == [heard EXCEPT !.state = "Cancelled"]
    <2>2. /\ f \in Engine /\ f.state = "Cancelled" /\ f.pos = e.pos /\ f.file = e.file
          /\ f.acked = e.acked
      BY <1>2, StatesAreTyped, SetState
    <2> HIDE DEF f
    <2>3. EngineOK(f) /\ Stopped(f)
      BY <1>0, <2>2 DEF EngineOK, Stopped, IsActive, Ending, ActiveStates
    <2>4. Same(e, heard)
      BY <1>2 DEF Same
    <2> HIDE DEF heard, r
    <2> QED
      BY <1>2, <1>3, <2>1, <2>2, <2>3, <2>4 DEF f, r
  <1>5. CASE byte # "CAN" /\ e.state = "WaitingForReceiver"
    <2>1. r = IF byte \in {"C", "NAK"} THEN SendNextBlock([heard EXCEPT !.attempts = 0]) ELSE heard
      BY <1>1, <1>5 DEF ProcessIncoming
    <2> DEFINE f == [heard EXCEPT !.attempts = 0]
    <2>2. /\ f \in Engine /\ f.state = e.state /\ f.pos = e.pos /\ f.file = e.file
          /\ f.number = e.number /\ f.acked = e.acked /\ f.attempts = 0 /\ f.out = e.out
      <3>1. 0 \in Attempts
        BY XmodemAssumption DEF Attempts
      <3> QED
        BY <1>2, <3>1, SetAttempts
    <2> HIDE DEF f
    <2>3. e.pos = 0 /\ e.acked = 0 /\ e.number = 1 /\ (0 + 1) % BlockModulus = 1
      <3>1. (0 + 1) % BlockModulus = 1
        BY XmodemAssumption
      <3> QED
        BY <1>5, <3>1 DEF EngineOK
    <2> DEFINE g == SendNextBlock(f)
    <2>4. /\ EngineOK(g) /\ g.file = f.file
          /\ Stopped(g) \/ SendsEot(f, g) \/ SendsNext(f, g)
      BY <1>0, <2>2, <2>3, SendNextBlockDoes, XmodemAssumption
    <2> HIDE DEF g
    <2>5. Stopped(g) \/ SendsEot(e, g) \/ SendsNext(e, g)
      BY <2>2, <2>4 DEF SendsEot, SendsNext
    <2>6. Same(e, heard)
      BY <1>2 DEF Same
    <2>7. r = g \/ r = heard
      BY <2>1 DEF f, g
    <2> HIDE DEF heard, r
    <2> QED
      BY <1>2, <1>3, <1>5, <2>2, <2>4, <2>5, <2>6, <2>7 DEF r
  <1>6. CASE byte # "CAN" /\ e.state = "WaitingForBlockAck"
    <2>1. r = BlockAnswer(heard, byte)
      BY <1>1, <1>6 DEF ProcessIncoming
    <2>2. CASE byte = "ACK"
      <3> DEFINE k == e.pos
                 m == (e.number + 1) % BlockModulus
                 f == [heard EXCEPT !.acked = k]
                 g == [f EXCEPT !.attempts = 0]
                 h == [g EXCEPT !.number = m]
                 q == SendNextBlock(h)
      <3>1. e.pos >= 1 /\ e.acked = e.pos - 1 /\ e.number = e.pos % BlockModulus
        BY <1>6 DEF EngineOK
      <3>2. m = (e.pos + 1) % BlockModulus /\ m \in Numbers /\ e.acked + 1 = k
        <4>1. m = (e.pos + 1) % BlockModulus
          BY <1>0, <3>1, XmodemAssumption, ModStep
        <4>2. (e.pos + 1) % BlockModulus \in 0..(BlockModulus - 1)
          BY <1>0, XmodemAssumption
        <4> QED
          BY <1>0, <3>1, <4>1, <4>2 DEF Numbers
      <3>3. r = q
        BY <1>2, <2>1, <2>2, <3>2 DEF BlockAnswer, Acknowledged
      <3>4. 0 \in Attempts
        BY XmodemAssumption DEF Attempts
      <3> HIDE DEF m, r, heard
      <3>5. /\ f \in Engine /\ f.pos = e.pos /\ f.file = e.file /\ f.acked = e.pos /\ f.out = e.out
        BY <1>0, <1>2, SetAcked
      <3> HIDE DEF f
      <3>6. /\ g \in Engine /\ g.pos = e.pos /\ g.file = e.file /\ g.acked = e.pos /\ g.out = e.out
            /\ g.attempts = 0
        BY <3>4, <3>5, SetAttempts
      <3> HIDE DEF g
      <3>7. /\ h \in Engine /\ h.pos = e.pos /\ h.file = e.file /\ h.acked = e.pos /\ h.out = e.out
            /\ h.attempts = 0 /\ h.number = m
        BY <3>2, <3>6, SetNumber
      <3> HIDE DEF h
      <3>8. /\ EngineOK(q) /\ q.file = h.file
            /\ Stopped(q) \/ SendsEot(h, q) \/ SendsNext(h, q)
        BY <1>0, <3>2, <3>7, SendNextBlockDoes, XmodemAssumption
      <3> HIDE DEF q
      <3>9. Stopped(q) \/ SendsEot(e, q) \/ SendsNext(e, q)
        BY <3>7, <3>8 DEF SendsEot, SendsNext
      <3> QED
        BY <1>6, <2>2, <3>3, <3>7, <3>8, <3>9 DEF r
    <2>3. CASE byte = "NAK"
      <3> DEFINE q == Retransmit(heard)
      <3>1. r = q
        BY <2>1, <2>3 DEF BlockAnswer
      <3>2. EngineOK(q) /\ q.file = heard.file /\ (Stopped(q) \/ Repeats(heard, q))
        BY <1>2, <1>3, <1>6, RetransmitDoes
      <3> HIDE DEF q, heard
      <3>3. Stopped(q) \/ Repeats(e, q)
        BY <1>2, <3>2 DEF Repeats, BlockAt
      <3> QED
        BY <1>2, <2>3, <3>1, <3>2, <3>3
    <2>4. CASE byte = "C"
      <3>1. r = heard
        BY <2>1, <2>4 DEF BlockAnswer
      <3> HIDE DEF heard
      <3> QED
        BY <1>2, <1>3, <3>1 DEF Same
    <2> QED
      BY <1>6, <2>2, <2>3, <2>4 DEF UpBytes
  <1>7. CASE byte # "CAN" /\ e.state = "WaitingForEotAck"
    <2>1. r = EotAnswer(heard, byte)
      BY <1>1, <1>7 DEF ProcessIncoming
    <2>2. e.pos = Len(e.file) /\ e.acked = e.pos
      BY <1>7 DEF EngineOK, Ending
    <2>3. CASE byte = "ACK"
      <3> DEFINE f == [heard EXCEPT !.state = "Finished"]
      <3>1. r = f
        BY <2>1, <2>3 DEF EotAnswer
      <3>2. /\ f \in Engine /\ f.state = "Finished" /\ f.pos = e.pos /\ f.file = e.file
            /\ f.acked = e.acked /\ f.out = e.out
        BY <1>2, StatesAreTyped, SetState
      <3> HIDE DEF f
      <3>3. EngineOK(f) /\ Finishes(e, f)
        BY <1>0, <1>7, <2>2, <3>2 DEF EngineOK, Finishes, IsActive, Ending, ActiveStates
      <3> QED
        BY <2>3, <3>1, <3>2, <3>3
    <2>4. CASE byte = "NAK"
      <3> DEFINE q == SendEot(heard)
      <3>1. r = q
        BY <2>1, <2>4 DEF EotAnswer
      <3>2. EngineOK(q) /\ q.file = heard.file /\ (Stopped(q) \/ SendsEot(heard, q))
        BY <1>0, <1>2, <2>2, SendEotDoes
      <3> HIDE DEF q, heard
      <3>3. Stopped(q) \/ SendsEot(e, q)
        BY <1>2, <3>2 DEF SendsEot
      <3> QED
        BY <1>2, <1>7, <3>1, <3>2, <3>3
    <2>5. CASE byte = "C"
      <3>1. r = heard
        BY <2>1, <2>5 DEF EotAnswer
      <3> HIDE DEF heard
      <3> QED
        BY <1>2, <1>3, <3>1 DEF Same
    <2> QED
      BY <1>7, <2>3, <2>4, <2>5 DEF UpBytes
  <1> QED
    BY <1>4, <1>5, <1>6, <1>7 DEF IsActive, ActiveStates

(* Ten seconds without an answer.                                              *)
LEMMA TimeoutDoes ==
    ASSUME NEW e, EngineOK(e), IsActive(e)
    PROVE  LET r == CheckTimeout(e) IN
           /\ EngineOK(r) /\ r.file = e.file
           /\ \/ Same(e, r)
              \/ Stopped(r)
              \/ Repeats(e, r)
              \/ SendsEot(e, r) /\ e.state = "WaitingForEotAck"
  <1> DEFINE r == CheckTimeout(e)
  <1>0. /\ e \in Engine /\ e.attempts <= MaxRetries /\ e.acked <= e.pos /\ e.pos <= Len(e.file)
        /\ Len(e.file) \in Nat /\ e.pos \in Nat /\ e.acked \in Nat /\ e.attempts \in Nat
    BY EngineTypes DEF EngineOK
  <1>1. CASE e.state = "WaitingForReceiver" /\ e.attempts >= MaxRetries
    <2>1. r = Fail([e EXCEPT !.attempts = @ + 1])
      BY <1>1 DEF CheckTimeout
    <2> QED
      BY <1>0, <2>1, GivesUp
  <1>2. CASE e.state = "WaitingForReceiver" /\ ~(e.attempts >= MaxRetries)
    <2> DEFINE f == [e EXCEPT !.attempts = e.attempts + 1]
    <2>1. r = f
      BY <1>2 DEF CheckTimeout
    <2>2. e.attempts + 1 \in Attempts /\ e.attempts + 1 <= MaxRetries
      BY <1>0, <1>2, XmodemAssumption DEF Attempts
    <2>3. /\ f \in Engine /\ f.state = e.state /\ f.pos = e.pos /\ f.file = e.file
          /\ f.number = e.number /\ f.acked = e.acked /\ f.attempts = e.attempts + 1
          /\ f.out = e.out
      BY <1>0, <2>2, SetAttempts
    <2> HIDE DEF f
    <2> QED
      BY <2>1, <2>2, <2>3 DEF EngineOK, IsActive, Ending, Same
  <1>3. CASE e.state = "WaitingForBlockAck"
    BY <1>3, RetransmitDoes DEF CheckTimeout
  <1>4. CASE e.state = "WaitingForEotAck"
    <2>1. e.pos = Len(e.file) /\ e.acked = e.pos
      BY <1>4 DEF EngineOK, Ending
    <2> QED
      BY <1>0, <1>4, <2>1, SendEotDoes DEF CheckTimeout
  <1> QED
    BY <1>1, <1>2, <1>3, <1>4 DEF IsActive, ActiveStates

(* The user's cancel.                                                          *)
LEMMA CancelDoes ==
    ASSUME NEW e, EngineOK(e)
    PROVE  LET r == CancelEngine(e) IN
           EngineOK(r) /\ r.file = e.file /\ (r = e \/ Stopped(r))
  <1> DEFINE o == e.out \o <<Byte("CAN"), Byte("CAN")>>
             f == [e EXCEPT !.state = "Cancelled"]
             g == [f EXCEPT !.out = o]
  <1>0. e \in Engine /\ e.acked <= e.pos /\ e.pos <= Len(e.file)
    BY DEF EngineOK
  <1>1. CancelEngine(e) = IF IsActive(e) THEN g ELSE e
    BY DEF CancelEngine
  <1>2. o \in Items
    BY <1>0, EngineTypes, OutputIsTyped
  <1> HIDE DEF o
  <1>3. /\ f \in Engine /\ f.state = "Cancelled" /\ f.file = e.file /\ f.pos = e.pos
        /\ f.acked = e.acked
    BY <1>0, StatesAreTyped, SetState
  <1> HIDE DEF f
  <1>4. /\ g \in Engine /\ g.state = "Cancelled" /\ g.file = e.file /\ g.pos = e.pos
        /\ g.acked = e.acked
    BY <1>2, <1>3, SetOut
  <1> HIDE DEF g
  <1>5. EngineOK(g) /\ Stopped(g)
    BY <1>0, <1>4 DEF EngineOK, Stopped, IsActive, Ending, ActiveStates
  <1> QED
    BY <1>1, <1>4, <1>5
-----------------------------------------------------------------------------
(* The types of all variables                                                  *)

Signals == {"connected", "disconnected", "error", "xmodemFinished", "xmodemError"}
Requests == Files \cup {NoFile}
Keys == Seq({Key})
Taken == [input : Keys, file : Requests, cancel : BOOLEAN]
Receiver == [mode : {"Off", "Asking", "Receiving"}, next : Numbers, got : Texts]

SerialTypes ==
    /\ pc \in {"Idle", "Open", "Top", "Pump", "Read", "Closing", "Closed"}
    /\ connected \in BOOLEAN /\ stop \in BOOLEAN /\ reserved \in BOOLEAN
    /\ cancelRequested \in BOOLEAN /\ online \in BOOLEAN /\ choosing \in BOOLEAN
    /\ dialog \in BOOLEAN
    /\ request \in Requests /\ outgoing \in Keys /\ taken \in Taken
    /\ EngineOK(engine)
    /\ sig \in Seq(Signals)
    /\ down \in Items /\ up \in Seq(UpBytes)
    /\ receiver \in Receiver
    /\ spent \in [DOMAIN Bound -> Nat]

LEMMA FilesAreTexts == Files \subseteq Texts /\ NoFile \notin Files
  BY SerialAssumption DEF Texts, Blocks

(* What the turn of the loop makes of the engine before it sends: nothing, a   *)
(* start, the end, or what the clock does.                                     *)
LEMMA PreparedDoes ==
    ASSUME LineInv, SerialTypes, NEW expired \in BOOLEAN, Expired(engine, expired)
    PROVE  LET r == Prepared(expired) IN
           /\ EngineOK(r)
           /\ \/ r = engine
              \/ Stopped(r)
              \/ taken.file # NoFile /\ r = StartEngine(taken.file)
              \/ /\ expired /\ IsActive(engine) /\ taken.file = NoFile
                 /\ r.file = engine.file
                 /\ \/ Same(engine, r)
                    \/ Repeats(engine, r)
                    \/ SendsEot(engine, r) /\ engine.state = "WaitingForEotAck"
  <1> DEFINE started == IF taken.file = NoFile THEN engine ELSE StartEngine(taken.file)
             going == IF taken.cancel THEN CancelEngine(started) ELSE started
  <1>1. Prepared(expired) = IF expired THEN CheckTimeout(going) ELSE going
    BY DEF Prepared
  <1>2. EngineOK(started)
    <2>1. taken.file \in Requests
      BY DEF SerialTypes, Taken
    <2> QED
      BY <2>1, FilesAreTexts, StartIsOK DEF SerialTypes, Requests
  <1>3. EngineOK(going) /\ (going = started \/ Stopped(going))
    BY <1>2, CancelDoes
  <1> HIDE DEF going
  <1>4. CASE ~expired
    BY <1>1, <1>3, <1>4
  <1>5. CASE expired /\ Stopped(going)
    BY <1>1, <1>3, <1>5 DEF CheckTimeout, Stopped
  <1>6. CASE expired /\ going = started
    <2>1. IsActive(engine) /\ taken.file = NoFile /\ started = engine
      BY <1>6 DEF Expired
    <2>2. EngineOK(engine)
      BY DEF SerialTypes
    <2> DEFINE q == CheckTimeout(engine)
    <2>3. /\ EngineOK(q) /\ q.file = engine.file
          /\ \/ Same(engine, q) \/ Stopped(q) \/ Repeats(engine, q)
             \/ SendsEot(engine, q) /\ engine.state = "WaitingForEotAck"
      BY <2>1, <2>2, TimeoutDoes
    <2>4. Prepared(expired) = q
      BY <1>1, <1>6, <2>1
    <2> HIDE DEF q
    <2> QED
      BY <1>6, <2>1, <2>3, <2>4
  <1> QED
    BY <1>3, <1>4, <1>5, <1>6

(* What was sent leaves the engine.                                            *)
LEMMA FlushDoes ==
    ASSUME NEW e, EngineOK(e)
    PROVE  LET r == [e EXCEPT !.out = <<>>] IN
           /\ EngineOK(r) /\ r.state = e.state /\ r.file = e.file
           /\ r.pos = e.pos /\ r.acked = e.acked /\ r.out = <<>>
  <1> DEFINE r == [e EXCEPT !.out = <<>>]
  <1>1. <<>> \in Items /\ e \in Engine
    BY DEF Items, EngineOK
  <1>2. /\ r \in Engine /\ r.state = e.state /\ r.file = e.file /\ r.pos = e.pos
        /\ r.number = e.number /\ r.acked = e.acked /\ r.attempts = e.attempts /\ r.out = <<>>
    BY <1>1, SetOut
  <1> HIDE DEF r
  <1>3. EngineOK(r)
    BY <1>2 DEF EngineOK, IsActive, Ending
  <1> QED
    BY <1>2, <1>3 DEF r

(* A bound is spent by one.                                                    *)
LEMMA SpendIsTyped ==
    ASSUME spent \in [DOMAIN Bound -> Nat], NEW kind \in DOMAIN Bound, Spend(kind)
    PROVE  /\ spent' \in [DOMAIN Bound -> Nat]
           /\ spent'[kind] = spent[kind] + 1
           /\ \A k \in DOMAIN Bound \ {kind} : spent'[k] = spent[k]
  BY DEF Spend

LEMMA Kinds == DOMAIN Bound = {"keys", "transfers", "noise", "late", "failures"}
  BY DEF Bound

LEMMA GuiKeepsTypes == ASSUME SerialTypes, Gui \/ OnSignal PROVE SerialTypes'
  <1>1. CASE Connect
    <2>1. outgoing' \in Keys /\ request' \in Requests
      BY <1>1 DEF Connect, Requests, Keys
    <2> QED
      BY <1>1, <2>1 DEF Connect, SerialTypes, gui, line
  <1>2. CASE Disconnect
    BY <1>2 DEF Disconnect, SerialTypes, gui, line
  <1>3. CASE Type
    <2>1. Append(outgoing, Key) \in Keys
      BY AppendProperties DEF SerialTypes, Keys
    <2>2. spent' \in [DOMAIN Bound -> Nat]
      BY <1>3, Kinds, SpendIsTyped DEF Type, SerialTypes
    <2> QED
      BY <1>3, <2>1, <2>2 DEF Type, SerialTypes, gui, line
  <1>4. CASE ChooseFile
    <2>1. spent' \in [DOMAIN Bound -> Nat]
      BY <1>4, Kinds, SpendIsTyped DEF ChooseFile, SerialTypes
    <2> QED
      BY <1>4, <2>1 DEF ChooseFile, SerialTypes, flags, line
  <1>5. CASE StartXmodem
    BY <1>5 DEF StartXmodem, SerialTypes, line, Requests
  <1>6. CASE CancelXmodem
    BY <1>6 DEF CancelXmodem, SerialTypes, gui, line
  <1>7. CASE OnSignal
    <2>1. sig' \in Seq(Signals) /\ online' \in BOOLEAN /\ dialog' \in BOOLEAN
      BY <1>7, HeadTailProperties DEF OnSignal, SerialTypes
    <2> QED
      BY <1>7, <2>1 DEF OnSignal, SerialTypes, flags, line
  <1> QED
    BY <1>1, <1>2, <1>3, <1>4, <1>5, <1>6, <1>7 DEF Gui

LEMMA ThreadKeepsTypes == ASSUME LineInv, SerialTypes, Thread PROVE SerialTypes'
  <1>0. \A x \in Signals : Append(sig, x) \in Seq(Signals)
    BY AppendProperties DEF SerialTypes
  <1>1. CASE OpenPort
    <2>1. spent' \in [DOMAIN Bound -> Nat]
      BY <1>1, Kinds, SpendIsTyped DEF OpenPort, SerialTypes
    <2> QED
      BY <1>0, <1>1, <2>1 DEF OpenPort, SerialTypes, gui, line, Signals
  <1>2. CASE Top
    <2>1. <<>> \in Keys /\ NoFile \in Requests
      BY DEF Requests, Keys
    <2>2. outgoing' \in Keys /\ request' \in Requests /\ cancelRequested' \in BOOLEAN
      BY <1>2, <2>1 DEF Top, SerialTypes
    <2>3. taken' \in Taken
      BY <1>2 DEF Top, SerialTypes, Taken
    <2> QED
      BY <1>2, <2>2, <2>3 DEF Top, SerialTypes, gui, line
  <1>3. CASE Pump
    <2>1. PICK expired \in BOOLEAN :
            /\ Expired(engine, expired)
            /\ down' = down \o taken.input \o Prepared(expired).out
            /\ Concluded(Prepared(expired))
            /\ IF expired /\ Answering THEN Spend("late") ELSE UNCHANGED spent
      BY <1>3 DEF Pump
    <2> DEFINE e == Prepared(expired)
    <2>2. EngineOK(e)
      BY <2>1, PreparedDoes
    <2> HIDE DEF e
    <2>3. EngineOK(engine') /\ reserved' \in BOOLEAN /\ sig' \in Seq(Signals)
      BY <1>0, <2>1, <2>2, FlushDoes, StartIsOK DEF Concluded, SerialTypes, Signals, e
    <2>4. down' \in Items
      <3>1. down \in Seq(Item) /\ taken.input \in Seq(Item) /\ e.out \in Seq(Item)
        BY <2>2, EngineTypes, ItemsAreTyped, SeqMonotonic DEF SerialTypes, Taken, Keys, EngineOK, Items
      <3> QED
        BY <2>1, <3>1, ConcatProperties DEF Items, e
    <2>5. spent' \in [DOMAIN Bound -> Nat]
      BY <2>1, Kinds, SpendIsTyped DEF SerialTypes
    <2>6. taken' \in Taken
      BY <1>3 DEF Pump, Nothing, Taken, Keys, Requests
    <2> QED
      BY <1>3, <2>3, <2>4, <2>5, <2>6 DEF Pump, SerialTypes, gui
  <1>4. CASE PumpNoFile
    <2>1. spent' \in [DOMAIN Bound -> Nat]
      BY <1>4, Kinds, SpendIsTyped DEF PumpNoFile, SerialTypes
    <2>2. taken' \in Taken
      BY <1>4 DEF PumpNoFile, Nothing, Taken, Keys, Requests
    <2>3. down' \in Items
      <3>1. down \in Seq(Item) /\ taken.input \in Seq(Item)
        BY ItemsAreTyped, SeqMonotonic DEF SerialTypes, Taken, Keys, Items
      <3> QED
        BY <1>4, <3>1, ConcatProperties DEF PumpNoFile, Items
    <2> QED
      BY <1>0, <1>4, <2>1, <2>2, <2>3 DEF PumpNoFile, SerialTypes, gui, Signals
  <1>5. CASE Read
    <2>1. up' \in Seq(UpBytes)
      BY <1>5, HeadTailProperties DEF Read, SerialTypes
    <2>2. EngineOK(engine')
      <3>1. up # <<>> => Head(up) \in UpBytes
        BY HeadTailProperties DEF SerialTypes
      <3> QED
        BY <1>5, <3>1, ProcessDoes DEF Read, SerialTypes
    <2> QED
      BY <1>5, <2>1, <2>2 DEF Read, SerialTypes, flags, gui
  <1>6. CASE PortFails
    <2>1. spent' \in [DOMAIN Bound -> Nat]
      BY <1>6, Kinds, SpendIsTyped DEF PortFails, SerialTypes
    <2>2. taken' \in Taken
      BY <1>6 DEF PortFails, Nothing, Taken, Keys, Requests
    <2>3. EngineOK(engine')
      BY <1>6, PreparedDoes DEF PortFails, SerialTypes, Expired
    <2> QED
      BY <1>0, <1>6, <2>1, <2>2, <2>3 DEF PortFails, SerialTypes, flags, gui, line, Signals
  <1>7. CASE Closing
    BY <1>0, <1>7, StartIsOK DEF Closing, SerialTypes, gui, line, Signals, Requests
  <1>8. CASE Closed
    BY <1>0, <1>8 DEF Closed, SerialTypes, gui, line, Signals
  <1> QED
    BY <1>1, <1>2, <1>3, <1>4, <1>5, <1>6, <1>7, <1>8 DEF Thread

(* What the device does with a packet keeps its record a record.               *)
LEMMA ReceiverIsTyped ==
    ASSUME receiver \in Receiver
    PROVE  /\ receiver.mode \in {"Off", "Asking", "Receiving"} /\ receiver.next \in Numbers
           /\ receiver.got \in Texts /\ Len(receiver.got) \in Nat
           /\ LET r == [receiver EXCEPT !.mode = "Off"] IN
              /\ r \in Receiver /\ r.mode = "Off"
              /\ r.next = receiver.next /\ r.got = receiver.got
  BY DEF Receiver

LEMMA WireKeepsTypes == ASSUME SerialTypes, Wire PROVE SerialTypes'
  <1>1. CASE ReceiverStarted
    <2>1. receiver' \in Receiver
      <3>1. 1 \in Numbers /\ <<>> \in Texts
        BY XmodemAssumption DEF Numbers, Texts
      <3> QED
        BY <1>1, <3>1 DEF ReceiverStarted, Receiver
    <2> QED
      BY <1>1, <2>1 DEF ReceiverStarted, SerialTypes, flags, gui, line
  <1>2. CASE Ask
    <2>1. up' \in Seq(UpBytes)
      BY <1>2, ConcatProperties DEF Ask, Reply, SerialTypes, UpBytes
    <2> QED
      BY <1>2, <2>1 DEF Ask, SerialTypes, flags, gui
  <1>3. CASE Device
    <2>1. down' \in Items /\ Head(down) \in Item
      BY <1>3, HeadTailProperties DEF Device, SerialTypes, Items
    <2>2. up \o <<"ACK">> \in Seq(UpBytes) /\ up \o <<"CAN", "CAN">> \in Seq(UpBytes)
      BY ConcatProperties DEF SerialTypes, UpBytes
    <2>3. receiver \in Receiver
      BY DEF SerialTypes
    <2>4. up' \in Seq(UpBytes) /\ receiver' \in Receiver
      <3> DEFINE p == Head(down)
      <3>1. CASE UNCHANGED <<up, receiver>>
        BY <2>3, <3>1 DEF SerialTypes
      <3>2. CASE receiver' = [receiver EXCEPT !.mode = "Off"] /\ (Reply(<<"ACK">>) \/ UNCHANGED up)
        BY <2>2, <2>3, <3>2, ReceiverIsTyped DEF Reply, SerialTypes
      <3>3. CASE IsPacket(p) /\ TakePacket(p)
        <4>1. (p.number + 1) % BlockModulus \in Numbers
          BY <2>1, <3>3, ItemsAreTyped, XmodemAssumption DEF Numbers
        <4>2. Append(receiver.got, p.block) \in Texts
          BY <2>1, <2>3, <3>3, ItemsAreTyped, ReceiverIsTyped, AppendProperties DEF Texts
        <4>3. [mode |-> "Receiving", next |-> (p.number + 1) % BlockModulus,
               got |-> Append(receiver.got, p.block)] \in Receiver
          BY <4>1, <4>2 DEF Receiver
        <4> QED
          BY <2>2, <2>3, <3>3, <4>3, ReceiverIsTyped DEF TakePacket, Reply
      <3>4. IsPacket(p) \/ p \in {Key, Byte("EOT"), Byte("CAN")}
        BY <2>1, ItemsAreTyped
      <3> QED
        BY <1>3, <3>1, <3>2, <3>3, <3>4, ItemsAreTyped DEF Device
    <2> QED
      BY <1>3, <2>1, <2>4 DEF Device, SerialTypes, flags, gui
  <1>4. CASE DamagePacket
    <2>1. spent' \in [DOMAIN Bound -> Nat]
      BY <1>4, Kinds, SpendIsTyped DEF DamagePacket, SerialTypes
    <2>2. down' \in Items /\ up' \in Seq(UpBytes)
      BY <1>4, HeadTailProperties, ConcatProperties
      DEF DamagePacket, Reply, SerialTypes, Items, UpBytes
    <2> QED
      BY <1>4, <2>1, <2>2 DEF DamagePacket, SerialTypes, flags, gui
  <1>5. CASE DamageAnswer
    <2>1. spent' \in [DOMAIN Bound -> Nat]
      BY <1>5, Kinds, SpendIsTyped DEF DamageAnswer, SerialTypes
    <2>2. up' \in Seq(UpBytes)
      BY <1>5, HeadTailProperties DEF DamageAnswer, SerialTypes
    <2> QED
      BY <1>5, <2>1, <2>2 DEF DamageAnswer, SerialTypes, flags, gui
  <1> QED
    BY <1>1, <1>2, <1>3, <1>4, <1>5 DEF Wire

-----------------------------------------------------------------------------
(* The dialog and the device                                                   *)

(* The signals that take the dialog down.                                      *)
Ends == {"xmodemFinished", "xmodemError"}

(* The dialog is up from the acceptance of a transfer until its one end signal *)
(* is delivered, so no file is chosen and no device started meanwhile.         *)
DialogInv ==
    /\ dialog => ~choosing
    /\ reserved => dialog
    /\ \A i \in 1..Len(sig) : sig[i] \in Ends => dialog /\ ~reserved
    /\ \A i, j \in 1..Len(sig) : sig[i] \in Ends /\ sig[j] \in Ends => i = j

(* The device expects the block after those it has; until the transfer begins  *)
(* it waits, and nothing of an earlier one is on the line.                     *)
ReceiverInv ==
    /\ receiver.mode = "Asking" => receiver.got = <<>>
    /\ receiver.mode # "Off" => receiver.next = (Len(receiver.got) + 1) % BlockModulus
    /\ request # NoFile \/ taken.file # NoFile => DeviceWaits

(* A signal posted to the end of the queue, one delivered from its front.      *)
LEMMA SignalPosted ==
    ASSUME SerialTypes, DialogInv, NEW x \in Signals, sig' = Append(sig, x),
           dialog' = dialog, choosing' = choosing, reserved' => reserved,
           x \in Ends => reserved /\ ~reserved'
    PROVE  DialogInv'
  <1>1. sig \in Seq(Signals) /\ Len(sig) \in Nat /\ Len(sig') = Len(sig) + 1
    BY AppendProperties DEF SerialTypes
  <1>2. \A i \in 1..Len(sig') : sig'[i] = IF i <= Len(sig) THEN sig[i] ELSE x
    BY <1>1, AppendProperties
  <1>3. x \in Ends => dialog /\ \A i \in 1..Len(sig) : sig[i] \notin Ends
    BY DEF DialogInv
  <1>4. dialog' => ~choosing'
    BY DEF DialogInv
  <1>5. reserved' => dialog'
    BY DEF DialogInv
  <1>6. ASSUME NEW i \in 1..Len(sig'), sig'[i] \in Ends PROVE dialog' /\ ~reserved'
    <2>1. CASE i <= Len(sig)
      <3>1. i \in 1..Len(sig) /\ sig[i] \in Ends
        BY <1>1, <1>2, <1>6, <2>1
      <3> QED
        BY <3>1 DEF DialogInv
    <2>2. CASE ~(i <= Len(sig))
      <3>1. x \in Ends
        BY <1>2, <1>6, <2>2
      <3> QED
        BY <1>3, <3>1
    <2> QED
      BY <2>1, <2>2
  <1>7. ASSUME NEW i \in 1..Len(sig'), NEW j \in 1..Len(sig'), sig'[i] \in Ends, sig'[j] \in Ends
        PROVE  i = j
    <2>1. CASE x \in Ends
      BY <1>1, <1>2, <1>3, <1>7, <2>1
    <2>2. CASE x \notin Ends
      <3>1. /\ i \in 1..Len(sig) /\ sig[i] \in Ends
            /\ j \in 1..Len(sig) /\ sig[j] \in Ends
        BY <1>1, <1>2, <1>7, <2>2
      <3> QED
        BY <3>1 DEF DialogInv
    <2> QED
      BY <2>1, <2>2
  <1> QED
    BY <1>4, <1>5, <1>6, <1>7 DEF DialogInv

LEMMA GuiKeepsDialog == ASSUME LineInv, SerialTypes, DialogInv, Gui \/ OnSignal PROVE DialogInv'
  <1>1. CASE Connect
    <2>1. sig = <<>> /\ sig' = sig /\ reserved' = FALSE /\ dialog' = dialog /\ choosing' = choosing
      BY <1>1 DEF Connect, gui
    <2> QED
      BY <2>1 DEF DialogInv
  <1>2. CASE Disconnect \/ Type \/ CancelXmodem
    BY <1>2 DEF Disconnect, Type, CancelXmodem, DialogInv, gui
  <1>3. CASE ChooseFile
    BY <1>3 DEF ChooseFile, DialogInv, flags
  <1>4. CASE StartXmodem
    BY <1>4 DEF StartXmodem, Rejected, DialogInv
  <1>5. CASE OnSignal
    <2>1. /\ sig \in Seq(Signals) /\ sig # <<>> /\ Len(sig) \in Nat \ {0} /\ Len(sig') = Len(sig) - 1
          /\ Head(sig) = sig[1] /\ \A i \in 1..Len(sig') : sig'[i] = sig[i + 1]
      BY <1>5, HeadTailProperties DEF OnSignal, SerialTypes
    <2>2. reserved' = reserved /\ choosing' = choosing /\ dialog' = (dialog /\ sig[1] \notin Ends)
      BY <1>5, <2>1 DEF OnSignal, closeXmodemProgress, Ends, flags
    <2>3. ASSUME sig[1] \in Ends PROVE \A i \in 1..Len(sig') : sig'[i] \notin Ends
      BY <2>1, <2>3 DEF DialogInv
    <2>4. (dialog' => ~choosing') /\ (reserved' => dialog')
      <3>1. reserved => sig[1] \notin Ends
        BY <2>1 DEF DialogInv
      <3> QED
        BY <2>2, <3>1 DEF DialogInv
    <2>5. ASSUME NEW i \in 1..Len(sig'), sig'[i] \in Ends PROVE dialog' /\ ~reserved'
      <3>1. i + 1 \in 1..Len(sig) /\ sig[i + 1] \in Ends /\ sig[1] \notin Ends
        BY <2>1, <2>3, <2>5
      <3> QED
        BY <2>2, <3>1 DEF DialogInv
    <2>6. ASSUME NEW i \in 1..Len(sig'), NEW j \in 1..Len(sig'),
                 sig'[i] \in Ends, sig'[j] \in Ends
          PROVE  i = j
      <3>1. /\ i + 1 \in 1..Len(sig) /\ sig[i + 1] \in Ends
            /\ j + 1 \in 1..Len(sig) /\ sig[j + 1] \in Ends
        BY <2>1, <2>6
      <3>2. i + 1 = j + 1
        BY <3>1 DEF DialogInv
      <3> QED
        BY <3>2
    <2> QED
      BY <2>4, <2>5, <2>6 DEF DialogInv
  <1> QED
    BY <1>1, <1>2, <1>3, <1>4, <1>5 DEF Gui

LEMMA ThreadKeepsDialog == ASSUME LineInv, SerialTypes, DialogInv, Thread PROVE DialogInv'
  <1>1. CASE Top \/ Read
    BY <1>1 DEF Top, Read, DialogInv, flags, gui
  <1>2. CASE OpenPort
    <2>1. PICK x \in Signals \ Ends : sig' = Append(sig, x)
      BY <1>2 DEF OpenPort, Signals, Ends
    <2> QED
      BY <1>2, <2>1, SignalPosted DEF OpenPort, gui
  <1>3. CASE Pump
    <2>1. PICK expired \in BOOLEAN : Concluded(Prepared(expired))
      BY <1>3 DEF Pump
    <2>2. UNCHANGED <<dialog, choosing>>
      BY <1>3 DEF Pump, gui
    <2>3. CASE IsDone(Prepared(expired))
      <3>1. Busy
        BY <2>3, IdleIsIdle, NothingPrepared DEF Busy
      <3>2. PICK x \in Ends : sig' = Append(sig, x) /\ reserved' = FALSE
        BY <2>1, <2>3 DEF Concluded, Ends
      <3> QED
        BY <2>2, <3>1, <3>2, SignalPosted DEF LineInv, Ends, Signals
    <2>4. CASE ~IsDone(Prepared(expired))
      BY <2>1, <2>2, <2>4 DEF Concluded, DialogInv
    <2> QED
      BY <2>3, <2>4
  <1>4. CASE PumpNoFile
    <2>1. reserved
      BY <1>4 DEF PumpNoFile, LineInv, Busy
    <2> QED
      BY <1>4, <2>1, SignalPosted DEF PumpNoFile, gui, Ends, Signals
  <1>5. CASE PortFails
    BY <1>5, SignalPosted DEF PortFails, flags, gui, Ends, Signals
  <1>6. CASE Closing
    <2>1. CASE engine.state # "Idle" \/ reserved \/ request # NoFile
      <3>1. reserved
        BY <2>1 DEF LineInv, Busy, IdleEngine
      <3> QED
        BY <1>6, <2>1, <3>1, SignalPosted DEF Closing, gui, Ends, Signals
    <2>2. CASE ~(engine.state # "Idle" \/ reserved \/ request # NoFile)
      BY <1>6, <2>2 DEF Closing, gui, DialogInv
    <2> QED
      BY <2>1, <2>2
  <1>7. CASE Closed
    BY <1>7, SignalPosted DEF Closed, gui, Ends, Signals
  <1> QED
    BY <1>1, <1>2, <1>3, <1>4, <1>5, <1>6, <1>7 DEF Thread

LEMMA WireKeepsDialog == ASSUME DialogInv, Wire PROVE DialogInv'
  <1>1. UNCHANGED <<sig, dialog, choosing, reserved>>
    <2>1. CASE ReceiverStarted
      BY <2>1 DEF ReceiverStarted, flags, gui
    <2>2. CASE Ask
      BY <2>2 DEF Ask, flags, gui
    <2>3. CASE Device
      BY <2>3 DEF Device, flags, gui
    <2>4. CASE DamagePacket
      BY <2>4 DEF DamagePacket, flags, gui
    <2>5. CASE DamageAnswer
      BY <2>5 DEF DamageAnswer, flags, gui
    <2> QED
      BY <2>1, <2>2, <2>3, <2>4, <2>5 DEF Wire
  <1> QED
    BY <1>1 DEF DialogInv

-----------------------------------------------------------------------------
(* The device before a transfer                                                *)

(* While the device waits, only keys and requests for the first block are on   *)
(* the line, one element at a time.                                            *)
LEMMA WaitingLine ==
    ASSUME SerialTypes
    PROVE  DeviceWaits <=> /\ receiver.mode = "Asking"
                           /\ \A i \in 1..Len(up) : up[i] = "C"
                           /\ \A i \in 1..Len(down) : down[i] = Key
  <1>1. up \in Seq(UpBytes) /\ down \in Seq(Item)
    BY DEF SerialTypes, Items
  <1>2. ToSet(up) = {up[i] : i \in 1..Len(up)} /\ ToSet(down) = {down[i] : i \in 1..Len(down)}
    BY <1>1 DEF ToSet
  <1> QED
    BY <1>2 DEF DeviceWaits

LEMMA GuiKeepsReceiver ==
    ASSUME LineInv, SerialTypes, ReceiverInv, Gui \/ OnSignal PROVE ReceiverInv'
  <1>1. CASE Connect
    BY <1>1 DEF Connect, ReceiverInv, DeviceWaits, line
  <1>2. CASE StartXmodem
    BY <1>2 DEF StartXmodem, ReceiverInv, DeviceWaits, line
  <1>3. CASE Disconnect \/ Type \/ ChooseFile \/ CancelXmodem \/ OnSignal
    <2>1. UNCHANGED <<receiver, request, taken, down, up>>
      <3>1. CASE Disconnect
        BY <3>1 DEF Disconnect, line
      <3>2. CASE Type
        BY <3>2 DEF Type, line
      <3>3. CASE ChooseFile
        BY <3>3 DEF ChooseFile, flags, line
      <3>4. CASE CancelXmodem
        BY <3>4 DEF CancelXmodem, line
      <3>5. CASE OnSignal
        BY <3>5 DEF OnSignal, flags, line
      <3> QED
        BY <1>3, <3>1, <3>2, <3>3, <3>4, <3>5
    <2> QED
      BY <2>1 DEF ReceiverInv, DeviceWaits
  <1> QED
    BY <1>1, <1>2, <1>3 DEF Gui

LEMMA ThreadKeepsReceiver ==
    ASSUME LineInv, SerialTypes, SerialTypes', ReceiverInv, Thread PROVE ReceiverInv'
  <1>1. receiver' = receiver
    <2>1. CASE OpenPort \/ Top \/ Pump \/ PumpNoFile
      BY <2>1 DEF OpenPort, Top, Pump, PumpNoFile
    <2>2. CASE Read \/ PortFails \/ Closing \/ Closed
      BY <2>2 DEF Read, PortFails, Closing, Closed
    <2> QED
      BY <2>1, <2>2 DEF Thread
  <1>2. ASSUME request' # NoFile \/ taken'.file # NoFile PROVE DeviceWaits'
    <2>1. CASE OpenPort \/ Top \/ Closing \/ Closed \/ PortFails
      <3>1. down' = down /\ up' = up
        BY <2>1 DEF OpenPort, Top, Closing, Closed, PortFails, line
      <3>2. request # NoFile \/ taken.file # NoFile
        <4>1. CASE OpenPort
          BY <1>2, <4>1 DEF OpenPort
        <4>2. CASE Top
          BY <1>2, <4>2 DEF Top
        <4>3. CASE Closing
          BY <1>2, <4>3 DEF Closing
        <4>4. CASE Closed
          BY <1>2, <4>4 DEF Closed
        <4>5. CASE PortFails
          BY <1>2, <4>5 DEF PortFails, flags, Nothing
        <4> QED
          BY <2>1, <4>1, <4>2, <4>3, <4>4, <4>5
      <3> QED
        BY <1>1, <3>1, <3>2 DEF ReceiverInv, DeviceWaits
    <2>2. CASE Read
      <3>1. request # NoFile \/ taken.file # NoFile
        BY <1>2, <2>2 DEF Read, flags
      <3>2. DeviceWaits /\ down' = down /\ (up' = up \/ (up # <<>> /\ up' = Tail(up)))
        BY <2>2, <3>1 DEF ReceiverInv, Read
      <3>3. \A i \in 1..Len(up') : up'[i] = "C"
        <4>1. up \in Seq(UpBytes)
          BY DEF SerialTypes
        <4>2. \A i \in 1..Len(up) : up[i] = "C"
          BY <3>2, WaitingLine
        <4> QED
          BY <3>2, <4>1, <4>2, HeadTailProperties
      <3>4. /\ \A i \in 1..Len(down') : down'[i] = Key
            /\ receiver'.mode = "Asking"
        BY <1>1, <3>2, WaitingLine
      <3>5. /\ ToSet(up') \subseteq {"C"} /\ ToSet(down') \subseteq {Key}
        <4>1. up' \in Seq(UpBytes) /\ down' \in Seq(Item)
          BY DEF SerialTypes, Items
        <4> QED
          BY <3>3, <3>4, <4>1 DEF ToSet
      <3> QED
        BY <3>4, <3>5 DEF DeviceWaits
    <2>3. CASE Pump \/ PumpNoFile
      <3>1. taken'.file = NoFile /\ request' = request
        <4>1. taken' = Nothing /\ request' = request
          <5>1. CASE Pump
            BY <5>1 DEF Pump
          <5>2. CASE PumpNoFile
            BY <5>2 DEF PumpNoFile
          <5> QED
            BY <2>3, <5>1, <5>2
        <4> QED
          BY <4>1, IdleIsIdle
      <3>2. ~Busy
        BY <1>2, <3>1 DEF LineInv
      <3>3. CASE PumpNoFile
        BY <3>2, <3>3 DEF PumpNoFile, Busy
      <3>4. CASE Pump
        <4>1. PICK expired \in BOOLEAN : down' = down \o taken.input \o Prepared(expired).out
          BY <3>4 DEF Pump
        <4>2. Prepared(expired).out = <<>>
          BY <3>2, NothingPrepared DEF Busy, IdleEngine
        <4>3. /\ down \in Seq(Item) /\ taken.input \in Seq({Key})
          BY DEF SerialTypes, Items, Taken, Keys
        <4>4. down' = down \o taken.input
          BY <4>1, <4>2, <4>3, ConcatProperties, SeqMonotonic, ItemsAreTyped
        <4>5. DeviceWaits
          BY <1>2, <3>1 DEF ReceiverInv
        <4>6. \A i \in 1..Len(down) : down[i] = Key
          BY <4>5, WaitingLine
        <4>7. \A i \in 1..Len(down') : down'[i] = Key
          <5>1. \A i \in 1..Len(taken.input) : taken.input[i] = Key
            BY <4>3
          <5> QED
            BY <4>3, <4>4, <4>6, <5>1, ConcatProperties, SeqMonotonic, ItemsAreTyped
        <4>8. ToSet(down') \subseteq {Key}
          <5>1. down' \in Seq(Item)
            BY DEF SerialTypes, Items
          <5> QED
            BY <4>7, <5>1 DEF ToSet
        <4> QED
          BY <1>1, <3>4, <4>5, <4>8 DEF DeviceWaits, Pump
      <3> QED
        BY <2>3, <3>3, <3>4
    <2> QED
      BY <2>1, <2>2, <2>3 DEF Thread
  <1> QED
    BY <1>1, <1>2 DEF ReceiverInv

(* What is true of the elements of a sequence is true of those of its tail.    *)
LEMMA TailOfEqual ==
    ASSUME NEW S, NEW s \in Seq(S), s # <<>>, NEW x, \A i \in 1..Len(s) : s[i] = x
    PROVE  \A i \in 1..Len(Tail(s)) : Tail(s)[i] = x
  <1>1. /\ Len(s) \in Nat /\ Len(Tail(s)) = Len(s) - 1
        /\ \A i \in 1..Len(Tail(s)) : Tail(s)[i] = s[i + 1]
    BY HeadTailProperties
  <1>2. \A i \in 1..Len(Tail(s)) : i + 1 \in 1..Len(s)
    BY <1>1
  <1> QED
    BY <1>1, <1>2

(* Taking an element off the line and adding a request for the first block     *)
(* leaves a device that waits waiting.                                         *)
LEMMA StillWaits ==
    ASSUME SerialTypes, SerialTypes', DeviceWaits, receiver'.mode = "Asking",
           down' = down \/ (down # <<>> /\ down' = Tail(down)),
           \/ up' = up
           \/ up # <<>> /\ up' = Tail(up)
           \/ up = <<>> /\ up' = up \o <<"C">>
    PROVE  DeviceWaits'
  <1>0. /\ up \in Seq(UpBytes) /\ down \in Seq(Item)
        /\ up' \in Seq(UpBytes) /\ down' \in Seq(Item)
    BY DEF SerialTypes, Items
  <1>1. (\A i \in 1..Len(up) : up[i] = "C") /\ (\A i \in 1..Len(down) : down[i] = Key)
    BY WaitingLine
  <1>2. \A i \in 1..Len(down') : down'[i] = Key
    <2>1. CASE down # <<>> /\ down' = Tail(down)
      BY <1>0, <1>1, <2>1, TailOfEqual
    <2> QED
      BY <1>1, <2>1
  <1>3. \A i \in 1..Len(up') : up'[i] = "C"
    <2>1. CASE up = <<>> /\ up' = up \o <<"C">>
      <3>1. up' = <<"C">>
        BY <2>1
      <3> QED
        BY <3>1
    <2>2. CASE up # <<>> /\ up' = Tail(up)
      BY <1>0, <1>1, <2>2, TailOfEqual
    <2> QED
      BY <1>1, <2>1, <2>2
  <1>4. ToSet(up') \subseteq {"C"} /\ ToSet(down') \subseteq {Key}
    BY <1>0, <1>2, <1>3 DEF ToSet
  <1> QED
    BY <1>4 DEF DeviceWaits

LEMMA WireKeepsReceiver ==
    ASSUME SerialTypes, SerialTypes', ReceiverInv, Wire PROVE ReceiverInv'
  <1>0. /\ receiver \in Receiver /\ Len(receiver.got) \in Nat
        /\ up \in Seq(UpBytes) /\ down \in Seq(Item)
    BY ReceiverIsTyped DEF SerialTypes, Items
  <1>1. request' = request /\ taken' = taken
    <2>1. CASE ReceiverStarted \/ Ask
      BY <2>1 DEF ReceiverStarted, Ask, flags
    <2>2. CASE Device
      BY <2>2 DEF Device, flags
    <2>3. CASE DamagePacket \/ DamageAnswer
      BY <2>3 DEF DamagePacket, DamageAnswer, flags
    <2> QED
      BY <2>1, <2>2, <2>3 DEF Wire
  <1>2. CASE ReceiverStarted
    <2>1. (0 + 1) % BlockModulus = 1
      BY XmodemAssumption
    <2>2. request = NoFile /\ taken.file = NoFile
      BY <1>2 DEF ReceiverStarted, ReceiverInv, DeviceWaits
    <2> QED
      BY <1>1, <1>2, <2>1, <2>2 DEF ReceiverStarted, ReceiverInv
  <1>3. CASE Ask \/ DamageAnswer
    <2>1. receiver' = receiver /\ down' = down
      BY <1>3 DEF Ask, DamageAnswer
    <2>2. \/ up # <<>> /\ up' = Tail(up)
          \/ up = <<>> /\ up' = up \o <<"C">>
      BY <1>3 DEF Ask, DamageAnswer, Reply
    <2>3. DeviceWaits => DeviceWaits'
      <3>1. DeviceWaits => receiver'.mode = "Asking"
        BY <2>1 DEF DeviceWaits
      <3> QED
        BY <2>1, <2>2, <3>1, StillWaits
    <2> QED
      BY <1>1, <2>1, <2>3 DEF ReceiverInv
  <1>4. CASE DamagePacket
    <2>1. ~DeviceWaits
      <3>1. 1 \in 1..Len(down) /\ Head(down) = down[1] /\ down[1] # Key
        BY <1>0, <1>4, ItemsAreTyped DEF DamagePacket
      <3> QED
        BY <3>1, WaitingLine
    <2>2. receiver' = receiver
      BY <1>4 DEF DamagePacket
    <2> QED
      BY <1>1, <2>1, <2>2 DEF ReceiverInv
  <1>5. CASE Device
    <2> DEFINE p == Head(down)
    <2>0. down # <<>> /\ down' = Tail(down) /\ p \in Item /\ 1 \in 1..Len(down) /\ p = down[1]
      BY <1>0, <1>5, HeadTailProperties DEF Device
    <2>1. CASE p = Key \/ receiver.mode = "Off"
      <3>1. up' = up /\ receiver' = receiver
        BY <1>5, <2>1 DEF Device
      <3>2. DeviceWaits => DeviceWaits'
        <4>1. DeviceWaits => receiver'.mode = "Asking"
          BY <3>1 DEF DeviceWaits
        <4> QED
          BY <2>0, <3>1, <4>1, StillWaits
      <3> QED
        BY <1>1, <3>1, <3>2 DEF ReceiverInv
    <2>2. CASE p # Key /\ receiver.mode # "Off"
      <3>1. request = NoFile /\ taken.file = NoFile
        BY <2>0, <2>2, WaitingLine DEF ReceiverInv
      <3>2. \/ receiver' = receiver
            \/ receiver' = [receiver EXCEPT !.mode = "Off"]
            \/ /\ IsPacket(p) /\ p.number = receiver.next
               /\ receiver' = [mode |-> "Receiving", next |-> (p.number + 1) % BlockModulus,
                               got |-> Append(receiver.got, p.block)]
        BY <1>5, <2>0, <2>2, ItemsAreTyped DEF Device, TakePacket
      <3>3. CASE receiver' = receiver
        BY <1>1, <3>1, <3>3 DEF ReceiverInv
      <3>4. CASE receiver' = [receiver EXCEPT !.mode = "Off"]
        BY <1>0, <1>1, <3>1, <3>4, ReceiverIsTyped DEF ReceiverInv
      <3>5. CASE /\ IsPacket(p) /\ p.number = receiver.next
                 /\ receiver' = [mode |-> "Receiving", next |-> (p.number + 1) % BlockModulus,
                                 got |-> Append(receiver.got, p.block)]
        <4>1. receiver.next = (Len(receiver.got) + 1) % BlockModulus
          BY <2>2 DEF ReceiverInv
        <4>2. Len(receiver'.got) = Len(receiver.got) + 1
          <5>1. receiver.got \in Seq(Blocks) /\ p.block \in Blocks
            BY <1>0, <2>0, <3>5, ItemsAreTyped, ReceiverIsTyped DEF Texts
          <5>2. Len(Append(receiver.got, p.block)) = Len(receiver.got) + 1
            BY <5>1, AppendProperties
          <5> QED
            BY <3>5, <5>2
        <4>3. receiver'.next = (Len(receiver'.got) + 1) % BlockModulus
          <5> DEFINE g == Len(receiver.got)
          <5>1. receiver'.next = (((g + 1) % BlockModulus) + 1) % BlockModulus
            BY <3>5, <4>1
          <5>2. g + 1 \in Nat
            BY <1>0
          <5> HIDE DEF g
          <5>3. (((g + 1) % BlockModulus) + 1) % BlockModulus = ((g + 1) + 1) % BlockModulus
            BY <5>2, ModStep, XmodemAssumption
          <5> QED
            BY <4>2, <5>1, <5>3 DEF g
        <4> QED
          BY <1>1, <3>1, <3>5, <4>3 DEF ReceiverInv
      <3> QED
        BY <3>2, <3>3, <3>4, <3>5
    <2> QED
      BY <2>1, <2>2
  <1> QED
    BY <1>2, <1>3, <1>4, <1>5 DEF Wire

-----------------------------------------------------------------------------
(* What is on the line                                                         *)

Step(w, i) == IF i \in 1..Len(w) /\ IsPacket(w[i]) THEN 1 ELSE 0

(* An item on its way to the device: the packet of block k of the file, the    *)
(* end after the last block, or a key typed before the transfer.               *)
Carries(x, k, e) ==
    \/ x = Key
    \/ x = Byte("EOT") /\ Ending(e) /\ k = e.pos
    \/ k \in 1..e.pos /\ x = Packet(k % BlockModulus, e.file[k])

(* The items w on their way carry the blocks idx in order, each packet at most *)
(* one further than the packet before it, up to the current one of the engine; *)
(* cnt counts the packets from a place on.                                     *)
Flow(w, e, idx, cnt) ==
    /\ idx \in [1..(Len(w) + 1) -> Nat] /\ cnt \in [1..(Len(w) + 1) -> Nat]
    /\ idx[Len(w) + 1] = e.pos /\ cnt[Len(w) + 1] = 0
    /\ \A i \in 1..Len(w) :
         /\ Carries(w[i], idx[i], e)
         /\ idx[i] <= idx[i + 1] /\ idx[i + 1] <= idx[i] + Step(w, i + 1)
         /\ cnt[i] = cnt[i + 1] + Step(w, i)
         /\ cnt[i] + idx[i] >= e.pos + Step(w, i)

Ack(b) == IF b = "ACK" THEN 1 ELSE 0
Answer(b) == IF b = "C" THEN 0 ELSE 1

(* From each place on, u brings a acknowledgements and t answers of any kind.  *)
Answers(u, a, t) ==
    /\ a \in [1..(Len(u) + 1) -> Nat] /\ t \in [1..(Len(u) + 1) -> Nat]
    /\ a[Len(u) + 1] = 0 /\ t[Len(u) + 1] = 0
    /\ \A i \in 1..Len(u) : a[i] = a[i + 1] + Ack(u[i]) /\ t[i] = t[i + 1] + Answer(u[i])
    /\ \A i \in 1..(Len(u) + 1) :
         a[i] <= t[i] /\ ((\A j \in i..Len(u) : u[j] = "C") => t[i] = 0)

LEMMA FlowTail ==
    ASSUME NEW w \in Items, w # <<>>, NEW e, NEW idx, NEW cnt, Flow(w, e, idx, cnt)
    PROVE  \E idx2, cnt2 : /\ Flow(Tail(w), e, idx2, cnt2)
                           /\ idx2[1] = idx[2] /\ cnt2[1] = cnt[2]
                           /\ Step(Tail(w), 1) = Step(w, 2)
  <1> DEFINE v == Tail(w)
             idx2 == [i \in 1..(Len(v) + 1) |-> idx[i + 1]]
             cnt2 == [i \in 1..(Len(v) + 1) |-> cnt[i + 1]]
  <1>1. /\ Len(w) \in Nat /\ Len(w) >= 1 /\ Len(v) = Len(w) - 1
        /\ \A i \in 1..Len(v) : v[i] = w[i + 1]
    BY HeadTailProperties DEF Items
  <1> HIDE DEF v
  <1>2. \A i \in 1..(Len(v) + 1) : i + 1 \in 1..(Len(w) + 1)
    BY <1>1
  <1>3. \A i \in 1..Len(v) : i + 1 \in 1..Len(w) /\ i \in 1..(Len(v) + 1) /\ i + 1 \in 1..(Len(v) + 1)
    BY <1>1
  <1>4. \A i \in 1..(Len(v) + 1) : Step(v, i) = Step(w, i + 1)
    BY <1>1 DEF Step
  <1>5. idx \in [1..(Len(w) + 1) -> Nat] /\ cnt \in [1..(Len(w) + 1) -> Nat]
    BY DEF Flow
  <1>6. idx2 \in [1..(Len(v) + 1) -> Nat] /\ cnt2 \in [1..(Len(v) + 1) -> Nat]
    BY <1>2, <1>5
  <1>7. idx2[Len(v) + 1] = e.pos /\ cnt2[Len(v) + 1] = 0
    BY <1>1 DEF Flow
  <1>8. ASSUME NEW i \in 1..Len(v)
        PROVE  /\ Carries(v[i], idx2[i], e)
               /\ idx2[i] <= idx2[i + 1] /\ idx2[i + 1] <= idx2[i] + Step(v, i + 1)
               /\ cnt2[i] = cnt2[i + 1] + Step(v, i)
               /\ cnt2[i] + idx2[i] >= e.pos + Step(v, i)
    <2>1. /\ Carries(w[i + 1], idx[i + 1], e)
          /\ idx[i + 1] <= idx[(i + 1) + 1] /\ idx[(i + 1) + 1] <= idx[i + 1] + Step(w, (i + 1) + 1)
          /\ cnt[i + 1] = cnt[(i + 1) + 1] + Step(w, i + 1)
          /\ cnt[i + 1] + idx[i + 1] >= e.pos + Step(w, i + 1)
      BY <1>3 DEF Flow
    <2>2. /\ idx2[i] = idx[i + 1] /\ idx2[i + 1] = idx[(i + 1) + 1]
          /\ cnt2[i] = cnt[i + 1] /\ cnt2[i + 1] = cnt[(i + 1) + 1]
          /\ Step(v, i) = Step(w, i + 1) /\ Step(v, i + 1) = Step(w, (i + 1) + 1)
          /\ v[i] = w[i + 1]
      BY <1>1, <1>3, <1>4
    <2> QED
      BY <2>1, <2>2
  <1>9. idx2[1] = idx[2] /\ cnt2[1] = cnt[2] /\ Step(v, 1) = Step(w, 2)
    BY <1>1, <1>4
  <1> HIDE DEF idx2, cnt2
  <1>10. Flow(v, e, idx2, cnt2)
    BY <1>6, <1>7, <1>8 DEF Flow
  <1> QED
    BY <1>9, <1>10 DEF v

(* The engine moves on without sending, or stays.                              *)
LEMMA FlowKept ==
    ASSUME NEW w, NEW e, NEW r, NEW idx, NEW cnt, Flow(w, e, idx, cnt),
           r.pos = e.pos, r.file = e.file, Ending(e) => Ending(r)
    PROVE  Flow(w, r, idx, cnt)
  BY DEF Flow, Carries

(* One more item, which carries the block the engine now waits for, or none.   *)
LEMMA FlowAppend ==
    ASSUME NEW w \in Items, NEW x \in Item, NEW e, NEW r, NEW idx, NEW cnt,
           Flow(w, e, idx, cnt), e.pos \in Nat, r.pos \in Nat, r.file = e.file,
           r.pos = e.pos \/ (r.pos = e.pos + 1 /\ IsPacket(x)),
           Ending(e) => Ending(r) /\ r.pos = e.pos,
           Carries(x, r.pos, r)
    PROVE  \E idx2, cnt2 : /\ Flow(Append(w, x), r, idx2, cnt2)
                           /\ cnt2[1] = cnt[1] + (IF IsPacket(x) THEN 1 ELSE 0)
                           /\ idx[1] <= idx2[1]
                           /\ idx2[1] + Step(w, 1) <= idx[1] + Step(Append(w, x), 1)
  <1> DEFINE v == Append(w, x)
             s == IF IsPacket(x) THEN 1 ELSE 0
             N == Len(w)
             idx2 == [i \in 1..(N + 2) |-> IF i <= N THEN idx[i] ELSE r.pos]
             cnt2 == [i \in 1..(N + 2) |-> IF i <= N + 1 THEN cnt[i] + s ELSE 0]
  <1>1. /\ N \in Nat /\ Len(v) = N + 1
        /\ (\A i \in 1..N : v[i] = w[i]) /\ v[N + 1] = x
    BY AppendProperties DEF Items
  <1>2. s \in {0, 1} /\ r.pos >= e.pos /\ r.pos <= e.pos + s
    OBVIOUS
  <1>3. /\ \A i \in 1..N : Step(v, i) = Step(w, i)
        /\ Step(v, N + 1) = s /\ Step(w, N + 1) = 0 /\ Step(v, N + 2) = 0
    BY <1>1 DEF Step
  <1>4. /\ idx \in [1..(N + 1) -> Nat] /\ cnt \in [1..(N + 1) -> Nat]
        /\ idx[N + 1] = e.pos /\ cnt[N + 1] = 0
    BY DEF Flow
  <1> HIDE DEF v, s, N
  <1>5. /\ \A i \in 1..N : idx2[i] = idx[i]
        /\ idx2[N + 1] = r.pos /\ idx2[N + 2] = r.pos
        /\ \A i \in 1..(N + 1) : cnt2[i] = cnt[i] + s
        /\ cnt2[N + 2] = 0
    BY <1>1
  <1>6. idx2 \in [1..(N + 2) -> Nat] /\ cnt2 \in [1..(N + 2) -> Nat]
    <2>1. \A i \in 1..(N + 2) : i <= N => idx[i] \in Nat
      BY <1>1, <1>4
    <2>2. \A i \in 1..(N + 2) : i <= N + 1 => cnt[i] + s \in Nat
      BY <1>1, <1>2, <1>4
    <2> QED
      BY <2>1, <2>2
  <1> HIDE DEF idx2, cnt2
  <1>7. ASSUME NEW i \in 1..N
        PROVE  /\ Carries(v[i], idx2[i], r)
               /\ idx2[i] <= idx2[i + 1] /\ idx2[i + 1] <= idx2[i] + Step(v, i + 1)
               /\ cnt2[i] = cnt2[i + 1] + Step(v, i)
               /\ cnt2[i] + idx2[i] >= r.pos + Step(v, i)
    <2>1. /\ Carries(w[i], idx[i], e)
          /\ idx[i] <= idx[i + 1] /\ idx[i + 1] <= idx[i] + Step(w, i + 1)
          /\ cnt[i] = cnt[i + 1] + Step(w, i)
          /\ cnt[i] + idx[i] >= e.pos + Step(w, i)
      BY DEF Flow, N
    <2>2. i \in 1..(N + 1) /\ i + 1 \in 1..(N + 1) /\ idx[i] \in Nat /\ cnt[i] \in Nat /\ i \in Nat
      BY <1>1, <1>4
    <2>3. Carries(v[i], idx2[i], r)
      BY <1>1, <1>2, <1>5, <2>1, <2>2 DEF Carries
    <2>0. /\ cnt2[i] = cnt[i] + s /\ cnt2[i + 1] = cnt[i + 1] + s /\ idx2[i] = idx[i]
          /\ Step(v, i) = Step(w, i) /\ Step(w, i) \in {0, 1} /\ cnt[i + 1] \in Nat
      BY <1>3, <1>4, <1>5, <2>2 DEF Step
    <2>4. cnt2[i] = cnt2[i + 1] + Step(v, i)
      BY <1>2, <2>1, <2>2, <2>0
    <2>5. cnt2[i] + idx2[i] >= r.pos + Step(v, i)
      BY <1>2, <2>1, <2>2, <2>0
    <2>6. CASE i < N
      <3>1. i + 1 \in 1..N
        BY <1>1, <2>2, <2>6
      <3>2. idx2[i + 1] = idx[i + 1] /\ Step(v, i + 1) = Step(w, i + 1)
        BY <1>3, <1>5, <3>1
      <3> QED
        BY <1>5, <2>1, <2>3, <2>4, <2>5, <3>2
    <2>7. CASE i = N
      <3>1. idx[N] = e.pos
        BY <1>1, <1>3, <1>4, <2>1, <2>2, <2>7
      <3> QED
        BY <1>1, <1>2, <1>3, <1>5, <2>3, <2>4, <2>5, <2>7, <3>1
    <2> QED
      BY <1>1, <2>2, <2>6, <2>7
  <1>8. /\ Carries(v[N + 1], idx2[N + 1], r)
        /\ idx2[N + 1] <= idx2[N + 2] /\ idx2[N + 2] <= idx2[N + 1] + Step(v, N + 2)
        /\ cnt2[N + 1] = cnt2[N + 2] + Step(v, N + 1)
        /\ cnt2[N + 1] + idx2[N + 1] >= r.pos + Step(v, N + 1)
    <2>1. cnt2[N + 1] = s
      <3>1. N + 1 \in 1..(N + 1)
        BY <1>1
      <3>2. cnt2[N + 1] = cnt[N + 1] + s /\ cnt[N + 1] = 0
        BY <1>4, <1>5, <3>1
      <3> QED
        BY <1>2, <3>2
    <2>2. /\ v[N + 1] = x /\ idx2[N + 1] = r.pos /\ idx2[N + 2] = r.pos /\ cnt2[N + 2] = 0
          /\ Step(v, N + 1) = s /\ Step(v, N + 2) = 0
      BY <1>1, <1>3, <1>5
    <2> QED
      BY <1>2, <2>1, <2>2
  <1>9. Flow(v, r, idx2, cnt2)
    <2>1. Len(v) + 1 = N + 2
      BY <1>1
    <2>2. ASSUME NEW i \in 1..Len(v)
          PROVE  /\ Carries(v[i], idx2[i], r)
                 /\ idx2[i] <= idx2[i + 1] /\ idx2[i + 1] <= idx2[i] + Step(v, i + 1)
                 /\ cnt2[i] = cnt2[i + 1] + Step(v, i)
                 /\ cnt2[i] + idx2[i] >= r.pos + Step(v, i)
      <3>1. CASE i \in 1..N
        BY <1>7, <3>1
      <3>2. CASE i = N + 1
        <4>1. i + 1 = N + 2
          BY <1>1, <3>2
        <4> QED
          BY <1>8, <3>2, <4>1
      <3> QED
        BY <1>1, <3>1, <3>2
    <2> QED
      BY <1>5, <1>6, <2>1, <2>2 DEF Flow
  <1>10. /\ cnt2[1] = cnt[1] + s /\ idx[1] <= idx2[1]
         /\ idx2[1] + Step(w, 1) <= idx[1] + Step(v, 1)
    <2>1. CASE N = 0
      BY <1>2, <1>3, <1>4, <1>5, <2>1
    <2>2. CASE N > 0
      <3>1. 1 \in 1..N /\ 1 \in 1..(N + 1)
        BY <1>1, <2>2
      <3> QED
        BY <1>3, <1>4, <1>5, <3>1 DEF Step
    <2> QED
      BY <1>1, <2>1, <2>2
  <1> QED
    BY <1>9, <1>10 DEF v, s

(* Only keys are on their way when a transfer begins.                          *)
LEMMA FlowStart ==
    ASSUME NEW w \in Items, \A i \in 1..Len(w) : w[i] = Key, NEW e, e.pos = 0
    PROVE  LET zero == [i \in 1..(Len(w) + 1) |-> 0] IN Flow(w, e, zero, zero) /\ Step(w, 1) = 0
  <1> DEFINE zero == [i \in 1..(Len(w) + 1) |-> 0]
  <1>1. Len(w) \in Nat
    BY DEF Items
  <1>2. \A i \in 1..Len(w) : Step(w, i) = 0 /\ Step(w, i + 1) = 0 /\ Carries(w[i], 0, e)
    BY ItemsAreTyped DEF Step, Carries
  <1>3. \A i \in 1..(Len(w) + 1) : zero[i] = 0
    OBVIOUS
  <1>4. zero \in [1..(Len(w) + 1) -> Nat]
    OBVIOUS
  <1>5. \A i \in 1..Len(w) : i \in 1..(Len(w) + 1) /\ i + 1 \in 1..(Len(w) + 1)
    BY <1>1
  <1>6. 1 \in 1..(Len(w) + 1) /\ Len(w) + 1 \in 1..(Len(w) + 1)
    BY <1>1
  <1>7. Step(w, 1) = 0
    BY ItemsAreTyped DEF Step
  <1> HIDE DEF zero
  <1>8. ASSUME NEW i \in 1..Len(w)
        PROVE  /\ Carries(w[i], zero[i], e)
               /\ zero[i] <= zero[i + 1] /\ zero[i + 1] <= zero[i] + Step(w, i + 1)
               /\ zero[i] = zero[i + 1] + Step(w, i)
               /\ zero[i] + zero[i] >= e.pos + Step(w, i)
    <2>1. zero[i] = 0 /\ zero[i + 1] = 0
      BY <1>3, <1>5
    <2>2. Step(w, i) = 0 /\ Step(w, i + 1) = 0 /\ Carries(w[i], 0, e)
      BY <1>2
    <2> QED
      BY <2>1, <2>2
  <1>9. Flow(w, e, zero, zero)
    BY <1>3, <1>4, <1>6, <1>8 DEF Flow
  <1> QED
    BY <1>7, <1>9 DEF zero

LEMMA AnswersTail ==
    ASSUME NEW u \in Seq(UpBytes), u # <<>>, NEW a, NEW t, Answers(u, a, t)
    PROVE  \E a2, t2 : /\ Answers(Tail(u), a2, t2)
                       /\ a2[1] = a[2] /\ t2[1] = t[2]
                       /\ a[1] = a[2] + Ack(Head(u)) /\ t[1] = t[2] + Answer(Head(u))
                       /\ a[2] \in Nat /\ t[2] \in Nat
  <1> DEFINE v == Tail(u)
             a2 == [i \in 1..(Len(v) + 1) |-> a[i + 1]]
             t2 == [i \in 1..(Len(v) + 1) |-> t[i + 1]]
  <1>1. /\ Len(u) \in Nat /\ Len(u) >= 1 /\ Len(v) = Len(u) - 1 /\ Head(u) = u[1]
        /\ \A i \in 1..Len(v) : v[i] = u[i + 1]
    BY HeadTailProperties
  <1> HIDE DEF v
  <1>2. \A i \in 1..(Len(v) + 1) : i + 1 \in 1..(Len(u) + 1)
    BY <1>1
  <1>3. \A i \in 1..Len(v) : i + 1 \in 1..Len(u) /\ i \in 1..(Len(v) + 1) /\ i + 1 \in 1..(Len(v) + 1)
    BY <1>1
  <1>4. a \in [1..(Len(u) + 1) -> Nat] /\ t \in [1..(Len(u) + 1) -> Nat]
    BY DEF Answers
  <1>5. a2 \in [1..(Len(v) + 1) -> Nat] /\ t2 \in [1..(Len(v) + 1) -> Nat]
    BY <1>2, <1>4
  <1>6. \A i \in 1..(Len(v) + 1) : a2[i] = a[i + 1] /\ t2[i] = t[i + 1]
    OBVIOUS
  <1>7. a2[Len(v) + 1] = 0 /\ t2[Len(v) + 1] = 0
    BY <1>1 DEF Answers
  <1> HIDE DEF a2, t2
  <1>8. ASSUME NEW i \in 1..Len(v)
        PROVE  a2[i] = a2[i + 1] + Ack(v[i]) /\ t2[i] = t2[i + 1] + Answer(v[i])
    <2>1. a[i + 1] = a[(i + 1) + 1] + Ack(u[i + 1]) /\ t[i + 1] = t[(i + 1) + 1] + Answer(u[i + 1])
      BY <1>3 DEF Answers
    <2> QED
      BY <1>1, <1>3, <1>6, <2>1
  <1>9. ASSUME NEW i \in 1..(Len(v) + 1)
        PROVE  a2[i] <= t2[i] /\ ((\A j \in i..Len(v) : v[j] = "C") => t2[i] = 0)
    <2>1. a[i + 1] <= t[i + 1] /\ ((\A j \in (i + 1)..Len(u) : u[j] = "C") => t[i + 1] = 0)
      BY <1>2 DEF Answers
    <2>2. ASSUME \A j \in i..Len(v) : v[j] = "C", NEW j \in (i + 1)..Len(u) PROVE u[j] = "C"
      <3>1. j - 1 \in i..Len(v) /\ j - 1 \in 1..Len(v) /\ (j - 1) + 1 = j
        BY <1>1, <2>2
      <3> QED
        BY <1>1, <2>2, <3>1
    <2> QED
      BY <1>6, <2>1, <2>2
  <1>10. /\ a2[1] = a[2] /\ t2[1] = t[2] /\ a[2] \in Nat /\ t[2] \in Nat
         /\ a[1] = a[2] + Ack(Head(u)) /\ t[1] = t[2] + Answer(Head(u))
    <2>1. 1 \in 1..Len(u) /\ 1 \in 1..(Len(v) + 1) /\ 2 \in 1..(Len(u) + 1)
      BY <1>1
    <2> QED
      BY <1>1, <1>4, <1>6, <2>1 DEF Answers
  <1>11. Answers(v, a2, t2)
    BY <1>5, <1>7, <1>8, <1>9 DEF Answers
  <1> QED
    BY <1>10, <1>11 DEF v

LEMMA AnswersAppend ==
    ASSUME NEW u \in Seq(UpBytes), NEW b \in UpBytes, NEW a, NEW t, Answers(u, a, t)
    PROVE  \E a2, t2 : /\ Answers(Append(u, b), a2, t2)
                       /\ a2[1] = a[1] + Ack(b) /\ t2[1] = t[1] + Answer(b)
  <1> DEFINE v == Append(u, b)
             N == Len(u)
             a2 == [i \in 1..(N + 2) |-> IF i <= N + 1 THEN a[i] + Ack(b) ELSE 0]
             t2 == [i \in 1..(N + 2) |-> IF i <= N + 1 THEN t[i] + Answer(b) ELSE 0]
  <1>1. /\ N \in Nat /\ Len(v) = N + 1
        /\ (\A i \in 1..N : v[i] = u[i]) /\ v[N + 1] = b
    BY AppendProperties
  <1>2. Ack(b) \in {0, 1} /\ Answer(b) \in {0, 1} /\ Ack(b) <= Answer(b) /\ (b = "C" => Answer(b) = 0)
    BY DEF Ack, Answer
  <1>3. /\ a \in [1..(N + 1) -> Nat] /\ t \in [1..(N + 1) -> Nat]
        /\ a[N + 1] = 0 /\ t[N + 1] = 0
    BY DEF Answers
  <1> HIDE DEF v
  <1>4. /\ \A i \in 1..(N + 1) : a2[i] = a[i] + Ack(b) /\ t2[i] = t[i] + Answer(b)
        /\ a2[N + 2] = 0 /\ t2[N + 2] = 0
    BY <1>1
  <1>5. a2 \in [1..(N + 2) -> Nat] /\ t2 \in [1..(N + 2) -> Nat]
    <2>1. \A i \in 1..(N + 2) : i <= N + 1 => a[i] + Ack(b) \in Nat /\ t[i] + Answer(b) \in Nat
      BY <1>1, <1>2, <1>3
    <2> QED
      BY <2>1
  <1> HIDE DEF a2, t2
  <1>6. ASSUME NEW i \in 1..Len(v)
        PROVE  a2[i] = a2[i + 1] + Ack(v[i]) /\ t2[i] = t2[i + 1] + Answer(v[i])
    <2>1. CASE i \in 1..N
      <3>1. a[i] = a[i + 1] + Ack(u[i]) /\ t[i] = t[i + 1] + Answer(u[i])
        BY <2>1 DEF Answers
      <3>2. i \in 1..(N + 1) /\ i + 1 \in 1..(N + 1)
        BY <1>1, <2>1
      <3>3. Ack(u[i]) \in {0, 1} /\ Answer(u[i]) \in {0, 1}
        BY DEF Ack, Answer
      <3>4. /\ a[i] \in Nat /\ a[i + 1] \in Nat /\ t[i] \in Nat /\ t[i + 1] \in Nat
        BY <1>3, <3>2
      <3> QED
        BY <1>1, <1>2, <1>4, <2>1, <3>1, <3>2, <3>3, <3>4, SMTT(40)
    <2>2. CASE i = N + 1
      <3>1. i + 1 = N + 2 /\ i \in 1..(N + 1)
        BY <1>1, <2>2
      <3>2. a2[i] = Ack(b) /\ t2[i] = Answer(b) /\ a2[i + 1] = 0 /\ t2[i + 1] = 0
        BY <1>2, <1>3, <1>4, <2>2, <3>1
      <3> QED
        BY <1>1, <1>2, <2>2, <3>2
    <2> QED
      BY <1>1, <2>1, <2>2
  <1>7. ASSUME NEW i \in 1..(Len(v) + 1)
        PROVE  a2[i] <= t2[i] /\ ((\A j \in i..Len(v) : v[j] = "C") => t2[i] = 0)
    <2>1. CASE i \in 1..(N + 1)
      <3>1. a[i] <= t[i] /\ ((\A j \in i..N : u[j] = "C") => t[i] = 0)
        BY <2>1 DEF Answers
      <3>2. a[i] \in Nat /\ t[i] \in Nat
        BY <1>3, <2>1
      <3>3. ASSUME \A j \in i..Len(v) : v[j] = "C" PROVE t2[i] = 0
        <4>1. b = "C"
          <5>1. N + 1 \in i..Len(v)
            BY <1>1, <2>1
          <5> QED
            BY <1>1, <3>3, <5>1
        <4>2. \A j \in i..N : u[j] = "C"
          <5>1. \A j \in i..N : j \in i..Len(v) /\ j \in 1..N
            BY <1>1, <2>1
          <5> QED
            BY <1>1, <3>3, <5>1
        <4> QED
          BY <1>2, <1>4, <2>1, <3>1, <4>1, <4>2
      <3> QED
        BY <1>2, <1>4, <2>1, <3>1, <3>2, <3>3
    <2>2. CASE i = N + 2
      BY <1>4, <2>2
    <2> QED
      BY <1>1, <2>1, <2>2
  <1>8. Answers(v, a2, t2)
    <2>1. Len(v) + 1 = N + 2
      BY <1>1
    <2> QED
      BY <1>4, <1>5, <1>6, <1>7, <2>1 DEF Answers
  <1>9. a2[1] = a[1] + Ack(b) /\ t2[1] = t[1] + Answer(b)
    <2>1. 1 \in 1..(N + 1)
      BY <1>1
    <2> QED
      BY <1>4, <2>1
  <1> QED
    BY <1>8, <1>9 DEF v

(* Requests for the first block are no answers.                                *)
LEMMA AnswersStart ==
    ASSUME NEW u \in Seq(UpBytes), \A i \in 1..Len(u) : u[i] = "C"
    PROVE  LET zero == [i \in 1..(Len(u) + 1) |-> 0] IN Answers(u, zero, zero)
  <1> DEFINE zero == [i \in 1..(Len(u) + 1) |-> 0]
  <1>1. Len(u) \in Nat
    OBVIOUS
  <1>2. \A i \in 1..Len(u) : Ack(u[i]) = 0 /\ Answer(u[i]) = 0
    BY DEF Ack, Answer
  <1>3. /\ \A i \in 1..(Len(u) + 1) : zero[i] = 0
        /\ zero \in [1..(Len(u) + 1) -> Nat]
    OBVIOUS
  <1>4. \A i \in 1..Len(u) : i \in 1..(Len(u) + 1) /\ i + 1 \in 1..(Len(u) + 1)
    BY <1>1
  <1>5. Len(u) + 1 \in 1..(Len(u) + 1)
    BY <1>1
  <1> HIDE DEF zero
  <1>6. Answers(u, zero, zero)
    BY <1>2, <1>3, <1>4, <1>5 DEF Answers
  <1> QED
    BY <1>6 DEF zero

-----------------------------------------------------------------------------
(* The transfer: engine, line and device together                              *)

(* There is a transfer, or one that has succeeded.                             *)
Live(e) == IsActive(e) \/ e.state = "Finished"

(* What of the end is on its way or was answered.                              *)
Outstanding(e) ==
    IF e.state = "Finished" THEN 2 ELSE IF e.state = "WaitingForEotAck" THEN 1 ELSE 0

(* Of packets and answers on their way there is one, and one more for each     *)
(* late timeout; the acknowledged blocks are ahead of the device by no more    *)
(* than the late timeouts.  (g: blocks the device has, l: late timeouts.)      *)
Balance(e, cnt, a, t, g, l) ==
    /\ cnt + t + Outstanding(e) <= 1 + l
    /\ e.acked + a <= g + l
    /\ e.state = "WaitingForReceiver" => cnt + t = 0

(* The device listens: the first item carries a block it has, the next one, or *)
(* one further for each packet damaged (n).                                    *)
Near(w, idx, g, n) == g <= idx[1] /\ idx[1] <= g + n + Step(w, 1)

Held(w, u, e, g, n, l) ==
    \E idx, cnt, a, t :
        /\ Flow(w, e, idx, cnt) /\ Near(w, idx, g, n)
        /\ Answers(u, a, t) /\ Balance(e, cnt[1], a[1], t[1], g, l)

(* The device has left: it had the end, or refused a packet after damage.      *)
EndHeard(e, g, n, l) ==
    /\ Ending(e) /\ e.acked <= g + l
    /\ g = e.pos \/ l > 1 \/ (l > 0 /\ n > 0)

Left(u, e, g, n, l) ==
    \E a, t : /\ Answers(u, a, t)
              /\ (e.acked + a[1] <= g + l /\ n > 0) \/ EndHeard(e, g, n, l)

(* What the device has is the beginning of what was read from the file.        *)
Prefix(e, got) ==
    Len(got) <= e.pos /\ \A i \in 1..Len(got) : got[i] = e.file[i]

Sent == down \o engine.out

TransferInv ==
    Live(engine) /\ ~Wrapped =>
        /\ Prefix(engine, receiver.got)
        /\ IF receiver.mode # "Off"
             THEN Held(Sent, up, engine, Len(receiver.got), spent.noise, spent.late)
             ELSE Left(up, engine, Len(receiver.got), spent.noise, spent.late)

LEMMA ConcatAppend ==
    ASSUME NEW d \in Items, NEW o \in Items, NEW x \in Item
    PROVE  /\ d \o o \in Items /\ Append(d \o o, x) \in Items
           /\ d \o Append(o, x) = Append(d \o o, x)
  <1>1. d \o o \in Items /\ Append(d \o o, x) \in Items
    BY ConcatProperties, AppendProperties DEF Items
  <1>2. d \o Append(o, x) = Append(d \o o, x)
    BY DEF Items
  <1> QED
    BY <1>1, <1>2

LEMMA FlowTypes ==
    ASSUME NEW w \in Items, NEW e, NEW idx, NEW cnt, Flow(w, e, idx, cnt)
    PROVE  /\ idx[1] \in Nat /\ cnt[1] \in Nat
           /\ w # <<>> => /\ Carries(Head(w), idx[1], e)
                          /\ idx[1] <= idx[2] /\ idx[2] <= idx[1] + Step(w, 2)
                          /\ cnt[1] = cnt[2] + Step(w, 1)
                          /\ cnt[1] + idx[1] >= e.pos + Step(w, 1)
                          /\ idx[2] \in Nat /\ cnt[2] \in Nat
                          /\ Step(w, 1) = IF IsPacket(Head(w)) THEN 1 ELSE 0
           /\ w = <<>> => idx[1] = e.pos /\ cnt[1] = 0
  <1>1. Len(w) \in Nat /\ 1 \in 1..(Len(w) + 1)
    BY DEF Items
  <1>2. idx[1] \in Nat /\ cnt[1] \in Nat
    BY <1>1 DEF Flow
  <1>3. w = <<>> => idx[1] = e.pos /\ cnt[1] = 0
    BY DEF Flow
  <1>4. ASSUME w # <<>>
        PROVE  /\ Carries(Head(w), idx[1], e)
               /\ idx[1] <= idx[2] /\ idx[2] <= idx[1] + Step(w, 2)
               /\ cnt[1] = cnt[2] + Step(w, 1)
               /\ cnt[1] + idx[1] >= e.pos + Step(w, 1)
               /\ idx[2] \in Nat /\ cnt[2] \in Nat
               /\ Step(w, 1) = IF IsPacket(Head(w)) THEN 1 ELSE 0
    <2>1. 1 \in 1..Len(w) /\ 2 \in 1..(Len(w) + 1) /\ Head(w) = w[1] /\ 1 + 1 = 2
      BY <1>4, HeadTailProperties DEF Items
    <2>2. Step(w, 1) = IF IsPacket(Head(w)) THEN 1 ELSE 0
      BY <2>1 DEF Step
    <2>3. idx[2] \in Nat /\ cnt[2] \in Nat
      BY <2>1 DEF Flow
    <2>4. /\ Carries(w[1], idx[1], e)
          /\ idx[1] <= idx[1 + 1] /\ idx[1 + 1] <= idx[1] + Step(w, 1 + 1)
          /\ cnt[1] = cnt[1 + 1] + Step(w, 1)
          /\ cnt[1] + idx[1] >= e.pos + Step(w, 1)
      BY <2>1 DEF Flow
    <2> QED
      BY <2>1, <2>2, <2>3, <2>4
  <1> QED
    BY <1>2, <1>3, <1>4

LEMMA AnswersTypes ==
    ASSUME NEW u \in Seq(UpBytes), NEW a, NEW t, Answers(u, a, t)
    PROVE  /\ a[1] \in Nat /\ t[1] \in Nat /\ a[1] <= t[1]
           /\ (\A i \in 1..Len(u) : u[i] = "C") => t[1] = 0
  <1>1. Len(u) \in Nat /\ 1 \in 1..(Len(u) + 1)
    OBVIOUS
  <1> QED
    BY <1>1 DEF Answers

(* The engine's call sent k packets.                                           *)
Moves(e, r, k) ==
    \/ k = 0 /\ (Same(e, r) \/ Finishes(e, r) \/ SendsEot(e, r))
    \/ k = 1 /\ ((SendsNext(e, r) /\ ~Ending(e)) \/ Repeats(e, r))

FlowsOn(d, e, r, idx, cnt, k) ==
    \E idx2, cnt2 : /\ Flow(d \o r.out, r, idx2, cnt2)
                    /\ cnt2[1] = cnt[1] + k
                    /\ idx[1] <= idx2[1]
                    /\ idx2[1] + Step(d \o e.out, 1) <= idx[1] + Step(d \o r.out, 1)

(* What the engine sends joins what is on its way.                             *)
LEMMA FlowMoves ==
    ASSUME NEW d \in Items, NEW e, EngineOK(e), NEW r, EngineOK(r), r.file = e.file,
           NEW idx, NEW cnt, Flow(d \o e.out, e, idx, cnt), NEW k, Moves(e, r, k)
    PROVE  FlowsOn(d, e, r, idx, cnt, k)
  <1> DEFINE w == d \o e.out
  <1>0. /\ e \in Engine /\ r \in Engine /\ e.out \in Items /\ e.pos \in Nat /\ r.pos \in Nat
        /\ e.file \in Seq(Blocks) /\ w \in Items
        /\ e.pos <= Len(e.file) /\ r.pos <= Len(e.file) /\ Len(e.file) \in Nat
    <2>1. /\ e \in Engine /\ r \in Engine /\ e.pos <= Len(e.file) /\ r.pos <= Len(r.file)
      BY DEF EngineOK
    <2>2. /\ e.out \in Items /\ e.pos \in Nat /\ r.pos \in Nat /\ e.file \in Seq(Blocks)
          /\ Len(e.file) \in Nat
      BY <2>1, EngineTypes DEF Texts
    <2>3. w \in Items
      BY <2>2, ConcatProperties DEF Items
    <2> QED
      BY <2>1, <2>2, <2>3
  <1>1. idx[1] \in Nat /\ cnt[1] \in Nat /\ Step(w, 1) \in Nat
    BY <1>0, FlowTypes DEF Step
  <1>2. CASE k = 0 /\ (Same(e, r) \/ Finishes(e, r))
    <2>1. r.out = e.out /\ r.pos = e.pos /\ (Ending(e) => Ending(r))
      BY <1>2 DEF Same, Finishes, Ending
    <2>2. Flow(d \o r.out, r, idx, cnt)
      BY <2>1, FlowKept
    <2> QED
      BY <1>1, <1>2, <2>1, <2>2 DEF FlowsOn
  <1>3. CASE k = 0 /\ SendsEot(e, r)
    <2> DEFINE x == Byte("EOT")
    <2>1. x \in Item /\ ~IsPacket(x)
      BY ItemsAreTyped
    <2>2. r.pos = e.pos /\ Ending(r) /\ Carries(x, r.pos, r)
      BY <1>3 DEF SendsEot, Ending, Carries
    <2>3. d \o r.out = Append(w, x)
      BY <1>0, <1>3, <2>1, ConcatAppend DEF SendsEot
    <2> HIDE DEF x, w
    <2>4. Flow(w, e, idx, cnt)
      BY DEF w
    <2>5. \E idx2, cnt2 : /\ Flow(Append(w, x), r, idx2, cnt2)
                          /\ cnt2[1] = cnt[1] + (IF IsPacket(x) THEN 1 ELSE 0)
                          /\ idx[1] <= idx2[1]
                          /\ idx2[1] + Step(w, 1) <= idx[1] + Step(Append(w, x), 1)
      BY <1>0, <2>1, <2>2, <2>4, FlowAppend
    <2> QED
      BY <1>3, <2>1, <2>3, <2>5 DEF FlowsOn, w
  <1>4. CASE k = 1 /\ SendsNext(e, r) /\ ~Ending(e)
    <2> DEFINE x == BlockAt(r)
    <2>0. r.pos = e.pos + 1 /\ r.pos \in 1..Len(r.file) /\ r.file \in Seq(Blocks)
      BY <1>0, <1>4 DEF SendsNext
    <2>1. x \in Item /\ IsPacket(x)
      BY <2>0, PacketsAreTyped DEF BlockAt
    <2>2. Carries(x, r.pos, r)
      BY <2>0 DEF BlockAt, Carries
    <2>3. d \o r.out = Append(w, x)
      BY <1>0, <1>4, <2>1, ConcatAppend DEF SendsNext
    <2> HIDE DEF x, w
    <2>4. Flow(w, e, idx, cnt)
      BY DEF w
    <2>5. \E idx2, cnt2 : /\ Flow(Append(w, x), r, idx2, cnt2)
                          /\ cnt2[1] = cnt[1] + (IF IsPacket(x) THEN 1 ELSE 0)
                          /\ idx[1] <= idx2[1]
                          /\ idx2[1] + Step(w, 1) <= idx[1] + Step(Append(w, x), 1)
      BY <1>0, <1>4, <2>0, <2>1, <2>2, <2>4, FlowAppend
    <2> QED
      BY <1>4, <2>1, <2>3, <2>5 DEF FlowsOn, w
  <1>5. CASE k = 1 /\ Repeats(e, r)
    <2> DEFINE x == BlockAt(e)
    <2>0. r.pos = e.pos /\ e.pos \in 1..Len(e.file)
      <3>1. e.pos >= 1
        BY <1>5 DEF Repeats, EngineOK
      <3> QED
        BY <1>0, <1>5, <3>1 DEF Repeats
    <2>1. x \in Item /\ IsPacket(x)
      BY <1>0, <2>0, PacketsAreTyped DEF BlockAt
    <2>2. Carries(x, r.pos, r) /\ ~Ending(e)
      BY <1>5, <2>0 DEF BlockAt, Carries, Repeats, Ending
    <2>3. d \o r.out = Append(w, x)
      BY <1>0, <1>5, <2>1, ConcatAppend DEF Repeats
    <2> HIDE DEF x, w
    <2>4. Flow(w, e, idx, cnt)
      BY DEF w
    <2>5. \E idx2, cnt2 : /\ Flow(Append(w, x), r, idx2, cnt2)
                          /\ cnt2[1] = cnt[1] + (IF IsPacket(x) THEN 1 ELSE 0)
                          /\ idx[1] <= idx2[1]
                          /\ idx2[1] + Step(w, 1) <= idx[1] + Step(Append(w, x), 1)
      BY <1>0, <2>0, <2>1, <2>2, <2>4, FlowAppend
    <2> QED
      BY <1>5, <2>1, <2>3, <2>5 DEF FlowsOn, w
  <1> QED
    BY <1>2, <1>3, <1>4, <1>5 DEF Moves, FlowsOn

(* A byte of the device reaches the engine, which the device listens to.       *)
LEMMA ReadKeepsHeld ==
    ASSUME NEW d \in Items, NEW e, EngineOK(e), IsActive(e),
           NEW u \in Seq(UpBytes), u # <<>>, NEW g \in Nat, NEW n \in Nat, NEW l \in Nat,
           Held(d \o e.out, u, e, g, n, l), ~Stopped(ProcessIncoming(e, Head(u)))
    PROVE  LET r == ProcessIncoming(e, Head(u)) IN Held(d \o r.out, Tail(u), r, g, n, l)
  <1> DEFINE byte == Head(u)
             r == ProcessIncoming(e, byte)
             w == d \o e.out
  <1>1. PICK idx, cnt, a, t : /\ Flow(w, e, idx, cnt) /\ Near(w, idx, g, n)
                              /\ Answers(u, a, t) /\ Balance(e, cnt[1], a[1], t[1], g, l)
    BY DEF Held
  <1>2. byte \in UpBytes
    BY HeadTailProperties
  <1>3. /\ EngineOK(r) /\ r.file = e.file
        /\ \/ Same(e, r)
           \/ /\ SendsNext(e, r) \/ SendsEot(e, r)
              /\ e.state = "WaitingForReceiver" \/ (e.state = "WaitingForBlockAck" /\ byte = "ACK")
           \/ Repeats(e, r) /\ byte = "NAK"
           \/ SendsEot(e, r) /\ e.state = "WaitingForEotAck"
           \/ Finishes(e, r) /\ byte = "ACK"
    BY <1>2, ProcessDoes
  <1>4. PICK a2, t2 : /\ Answers(Tail(u), a2, t2)
                      /\ a[1] = a2[1] + Ack(byte) /\ t[1] = t2[1] + Answer(byte)
                      /\ a2[1] \in Nat /\ t2[1] \in Nat
    <2>1. \E a2, t2 : /\ Answers(Tail(u), a2, t2)
                      /\ a2[1] = a[2] /\ t2[1] = t[2]
                      /\ a[1] = a[2] + Ack(byte) /\ t[1] = t[2] + Answer(byte)
                      /\ a[2] \in Nat /\ t[2] \in Nat
      BY <1>1, AnswersTail
    <2> QED
      BY <2>1
  <1>5. /\ e.pos \in Nat /\ e.acked \in Nat /\ r.pos \in Nat /\ r.acked \in Nat
        /\ w \in Items /\ e.out \in Items /\ r.out \in Items
        /\ e.state = "WaitingForReceiver" => e.pos = 0 /\ e.acked = 0
        /\ e.state = "WaitingForBlockAck" => e.acked = e.pos - 1
        /\ e.state = "WaitingForEotAck" => e.acked = e.pos
    <2>1. e \in Engine /\ r \in Engine
      BY <1>3 DEF EngineOK
    <2>2. e.out \in Items /\ r.out \in Items
      BY <2>1, EngineTypes
    <2>3. w \in Items
      BY <2>2, ConcatProperties DEF Items
    <2> QED
      BY <2>1, <2>2, <2>3, EngineTypes DEF EngineOK, Ending
  <1>6. /\ cnt[1] \in Nat /\ idx[1] \in Nat /\ a[1] \in Nat /\ t[1] \in Nat /\ a[1] <= t[1]
        /\ a2[1] <= t2[1]
    <2>1. Tail(u) \in Seq(UpBytes)
      BY HeadTailProperties
    <2> QED
      BY <1>1, <1>4, <1>5, <2>1, FlowTypes, AnswersTypes
  <1> HIDE DEF r, byte, w
  <1>0. PICK C \in Nat, A \in Nat, T \in Nat, A2 \in Nat, T2 \in Nat,
             M \in {0, 1}, N \in {0, 1} :
          /\ cnt[1] = C /\ a[1] = A /\ t[1] = T /\ a2[1] = A2 /\ t2[1] = T2
          /\ Ack(byte) = M /\ Answer(byte) = N
          /\ A = A2 + M /\ T = T2 + N /\ A <= T /\ A2 <= T2
    <2>1. Ack(byte) \in {0, 1} /\ Answer(byte) \in {0, 1}
      BY DEF Ack, Answer
    <2> QED
      BY <1>4, <1>6, <2>1
  <1>20. PICK P \in Nat, Q \in Nat, O \in Nat, R \in Nat :
          e.acked = P /\ r.acked = Q /\ Outstanding(e) = O /\ Outstanding(r) = R
    <2>1. Outstanding(e) \in Nat /\ Outstanding(r) \in Nat
      BY DEF Outstanding
    <2> QED
      BY <1>5, <2>1
  <1>7. PICK k \in {0, 1} :
                 /\ Moves(e, r, k)
                 /\ Balance(r, C + k, A2, T2, g, l)
    <2>0. /\ C + T + O <= 1 + l /\ P + A <= g + l
          /\ e.state = "WaitingForReceiver" => C + T = 0
      BY <1>0, <1>1, <1>20 DEF Balance
    <2>1. /\ byte = "ACK" => M = 1 /\ N = 1
          /\ byte = "NAK" => M = 0 /\ N = 1
      BY <1>0 DEF Ack, Answer
    <2>2. CASE Same(e, r)
      <3>1. Q = P /\ R = O /\ r.state = e.state
        BY <1>20, <2>2 DEF Same, Outstanding
      <3>2. C + 0 + T2 + R <= 1 + l /\ Q + A2 <= g + l
        BY <1>0, <2>0, <2>1, <3>1
      <3>3. r.state = "WaitingForReceiver" => C + 0 + T2 = 0
        BY <1>0, <2>0, <2>1, <3>1
      <3>4. Balance(r, C + 0, A2, T2, g, l)
        BY <1>20, <3>2, <3>3 DEF Balance
      <3> QED
        BY <2>2, <3>4 DEF Moves
    <2>3. CASE (SendsNext(e, r) \/ SendsEot(e, r)) /\ e.state = "WaitingForReceiver"
      <3>1. C = 0 /\ T2 = 0 /\ A2 = 0 /\ Q = 0 /\ ~Ending(e)
        BY <1>0, <1>5, <1>20, <2>0, <2>1, <2>3 DEF SendsNext, SendsEot, Ending
      <3>2. CASE SendsNext(e, r)
        <4>1. Balance(r, C + 1, A2, T2, g, l)
          BY <1>20, <3>1, <3>2 DEF Balance, SendsNext, Outstanding
        <4> QED
          BY <3>1, <3>2, <4>1 DEF Moves
      <3>3. CASE SendsEot(e, r)
        <4>1. Balance(r, C + 0, A2, T2, g, l)
          BY <1>20, <3>1, <3>3 DEF Balance, SendsEot, Outstanding
        <4> QED
          BY <3>3, <4>1 DEF Moves
      <3> QED
        BY <2>3, <3>2, <3>3
    <2>4. CASE (SendsNext(e, r) \/ SendsEot(e, r)) /\ e.state = "WaitingForBlockAck" /\ byte = "ACK"
      <3>1. /\ T = T2 + 1 /\ A = A2 + 1 /\ Q = P + 1 /\ ~Ending(e)
            /\ O = 0
        BY <1>0, <1>5, <1>20, <2>1, <2>4 DEF SendsNext, SendsEot, Ending, Outstanding
      <3>2. CASE SendsNext(e, r)
        <4>1. R = 0 /\ r.state # "WaitingForReceiver"
          BY <1>20, <3>2 DEF SendsNext, Outstanding
        <4>2. Balance(r, C + 1, A2, T2, g, l)
          BY <1>0, <1>20, <2>0, <3>1, <4>1 DEF Balance
        <4> QED
          BY <3>1, <3>2, <4>2 DEF Moves
      <3>3. CASE SendsEot(e, r)
        <4>1. R = 1 /\ r.state # "WaitingForReceiver"
          BY <1>20, <3>3 DEF SendsEot, Outstanding
        <4>2. Balance(r, C + 0, A2, T2, g, l)
          BY <1>0, <1>20, <2>0, <3>1, <4>1 DEF Balance
        <4> QED
          BY <3>3, <4>2 DEF Moves
      <3> QED
        BY <2>4, <3>2, <3>3
    <2>5. CASE Repeats(e, r) /\ byte = "NAK"
      <3>1. /\ T = T2 + 1 /\ A = A2 /\ Q = P
            /\ O = 0 /\ R = 0 /\ r.state # "WaitingForReceiver"
        BY <1>0, <1>20, <2>1, <2>5 DEF Repeats, Outstanding
      <3>2. Balance(r, C + 1, A2, T2, g, l)
        BY <1>0, <1>20, <2>0, <3>1 DEF Balance
      <3> QED
        BY <2>5, <3>2 DEF Moves
    <2>6. CASE SendsEot(e, r) /\ e.state = "WaitingForEotAck"
      <3>1. /\ Q = P /\ r.state # "WaitingForReceiver"
            /\ O = 1 /\ R = 1
        BY <1>5, <1>20, <2>6 DEF SendsEot, Outstanding
      <3>2. Balance(r, C + 0, A2, T2, g, l)
        BY <1>0, <1>20, <2>0, <2>1, <3>1 DEF Balance
      <3> QED
        BY <2>6, <3>2 DEF Moves
    <2>7. CASE Finishes(e, r) /\ byte = "ACK"
      <3>1. /\ T = T2 + 1 /\ A = A2 + 1
            /\ Q = P /\ r.state # "WaitingForReceiver"
            /\ O = 1 /\ R = 2
        BY <1>0, <1>20, <2>1, <2>7 DEF Finishes, Outstanding
      <3>2. Balance(r, C + 0, A2, T2, g, l)
        BY <1>0, <1>20, <2>0, <3>1 DEF Balance
      <3> QED
        BY <2>7, <3>2 DEF Moves
    <2> QED
      BY <1>3, <2>2, <2>3, <2>4, <2>5, <2>6, <2>7
  <1>8. PICK idx2, cnt2 : /\ Flow(d \o r.out, r, idx2, cnt2)
                          /\ cnt2[1] = cnt[1] + k
                          /\ idx[1] <= idx2[1]
                          /\ idx2[1] + Step(w, 1) <= idx[1] + Step(d \o r.out, 1)
    <2>1. Flow(d \o e.out, e, idx, cnt)
      BY <1>1 DEF w
    <2>3. Moves(e, r, k)
      BY <1>7
    <2>4. EngineOK(r) /\ r.file = e.file
      BY <1>3
    <2>2. FlowsOn(d, e, r, idx, cnt, k)
      BY <2>1, <2>3, <2>4, FlowMoves
    <2> QED
      BY <2>2 DEF FlowsOn, w
  <1>9. Near(d \o r.out, idx2, g, n)
    <2>1. d \o r.out \in Items
      BY <1>5, ConcatProperties DEF Items
    <2>2. idx2[1] \in Nat
      BY <1>8, <2>1, FlowTypes
    <2>3. Step(w, 1) \in {0, 1} /\ Step(d \o r.out, 1) \in {0, 1}
      BY DEF Step
    <2> QED
      BY <1>1, <1>6, <1>8, <2>2, <2>3 DEF Near
  <1>10. Held(d \o r.out, Tail(u), r, g, n, l)
    BY <1>0, <1>4, <1>7, <1>8, <1>9 DEF Held
  <1> QED
    BY <1>10 DEF r, byte

(* Ten seconds are over; the timeout is late unless nothing is on its way.     *)
LEMMA TimeoutKeepsHeld ==
    ASSUME NEW d \in Items, NEW e, EngineOK(e), IsActive(e), NEW r, EngineOK(r), r.file = e.file,
           NEW u \in Seq(UpBytes), NEW g \in Nat, NEW n \in Nat, NEW l \in Nat, NEW m \in Nat,
           Held(d \o e.out, u, e, g, n, l),
           \/ Same(e, r) \/ Repeats(e, r)
           \/ SendsEot(e, r) /\ e.state = "WaitingForEotAck",
           \/ m = l + 1
           \/ m = l /\ d \o e.out = <<>> /\ \A i \in 1..Len(u) : u[i] = "C"
    PROVE  Held(d \o r.out, u, r, g, n, m)
  <1> DEFINE w == d \o e.out
  <1>1. PICK idx, cnt, a, t : /\ Flow(w, e, idx, cnt) /\ Near(w, idx, g, n)
                              /\ Answers(u, a, t) /\ Balance(e, cnt[1], a[1], t[1], g, l)
    BY DEF Held
  <1>2. /\ e.pos \in Nat /\ e.acked \in Nat /\ r.pos \in Nat /\ r.acked \in Nat
        /\ w \in Items /\ e.out \in Items /\ r.out \in Items
        /\ e.state = "WaitingForEotAck" => e.acked = e.pos
    <2>1. e \in Engine /\ r \in Engine
      BY DEF EngineOK
    <2>2. e.out \in Items /\ r.out \in Items
      BY <2>1, EngineTypes
    <2>3. w \in Items
      BY <2>2, ConcatProperties DEF Items
    <2> QED
      BY <2>1, <2>2, <2>3, EngineTypes DEF EngineOK, Ending
  <1>3. /\ cnt[1] \in Nat /\ idx[1] \in Nat /\ a[1] \in Nat /\ t[1] \in Nat /\ a[1] <= t[1]
        /\ m = l => cnt[1] = 0 /\ t[1] = 0
    <2>1. w = <<>> => cnt[1] = 0
      BY <1>1, <1>2, FlowTypes
    <2>2. (\A i \in 1..Len(u) : u[i] = "C") => t[1] = 0
      BY <1>1, AnswersTypes
    <2>3. m = l => w = <<>> /\ \A i \in 1..Len(u) : u[i] = "C"
      OBVIOUS
    <2> QED
      BY <1>1, <1>2, <2>1, <2>2, <2>3, FlowTypes, AnswersTypes
  <1> HIDE DEF w
  <1>0. PICK C \in Nat, A \in Nat, T \in Nat :
          /\ cnt[1] = C /\ a[1] = A /\ t[1] = T /\ A <= T
          /\ m = l => C = 0 /\ T = 0
    BY <1>3
  <1>20. PICK P \in Nat, O \in Nat : e.acked = P /\ Outstanding(e) = O
    <2>1. Outstanding(e) \in Nat
      BY DEF Outstanding
    <2> QED
      BY <1>2, <2>1
  <1>4. PICK k \in {0, 1} :
                 /\ Moves(e, r, k)
                 /\ Balance(r, C + k, A, T, g, m)
    <2>0. /\ C + T + O <= 1 + l /\ P + A <= g + l
          /\ e.state = "WaitingForReceiver" => C + T = 0
          /\ m = l \/ m = l + 1
      BY <1>0, <1>1, <1>20 DEF Balance
    <2>1. CASE Same(e, r)
      <3>1. r.acked = P /\ r.state = e.state /\ Outstanding(r) = O
        BY <1>20, <2>1 DEF Same, Outstanding
      <3>2. Balance(r, C + 0, A, T, g, m)
        BY <1>0, <2>0, <3>1 DEF Balance
      <3> QED
        BY <2>1, <3>2 DEF Moves
    <2>2. CASE Repeats(e, r)
      <3>1. /\ r.acked = P /\ r.state # "WaitingForReceiver"
            /\ O = 0 /\ Outstanding(r) = 0
        BY <1>20, <2>2 DEF Repeats, Outstanding
      <3>2. Balance(r, C + 1, A, T, g, m)
        BY <1>0, <2>0, <3>1 DEF Balance
      <3> QED
        BY <2>2, <3>2 DEF Moves
    <2>3. CASE SendsEot(e, r) /\ e.state = "WaitingForEotAck"
      <3>1. /\ r.acked = P /\ r.state # "WaitingForReceiver"
            /\ O = 1 /\ Outstanding(r) = 1
        BY <1>2, <1>20, <2>3 DEF SendsEot, Outstanding
      <3>2. Balance(r, C + 0, A, T, g, m)
        BY <1>0, <2>0, <3>1 DEF Balance
      <3> QED
        BY <2>3, <3>2 DEF Moves
    <2> QED
      BY <2>1, <2>2, <2>3
  <1>5. PICK idx2, cnt2 : /\ Flow(d \o r.out, r, idx2, cnt2)
                          /\ cnt2[1] = cnt[1] + k
                          /\ idx[1] <= idx2[1]
                          /\ idx2[1] + Step(w, 1) <= idx[1] + Step(d \o r.out, 1)
    <2>1. Flow(d \o e.out, e, idx, cnt)
      BY <1>1 DEF w
    <2>3. Moves(e, r, k)
      BY <1>4
    <2>4. EngineOK(r) /\ r.file = e.file
      OBVIOUS
    <2>2. FlowsOn(d, e, r, idx, cnt, k)
      BY <2>1, <2>3, <2>4, FlowMoves
    <2> QED
      BY <2>2 DEF FlowsOn, w
  <1>6. Near(d \o r.out, idx2, g, n)
    <2>1. d \o r.out \in Items
      BY <1>2, ConcatProperties DEF Items
    <2>2. idx2[1] \in Nat
      BY <1>5, <2>1, FlowTypes
    <2>3. Step(w, 1) \in {0, 1} /\ Step(d \o r.out, 1) \in {0, 1}
      BY DEF Step
    <2> QED
      BY <1>1, <1>3, <1>5, <2>2, <2>3 DEF Near
  <1> QED
    BY <1>0, <1>1, <1>4, <1>5, <1>6 DEF Held

(* Without the device the acknowledgements left are still those of blocks it   *)
(* has.                                                                        *)
LEMMA ReadKeepsLeft ==
    ASSUME NEW e, EngineOK(e), IsActive(e), NEW u \in Seq(UpBytes), u # <<>>,
           NEW g \in Nat, NEW n \in Nat, NEW l \in Nat,
           Left(u, e, g, n, l), ~Stopped(ProcessIncoming(e, Head(u)))
    PROVE  Left(Tail(u), ProcessIncoming(e, Head(u)), g, n, l)
  <1> DEFINE byte == Head(u)
             r == ProcessIncoming(e, byte)
  <1>1. PICK a, t : /\ Answers(u, a, t)
                    /\ (e.acked + a[1] <= g + l /\ n > 0) \/ EndHeard(e, g, n, l)
    BY DEF Left
  <1>2. byte \in UpBytes
    BY HeadTailProperties
  <1>3. /\ EngineOK(r) /\ r.file = e.file
        /\ \/ Same(e, r)
           \/ /\ SendsNext(e, r) \/ SendsEot(e, r)
              /\ e.state = "WaitingForReceiver" \/ (e.state = "WaitingForBlockAck" /\ byte = "ACK")
           \/ Repeats(e, r) /\ byte = "NAK"
           \/ SendsEot(e, r) /\ e.state = "WaitingForEotAck"
           \/ Finishes(e, r) /\ byte = "ACK"
    BY <1>2, ProcessDoes
  <1>4. PICK a2, t2 : /\ Answers(Tail(u), a2, t2)
                      /\ a[1] = a2[1] + Ack(byte) /\ a2[1] \in Nat
    <2>1. \E a2, t2 : /\ Answers(Tail(u), a2, t2)
                      /\ a2[1] = a[2] /\ t2[1] = t[2]
                      /\ a[1] = a[2] + Ack(byte) /\ t[1] = t[2] + Answer(byte)
                      /\ a[2] \in Nat /\ t[2] \in Nat
      BY <1>1, AnswersTail
    <2> QED
      BY <2>1
  <1>5. /\ e.pos \in Nat /\ e.acked \in Nat /\ r.acked \in Nat
        /\ e.state = "WaitingForReceiver" => e.pos = 0 /\ e.acked = 0
        /\ e.state = "WaitingForBlockAck" => e.acked = e.pos - 1
        /\ e.state = "WaitingForEotAck" => e.acked = e.pos
    <2>1. e \in Engine /\ r \in Engine
      BY <1>3 DEF EngineOK
    <2> QED
      BY <2>1, EngineTypes DEF EngineOK, Ending
  <1>6. Ack(byte) \in {0, 1} /\ (byte = "ACK" => Ack(byte) = 1)
    BY DEF Ack
  <1> HIDE DEF r, byte
  <1>7. CASE e.acked + a[1] <= g + l /\ n > 0
    <2>1. r.acked + a2[1] <= e.acked + a[1]
      <3>1. r.acked = e.acked \/ (r.acked = e.acked + 1 /\ byte = "ACK")
        BY <1>3, <1>5 DEF Same, SendsNext, SendsEot, Repeats, Finishes
      <3> QED
        BY <1>4, <1>5, <1>6, <3>1
    <2>2. r.acked + a2[1] <= g + l
      BY <1>4, <1>5, <1>6, <1>7, <2>1
    <2> QED
      BY <1>4, <1>7, <2>2 DEF Left, r, byte
  <1>8. CASE EndHeard(e, g, n, l)
    <2>1. e.state = "WaitingForEotAck"
      BY <1>8 DEF EndHeard, Ending, IsActive, ActiveStates
    <2>2. Ending(r) /\ r.acked = e.acked /\ r.pos = e.pos
      BY <1>3, <1>5, <2>1 DEF Same, SendsNext, SendsEot, Repeats, Finishes, Ending
    <2>3. EndHeard(r, g, n, l)
      BY <1>8, <2>2 DEF EndHeard
    <2> QED
      BY <1>4, <2>3 DEF Left, r, byte
  <1> QED
    BY <1>1, <1>7, <1>8

LEMMA TimeoutKeepsLeft ==
    ASSUME NEW e, EngineOK(e), IsActive(e), NEW r, EngineOK(r), NEW u \in Seq(UpBytes),
           NEW g \in Nat, NEW n \in Nat, NEW l \in Nat, NEW m \in Nat, m >= l,
           Left(u, e, g, n, l),
           \/ Same(e, r) \/ Repeats(e, r)
           \/ SendsEot(e, r) /\ e.state = "WaitingForEotAck"
    PROVE  Left(u, r, g, n, m)
  <1>1. PICK a, t : /\ Answers(u, a, t)
                    /\ (e.acked + a[1] <= g + l /\ n > 0) \/ EndHeard(e, g, n, l)
    BY DEF Left
  <1>2. a[1] \in Nat
    BY <1>1, AnswersTypes
  <1>3. /\ e.acked \in Nat /\ r.acked = e.acked /\ r.pos = e.pos /\ (Ending(e) => Ending(r))
    <2>1. /\ e \in Engine /\ (e.state = "WaitingForEotAck" => e.acked = e.pos)
      BY DEF EngineOK, Ending
    <2> QED
      BY <2>1, EngineTypes DEF Same, Repeats, SendsEot, Ending
  <1>4. CASE e.acked + a[1] <= g + l /\ n > 0
    <2>1. r.acked + a[1] <= g + m
      BY <1>2, <1>3, <1>4
    <2> QED
      BY <1>1, <1>4, <2>1 DEF Left
  <1>5. CASE EndHeard(e, g, n, l)
    <2>1. EndHeard(r, g, n, m)
      BY <1>3, <1>5 DEF EndHeard
    <2> QED
      BY <1>1, <2>1 DEF Left
  <1> QED
    BY <1>1, <1>4, <1>5

(* An answer is lost, or means nothing.                                        *)
LEMMA AnswerLost ==
    ASSUME NEW w \in Items, NEW e, e.acked \in Nat, NEW u \in Seq(UpBytes), u # <<>>,
           NEW g \in Nat, NEW n \in Nat, NEW l \in Nat, NEW m \in Nat, n <= m
    PROVE  /\ Held(w, u, e, g, n, l) => Held(w, Tail(u), e, g, m, l)
           /\ Left(u, e, g, n, l) => Left(Tail(u), e, g, m, l)
  <1>0. Tail(u) \in Seq(UpBytes)
    BY HeadTailProperties
  <1>1. ASSUME NEW a, NEW t, Answers(u, a, t)
        PROVE  \E a2, t2 : /\ Answers(Tail(u), a2, t2)
                           /\ a[1] \in Nat /\ t[1] \in Nat /\ a2[1] \in Nat /\ t2[1] \in Nat
                           /\ a2[1] <= a[1] /\ t2[1] <= t[1]
    <2>1. PICK a2, t2 : /\ Answers(Tail(u), a2, t2)
                        /\ a2[1] = a[2] /\ t2[1] = t[2]
                        /\ a[1] = a[2] + Ack(Head(u)) /\ t[1] = t[2] + Answer(Head(u))
                        /\ a[2] \in Nat /\ t[2] \in Nat
      BY <1>1, AnswersTail
    <2>2. Ack(Head(u)) \in {0, 1} /\ Answer(Head(u)) \in {0, 1}
      BY DEF Ack, Answer
    <2>3. /\ a[1] \in Nat /\ t[1] \in Nat /\ a2[1] \in Nat /\ t2[1] \in Nat
          /\ a2[1] <= a[1] /\ t2[1] <= t[1]
      BY <2>1, <2>2
    <2> QED
      BY <2>1, <2>3
  <1>2. ASSUME Held(w, u, e, g, n, l) PROVE Held(w, Tail(u), e, g, m, l)
    <2>1. PICK idx, cnt, a, t : /\ Flow(w, e, idx, cnt) /\ Near(w, idx, g, n)
                                /\ Answers(u, a, t) /\ Balance(e, cnt[1], a[1], t[1], g, l)
      BY <1>2 DEF Held
    <2>2. PICK a2, t2 : /\ Answers(Tail(u), a2, t2)
                        /\ a[1] \in Nat /\ t[1] \in Nat /\ a2[1] \in Nat /\ t2[1] \in Nat
                        /\ a2[1] <= a[1] /\ t2[1] <= t[1]
      BY <1>1, <2>1
    <2>3. PICK C \in Nat, A \in Nat, T \in Nat, A2 \in Nat, T2 \in Nat, O \in Nat, P \in Nat,
               I \in Nat, S \in Nat :
            /\ cnt[1] = C /\ a[1] = A /\ t[1] = T /\ a2[1] = A2 /\ t2[1] = T2 /\ A2 <= A /\ T2 <= T
            /\ Outstanding(e) = O /\ e.acked = P /\ idx[1] = I /\ Step(w, 1) = S
      <3>1. cnt[1] \in Nat /\ idx[1] \in Nat /\ Outstanding(e) \in Nat /\ Step(w, 1) \in Nat
        BY <2>1, FlowTypes DEF Outstanding, Step
      <3> QED
        BY <2>2, <3>1
    <2>4. C + T + O <= 1 + l /\ P + A <= g + l /\ (e.state = "WaitingForReceiver" => C + T = 0)
      BY <2>1, <2>3 DEF Balance
    <2>5. Balance(e, C, A2, T2, g, l)
      <3>1. C + T2 + O <= 1 + l /\ P + A2 <= g + l /\ (e.state = "WaitingForReceiver" => C + T2 = 0)
        BY <2>3, <2>4
      <3> QED
        BY <2>3, <3>1 DEF Balance
    <2>6. Near(w, idx, g, m)
      BY <2>1, <2>3 DEF Near
    <2> QED
      BY <2>1, <2>2, <2>3, <2>5, <2>6 DEF Held
  <1>3. ASSUME Left(u, e, g, n, l) PROVE Left(Tail(u), e, g, m, l)
    <2>1. PICK a, t : /\ Answers(u, a, t)
                      /\ (e.acked + a[1] <= g + l /\ n > 0) \/ EndHeard(e, g, n, l)
      BY <1>3 DEF Left
    <2>2. PICK a2, t2 : /\ Answers(Tail(u), a2, t2)
                        /\ a[1] \in Nat /\ t[1] \in Nat /\ a2[1] \in Nat /\ t2[1] \in Nat
                        /\ a2[1] <= a[1] /\ t2[1] <= t[1]
      BY <1>1, <2>1
    <2>3. CASE e.acked + a[1] <= g + l /\ n > 0
      <3>1. PICK A \in Nat, A2 \in Nat, P \in Nat :
              a[1] = A /\ a2[1] = A2 /\ e.acked = P /\ A2 <= A
        BY <2>2
      <3>2. e.acked + a2[1] <= g + l /\ m > 0
        BY <2>3, <3>1
      <3> QED
        BY <2>2, <3>2 DEF Left
    <2>4. CASE EndHeard(e, g, n, l)
      <3>1. EndHeard(e, g, m, l)
        BY <2>4 DEF EndHeard
      <3> QED
        BY <2>2, <3>1 DEF Left
    <2> QED
      BY <2>1, <2>3, <2>4
  <1> QED
    BY <1>2, <1>3

(* The first item on its way is a packet: which one, with fewer than a full    *)
(* turn of block numbers between the device and the sender.                    *)
LEMMA PacketHead ==
    ASSUME NEW w \in Items, w # <<>>, IsPacket(Head(w)), NEW e, EngineOK(e), Live(e),
           NEW u \in Seq(UpBytes), NEW g \in Nat, NEW n \in Nat, NEW l \in Nat,
           n < BlockModulus - 1 \/ l < BlockModulus - 1,
           NEW idx, NEW cnt, NEW a, NEW t, Flow(w, e, idx, cnt), Near(w, idx, g, n),
           Answers(u, a, t), Balance(e, cnt[1], a[1], t[1], g, l)
    PROVE  \E I \in Nat :
           /\ idx[1] = I /\ I >= 1 /\ I <= e.pos
           /\ Head(w).number = I % BlockModulus /\ Head(w).block = e.file[I]
           /\ g <= I /\ I < g + BlockModulus /\ I <= g + n + 1
           /\ e.state # "WaitingForReceiver" /\ e.acked + 1 <= e.pos + Outstanding(e)
  <1>0. /\ e \in Engine /\ e.pos \in Nat /\ e.acked \in Nat /\ e.file \in Seq(Blocks)
        /\ e.pos <= Len(e.file) /\ Len(e.file) \in Nat
    <2>1. e \in Engine /\ e.pos <= Len(e.file)
      BY DEF EngineOK
    <2> QED
      BY <2>1, EngineTypes DEF Texts
  <1>1. PICK I \in Nat, A \in Nat, P \in Nat, Q \in Nat :
          idx[1] = I /\ a[1] = A /\ e.acked = P /\ e.pos = Q
    BY <1>0, FlowTypes, AnswersTypes
  <1>2. Carries(Head(w), idx[1], e) /\ Step(w, 1) = 1
    BY FlowTypes
  <1>3. Head(w) # Key /\ Head(w) # Byte("EOT")
    BY ItemsAreTyped
  <1>4. I \in 1..Q /\ Head(w) = Packet(I % BlockModulus, e.file[I])
    BY <1>1, <1>2, <1>3 DEF Carries
  <1>5. Head(w).number = I % BlockModulus /\ Head(w).block = e.file[I]
    BY <1>4 DEF Packet
  <1>6. g <= I /\ I <= g + n + 1
    BY <1>1, <1>2 DEF Near
  <1>7. Q <= P + 1 /\ (Ending(e) => Q = P)
    <2>1. e.state = "WaitingForReceiver" => e.pos = 0
      BY DEF EngineOK
    <2>2. e.state = "WaitingForBlockAck" => e.acked = e.pos - 1
      BY DEF EngineOK
    <2>3. Ending(e) => e.acked = e.pos
      BY DEF EngineOK
    <2> QED
      BY <1>1, <2>1, <2>2, <2>3 DEF Live, IsActive, ActiveStates, Ending
  <1>8. P + A <= g + l
    BY <1>1 DEF Balance
  <1>9. I < g + BlockModulus
    BY <1>4, <1>6, <1>7, <1>8, XmodemAssumption
  <1>10. e.state # "WaitingForReceiver" /\ P + 1 <= Q + Outstanding(e)
    <2>1. e.state = "WaitingForReceiver" => e.pos = 0
      BY DEF EngineOK
    <2>2. e.state = "WaitingForBlockAck" => e.acked = e.pos - 1
      BY DEF EngineOK
    <2> QED
      BY <1>1, <1>4, <1>7, <2>1, <2>2
      DEF Live, IsActive, ActiveStates, Ending, Outstanding
  <1> QED
    BY <1>1, <1>4, <1>5, <1>6, <1>9, <1>10

(* Blocks less than a full turn apart are told apart by their numbers.         *)
LEMMA NumberTells ==
    ASSUME NEW x \in Nat, NEW y \in Nat, x <= y, y < x + BlockModulus,
           x % BlockModulus = y % BlockModulus
    PROVE  x = y
  <1>1. BlockModulus \in Nat \ {0} /\ x \in Int /\ y \in Int
    BY XmodemAssumption
  <1> QED
    BY <1>1, ModInjective

(* The device takes a packet from the line: it answers the block it expects    *)
(* and the one before, which the packet then is, or gives up.                  *)
LEMMA DeviceTakesPacket ==
    ASSUME NEW w \in Items, w # <<>>, IsPacket(Head(w)), NEW e, EngineOK(e), Live(e),
           NEW u \in Seq(UpBytes), NEW g \in Nat, NEW n \in Nat, NEW l \in Nat,
           n < BlockModulus - 1 \/ l < BlockModulus - 1, Held(w, u, e, g, n, l)
    PROVE  LET p == Head(w)
               next == (g + 1) % BlockModulus
               last == g % BlockModulus IN
           /\ p.number = next =>
                /\ g + 1 <= e.pos /\ p.block = e.file[g + 1]
                /\ Held(Tail(w), Append(u, "ACK"), e, g + 1, n, l)
           /\ p.number # next /\ p.number = last =>
                Held(Tail(w), Append(u, "ACK"), e, g, n, l)
           /\ p.number # next /\ p.number # last =>
                Left(Append(Append(u, "CAN"), "CAN"), e, g, n, l)
           /\ Held(Tail(w), Append(u, "NAK"), e, g, n + 1, l)
  <1> DEFINE p == Head(w)
             next == (g + 1) % BlockModulus
             last == g % BlockModulus
  <1>1. PICK idx, cnt, a, t : /\ Flow(w, e, idx, cnt) /\ Near(w, idx, g, n)
                              /\ Answers(u, a, t) /\ Balance(e, cnt[1], a[1], t[1], g, l)
    BY DEF Held
  <1>2. PICK I \in Nat :
           /\ idx[1] = I /\ I >= 1 /\ I <= e.pos
           /\ p.number = I % BlockModulus /\ p.block = e.file[I]
           /\ g <= I /\ I < g + BlockModulus /\ I <= g + n + 1
           /\ e.state # "WaitingForReceiver" /\ e.acked + 1 <= e.pos + Outstanding(e)
    BY <1>1, PacketHead
  <1>3. PICK idx2, cnt2 : /\ Flow(Tail(w), e, idx2, cnt2)
                          /\ idx2[1] = idx[2] /\ cnt2[1] = cnt[2]
                          /\ Step(Tail(w), 1) = Step(w, 2)
    BY <1>1, FlowTail
  <1>4. /\ e.acked \in Nat /\ e.pos \in Nat
    <2>1. e \in Engine
      BY DEF EngineOK
    <2> QED
      BY <2>1, EngineTypes
  <1>5. PICK C \in Nat, A \in Nat, T \in Nat, J \in Nat, C2 \in Nat, O \in Nat, P \in Nat, Q \in Nat,
             S \in Nat :
          /\ cnt[1] = C /\ a[1] = A /\ t[1] = T /\ idx2[1] = J /\ cnt2[1] = C2
          /\ Outstanding(e) = O /\ e.acked = P /\ e.pos = Q /\ Step(Tail(w), 1) = S
          /\ I <= J /\ J <= I + S /\ C = C2 + 1 /\ C + I >= Q + 1 /\ A <= T
    <2>1. Outstanding(e) \in Nat /\ Step(Tail(w), 1) \in Nat
      BY DEF Outstanding, Step
    <2>2. /\ idx[1] <= idx[2] /\ idx[2] <= idx[1] + Step(w, 2)
          /\ cnt[1] = cnt[2] + 1 /\ cnt[1] + idx[1] >= e.pos + 1
          /\ idx[2] \in Nat /\ cnt[2] \in Nat /\ cnt[1] \in Nat
      BY <1>1, FlowTypes
    <2>3. a[1] \in Nat /\ t[1] \in Nat /\ a[1] <= t[1]
      BY <1>1, AnswersTypes
    <2> QED
      BY <1>2, <1>3, <1>4, <2>1, <2>2, <2>3
  <1>6. C + T + O <= 1 + l /\ P + A <= g + l
    BY <1>1, <1>5 DEF Balance
  <1>7. P + 1 <= Q + O
    BY <1>2, <1>5
  <1>8. ASSUME NEW b \in UpBytes, NEW h \in Nat, NEW m \in Nat, b \in {"ACK", "NAK"},
               h <= I, I <= h + m, P + A + Ack(b) <= h + l
        PROVE  Held(Tail(w), Append(u, b), e, h, m, l)
    <2>1. PICK a2, t2 : /\ Answers(Append(u, b), a2, t2)
                        /\ a2[1] = a[1] + Ack(b) /\ t2[1] = t[1] + Answer(b)
      BY <1>1, AnswersAppend
    <2>2. PICK k \in {0, 1} : Ack(b) = k /\ Answer(b) = 1
      BY <1>8 DEF Ack, Answer
    <2>3. a2[1] = A + k /\ t2[1] = T + 1
      BY <1>5, <2>1, <2>2
    <2>4. Balance(e, C2, A + k, T + 1, h, l)
      <3>1. C2 + (T + 1) + O <= 1 + l
        BY <1>5, <1>6
      <3>2. P + (A + k) <= h + l
        BY <1>8, <2>2
      <3> QED
        BY <1>2, <1>5, <3>1, <3>2 DEF Balance
    <2>5. Near(Tail(w), idx2, h, m)
      <3>1. h <= J /\ J <= h + m + S
        BY <1>5, <1>8
      <3> QED
        BY <1>5, <3>1 DEF Near
    <2> QED
      BY <1>3, <1>5, <2>1, <2>3, <2>4, <2>5 DEF Held
  <1>9. Ack("ACK") = 1 /\ Ack("NAK") = 0 /\ Ack("CAN") = 0
    BY DEF Ack
  <1> HIDE DEF p
  <1>10. ASSUME p.number = next
         PROVE  /\ g + 1 <= e.pos /\ p.block = e.file[g + 1]
                /\ Held(Tail(w), Append(u, "ACK"), e, g + 1, n, l)
    <2>1. I = g + 1
      <3>1. I % BlockModulus = (g + 1) % BlockModulus
        BY <1>2, <1>10
      <3>2. CASE g + 1 <= I
        <4>1. g + 1 \in Nat /\ I < (g + 1) + BlockModulus
          BY <1>2, XmodemAssumption
        <4> QED
          BY <3>1, <3>2, <4>1, NumberTells
      <3>3. CASE I = g
        <4>1. g + 1 \in Nat /\ g <= g + 1 /\ g + 1 < g + BlockModulus
          BY XmodemAssumption
        <4>2. g % BlockModulus = (g + 1) % BlockModulus
          BY <3>1, <3>3
        <4>3. g = g + 1
          BY <4>1, <4>2, NumberTells
        <4> QED
          BY <4>3
      <3> QED
        BY <1>2, <3>2, <3>3
    <2>2. g + 1 <= e.pos /\ p.block = e.file[g + 1]
      BY <1>2, <2>1
    <2>3. g + 1 \in Nat /\ g + 1 <= I /\ I <= g + 1 + n /\ P + A + Ack("ACK") <= (g + 1) + l
      BY <1>6, <1>9, <2>1
    <2>4. Held(Tail(w), Append(u, "ACK"), e, g + 1, n, l)
      BY <1>8, <2>3 DEF UpBytes
    <2> QED
      BY <2>2, <2>4
  <1>11. ASSUME p.number # next, p.number = last
         PROVE  Held(Tail(w), Append(u, "ACK"), e, g, n, l)
    <2>1. I = g
      <3>1. g % BlockModulus = I % BlockModulus /\ g <= I /\ I < g + BlockModulus
        BY <1>2, <1>11
      <3> QED
        BY <3>1, NumberTells
    <2>2. P + A + Ack("ACK") <= g + l
      BY <1>5, <1>6, <1>7, <1>9, <2>1
    <2>3. g <= I /\ I <= g + n
      BY <2>1
    <2> QED
      BY <1>8, <2>2, <2>3 DEF UpBytes
  <1>12. ASSUME p.number # next, p.number # last
         PROVE  Left(Append(Append(u, "CAN"), "CAN"), e, g, n, l)
    <2>1. n > 0
      <3>1. I # g /\ I # g + 1
        BY <1>2, <1>12
      <3> QED
        BY <1>2, <3>1
    <2>2. PICK a2, t2 : /\ Answers(Append(u, "CAN"), a2, t2)
                        /\ a2[1] = a[1] + Ack("CAN")
      BY <1>1, AnswersAppend DEF UpBytes
    <2>3. Append(u, "CAN") \in Seq(UpBytes)
      BY AppendProperties DEF UpBytes
    <2>4. PICK a3, t3 : /\ Answers(Append(Append(u, "CAN"), "CAN"), a3, t3)
                        /\ a3[1] = a2[1] + Ack("CAN")
      BY <2>2, <2>3, AnswersAppend, ZenonT(60) DEF UpBytes
    <2>5. a3[1] = A
      BY <1>5, <1>9, <2>2, <2>4
    <2>6. e.acked + a3[1] <= g + l
      BY <1>5, <1>6, <2>5
    <2> QED
      BY <2>1, <2>4, <2>6 DEF Left
  <1>13. Held(Tail(w), Append(u, "NAK"), e, g, n + 1, l)
    <2>1. n + 1 \in Nat /\ g <= I /\ I <= g + (n + 1) /\ P + A + Ack("NAK") <= g + l
      BY <1>2, <1>6, <1>9
    <2> QED
      BY <1>8, <2>1 DEF UpBytes
  <1> QED
    BY <1>10, <1>11, <1>12, <1>13 DEF p

(* The device takes the end: everything was sent and, unless it was damaged    *)
(* and answers were late, received.                                            *)
LEMMA DeviceTakesEnd ==
    ASSUME NEW w \in Items, w # <<>>, Head(w) = Byte("EOT"), NEW e, EngineOK(e),
           NEW u \in Seq(UpBytes), NEW g \in Nat, NEW n \in Nat, NEW l \in Nat,
           g <= e.pos, Held(w, u, e, g, n, l)
    PROVE  Left(Append(u, "ACK"), e, g, n, l)
  <1>1. PICK idx, cnt, a, t : /\ Flow(w, e, idx, cnt) /\ Near(w, idx, g, n)
                              /\ Answers(u, a, t) /\ Balance(e, cnt[1], a[1], t[1], g, l)
    BY DEF Held
  <1>2. ~IsPacket(Head(w)) /\ Head(w) # Key
    BY ItemsAreTyped
  <1>3. Carries(Head(w), idx[1], e) /\ Step(w, 1) = 0
    BY <1>1, <1>2, FlowTypes
  <1>4. /\ e \in Engine /\ e.acked \in Nat /\ e.pos \in Nat
        /\ e.file \in Seq(Blocks) /\ e.pos <= Len(e.file) /\ Len(e.file) \in Nat
    <2>1. e \in Engine /\ e.pos <= Len(e.file)
      BY DEF EngineOK
    <2> QED
      BY <2>1, EngineTypes DEF Texts
  <1>5. Ending(e) /\ idx[1] = e.pos
    <2>1. ASSUME idx[1] \in 1..e.pos, Head(w) = Packet(idx[1] % BlockModulus, e.file[idx[1]])
          PROVE  FALSE
      <3>1. idx[1] \in 1..Len(e.file)
        BY <1>4, <2>1
      <3>2. Packet(idx[1] % BlockModulus, e.file[idx[1]]) # Byte("EOT")
        BY <1>4, <3>1, PacketsAreTyped
      <3> QED
        BY <2>1, <3>2
    <2> QED
      BY <1>2, <1>3, <2>1 DEF Carries
  <1>6. e.acked = e.pos
    BY <1>5 DEF EngineOK
  <1>7. PICK A \in Nat, P \in Nat : a[1] = A /\ e.acked = P /\ e.pos = P
    BY <1>1, <1>4, <1>6, AnswersTypes
  <1>8. P + A <= g + l
    BY <1>1, <1>7 DEF Balance
  <1>9. P <= g + n
    BY <1>1, <1>3, <1>5, <1>7 DEF Near
  <1>10. P <= g + l /\ (g = P \/ l > 1 \/ (l > 0 /\ n > 0))
    BY <1>7, <1>8, <1>9
  <1>11. EndHeard(e, g, n, l)
    BY <1>5, <1>7, <1>10 DEF EndHeard
  <1>12. \E a2, t2 : Answers(Append(u, "ACK"), a2, t2)
    BY <1>1, AnswersAppend DEF UpBytes
  <1> QED
    BY <1>11, <1>12 DEF Left

(* A key typed before the transfer goes by; the device asks again.             *)
LEMMA KeyGoesBy ==
    ASSUME NEW w \in Items, w # <<>>, Head(w) = Key, NEW e, NEW u \in Seq(UpBytes),
           NEW g \in Nat, NEW n \in Nat, NEW l \in Nat, Held(w, u, e, g, n, l)
    PROVE  Held(Tail(w), u, e, g, n, l)
  <1>1. PICK idx, cnt, a, t : /\ Flow(w, e, idx, cnt) /\ Near(w, idx, g, n)
                              /\ Answers(u, a, t) /\ Balance(e, cnt[1], a[1], t[1], g, l)
    BY DEF Held
  <1>2. PICK idx2, cnt2 : /\ Flow(Tail(w), e, idx2, cnt2)
                          /\ idx2[1] = idx[2] /\ cnt2[1] = cnt[2]
                          /\ Step(Tail(w), 1) = Step(w, 2)
    BY <1>1, FlowTail
  <1>3. ~IsPacket(Head(w))
    BY ItemsAreTyped
  <1>4. PICK I \in Nat, J \in Nat, S \in Nat :
          /\ idx[1] = I /\ idx2[1] = J /\ Step(Tail(w), 1) = S
          /\ I <= J /\ J <= I + S /\ Step(w, 1) = 0
    <2>1. /\ idx[1] \in Nat /\ idx[2] \in Nat
          /\ idx[1] <= idx[2] /\ idx[2] <= idx[1] + Step(w, 2) /\ Step(w, 1) = 0
      BY <1>1, <1>3, FlowTypes
    <2>2. Step(Tail(w), 1) \in Nat
      BY DEF Step
    <2> QED
      BY <1>2, <2>1, <2>2
  <1>5. cnt2[1] = cnt[1]
    <2>1. cnt[1] = cnt[2] + Step(w, 1) /\ cnt[2] \in Nat
      BY <1>1, FlowTypes
    <2> QED
      BY <1>2, <1>4, <2>1
  <1>6. g <= I /\ I <= g + n + 0
    BY <1>1, <1>4 DEF Near
  <1>7. Near(Tail(w), idx2, g, n)
    <2>1. g <= J /\ J <= g + n + S
      BY <1>4, <1>6
    <2> QED
      BY <1>4, <2>1 DEF Near
  <1> QED
    BY <1>1, <1>2, <1>5, <1>7 DEF Held

LEMMA DeviceAsks ==
    ASSUME NEW w, NEW e, NEW u \in Seq(UpBytes), NEW g, NEW n, NEW l, Held(w, u, e, g, n, l)
    PROVE  Held(w, Append(u, "C"), e, g, n, l)
  <1>1. PICK idx, cnt, a, t : /\ Flow(w, e, idx, cnt) /\ Near(w, idx, g, n)
                              /\ Answers(u, a, t) /\ Balance(e, cnt[1], a[1], t[1], g, l)
    BY DEF Held
  <1>2. PICK a2, t2 : /\ Answers(Append(u, "C"), a2, t2)
                      /\ a2[1] = a[1] + Ack("C") /\ t2[1] = t[1] + Answer("C")
    BY <1>1, AnswersAppend DEF UpBytes
  <1>3. a2[1] = a[1] /\ t2[1] = t[1]
    <2>1. Ack("C") = 0 /\ Answer("C") = 0 /\ a[1] \in Nat /\ t[1] \in Nat
      BY <1>1, AnswersTypes DEF Ack, Answer
    <2> QED
      BY <1>2, <2>1
  <1> QED
    BY <1>1, <1>2, <1>3 DEF Held

(* A transfer begins with a device that waits and a quiet line.                *)
LEMMA HeldStart ==
    ASSUME NEW w \in Items, \A i \in 1..Len(w) : w[i] = Key,
           NEW u \in Seq(UpBytes), \A i \in 1..Len(u) : u[i] = "C",
           NEW e, e.pos = 0, e.acked = 0, e.state = "WaitingForReceiver",
           NEW n \in Nat, NEW l \in Nat
    PROVE  Held(w, u, e, 0, n, l)
  <1> DEFINE idx == [i \in 1..(Len(w) + 1) |-> 0]
             a == [i \in 1..(Len(u) + 1) |-> 0]
  <1>1. Flow(w, e, idx, idx) /\ Step(w, 1) = 0
    BY FlowStart
  <1>2. Answers(u, a, a)
    BY AnswersStart
  <1>3. idx[1] = 0 /\ a[1] = 0
    <2>1. Len(w) \in Nat /\ Len(u) \in Nat
      BY DEF Items
    <2> QED
      BY <2>1
  <1> HIDE DEF idx, a
  <1>4. Near(w, idx, 0, n)
    BY <1>1, <1>3 DEF Near
  <1>5. Balance(e, idx[1], a[1], a[1], 0, l)
    BY <1>3 DEF Balance, Outstanding
  <1> QED
    BY <1>1, <1>2, <1>4, <1>5 DEF Held

-----------------------------------------------------------------------------
(* The steps of the transfer                                                   *)

LEMMA FrontLeaves ==
    ASSUME NEW d \in Items, NEW o \in Items, d # <<>>
    PROVE  /\ d \o o \in Items /\ d \o o # <<>> /\ Head(d \o o) = Head(d)
           /\ Tail(d \o o) = Tail(d) \o o
  <1>1. /\ d \in Seq(Item) /\ o \in Seq(Item) /\ Len(d) \in Nat /\ Len(o) \in Nat /\ Len(d) >= 1
    BY DEF Items
  <1>2. /\ d \o o \in Seq(Item) /\ Len(d \o o) = Len(d) + Len(o)
        /\ \A i \in 1..(Len(d) + Len(o)) : (d \o o)[i] = IF i <= Len(d) THEN d[i] ELSE o[i - Len(d)]
    BY <1>1, ConcatProperties
  <1>3. d \o o # <<>> /\ Head(d \o o) = Head(d)
    BY <1>1, <1>2
  <1>4. /\ Tail(d \o o) \in Seq(Item) /\ Len(Tail(d \o o)) = Len(d) + Len(o) - 1
        /\ \A i \in 1..(Len(d) + Len(o) - 1) : Tail(d \o o)[i] = (d \o o)[i + 1]
    BY <1>1, <1>2, <1>3, HeadTailProperties
  <1>5. /\ Tail(d) \in Seq(Item) /\ Len(Tail(d)) = Len(d) - 1
        /\ \A i \in 1..(Len(d) - 1) : Tail(d)[i] = d[i + 1]
    BY <1>1, HeadTailProperties
  <1>6. /\ Tail(d) \o o \in Seq(Item) /\ Len(Tail(d) \o o) = Len(d) - 1 + Len(o)
        /\ \A i \in 1..(Len(d) - 1 + Len(o)) :
             (Tail(d) \o o)[i] = IF i <= Len(d) - 1 THEN Tail(d)[i] ELSE o[i - (Len(d) - 1)]
    BY <1>1, <1>5, ConcatProperties
  <1>7. ASSUME NEW i \in 1..(Len(d) + Len(o) - 1) PROVE Tail(d \o o)[i] = (Tail(d) \o o)[i]
    <2>1. /\ i + 1 \in 1..(Len(d) + Len(o)) /\ i \in 1..(Len(d) - 1 + Len(o))
          /\ (i + 1) - Len(d) = i - (Len(d) - 1)
      BY <1>1
    <2>2. CASE i <= Len(d) - 1
      <3>1. i \in 1..(Len(d) - 1) /\ i + 1 <= Len(d)
        BY <1>1, <2>2
      <3> QED
        BY <1>2, <1>4, <1>5, <1>6, <2>1, <2>2, <3>1
    <2>3. CASE ~(i <= Len(d) - 1)
      <3>1. ~(i + 1 <= Len(d))
        BY <1>1, <2>3
      <3> QED
        BY <1>2, <1>4, <1>6, <2>1, <2>3, <3>1
    <2> QED
      BY <2>2, <2>3
  <1>8. Tail(d \o o) = Tail(d) \o o
    <2>1. Len(Tail(d \o o)) = Len(Tail(d) \o o)
      BY <1>1, <1>4, <1>6
    <2>2. \A i \in 1..Len(Tail(d \o o)) : Tail(d \o o)[i] = (Tail(d) \o o)[i]
      BY <1>4, <1>7
    <2> QED
      BY <1>4, <1>6, <2>1, <2>2, SeqEqual
  <1> QED
    BY <1>2, <1>3, <1>8 DEF Items

LEMMA TransferTypes ==
    ASSUME SerialTypes
    PROVE  /\ EngineOK(engine) /\ engine.out \in Items /\ engine.acked \in Nat /\ engine.pos \in Nat
           /\ down \in Items /\ Sent \in Items /\ up \in Seq(UpBytes)
           /\ receiver.got \in Seq(Blocks) /\ Len(receiver.got) \in Nat
           /\ spent.noise \in Nat /\ spent.late \in Nat
           /\ ~Wrapped <=> spent.noise < BlockModulus - 1 \/ spent.late < BlockModulus - 1
  <1>1. EngineOK(engine) /\ engine.out \in Items /\ engine.acked \in Nat /\ engine.pos \in Nat
    <2>1. EngineOK(engine) /\ engine \in Engine
      BY DEF SerialTypes, EngineOK
    <2> QED
      BY <2>1, EngineTypes
  <1>2. down \in Items /\ Sent \in Items /\ up \in Seq(UpBytes)
    <2>1. down \in Items /\ up \in Seq(UpBytes)
      BY DEF SerialTypes
    <2> QED
      BY <1>1, <2>1, ConcatProperties DEF Items, Sent
  <1>3. receiver.got \in Seq(Blocks) /\ Len(receiver.got) \in Nat
    BY ReceiverIsTyped DEF SerialTypes, Texts
  <1>4. spent.noise \in Nat /\ spent.late \in Nat
    BY Kinds DEF SerialTypes
  <1>5. ~Wrapped <=> spent.noise < BlockModulus - 1 \/ spent.late < BlockModulus - 1
    BY <1>4, XmodemAssumption DEF Wrapped
  <1> QED
    BY <1>1, <1>2, <1>3, <1>4, <1>5

(* A step that touches neither the engine, nor the line, nor the device.       *)
LEMMA Unaffected ==
    ASSUME TransferInv, UNCHANGED <<engine, down, up, receiver>>,
           spent'.noise = spent.noise, spent'.late = spent.late
    PROVE  TransferInv'
  BY DEF TransferInv, Sent, Wrapped

LEMMA GuiKeepsTransfer ==
    ASSUME SerialTypes, TransferInv, Gui \/ OnSignal PROVE TransferInv'
  <1>1. UNCHANGED <<engine, down, up, receiver>>
    <2>1. CASE Connect
      BY <2>1 DEF Connect, line
    <2>2. CASE Disconnect
      BY <2>2 DEF Disconnect, line
    <2>3. CASE Type
      BY <2>3 DEF Type, line
    <2>4. CASE ChooseFile
      BY <2>4 DEF ChooseFile, line
    <2>5. CASE StartXmodem
      BY <2>5 DEF StartXmodem, line
    <2>6. CASE CancelXmodem
      BY <2>6 DEF CancelXmodem, line
    <2>7. CASE OnSignal
      BY <2>7 DEF OnSignal, line
    <2> QED
      BY <2>1, <2>2, <2>3, <2>4, <2>5, <2>6, <2>7 DEF Gui
  <1>2. spent'.noise = spent.noise /\ spent'.late = spent.late
    <2>1. CASE Type \/ ChooseFile
      <3>1. PICK kind \in {"keys", "transfers"} : Spend(kind)
        BY <2>1 DEF Type, ChooseFile
      <3> QED
        BY <3>1, Kinds, SpendIsTyped DEF SerialTypes
    <2>2. CASE spent' = spent
      BY <2>2
    <2> QED
      BY <2>1, <2>2 DEF Gui, Connect, Disconnect, StartXmodem, CancelXmodem, OnSignal
  <1> QED
    BY <1>1, <1>2, Unaffected

(* The engine has sent what it had; its clock may have run.                    *)
LEMMA HeldFlush ==
    ASSUME NEW w, NEW u, NEW e, NEW r, r.state = e.state, r.file = e.file, r.pos = e.pos,
           r.acked = e.acked, NEW g \in Nat, NEW n \in Nat, NEW l \in Nat, NEW m \in Nat, m >= l,
           e.acked \in Nat, w \in Items, u \in Seq(UpBytes)
    PROVE  /\ Held(w, u, e, g, n, l) => Held(w, u, r, g, n, m)
           /\ Left(u, e, g, n, l) => Left(u, r, g, n, m)
  <1>0. Ending(r) = Ending(e) /\ Outstanding(r) = Outstanding(e)
    BY DEF Ending, Outstanding
  <1>1. ASSUME Held(w, u, e, g, n, l) PROVE Held(w, u, r, g, n, m)
    <2>1. PICK idx, cnt, a, t : /\ Flow(w, e, idx, cnt) /\ Near(w, idx, g, n)
                                /\ Answers(u, a, t) /\ Balance(e, cnt[1], a[1], t[1], g, l)
      BY <1>1 DEF Held
    <2>2. Flow(w, r, idx, cnt)
      BY <1>0, <2>1, FlowKept
    <2>3. PICK C \in Nat, A \in Nat, T \in Nat, O \in Nat, P \in Nat :
            cnt[1] = C /\ a[1] = A /\ t[1] = T /\ Outstanding(e) = O /\ e.acked = P
      <3>1. Outstanding(e) \in Nat
        BY DEF Outstanding
      <3> QED
        BY <2>1, <3>1, FlowTypes, AnswersTypes
    <2>4. C + T + O <= 1 + l /\ P + A <= g + l /\ (e.state = "WaitingForReceiver" => C + T = 0)
      BY <2>1, <2>3 DEF Balance
    <2>5. C + T + O <= 1 + m /\ P + A <= g + m
      BY <2>4
    <2>6. Balance(r, C, A, T, g, m)
      BY <1>0, <2>3, <2>4, <2>5 DEF Balance
    <2> QED
      BY <2>1, <2>2, <2>3, <2>6 DEF Held
  <1>2. ASSUME Left(u, e, g, n, l) PROVE Left(u, r, g, n, m)
    <2>1. PICK a, t : /\ Answers(u, a, t)
                      /\ (e.acked + a[1] <= g + l /\ n > 0) \/ EndHeard(e, g, n, l)
      BY <1>2 DEF Left
    <2>2. CASE e.acked + a[1] <= g + l /\ n > 0
      <3>1. PICK A \in Nat, P \in Nat : a[1] = A /\ e.acked = P
        BY <2>1, AnswersTypes
      <3>2. r.acked + a[1] <= g + m
        BY <2>2, <3>1
      <3> QED
        BY <2>1, <2>2, <3>2 DEF Left
    <2>3. CASE EndHeard(e, g, n, l)
      <3>1. EndHeard(r, g, n, m)
        BY <1>0, <2>3 DEF EndHeard
      <3> QED
        BY <2>1, <3>1 DEF Left
    <2> QED
      BY <2>1, <2>2, <2>3
  <1> QED
    BY <1>1, <1>2

(* The start of a transfer, its first packet not sent yet.                     *)
LEMMA TransferStarts ==
    ASSUME SerialTypes, SerialTypes', ReceiverInv, taken.file # NoFile,
           engine'.pos = 0, engine'.acked = 0, engine'.state = "WaitingForReceiver",
           engine'.out = <<>>, down' = down \/ down' = down \o taken.input,
           up' = up, receiver' = receiver
    PROVE  TransferInv'
  <1>1. /\ receiver.mode = "Asking" /\ receiver.got = <<>>
        /\ \A i \in 1..Len(up) : up[i] = "C"
        /\ \A i \in 1..Len(down) : down[i] = Key
    BY WaitingLine DEF ReceiverInv
  <1>2. down \in Seq(Item) /\ taken.input \in Seq({Key}) /\ taken.input \in Seq(Item)
    <2>1. down \in Seq(Item) /\ taken.input \in Seq({Key})
      BY DEF SerialTypes, Items, Taken, Keys
    <2> QED
      BY <2>1, ItemsAreTyped, SeqMonotonic
  <1>3. \A i \in 1..Len(down') : down'[i] = Key
    <2>1. CASE down' = down \o taken.input
      <3>1. \A i \in 1..Len(taken.input) : taken.input[i] = Key
        BY <1>2
      <3> QED
        BY <1>1, <1>2, <2>1, <3>1, ConcatProperties
    <2> QED
      BY <1>1, <2>1
  <1>4. Sent' = down' /\ down' \in Items
    BY ConcatEmptySeq DEF Sent, SerialTypes, Items
  <1>5. up' \in Seq(UpBytes) /\ spent'.noise \in Nat /\ spent'.late \in Nat
    BY Kinds DEF SerialTypes
  <1>6. Held(Sent', up', engine', 0, spent'.noise, spent'.late)
    <2>1. \A i \in 1..Len(up') : up'[i] = "C"
      BY <1>1
    <2> QED
      BY <1>3, <1>4, <1>5, <2>1, HeldStart
  <1>7. Prefix(engine', receiver'.got) /\ Len(receiver'.got) = 0 /\ receiver'.mode # "Off"
    BY <1>1 DEF Prefix
  <1> QED
    BY <1>6, <1>7 DEF TransferInv

LEMMA PumpKeepsTransfer ==
    ASSUME LineInv, SerialTypes, SerialTypes', ReceiverInv, TransferInv, Pump PROVE TransferInv'
  <1> DEFINE g == Len(receiver.got)
             n == spent.noise
             l == spent.late
  <1>1. PICK expired \in BOOLEAN :
          /\ Expired(engine, expired)
          /\ down' = down \o taken.input \o Prepared(expired).out
          /\ Concluded(Prepared(expired))
          /\ IF expired /\ Answering THEN Spend("late") ELSE UNCHANGED spent
    BY DEF Pump
  <1> DEFINE e == Prepared(expired)
  <1>2. up' = up /\ receiver' = receiver
    BY DEF Pump
  <1>3. /\ EngineOK(e)
        /\ \/ e = engine
           \/ Stopped(e)
           \/ taken.file # NoFile /\ e = StartEngine(taken.file)
           \/ /\ expired /\ IsActive(engine) /\ taken.file = NoFile
              /\ e.file = engine.file
              /\ \/ Same(engine, e)
                 \/ Repeats(engine, e)
                 \/ SendsEot(engine, e) /\ engine.state = "WaitingForEotAck"
    BY <1>1, PreparedDoes
  <1>4. spent'.noise = n /\ spent'.late \in {l, l + 1} /\ (~(expired /\ Answering) => spent'.late = l)
    BY <1>1, Kinds, SpendIsTyped DEF SerialTypes
  <1>5. expired /\ Answering => spent'.late = l + 1
    BY <1>1, Kinds, SpendIsTyped DEF SerialTypes
  <1>6. /\ g \in Nat /\ n \in Nat /\ l \in Nat /\ spent'.late \in Nat /\ spent'.late >= l
        /\ up \in Seq(UpBytes) /\ down \in Items /\ EngineOK(engine)
        /\ (~Wrapped' => ~Wrapped)
    <2>1. /\ g \in Nat /\ n \in Nat /\ l \in Nat
          /\ up \in Seq(UpBytes) /\ down \in Items /\ EngineOK(engine)
      BY TransferTypes
    <2>2. spent'.late \in Nat /\ spent'.late >= l
      BY <1>4, <2>1
    <2> QED
      BY <1>4, <2>1, <2>2, XmodemAssumption DEF Wrapped
  <1> HIDE DEF e
  <1>7. CASE IsDone(e)
    <2>1. engine' = IdleEngine
      BY <1>1, <1>7 DEF Concluded, e
    <2> QED
      BY <2>1 DEF TransferInv, Live, IdleEngine, IsActive, ActiveStates
  <1>8. CASE ~IsDone(e)
    <2>1. engine' = [e EXCEPT !.out = <<>>]
      BY <1>1, <1>8 DEF Concluded, e
    <2>2. /\ engine'.state = e.state /\ engine'.file = e.file /\ engine'.pos = e.pos
          /\ engine'.acked = e.acked /\ engine'.out = <<>>
      BY <1>3, <2>1, FlushDoes
    <2>3. CASE taken.file # NoFile /\ e = StartEngine(taken.file)
      <3>1. taken.file \in Texts
        BY <2>3, FilesAreTexts DEF SerialTypes, Taken, Requests
      <3>2. e.pos = 0 /\ e.acked = 0 /\ e.state = "WaitingForReceiver" /\ e.out = <<>>
        BY <2>3, <3>1, StartTypes
      <3>3. down' = down \o taken.input
        <4>1. down \o taken.input \in Seq(Item)
          <5>1. down \in Seq(Item) /\ taken.input \in Seq(Item)
            BY ItemsAreTyped, SeqMonotonic DEF SerialTypes, Taken, Keys, Items
          <5> QED
            BY <5>1, ConcatProperties
        <4> QED
          BY <1>1, <3>2, <4>1, ConcatEmptySeq DEF e
      <3> QED
        BY <1>2, <2>2, <2>3, <3>2, <3>3, TransferStarts
    <2>4. CASE ~(taken.file # NoFile /\ e = StartEngine(taken.file))
      <3> SUFFICES ASSUME Live(engine'), ~Wrapped' PROVE TransferInv'
        BY DEF TransferInv
      <3>1. Live(e) /\ ~Wrapped
        BY <1>6, <2>2 DEF Live, IsActive
      <3>2. ~Stopped(e)
        BY <3>1 DEF Stopped, Live, IsActive, ActiveStates
      <3>3. /\ Live(engine) /\ taken.file = NoFile /\ e.file = engine.file /\ e.pos = engine.pos
        <4>1. CASE e = engine
          <5>1. engine # IdleEngine
            BY <3>1, <4>1 DEF Live, IdleEngine, IsActive, ActiveStates
          <5> QED
            BY <3>1, <4>1, <5>1 DEF LineInv
        <4>2. CASE IsActive(engine) /\ taken.file = NoFile /\ e.file = engine.file
                   /\ \/ Same(engine, e)
                      \/ Repeats(engine, e)
                      \/ SendsEot(engine, e)
          BY <4>2 DEF Live, Same, Repeats, SendsEot
        <4> QED
          BY <1>3, <2>4, <3>2, <4>1, <4>2
      <3>4. taken.input = <<>>
        <4>1. engine # IdleEngine
          BY <3>3 DEF Live, IdleEngine, IsActive, ActiveStates
        <4> QED
          BY <3>3, <4>1 DEF LineInv, Busy
      <3>5. e.out \in Items /\ down \o e.out \in Items
        <4>1. e.out \in Items
          BY <1>3, EngineTypes DEF EngineOK
        <4> QED
          BY <1>6, <4>1, ConcatProperties DEF Items
      <3>6. down' = down \o e.out /\ Sent' = down \o e.out
        <4>1. down' = down \o e.out
          BY <1>1, <1>6, <3>4, ConcatEmptySeq DEF Items, e
        <4>2. (down \o e.out) \o <<>> = down \o e.out
          BY <3>5, ConcatEmptySeq DEF Items
        <4> QED
          BY <2>2, <4>1, <4>2 DEF Sent
      <3>7. /\ Prefix(engine, receiver.got)
            /\ receiver.mode # "Off" => Held(down \o engine.out, up, engine, g, n, l)
            /\ receiver.mode = "Off" => Left(up, engine, g, n, l)
        BY <3>1, <3>3 DEF TransferInv, Sent
      <3>8. /\ receiver.mode # "Off" => Held(down \o e.out, up, e, g, n, spent'.late)
            /\ receiver.mode = "Off" => Left(up, e, g, n, spent'.late)
        <4>1. CASE e = engine
          <5>1. /\ down \o engine.out \in Items /\ engine.acked \in Nat
            BY TransferTypes DEF Sent
          <5> QED
            BY <1>6, <3>7, <4>1, <5>1, HeldFlush
        <4>2. CASE /\ expired /\ IsActive(engine)
                   /\ \/ Same(engine, e)
                      \/ Repeats(engine, e)
                      \/ SendsEot(engine, e) /\ engine.state = "WaitingForEotAck"
          <5>1. engine.out = <<>>
            BY <1>1, <4>2 DEF Expired
          <5>2. \/ spent'.late = l + 1
                \/ /\ spent'.late = l /\ down \o engine.out = <<>>
                   /\ \A i \in 1..Len(up) : up[i] = "C"
            <6>1. CASE Answering
              BY <1>5, <4>2, <6>1
            <6>2. CASE ~Answering
              <7>1. down = <<>> /\ \A b \in ToSet(up) : b = "C"
                BY <6>2 DEF Answering
              <7>2. \A i \in 1..Len(up) : up[i] = "C"
                BY <1>6, <7>1 DEF ToSet
              <7> QED
                BY <1>4, <5>1, <6>2, <7>1, <7>2
            <6> QED
              BY <6>1, <6>2
          <5>3. CASE receiver.mode # "Off"
            BY <1>3, <1>6, <3>3, <3>7, <4>2, <5>2, <5>3, TimeoutKeepsHeld
          <5>4. CASE receiver.mode = "Off"
            BY <1>3, <1>6, <3>7, <4>2, <5>4, TimeoutKeepsLeft
          <5> QED
            BY <5>3, <5>4
        <4> QED
          BY <1>3, <2>4, <3>2, <4>1, <4>2
      <3>9. e.acked \in Nat
        BY <1>3, EngineTypes DEF EngineOK
      <3>10. /\ receiver.mode # "Off" => Held(down \o e.out, up, engine', g, n, spent'.late)
             /\ receiver.mode = "Off" => Left(up, engine', g, n, spent'.late)
        <4>1. PICK m \in Nat : spent'.late = m
          BY <1>6
        <4>2. m >= m /\ e.acked \in Nat /\ down \o e.out \in Items /\ up \in Seq(UpBytes)
              /\ g \in Nat /\ n \in Nat
          BY <1>6, <3>5, <3>9
        <4>3. Held(down \o e.out, up, e, g, n, m) => Held(down \o e.out, up, engine', g, n, m)
          BY <2>2, <4>2, HeldFlush
        <4>4. Left(up, e, g, n, m) => Left(up, engine', g, n, m)
          BY <2>2, <4>2, HeldFlush
        <4> QED
          BY <3>8, <4>1, <4>3, <4>4
      <3>11. Prefix(engine', receiver'.got)
        BY <1>2, <2>2, <3>3, <3>7 DEF Prefix
      <3> QED
        BY <1>2, <1>4, <3>6, <3>10, <3>11 DEF TransferInv
    <2> QED
      BY <2>3, <2>4
  <1> QED
    BY <1>7, <1>8

LEMMA ReadKeepsTransfer ==
    ASSUME SerialTypes, SerialTypes', TransferInv, Read PROVE TransferInv'
  <1>1. down' = down /\ receiver' = receiver /\ spent' = spent
    BY DEF Read
  <1>2. CASE up = <<>>
    BY <1>1, <1>2, Unaffected DEF Read
  <1>3. CASE up # <<>>
    <2> DEFINE r == IF IsActive(engine) THEN ProcessIncoming(engine, Head(up)) ELSE engine
    <2>1. up' = Tail(up) /\ engine' = r
      BY <1>3 DEF Read
    <2> SUFFICES ASSUME Live(engine'), ~Wrapped' PROVE TransferInv'
      BY DEF TransferInv
    <2>2. Live(engine) /\ ~Wrapped /\ ~Stopped(r)
      BY <1>1, <2>1 DEF Live, Wrapped, Stopped, IsActive, ActiveStates
    <2>3. /\ Prefix(engine, receiver.got)
          /\ receiver.mode # "Off" =>
               Held(down \o engine.out, up, engine, Len(receiver.got), spent.noise, spent.late)
          /\ receiver.mode = "Off" =>
               Left(up, engine, Len(receiver.got), spent.noise, spent.late)
      BY <2>2 DEF TransferInv, Sent
    <2>4. Head(up) \in UpBytes
      BY <1>3, HeadTailProperties DEF SerialTypes
    <2>5. Prefix(r, receiver.got)
      <3>1. r.file = engine.file /\ r.pos >= engine.pos /\ r.pos \in Nat /\ engine.pos \in Nat
        <4>1. engine.pos \in Nat /\ EngineOK(engine)
          BY TransferTypes
        <4>2. CASE IsActive(engine)
          <5>1. r = ProcessIncoming(engine, Head(up))
            BY <4>2
          <5> HIDE DEF r
          <5>2. /\ EngineOK(r) /\ r.file = engine.file
                /\ r.pos = engine.pos \/ r.pos = engine.pos + 1
            BY <2>2, <2>4, <4>1, <4>2, <5>1, ProcessDoes
            DEF Same, SendsNext, SendsEot, Repeats, Finishes
          <5> QED
            BY <4>1, <5>2
        <4>3. CASE ~IsActive(engine)
          BY <4>1, <4>3
        <4> QED
          BY <4>2, <4>3
      <3> HIDE DEF r
      <3>2. Len(receiver.got) \in Nat
        BY TransferTypes
      <3> QED
        BY <2>3, <3>1, <3>2 DEF Prefix
    <2>6. /\ receiver.mode # "Off" =>
               Held(down \o r.out, Tail(up), r, Len(receiver.got), spent.noise, spent.late)
          /\ receiver.mode = "Off" =>
               Left(Tail(up), r, Len(receiver.got), spent.noise, spent.late)
      <3>1. CASE IsActive(engine)
        <4>1. r = ProcessIncoming(engine, Head(up))
          BY <3>1
        <4> HIDE DEF r
        <4>2. CASE receiver.mode # "Off"
          BY <1>3, <2>2, <2>3, <3>1, <4>1, <4>2, TransferTypes, ReadKeepsHeld
        <4>3. CASE receiver.mode = "Off"
          BY <1>3, <2>2, <2>3, <3>1, <4>1, <4>3, TransferTypes, ReadKeepsLeft
        <4> QED
          BY <4>2, <4>3
      <3>2. CASE ~IsActive(engine)
        <4>1. r = engine
          BY <3>2
        <4>2. down \o engine.out \in Items
          BY TransferTypes DEF Sent
        <4> HIDE DEF r
        <4> QED
          BY <1>3, <2>3, <4>1, <4>2, TransferTypes, AnswerLost
      <3> QED
        BY <3>1, <3>2
    <2> HIDE DEF r
    <2> QED
      BY <1>1, <2>1, <2>5, <2>6 DEF TransferInv, Sent
  <1> QED
    BY <1>2, <1>3

LEMMA ThreadKeepsTransfer ==
    ASSUME LineInv, SerialTypes, SerialTypes', ReceiverInv, TransferInv, Thread
    PROVE  TransferInv'
  <1>1. CASE OpenPort \/ Top \/ Closed
    <2>1. UNCHANGED <<engine, down, up, receiver>>
      BY <1>1 DEF OpenPort, Top, Closed, line
    <2>2. spent'.noise = spent.noise /\ spent'.late = spent.late
      BY <1>1, Kinds, SpendIsTyped DEF OpenPort, Top, Closed, SerialTypes
    <2> QED
      BY <2>1, <2>2, Unaffected
  <1>2. CASE Pump
    BY <1>2, PumpKeepsTransfer
  <1>3. CASE PumpNoFile
    <2>1. engine' = IdleEngine
      BY <1>3 DEF PumpNoFile, LineInv
    <2> QED
      BY <2>1 DEF TransferInv, Live, IdleEngine, IsActive, ActiveStates
  <1>4. CASE Read
    BY <1>4, ReadKeepsTransfer
  <1>5. CASE PortFails
    <2>1. /\ down' = down /\ up' = up /\ receiver' = receiver
          /\ engine' = engine \/ engine' = Prepared(FALSE)
      BY <1>5 DEF PortFails, line
    <2>2. spent'.noise = spent.noise /\ spent'.late = spent.late
      BY <1>5, Kinds, SpendIsTyped DEF PortFails, SerialTypes
    <2>3. Expired(engine, FALSE)
      BY DEF Expired
    <2>4. \/ engine' = engine
          \/ Stopped(engine')
          \/ taken.file # NoFile /\ engine' = StartEngine(taken.file)
      BY <2>1, <2>3, PreparedDoes
    <2>5. CASE engine' = engine
      BY <2>1, <2>2, <2>5, Unaffected
    <2>6. CASE Stopped(engine')
      BY <2>6 DEF TransferInv, Stopped, Live, IsActive, ActiveStates
    <2>7. CASE taken.file # NoFile /\ engine' = StartEngine(taken.file)
      <3>1. taken.file \in Texts
        BY <2>7, FilesAreTexts DEF SerialTypes, Taken, Requests
      <3> QED
        BY <2>1, <2>7, <3>1, StartTypes, TransferStarts
    <2> QED
      BY <2>4, <2>5, <2>6, <2>7
  <1>6. CASE Closing
    <2>1. engine' = IdleEngine
      BY <1>6 DEF Closing
    <2> QED
      BY <2>1 DEF TransferInv, Live, IdleEngine, IsActive, ActiveStates
  <1> QED
    BY <1>1, <1>2, <1>3, <1>4, <1>5, <1>6 DEF Thread

(* What the device does with the front of the line, a transfer going on.       *)
LEMMA DeviceKeepsTransfer ==
    ASSUME SerialTypes, SerialTypes', ReceiverInv, TransferInv, Device, Live(engine), ~Wrapped
    PROVE  TransferInv'
  <1> DEFINE g == Len(receiver.got)
             n == spent.noise
             l == spent.late
             p == Head(down)
  <1>1. /\ engine' = engine /\ spent' = spent /\ down # <<>> /\ down' = Tail(down)
    BY DEF Device
  <1>2. /\ g \in Nat /\ n \in Nat /\ l \in Nat /\ engine.out \in Items /\ down \in Items
        /\ up \in Seq(UpBytes) /\ EngineOK(engine) /\ Sent \in Items
        /\ n < BlockModulus - 1 \/ l < BlockModulus - 1
    BY TransferTypes
  <1>3. Sent # <<>> /\ Head(Sent) = p /\ Sent' = Tail(Sent) /\ p \in Item
    <2>1. p \in Item
      BY <1>1, <1>2, HeadTailProperties DEF Items
    <2> QED
      BY <1>1, <1>2, <2>1, FrontLeaves DEF Sent
  <1>4. Prefix(engine, receiver.got)
    BY DEF TransferInv
  <1>5. CASE receiver.mode = "Off"
    <2>1. up' = up /\ receiver' = receiver
      BY <1>5 DEF Device
    <2> QED
      BY <1>1, <1>5, <2>1 DEF TransferInv, Wrapped
  <1>6. CASE receiver.mode # "Off"
    <2>1. Held(Sent, up, engine, g, n, l)
      BY <1>6 DEF TransferInv
    <2>2. receiver.next = (g + 1) % BlockModulus /\ Previous(receiver.next) = g % BlockModulus
      <3>1. receiver.next = (g + 1) % BlockModulus
        BY <1>6 DEF ReceiverInv
      <3>2. (((g + 1) % BlockModulus) - 1) % BlockModulus = g % BlockModulus
        BY <1>2, ModPrevious, XmodemAssumption
      <3> QED
        BY <3>1, <3>2 DEF Previous
    <2>3. CASE p = Key
      <3>1. up' = up /\ receiver' = receiver
        BY <2>3 DEF Device
      <3>2. Held(Tail(Sent), up, engine, g, n, l)
        BY <1>2, <1>3, <2>1, <2>3, KeyGoesBy
      <3> QED
        BY <1>1, <1>3, <1>4, <1>6, <3>1, <3>2 DEF TransferInv
    <2>4. CASE p = Byte("EOT")
      <3>1. up' = up \o <<"ACK">> /\ receiver' = [receiver EXCEPT !.mode = "Off"]
        BY <1>6, <2>4, ItemsAreTyped DEF Device, Reply
      <3>2. up' = Append(up, "ACK")
        BY <1>2, <3>1, AppendIsConcat
      <3>3. receiver'.mode = "Off" /\ receiver'.got = receiver.got
        BY <3>1, ReceiverIsTyped DEF SerialTypes
      <3>4. g <= engine.pos
        BY <1>4 DEF Prefix
      <3>5. Left(Append(up, "ACK"), engine, g, n, l)
        BY <1>2, <1>3, <2>1, <2>4, <3>4, DeviceTakesEnd
      <3> QED
        BY <1>1, <1>4, <3>2, <3>3, <3>5 DEF TransferInv
    <2>5. CASE IsPacket(p)
      <3>1. TakePacket(p)
        BY <1>3, <1>6, <2>5, ItemsAreTyped DEF Device
      <3>2. up \o <<"ACK">> = Append(up, "ACK")
        BY <1>2, AppendIsConcat
      <3>3. CASE p.number = receiver.next
        <4>1. /\ receiver'.mode = "Receiving" /\ receiver'.got = Append(receiver.got, p.block)
              /\ up' = Append(up, "ACK")
          BY <3>1, <3>2, <3>3 DEF TakePacket, Reply
        <4>2. /\ g + 1 <= engine.pos /\ p.block = engine.file[g + 1]
              /\ Held(Tail(Sent), Append(up, "ACK"), engine, g + 1, n, l)
          BY <1>2, <1>3, <2>1, <2>2, <2>5, <3>3, DeviceTakesPacket, SMTT(40)
        <4>3. /\ Len(receiver'.got) = g + 1 /\ receiver'.got[g + 1] = p.block
              /\ \A i \in 1..g : receiver'.got[i] = receiver.got[i]
          <5>1. receiver.got \in Seq(Blocks) /\ p.block \in Blocks
            BY <1>3, <2>5, ItemsAreTyped, TransferTypes
          <5> QED
            BY <4>1, <5>1, AppendProperties
        <4>4. Prefix(engine', receiver'.got)
          BY <1>1, <1>2, <1>4, <4>2, <4>3 DEF Prefix
        <4> QED
          BY <1>1, <1>3, <4>1, <4>2, <4>3, <4>4 DEF TransferInv
      <3>4. CASE p.number # receiver.next /\ p.number = Previous(receiver.next)
        <4>1. receiver' = receiver /\ up' = Append(up, "ACK")
          BY <3>1, <3>2, <3>4 DEF TakePacket, Reply
        <4>2. Held(Tail(Sent), Append(up, "ACK"), engine, g, n, l)
          BY <1>2, <1>3, <2>1, <2>2, <2>5, <3>4, DeviceTakesPacket
        <4> QED
          BY <1>1, <1>3, <1>4, <1>6, <4>1, <4>2 DEF TransferInv
      <3>5. CASE p.number # receiver.next /\ p.number # Previous(receiver.next)
        <4>1. receiver' = [receiver EXCEPT !.mode = "Off"] /\ up' = up \o <<"CAN", "CAN">>
          BY <3>1, <3>5 DEF TakePacket, Reply
        <4>2. up' = Append(Append(up, "CAN"), "CAN")
          BY <1>2, <4>1
        <4>3. receiver'.mode = "Off" /\ receiver'.got = receiver.got
          BY <4>1, ReceiverIsTyped DEF SerialTypes
        <4>4. Left(Append(Append(up, "CAN"), "CAN"), engine, g, n, l)
          BY <1>2, <1>3, <2>1, <2>2, <2>5, <3>5, DeviceTakesPacket
        <4> QED
          BY <1>1, <1>4, <4>2, <4>3, <4>4 DEF TransferInv
      <3> QED
        BY <3>3, <3>4, <3>5
    <2>6. p # Byte("CAN")
      <3>1. PICK idx, cnt : Flow(Sent, engine, idx, cnt)
        BY <2>1 DEF Held
      <3>2. Carries(p, idx[1], engine)
        BY <1>2, <1>3, <3>1, FlowTypes
      <3>3. ASSUME NEW k \in 1..engine.pos, p = Packet(k % BlockModulus, engine.file[k])
            PROVE  p # Byte("CAN")
        <4>1. engine.file \in Seq(Blocks) /\ engine.pos <= Len(engine.file) /\ engine.pos \in Nat
          BY <1>2 DEF EngineOK, Engine, Texts
        <4>2. k \in 1..Len(engine.file)
          BY <4>1
        <4> HIDE DEF p
        <4> QED
          BY <3>3, <4>1, <4>2, PacketsAreTyped
      <3> HIDE DEF p
      <3> QED
        BY <3>2, <3>3, ItemsAreTyped DEF Carries
    <2> QED
      BY <1>3, <2>3, <2>4, <2>5, <2>6, ItemsAreTyped
  <1> QED
    BY <1>5, <1>6

LEMMA WireKeepsTransfer ==
    ASSUME LineInv, SerialTypes, SerialTypes', DialogInv, ReceiverInv, TransferInv, Wire
    PROVE  TransferInv'
  <1> DEFINE g == Len(receiver.got)
             n == spent.noise
             l == spent.late
  <1>1. /\ g \in Nat /\ n \in Nat /\ l \in Nat /\ engine.out \in Items /\ down \in Items
        /\ up \in Seq(UpBytes) /\ EngineOK(engine) /\ Sent \in Items /\ engine.acked \in Nat
    BY TransferTypes
  <1>2. CASE ReceiverStarted
    <2>1. choosing /\ engine' = engine
      BY <1>2 DEF ReceiverStarted
    <2>2. engine = IdleEngine
      BY <2>1 DEF LineInv, DialogInv, Busy
    <2> QED
      BY <2>1, <2>2 DEF TransferInv, Live, IdleEngine, IsActive, ActiveStates
  <1>3. CASE Ask
    <2>1. /\ receiver.mode # "Off" /\ UNCHANGED <<engine, down, receiver, spent>>
          /\ up' = up \o <<"C">>
      BY <1>3 DEF Ask, Reply
    <2>2. up' = Append(up, "C")
      BY <1>1, <2>1, AppendIsConcat
    <2>3. Held(Sent, up, engine, g, n, l) => Held(Sent, Append(up, "C"), engine, g, n, l)
      BY <1>1, DeviceAsks
    <2> QED
      BY <2>1, <2>2, <2>3 DEF TransferInv, Sent, Wrapped
  <1>4. CASE Device
    <2>1. engine' = engine /\ spent' = spent
      BY <1>4 DEF Device
    <2> SUFFICES ASSUME Live(engine'), ~Wrapped' PROVE TransferInv'
      BY DEF TransferInv
    <2>2. Live(engine) /\ ~Wrapped
      BY <2>1 DEF Wrapped
    <2> QED
      BY <1>4, <2>2, DeviceKeepsTransfer
  <1>5. CASE DamagePacket
    <2>1. /\ UNCHANGED <<engine, receiver>> /\ receiver.mode # "Off"
          /\ down # <<>> /\ IsPacket(Head(down)) /\ down' = Tail(down) /\ up' = up \o <<"NAK">>
      BY <1>5 DEF DamagePacket, Reply
    <2>2. up' = Append(up, "NAK")
      BY <1>1, <2>1, AppendIsConcat
    <2>3. spent'.noise = n + 1 /\ spent'.late = l
      BY <1>5, Kinds, SpendIsTyped DEF DamagePacket, SerialTypes
    <2> SUFFICES ASSUME Live(engine'), ~Wrapped' PROVE TransferInv'
      BY DEF TransferInv
    <2>4. Live(engine) /\ ~Wrapped
      BY <1>1, <2>1, <2>3, XmodemAssumption DEF Wrapped
    <2>5. Prefix(engine, receiver.got) /\ Held(Sent, up, engine, g, n, l)
      BY <2>1, <2>4 DEF TransferInv
    <2>6. Sent # <<>> /\ Head(Sent) = Head(down) /\ Sent' = Tail(Sent)
      BY <1>1, <2>1, FrontLeaves DEF Sent
    <2>7. n < BlockModulus - 1 \/ l < BlockModulus - 1
      BY <2>4, TransferTypes
    <2>8. Held(Tail(Sent), Append(up, "NAK"), engine, g, n + 1, l)
      BY <1>1, <2>1, <2>4, <2>5, <2>6, <2>7, DeviceTakesPacket
    <2> QED
      BY <2>1, <2>2, <2>3, <2>5, <2>6, <2>8 DEF TransferInv
  <1>6. CASE DamageAnswer
    <2>1. UNCHANGED <<engine, receiver, down>> /\ up # <<>> /\ up' = Tail(up)
      BY <1>6 DEF DamageAnswer
    <2>2. spent'.noise = n + 1 /\ spent'.late = l
      BY <1>6, Kinds, SpendIsTyped DEF DamageAnswer, SerialTypes
    <2> SUFFICES ASSUME Live(engine'), ~Wrapped' PROVE TransferInv'
      BY DEF TransferInv
    <2>3. Live(engine) /\ ~Wrapped
      BY <1>1, <2>1, <2>2, XmodemAssumption DEF Wrapped
    <2>4. n + 1 \in Nat /\ n <= n + 1
      BY <1>1
    <2>5. /\ Held(Sent, up, engine, g, n, l) => Held(Sent, Tail(up), engine, g, n + 1, l)
          /\ Left(up, engine, g, n, l) => Left(Tail(up), engine, g, n + 1, l)
      BY <1>1, <2>1, <2>4, AnswerLost
    <2> QED
      BY <2>1, <2>2, <2>3, <2>5 DEF TransferInv, Sent
  <1> QED
    BY <1>2, <1>3, <1>4, <1>5, <1>6 DEF Wire

-----------------------------------------------------------------------------
(* The theorems                                                                *)

TransferSafe == LineInv /\ SerialTypes /\ DialogInv /\ ReceiverInv /\ TransferInv

LEMMA BeginsSafe == ASSUME Init PROVE TransferSafe
  <1>1. engine = IdleEngine /\ EngineOK(engine)
    BY StartIsOK DEF Init
  <1>2. LineInv
    BY <1>1 DEF Init, LineInv, Busy, Nothing
  <1>3. SerialTypes
    <2>1. receiver \in Receiver
      BY XmodemAssumption DEF Init, Receiver, Numbers, Texts
    <2>2. taken \in Taken /\ request \in Requests /\ outgoing \in Keys
      BY DEF Init, Nothing, Taken, Requests, Keys
    <2>3. down \in Items /\ up \in Seq(UpBytes) /\ sig \in Seq(Signals)
      BY DEF Init, Items
    <2>4. spent \in [DOMAIN Bound -> Nat]
      BY DEF Init
    <2> QED
      BY <1>1, <2>1, <2>2, <2>3, <2>4 DEF Init, SerialTypes
  <1>4. DialogInv
    BY DEF Init, DialogInv
  <1>5. ReceiverInv
    BY DEF Init, ReceiverInv, Nothing
  <1>6. TransferInv
    BY <1>1 DEF TransferInv, Live, IdleEngine, IsActive, ActiveStates
  <1> QED
    BY <1>2, <1>3, <1>4, <1>5, <1>6 DEF TransferSafe

LEMMA StaysSafe == ASSUME TransferSafe, [Next]_vars PROVE TransferSafe'
  <1> USE DEF TransferSafe
  <1>1. CASE Gui \/ OnSignal
    <2>1. LineInv'
      BY <1>1, GuiKeepsLine
    <2>2. SerialTypes'
      BY <1>1, GuiKeepsTypes
    <2>3. DialogInv'
      BY <1>1, GuiKeepsDialog
    <2>4. ReceiverInv'
      BY <1>1, GuiKeepsReceiver
    <2>5. TransferInv'
      BY <1>1, GuiKeepsTransfer
    <2> QED
      BY <2>1, <2>2, <2>3, <2>4, <2>5
  <1>2. CASE Thread
    <2>1. LineInv'
      BY <1>2, ThreadKeepsLine
    <2>2. SerialTypes'
      BY <1>2, ThreadKeepsTypes
    <2>3. DialogInv'
      BY <1>2, ThreadKeepsDialog
    <2>4. ReceiverInv'
      BY <1>2, <2>2, ThreadKeepsReceiver
    <2>5. TransferInv'
      BY <1>2, <2>2, ThreadKeepsTransfer
    <2> QED
      BY <2>1, <2>2, <2>3, <2>4, <2>5
  <1>3. CASE Wire
    <2>1. LineInv'
      BY <1>3, WireKeepsLine
    <2>2. SerialTypes'
      BY <1>3, WireKeepsTypes
    <2>3. DialogInv'
      BY <1>3, WireKeepsDialog
    <2>4. ReceiverInv'
      BY <1>3, <2>2, WireKeepsReceiver
    <2>5. TransferInv'
      BY <1>3, <2>2, WireKeepsTransfer
    <2> QED
      BY <2>1, <2>2, <2>3, <2>4, <2>5
  <1>4. CASE UNCHANGED vars
    <2>1. UNCHANGED <<pc, taken, engine, sig, receiver, spent, down, up, connected, stop,
                      reserved, request, cancelRequested, outgoing, online, choosing, dialog>>
      BY <1>4 DEF vars, flags, gui, line
    <2>2. LineInv'
      BY <2>1 DEF LineInv, Busy
    <2>3. SerialTypes'
      BY <2>1 DEF SerialTypes
    <2>4. DialogInv'
      BY <2>1 DEF DialogInv
    <2>5. ReceiverInv'
      BY <2>1 DEF ReceiverInv, DeviceWaits
    <2>6. TransferInv'
      BY <2>1, Unaffected
    <2> QED
      BY <2>2, <2>3, <2>4, <2>5, <2>6
  <1> QED
    BY <1>1, <1>2, <1>3, <1>4 DEF Next

(* The line, the types, the dialog, the device and the transfer keep their     *)
(* invariants in every step.                                                   *)
THEOREM TransferIsSafe == Spec => []TransferSafe
  <1>1. Init => TransferSafe
    BY BeginsSafe
  <1>2. TransferSafe /\ [Next]_vars => TransferSafe'
    BY StaysSafe
  <1> QED
    BY <1>1, <1>2, PTL DEF Spec

LEMMA TypesHold == ASSUME SerialTypes PROVE TypeOK
  <1>1. /\ request \in Files \cup {NoFile} /\ taken.file \in Files \cup {NoFile}
        /\ outgoing \in Seq({Key}) /\ taken.input \in Seq({Key})
    BY DEF SerialTypes, Requests, Taken, Keys
  <1>2. ToSet(outgoing) \cup ToSet(taken.input) \subseteq {Key}
    BY <1>1 DEF ToSet
  <1>3. /\ engine.state \in ActiveStates \cup DoneStates \cup {"Idle"}
        /\ engine.pos \in 0..Len(engine.file) /\ engine.number \in 0..(BlockModulus - 1)
        /\ engine.attempts \in 0..(MaxRetries + 1) /\ engine.acked \in 0..engine.pos
    <2>1. /\ engine \in Engine /\ engine.acked <= engine.pos /\ engine.pos <= Len(engine.file)
      BY DEF SerialTypes, EngineOK
    <2>2. engine.file \in Seq(Blocks)
      BY <2>1 DEF Engine, Texts
    <2> QED
      BY <2>1, <2>2 DEF Engine, States, Numbers, Attempts
  <1>4. ToSet(up) \subseteq {"C", "ACK", "NAK", "CAN"}
    BY DEF SerialTypes, ToSet, UpBytes
  <1>5. \A i \in DOMAIN down : down[i].number \in -1..(BlockModulus - 1)
    <2> SUFFICES ASSUME NEW i \in DOMAIN down PROVE down[i].number \in -1..(BlockModulus - 1)
      OBVIOUS
    <2>1. down[i] \in Item
      BY DEF SerialTypes, Items
    <2> QED
      BY <2>1, XmodemAssumption DEF Item, Numbers, Key, Byte
  <1> QED
    BY <1>1, <1>2, <1>3, <1>4, <1>5 DEF TypeOK, SerialTypes

(* For any files, block modulus and bounds: while a transfer runs, what the    *)
(* device has collected is the beginning of the file, in order and without a   *)
(* gap or a repetition, whatever was damaged, repeated or late, short of a     *)
(* whole turn of the block numbers of both damaged packets and late answers    *)
(* (core/XmodemSender.cpp with the loop of core/SerialSession.cpp).            *)
THEOREM FileArrivesAsItIs == Spec => []DeliveredIsPrefix
  <1>1. TransferSafe => DeliveredIsPrefix
    <2> SUFFICES ASSUME TransferSafe PROVE DeliveredIsPrefix
      OBVIOUS
    <2>1. TypeOK
      BY TypesHold DEF TransferSafe
    <2>2. ASSUME IsActive(engine), ~Wrapped PROVE IsPrefix(receiver.got, engine.file)
      <3>1. Prefix(engine, receiver.got)
        BY <2>2 DEF TransferSafe, TransferInv, Live
      <3>2. /\ receiver.got \in Seq(Blocks) /\ engine.file \in Seq(Blocks)
            /\ engine.pos \in Nat /\ engine.pos <= Len(engine.file)
        BY TransferTypes DEF TransferSafe, EngineOK, Engine, Texts
      <3>3. SubSeq(receiver.got, 1, Len(receiver.got)) = SubSeq(engine.file, 1, Len(receiver.got))
        BY <3>1, <3>2 DEF Prefix
      <3> QED
        BY <3>1, <3>2, <3>3 DEF Prefix, IsPrefix
    <2> QED
      BY <2>1, <2>2 DEF DeliveredIsPrefix
  <1> QED
    BY <1>1, TransferIsSafe, PTL

LEMMA ProgressHolds == ASSUME TransferSafe PROVE ProgressIsHonest
  <1> DEFINE g == Len(receiver.got)
  <1>1. /\ SerialTypes /\ g \in Nat /\ engine.acked \in Nat /\ spent.late \in Nat
        /\ up \in Seq(UpBytes)
    BY TransferTypes DEF TransferSafe
  <1> SUFFICES ASSUME IsActive(engine), spent.late = 0 PROVE engine.acked <= g
    BY <1>1 DEF ProgressIsHonest
  <1>2. ~Wrapped
    BY XmodemAssumption DEF Wrapped
  <1>3. /\ receiver.mode # "Off" => Held(Sent, up, engine, g, spent.noise, 0)
        /\ receiver.mode = "Off" => Left(up, engine, g, spent.noise, 0)
    BY <1>2 DEF TransferSafe, TransferInv, Live
  <1>4. CASE receiver.mode # "Off"
    <2>1. PICK a, t : Answers(up, a, t) /\ engine.acked + a[1] <= g + 0
      BY <1>3, <1>4 DEF Held, Balance
    <2>2. a[1] \in Nat
      BY <1>1, <2>1, AnswersTypes
    <2> QED
      BY <1>1, <2>1, <2>2
  <1>5. CASE receiver.mode = "Off"
    <2>1. PICK a, t : /\ Answers(up, a, t)
                      /\ engine.acked + a[1] <= g + 0 \/ engine.acked <= g + 0
      BY <1>3, <1>5 DEF Left, EndHeard
    <2>2. a[1] \in Nat
      BY <1>1, <2>1, AnswersTypes
    <2> QED
      BY <1>1, <2>1, <2>2
  <1> QED
    BY <1>4, <1>5

LEMMA FinishHolds == ASSUME TransferSafe PROVE FinishedMeansDelivered
  <1> DEFINE g == Len(receiver.got)
             n == spent.noise
             l == spent.late
  <1>1. /\ SerialTypes /\ g \in Nat /\ n \in Nat /\ l \in Nat /\ Sent \in Items
        /\ up \in Seq(UpBytes) /\ EngineOK(engine) /\ engine.pos \in Nat
        /\ receiver.got \in Seq(Blocks) /\ engine.file \in Seq(Blocks)
    BY TransferTypes DEF TransferSafe, EngineOK, Engine, Texts
  <1> SUFFICES ASSUME engine.state = "Finished", ~(l > 1), ~(l > 0 /\ n > 0)
               PROVE  receiver.got = engine.file
    BY DEF FinishedMeansDelivered
  <1>2. ~Wrapped
    BY <1>1, XmodemAssumption DEF Wrapped
  <1>3. engine.pos = Len(engine.file) /\ engine.acked = engine.pos
    BY <1>1 DEF EngineOK, Ending
  <1>4. /\ Prefix(engine, receiver.got)
        /\ receiver.mode # "Off" => Held(Sent, up, engine, g, n, l)
        /\ receiver.mode = "Off" => Left(up, engine, g, n, l)
    BY <1>2 DEF TransferSafe, TransferInv, Live
  <1>5. CASE receiver.mode # "Off"
    <2>1. PICK idx, cnt, a, t : /\ Flow(Sent, engine, idx, cnt) /\ Near(Sent, idx, g, n)
                                /\ Answers(up, a, t) /\ Balance(engine, cnt[1], a[1], t[1], g, l)
      BY <1>4, <1>5 DEF Held
    <2>2. PICK I \in Nat, C \in Nat, T \in Nat, S \in {0, 1} :
            idx[1] = I /\ cnt[1] = C /\ t[1] = T /\ Step(Sent, 1) = S
      <3>1. Step(Sent, 1) \in {0, 1}
        BY DEF Step
      <3> QED
        BY <1>1, <2>1, <3>1, FlowTypes, AnswersTypes
    <2>3. C + T + 2 <= 1 + l
      BY <2>1, <2>2 DEF Balance, Outstanding
    <2>4. C + I >= engine.pos
      <3>1. CASE Sent = <<>>
        BY <1>1, <2>1, <2>2, <3>1, FlowTypes
      <3>2. CASE Sent # <<>>
        <4>1. C + I >= engine.pos + S
          BY <1>1, <2>1, <2>2, <3>2, FlowTypes
        <4> QED
          BY <1>1, <2>2, <4>1
      <3> QED
        BY <3>1, <3>2
    <2>5. S <= C
      <3>1. CASE Sent = <<>>
        BY <1>1, <2>1, <2>2, <3>1 DEF Step
      <3>2. CASE Sent # <<>>
        BY <1>1, <2>1, <2>2, <3>2, FlowTypes
      <3> QED
        BY <3>1, <3>2
    <2>6. I <= g + n + S
      BY <2>1, <2>2 DEF Near
    <2>7. g >= engine.pos
      BY <1>1, <2>2, <2>3, <2>4, <2>5, <2>6
    <2> QED
      BY <1>1, <1>3, <1>4, <2>7 DEF Prefix
  <1>6. CASE receiver.mode = "Off"
    <2>1. PICK a, t : /\ Answers(up, a, t)
                      /\ (engine.acked + a[1] <= g + l /\ n > 0) \/ EndHeard(engine, g, n, l)
      BY <1>4, <1>6 DEF Left
    <2>2. PICK A \in Nat : a[1] = A
      BY <1>1, <2>1, AnswersTypes
    <2>3. g >= engine.pos
      BY <1>1, <1>3, <2>1, <2>2 DEF EndHeard
    <2> QED
      BY <1>1, <1>3, <1>4, <2>3 DEF Prefix
  <1> QED
    BY <1>5, <1>6

(* For any files, block modulus and bounds: the progress shown is never ahead  *)
(* of the device while no answer came late, and a transfer reported as         *)
(* finished has put the whole file into the device unless several answers came *)
(* late, or one on a noisy line (XmodemSender::processIncoming, the progress   *)
(* and the end signals of core/SerialSession.cpp).                             *)
THEOREM DialogTellsTheTruth == Spec => []DialogIsHonest
  <1>1. TransferSafe => DialogIsHonest
    BY ProgressHolds, FinishHolds DEF DialogIsHonest
  <1> QED
    BY <1>1, TransferIsSafe, PTL
=============================================================================
