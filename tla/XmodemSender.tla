----------------------------- MODULE XmodemSender -----------------------------
(* The protocol engine of core/XmodemSender.cpp as pure functions on its       *)
(* state.  A file is a sequence of blocks; a packet carries the number of its  *)
(* block modulo BlockModulus and the block.  Checksum and CRC are abstracted:  *)
(* the receiver can tell a damaged packet from a sound one.                    *)
EXTENDS Integers, Sequences

CONSTANTS
    BlockModulus,   \* block numbers wrap at 256
    MaxRetries      \* of one block, of the start, of the end

ASSUME XmodemAssumption == BlockModulus \in Nat \ {0, 1} /\ MaxRetries \in Nat

ActiveStates == {"WaitingForReceiver", "WaitingForBlockAck", "WaitingForEotAck"}
DoneStates == {"Finished", "Failed", "Cancelled"}

(* A block of the file that cannot be read.                                    *)
Unreadable == "unreadable"

(* What the sender puts on the line: packets, and bytes outside of packets.    *)
Packet(number, block) == [number |-> number, block |-> block]
Byte(b) == [number |-> -1, block |-> b]

(* m_state, m_source and its read position, m_blockNumber, m_bytesAcknowledged *)
(* (in blocks), m_attempts, m_remoteCancelCount, m_outgoing.                   *)
IdleEngine ==
    [state |-> "Idle", file |-> <<>>, pos |-> 0, number |-> 1, acked |-> 0,
     attempts |-> 0, cancels |-> 0, out |-> <<>>]

IsActive(e) == e.state \in ActiveStates
IsDone(e) == e.state \in DoneStates

StartEngine(file) == [IdleEngine EXCEPT !.state = "WaitingForReceiver", !.file = file]

Fail(e) == [e EXCEPT !.state = "Failed", !.out = @ \o <<Byte("CAN"), Byte("CAN")>>]

(* The packet the receiver is to acknowledge: the last block read.             *)
CurrentPacket(e) == Packet(e.number, e.file[e.pos])

SendEot(e) ==
    LET again == e.state = "WaitingForEotAck" IN
    IF again /\ e.attempts >= MaxRetries THEN Fail([e EXCEPT !.attempts = @ + 1])
    ELSE [e EXCEPT !.state = "WaitingForEotAck",
                   !.attempts = IF again THEN @ + 1 ELSE 0,
                   !.out = Append(@, Byte("EOT"))]

SendNextBlock(e) ==
    IF e.pos = Len(e.file) THEN SendEot(e)
    ELSE IF e.file[e.pos + 1] = Unreadable THEN Fail(e)
    ELSE LET next == [e EXCEPT !.pos = @ + 1, !.state = "WaitingForBlockAck"]
         IN  [next EXCEPT !.out = Append(@, CurrentPacket(next))]

(* Mistaken: a block to be repeated is read from the file again.               *)
RetransmitReadsOn(e) ==
    IF e.attempts >= MaxRetries \/ e.pos = Len(e.file) THEN Fail([e EXCEPT !.attempts = @ + 1])
    ELSE LET next == [e EXCEPT !.attempts = @ + 1, !.pos = @ + 1]
         IN  [next EXCEPT !.out = Append(@, CurrentPacket(next))]

Retransmit(e) ==
    IF e.attempts >= MaxRetries THEN Fail([e EXCEPT !.attempts = @ + 1])
    ELSE [e EXCEPT !.attempts = @ + 1, !.out = Append(@, CurrentPacket(e))]

(* Mistaken: an acknowledged block keeps its number.                           *)
AckKeepsNumber(e) == SendNextBlock([e EXCEPT !.acked = @ + 1, !.attempts = 0])

Acknowledged(e) ==
    SendNextBlock([e EXCEPT !.acked = @ + 1, !.attempts = 0,
                            !.number = (@ + 1) % BlockModulus])

BlockAnswer(e, byte) ==
    CASE byte = "ACK" -> Acknowledged(e)
      [] byte = "NAK" -> Retransmit(e)
      [] OTHER        -> e

EotAnswer(e, byte) ==
    CASE byte = "ACK" -> [e EXCEPT !.state = "Finished"]
      [] byte = "NAK" -> SendEot(e)
      [] OTHER        -> e

(* One byte of processIncoming; a chunk is its bytes one after the other.      *)
ProcessIncoming(e, byte) ==
    LET heard == [e EXCEPT !.cancels = IF byte = "CAN" THEN @ + 1 ELSE 0] IN
    CASE byte = "CAN" -> IF heard.cancels >= 2 THEN [heard EXCEPT !.state = "Cancelled"] ELSE heard
      [] byte # "CAN" /\ e.state = "WaitingForReceiver" ->
            IF byte \in {"C", "NAK"} THEN SendNextBlock([heard EXCEPT !.attempts = 0]) ELSE heard
      [] byte # "CAN" /\ e.state = "WaitingForBlockAck" -> BlockAnswer(heard, byte)
      [] byte # "CAN" /\ e.state = "WaitingForEotAck" -> EotAnswer(heard, byte)

(* Mistaken: waiting for the receiver is retried for ever.                     *)
TimeoutNeverGivesUp(e) ==
    CASE e.state = "WaitingForReceiver" -> e
      [] e.state = "WaitingForBlockAck" -> Retransmit(e)
      [] e.state = "WaitingForEotAck"   -> SendEot(e)
      [] OTHER                          -> e

CheckTimeout(e) ==
    CASE e.state = "WaitingForReceiver" ->
            IF e.attempts >= MaxRetries THEN Fail([e EXCEPT !.attempts = @ + 1])
            ELSE [e EXCEPT !.attempts = @ + 1]
      [] e.state = "WaitingForBlockAck" -> Retransmit(e)
      [] e.state = "WaitingForEotAck"   -> SendEot(e)
      [] OTHER                          -> e

CancelEngine(e) ==
    IF IsActive(e) THEN [e EXCEPT !.state = "Cancelled", !.out = @ \o <<Byte("CAN"), Byte("CAN")>>] ELSE e
=============================================================================
