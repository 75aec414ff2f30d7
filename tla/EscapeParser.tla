----------------------------- MODULE EscapeParser -----------------------------
(***************************************************************************)
(* The byte machine of the terminal (feedByte in TerminalWidget.cpp): it   *)
(* cuts the stream of a program into characters, controls and sequences.   *)
(*                                                                         *)
(* Bytes are taken by their role: "a" stands for ASCII letters, "0" for    *)
(* digits and separators, "2" and "3" for the leads of characters of two   *)
(* and three bytes, "x" for their continuations, "bad" for what leads      *)
(* nothing.  Four-byte characters differ from the others in length only.   *)
(***************************************************************************)
EXTENDS Naturals, Sequences, SequencesExt

CONSTANTS SeqMax       \* bytes of a sequence that are kept (256, OSC 1024)

ASSUME ParserAssumption == SeqMax \in Nat \ {0}

Bytes == {"ESC", "[", "]", "(", ")", "\\", "BEL", "LF", "SO", "SI", "a", "0", "2", "3", "x", "bad"}

Controls == {"BEL", "LF"}                \* below 0x20, apart from ESC, SO and SI
Continues(byte) == byte = "x"            \* (byte & 0xc0) == 0x80
isCsiFinal(byte) == byte \in {"[", "]", "\\", "a"}     \* 0x40..0x7e

utf8ExpectedLength(lead) ==
  CASE lead = "2" -> 2 [] lead = "3" -> 3 [] lead \in {"bad", "x"} -> 0 [] OTHER -> 1

\* G0 is ASCII at first and G1 the line drawing set; gl is the one in use.
NewParser == [state |-> "Ground", seq |-> <<>>, utf8 |-> <<>>, out |-> <<>>,
              sets |-> <<"ASCII", "DecSpecial">>, gl |-> 1, slot |-> 1]

activeCharset(p) == p.sets[p.gl]

Emit(p, item) == [p EXCEPT !.out = Append(@, item)]
Done(p, item) == Emit([p EXCEPT !.state = "Ground", !.seq = <<>>], item)
Keep(p, byte) == IF Len(p.seq) < SeqMax THEN [p EXCEPT !.seq = Append(@, byte)] ELSE p

\* A byte that begins a character.
LeadByte(p, byte) ==
  CASE utf8ExpectedLength(byte) = 1 -> Emit(p, <<byte>>)
    [] utf8ExpectedLength(byte) = 0 -> Emit(p, <<"U+FFFD">>)
    [] OTHER -> [p EXCEPT !.utf8 = <<byte>>]

\* Mutant: the byte that breaks a character off is lost with it.
TextByteSwallows(p, byte) ==
  IF p.utf8 = <<>> THEN LeadByte(p, byte)
  ELSE IF ~Continues(byte) THEN [p EXCEPT !.utf8 = <<>>]
  ELSE LET char == Append(p.utf8, byte)
       IN  IF Len(char) >= utf8ExpectedLength(char[1])
           THEN Emit([p EXCEPT !.utf8 = <<>>], char)
           ELSE [p EXCEPT !.utf8 = char]

\* A character under way is dropped when something else follows; that byte is
\* taken on its own.
TextByte(p, byte) ==
  IF p.utf8 = <<>> THEN LeadByte(p, byte)
  ELSE IF ~Continues(byte) THEN LeadByte([p EXCEPT !.utf8 = <<>>], byte)
  ELSE LET char == Append(p.utf8, byte)
       IN  IF Len(char) >= utf8ExpectedLength(char[1])
           THEN Emit([p EXCEPT !.utf8 = <<>>], char)
           ELSE [p EXCEPT !.utf8 = char]

GroundByte(p, byte) ==
  CASE byte = "ESC" -> [p EXCEPT !.state = "Escape", !.seq = <<>>]
    [] byte = "SO"  -> [p EXCEPT !.gl = 2]
    [] byte = "SI"  -> [p EXCEPT !.gl = 1]
    [] byte \in Controls -> Emit(p, <<byte>>)
    [] OTHER -> IF activeCharset(p) = "DecSpecial" /\ byte \notin {"2", "3", "x", "bad"}
                THEN Emit([p EXCEPT !.utf8 = <<>>], <<"line drawing", byte>>)
                ELSE TextByte(p, byte)

designateCharset(p, name) ==
  [p EXCEPT !.sets[p.slot] = IF name = "0" THEN "DecSpecial" ELSE "ASCII", !.state = "Ground"]

EscapeByte(p, byte) ==
  CASE byte = "[" -> [p EXCEPT !.state = "Csi", !.seq = <<>>]
    [] byte = "]" -> [p EXCEPT !.state = "Osc", !.seq = <<>>]
    [] byte = "(" -> [p EXCEPT !.state = "Charset", !.seq = <<>>, !.slot = 1]
    [] byte = ")" -> [p EXCEPT !.state = "Charset", !.seq = <<>>, !.slot = 2]
    [] OTHER      -> Done(p, <<"escape", byte>>)

CsiByte(p, byte) == IF isCsiFinal(byte) THEN Done(p, <<"csi", byte, p.seq>>) ELSE Keep(p, byte)

\* An escape is kept even when the sequence is full, or its end would be missed.
OscByte(p, byte) ==
  IF byte = "BEL" THEN Done(p, <<"osc">>)
  ELSE IF byte = "ESC" THEN [p EXCEPT !.seq = Append(@, byte)]
  ELSE IF byte = "\\" /\ p.seq # <<>> /\ Last(p.seq) = "ESC" THEN Done(p, <<"osc">>)
  ELSE Keep(p, byte)

feedByte(p, byte) ==
  CASE p.state = "Ground"  -> GroundByte(p, byte)
    [] p.state = "Escape"  -> EscapeByte(p, byte)
    [] p.state = "Csi"     -> CsiByte(p, byte)
    [] p.state = "Osc"     -> OscByte(p, byte)
    [] p.state = "Charset" -> designateCharset(p, byte)

\* appendOutput feeds a chunk byte by byte; a sequence may be cut between two.
FeedBytes(p, bytes) == FoldLeft(feedByte, p, bytes)

(***************************************************************************)
(* What a stream means.                                                    *)
(***************************************************************************)
Kept(params) == SubSeq(params, 1, IF Len(params) < SeqMax THEN Len(params) ELSE SeqMax)

\* Pieces of a stream, each with what it is to be read as.  The last two are
\* characters that broke off.
Pieces ==
  { [bytes |-> <<"a">>,                read |-> << <<"a">> >>],
    [bytes |-> <<"0">>,                read |-> << <<"0">> >>],
    [bytes |-> <<"[">>,                read |-> << <<"[">> >>],
    [bytes |-> <<"2", "x">>,           read |-> << <<"2", "x">> >>],
    [bytes |-> <<"3", "x", "x">>,      read |-> << <<"3", "x", "x">> >>],
    [bytes |-> <<"bad">>,              read |-> << <<"U+FFFD">> >>],
    [bytes |-> <<"LF">>,               read |-> << <<"LF">> >>],
    [bytes |-> <<"ESC", "a">>,         read |-> << <<"escape", "a">> >>],
    [bytes |-> <<"SO", "a", "2", "x", "SI">>,
                                       read |-> << <<"line drawing", "a">>, <<"2", "x">> >>],
    [bytes |-> <<"ESC", "(", "0", "a", "ESC", "(", "a">>,
                                       read |-> << <<"line drawing", "a">> >>],
    [bytes |-> <<"ESC", "[", "a">>,    read |-> << <<"csi", "a", <<>>>> >>],
    [bytes |-> <<"ESC", "[", "0", "0", "0", "a">>,
                                       read |-> << <<"csi", "a", Kept(<<"0", "0", "0">>)>> >>],
    [bytes |-> <<"ESC", "]", "0", "a", "3", "BEL">>, read |-> << <<"osc">> >>],
    [bytes |-> <<"ESC", "]", "a", "a", "a", "ESC", "\\">>, read |-> << <<"osc">> >>],
    [bytes |-> <<"2">>,                read |-> <<>>],
    [bytes |-> <<"3", "x">>,           read |-> <<>>] }
===============================================================================
