------------------------------ MODULE MCTerminal ------------------------------
(***************************************************************************)
(* An instance of Terminal: screens of a few cells, and chunks of output   *)
(* that bring each control function into play.                             *)
(***************************************************************************)
EXTENDS Terminal

MCNarrow == {" ", "a", "b"}
MCWide   == {"W"}
MCSizes  == {<<3, 2>>, <<4, 3>>}
MCSpots  == {<<0, 0>>, <<1, 2>>}

\* A program at work while the layout changes, and a user at work while a
\* program writes.
MCBudgets == { [output |-> 3, resize |-> 1, user |-> 0, piece |-> 0],
               [output |-> 2, resize |-> 0, user |-> 3, piece |-> 0],
               [output |-> 1, resize |-> 0, user |-> 5, piece |-> 0],
               [output |-> 0, resize |-> 0, user |-> 0, piece |-> 4] }

a  == <<"print", "a">>
b  == <<"print", "b">>
w  == <<"print", "W">>
CR == <<"CR">>
LF == <<"LF">>
Set(mode)   == <<"DECSET", mode>>
Reset(mode) == <<"DECRST", mode>>

MCOutputs ==
  { <<a>>, <<b, w>>, <<CR, LF, w, a>>, <<a, CR, LF, b, CR, LF, w, CR, LF>>,
    <<LF>>, <<<<"NEL">>, <<"BS">>, <<"HT">>>>,
    <<<<"CUP", 2, 3>>>>, <<<<"CUD", 2>>, <<"CUF", 1>>, <<"SC">>>>,
    <<<<"RC">>, <<"CUU", 1>>, <<"CUB", 1>>, <<"CHA", 3>>>>, <<<<"VPA", 2>>, <<"RI">>, b>>,
    <<<<"RI">>, <<"ICH", 1>>, <<"IL", 1>>>>, <<<<"DCH", 1>>, <<"ECH", 2>>, <<"DL", 1>>>>,
    <<<<"EL", 0>>, <<"ED", 0>>>>, <<<<"EL", 1>>, <<"ED", 1>>>>, <<<<"EL", 2>>, <<"ED", 2>>>>,
    <<<<"ED", 3>>>>, <<<<"SU", 2>>>>, <<<<"SD", 1>>, <<"REP", 2>>>>,
    <<<<"STBM", 1, 2>>>>, <<<<"STBM", 2, 3>>>>, <<Set(6)>>, <<Reset(6), Reset(7)>>,
    <<Set(47)>>, <<Reset(47)>>, <<Set(1047)>>, <<Reset(1047)>>,
    <<Set(1048)>>, <<Reset(1048)>>, <<Set(1049)>>, <<Reset(1049)>>, <<<<"RIS">>>>,
    <<Set(1000)>>, <<Set(1002)>>, <<Set(1003)>>, <<Reset(1000)>>, <<Set(7)>>,
    <<Reset(1000), Set(1000)>> }
===============================================================================
