---------------------------- MODULE Terminal_proofs ----------------------------
(* The proofs about the terminal, for any sizes, output, gestures of the user, *)
(* length of the history and length of a kept sequence: the screen is a screen *)
(* at every moment; plain output is kept line for line; a reported press is    *)
(* released; and a stream of bytes is read as it was written.                  *)
(*                                                                             *)
(* Three ideas carry them.  A chunk is folded over control functions, and a    *)
(* set that no control function leads out of is not left by a chunk            *)
(* (FedStaysIn), so that it is enough to look at one control function at a     *)
(* time.  What a control function leaves behind is a screen of the same size   *)
(* (Shape), whose margins are among those that were asked for (T and B).  And  *)
(* the history and the screen are the last lines of an endless paper           *)
(* (AsOnPaper), on which a character, a line feed and a line that is pushed    *)
(* into the history do the same in both.                                       *)
EXTENDS Terminal, FiniteSetTheorems, FunctionTheorems, SequenceTheorems, WellFoundedInduction, TLAPS

-----------------------------------------------------------------------------
(* What is fed one by one: a run has a state after each of the items.          *)

LEMMA LeastExists ==
    ASSUME NEW N \in SUBSET Nat, N # {}
    PROVE  \E x \in N : \A y \in N : x <= y
  <1>1. \E x \in N : \A y \in N : ~(<<y, x>> \in OpToRel(<, Nat))
    BY NatLessThanWellFounded, WFMin
  <1>2. ASSUME NEW x \in Nat, NEW y \in Nat, y < x
        PROVE  <<y, x>> \in OpToRel(<, Nat)
    BY <1>2, Zenon DEF OpToRel
  <1>3. PICK x \in N : \A y \in N : ~(<<y, x>> \in OpToRel(<, Nat))
    BY <1>1
  <1>4. \A y \in N : ~(y < x)
    BY <1>2, <1>3
  <1> QED
    BY <1>4

LEMMA LastExists ==
    ASSUME NEW n \in Nat, NEW N \in SUBSET (0..n), N # {}
    PROVE  Max(N) \in N /\ \A y \in N : y <= Max(N)
  <1> DEFINE M == {n - x : x \in N}
  <1>1. M \in SUBSET Nat /\ M # {}
    <2>1. PICK x \in N : TRUE
      OBVIOUS
    <2>2. n - x \in M
      BY <2>1
    <2>3. \A y \in 0..n : n - y \in Nat
      OBVIOUS
    <2> QED
      BY <2>2, <2>3
  <1>2. PICK m \in M : \A y \in M : m <= y
    <2> HIDE DEF M
    <2> QED
      BY <1>1, LeastExists
  <1>3. PICK x \in N : m = n - x
    OBVIOUS
  <1>4. \A y \in N : y <= x
    <2>1. \A y \in N : n - y \in M
      OBVIOUS
    <2> QED
      BY <1>2, <1>3, <2>1
  <1>5. \E z \in N : \A y \in N : z >= y
    BY <1>4
  <1>6. Max(N) \in N /\ \A y \in N : Max(N) >= y
    BY <1>5 DEF Max
  <1> QED
    BY <1>6

(* Folding over the indexes 1..n, in their order, is a function of the         *)
(* indexes folded: G says what the next item makes of a state.                 *)
Folded(h, n, b, G) ==
    \A s \in SUBSET (1..n) :
        h[s] = IF s = {} THEN b ELSE G[<<Max(s), h[s \ {Max(s)}]>>]

LEMMA FoldExists ==
    ASSUME NEW n \in Nat, NEW S, NEW b \in S, NEW G \in [(1..n) \X S -> S]
    PROVE  \E h \in [SUBSET (1..n) -> S] : Folded(h, n, b, G)
  <1> DEFINE N == {k \in 0..n : ~\E h \in [SUBSET (1..k) -> S] : Folded(h, k, b, G)}
  <1>1. N = {}
    <2> SUFFICES ASSUME N # {}
                 PROVE  FALSE
      OBVIOUS
    <2>1. PICK m \in N : \A y \in N : m <= y
      <3>1. N \in SUBSET Nat
        OBVIOUS
      <3> HIDE DEF N
      <3> QED
        BY <3>1, LeastExists
    <2>2. CASE m = 0
      <3> DEFINE h == [s \in SUBSET (1..0) |-> b]
      <3>1. SUBSET (1..0) = {{}}
        OBVIOUS
      <3>2. h \in [SUBSET (1..0) -> S] /\ Folded(h, 0, b, G)
        BY <3>1 DEF Folded
      <3> QED
        BY <2>2, <3>2
    <2>3. CASE m # 0
      <3> DEFINE k == m - 1
      <3>1. k \in 0..n /\ k \in Nat /\ m = k + 1 /\ m \in 1..n /\ k \notin N
        <4>1. m \in 0..n
          BY <2>1
        <4> HIDE DEF N
        <4> QED
          BY <2>1, <2>3, <4>1
      <3>2. PICK h \in [SUBSET (1..k) -> S] : Folded(h, k, b, G)
        BY <3>1
      <3> HIDE DEF k
      <3> DEFINE g == [s \in SUBSET (1..m) |-> IF m \in s THEN G[<<m, h[s \ {m}]>>] ELSE h[s]]
      <3>3. \A s \in SUBSET (1..m) : (m \in s => s \ {m} \in SUBSET (1..k)) /\ (m \notin s => s \in SUBSET (1..k))
        BY <3>1
      <3>4. g \in [SUBSET (1..m) -> S]
        BY <3>1, <3>3
      <3>5. ASSUME NEW s \in SUBSET (1..m)
            PROVE  g[s] = IF s = {} THEN b ELSE G[<<Max(s), g[s \ {Max(s)}]>>]
        <4>1. CASE m \in s
          <5>1. s \in SUBSET (0..m) /\ m \in Nat
            BY <3>1
          <5>2. Max(s) = m
            <6>1. Max(s) \in s /\ \A y \in s : y <= Max(s)
              BY <4>1, <5>1, LastExists
            <6>2. Max(s) \in 1..m
              BY <6>1
            <6>3. m <= Max(s)
              BY <4>1, <6>1
            <6> QED
              BY <5>1, <6>2, <6>3
          <5>3. g[s \ {m}] = h[s \ {m}]
            BY <3>3, <4>1
          <5> QED
            BY <4>1, <5>2, <5>3
        <4>2. CASE m \notin s
          <5>1. s \in SUBSET (1..k) /\ g[s] = h[s]
            BY <3>3, <4>2
          <5>2. CASE s = {}
            BY <3>2, <5>1, <5>2 DEF Folded
          <5>3. CASE s # {}
            <6>1. s \in SUBSET (0..k)
              BY <5>1
            <6>2. Max(s) \in s
              BY <3>1, <5>3, <6>1, LastExists
            <6>3. s \ {Max(s)} \in SUBSET (1..m) /\ m \notin s \ {Max(s)}
              BY <4>2, <5>1
            <6>4. g[s \ {Max(s)}] = h[s \ {Max(s)}]
              BY <6>3
            <6>5. h[s] = G[<<Max(s), h[s \ {Max(s)}]>>]
              BY <3>2, <5>1, <5>3 DEF Folded
            <6> QED
              BY <5>1, <5>3, <6>4, <6>5
          <5> QED
            BY <5>2, <5>3
        <4> QED
          BY <4>1, <4>2
      <3>6. Folded(g, m, b, G)
        <4> HIDE DEF g
        <4> QED
          BY <3>5 DEF Folded
      <3> HIDE DEF g
      <3>7. m \notin N
        BY <3>4, <3>6
      <3> QED
        BY <2>1, <3>7
    <2> QED
      BY <2>2, <2>3
  <1>2. n \in 0..n
    OBVIOUS
  <1>3. n \notin N
    <2> HIDE DEF N
    <2> QED
      BY <1>1
  <1> QED
    BY <1>2, <1>3

(* What is recursive in FoldLeft is the function it chooses.  As there is such *)
(* a function, the chosen one is one, and it stays in a set that an item does  *)
(* not lead out of.                                                            *)
LEMMA FoldStays ==
    ASSUME NEW n \in Nat, NEW S, NEW h, h[{}] \in S,
           \A s \in SUBSET (1..n) : (s # {} /\ h[s \ {Max(s)}] \in S) => h[s] \in S
    PROVE  h[1..n] \in S
  <1> DEFINE N == {i \in 0..n : h[1..i] \notin S}
  <1>1. N = {}
    <2> SUFFICES ASSUME N # {}
                 PROVE  FALSE
      OBVIOUS
    <2>1. PICK m \in N : \A y \in N : m <= y
      <3>1. N \in SUBSET Nat
        OBVIOUS
      <3> HIDE DEF N
      <3> QED
        BY <3>1, LeastExists
    <2>2. m \in 0..n /\ h[1..m] \notin S
      BY <2>1
    <2>3. m # 0
      <3>1. 1..0 = {}
        OBVIOUS
      <3> QED
        BY <2>2, <3>1
    <2>4. m \in 1..n /\ m - 1 \in 0..n
      BY <2>2, <2>3
    <2>5. m - 1 \notin N
      <3> HIDE DEF N
      <3> QED
        BY <2>1, <2>2, <2>4
    <2>6. h[1..(m - 1)] \in S
      BY <2>4, <2>5
    <2>7. 1..m \in SUBSET (1..n) /\ m \in 1..m /\ 1..m \in SUBSET (0..n)
      BY <2>4
    <2>8. Max(1..m) = m
      <3>1. Max(1..m) \in 1..m /\ \A y \in 1..m : y <= Max(1..m)
        BY <2>7, LastExists
      <3> QED
        BY <2>4, <2>7, <3>1
    <2>9. (1..m) \ {m} = 1..(m - 1)
      BY <2>4
    <2>10. 1..m # {}
      BY <2>7
    <2> HIDE DEF N
    <2> QED
      BY <2>2, <2>6, <2>7, <2>8, <2>9, <2>10
  <1>2. n \in 0..n
    OBVIOUS
  <1>3. n \notin N
    <2> HIDE DEF N
    <2> QED
      BY <1>1
  <1> QED
    BY <1>2, <1>3

LEMMA FedStaysIn ==
    ASSUME NEW S, NEW t \in S, NEW c \in Seq(ControlFunctions),
           \A u \in S, k \in ControlFunctions : FeedOne(u, k) \in S
    PROVE  FoldLeft(FeedOne, t, c) \in S
  <1> DEFINE n == Len(c)
             G == [p \in (1..n) \X S |-> FeedOne(p[2], c[p[1]])]
             Body(g, s) == IF s = {} THEN t ELSE FeedOne(g[s \ {Max(s)}], c[Max(s)])
             f == CHOOSE g : g = [s \in SUBSET DOMAIN c |-> Body(g, s)]
  <1>1. n \in Nat /\ DOMAIN c = 1..n /\ \A i \in 1..n : c[i] \in ControlFunctions
    OBVIOUS
  <1>2. FoldLeft(FeedOne, t, c) = f[DOMAIN c]
    BY DEF FoldLeft, MapThenFoldSet
  <1> HIDE DEF n
  <1>3. G \in [(1..n) \X S -> S]
    BY <1>1
  <1>4. PICK g \in [SUBSET (1..n) -> S] : Folded(g, n, t, G)
    <2> HIDE DEF G
    <2> QED
      BY <1>1, <1>3, FoldExists
  <1>5. \A s \in SUBSET (1..n) : s # {} => Max(s) \in 1..n
    <2> SUFFICES ASSUME NEW s \in SUBSET (1..n), s # {}
                 PROVE  Max(s) \in 1..n
      OBVIOUS
    <2>1. s \in SUBSET (0..n)
      BY <1>1
    <2>2. Max(s) \in s
      BY <1>1, <2>1, LastExists
    <2> QED
      BY <2>2
  <1>6. g = [s \in SUBSET DOMAIN c |-> Body(g, s)]
    <2>1. ASSUME NEW s \in SUBSET (1..n)
          PROVE  g[s] = Body(g, s)
      <3>1. CASE s = {}
        BY <1>4, <3>1 DEF Folded
      <3>2. CASE s # {}
        <4>1. s \ {Max(s)} \in SUBSET (1..n)
          OBVIOUS
        <4>2. g[s] = G[<<Max(s), g[s \ {Max(s)}]>>] /\ g[s \ {Max(s)}] \in S
          BY <1>4, <3>2, <4>1 DEF Folded
        <4> QED
          BY <1>5, <3>2, <4>2
      <3> QED
        BY <3>1, <3>2
    <2> HIDE DEF Body, G
    <2> QED
      BY <1>1, <1>4, <2>1
  <1>7. f = [s \in SUBSET DOMAIN c |-> Body(f, s)]
    <2> HIDE DEF Body
    <2> QED
      BY <1>6
  <1> HIDE DEF f
  <1>8. \A s \in SUBSET (1..n) : f[s] = Body(f, s)
    <2> HIDE DEF Body
    <2> QED
      BY <1>1, <1>7
  <1>9. f[{}] \in S /\ \A s \in SUBSET (1..n) : (s # {} /\ f[s \ {Max(s)}] \in S) => f[s] \in S
    <2>1. f[{}] = t
      BY <1>8
    <2>2. ASSUME NEW s \in SUBSET (1..n), s # {}, f[s \ {Max(s)}] \in S
          PROVE  f[s] \in S
      <3>1. c[Max(s)] \in ControlFunctions
        BY <1>1, <1>5, <2>2
      <3>2. f[s] = FeedOne(f[s \ {Max(s)}], c[Max(s)])
        BY <1>8, <2>2
      <3> QED
        BY <2>2, <3>1, <3>2
    <2> QED
      BY <2>1, <2>2
  <1>10. f[1..n] \in S
    BY <1>1, <1>9, FoldStays
  <1> QED
    BY <1>1, <1>2, <1>10

-----------------------------------------------------------------------------
(* What a screen is made of.                                                   *)

Chars == Narrow \cup Wide
Lines(cols) == [0..cols - 1 -> Chars]
Grids(cols, rows) == [0..rows - 1 -> Lines(cols)]

ScreensAt(cols, rows, X, Y) ==
    [cols : {cols}, rows : {rows}, cells : Grids(cols, rows), cx : X, cy : Y,
     pendingWrap : BOOLEAN, autoWrap : BOOLEAN, origin : BOOLEAN,
     top : 0..rows - 1, bottom : 0..rows - 1, alt : BOOLEAN,
     mainCells : Grids(cols, rows) \cup {NoGrid}, altCells : Grids(cols, rows) \cup {NoGrid},
     mainCx : Nat, mainCy : Nat, mainTop : 0..rows - 1, mainBottom : 0..rows - 1,
     saved : Nat \X Nat, decSaved : Nat \X Nat, lastChar : Chars,
     scrollback : Seq(Lines(cols)), viewOffset : Nat,
     sel : [anchor : Int, from : Int, to : Int], lost : Nat, wiped : Nat]

Screens(cols, rows) == ScreensAt(cols, rows, 0..cols - 1, 0..rows - 1)

(* Margins and view are in order, and behind the alternate screen there is a   *)
(* screen of the same size.  T and B are the margins that can be met: all of   *)
(* them, or those of the whole screen if a program has set no others.          *)
InOrder(s, cols, rows, T, B) ==
    /\ s.top <= s.bottom /\ s.mainTop <= s.mainBottom
    /\ s.top \in T /\ s.bottom \in B /\ (s.alt => s.mainTop \in T /\ s.mainBottom \in B)
    /\ Len(s.scrollback) <= ScrollbackMax /\ s.viewOffset <= Len(s.scrollback)
    /\ s.alt => s.mainCells \in Grids(cols, rows) /\ s.viewOffset = 0

Shape(s, cols, rows, T, B) == s \in Screens(cols, rows) /\ InOrder(s, cols, rows, T, B)

Size(cols, rows, T, B) ==
    /\ cols \in Nat /\ rows \in Nat /\ cols > 1 /\ rows > 1
    /\ 0 \in T /\ rows - 1 \in B

LEMMA CursorFacts ==
    ASSUME NEW cols, NEW rows, NEW T, NEW B, Size(cols, rows, T, B),
           NEW s, Shape(s, cols, rows, T, B)
    PROVE  /\ cols \in Nat /\ rows \in Nat /\ cols > 1 /\ rows > 1 /\ s.cols = cols /\ s.rows = rows
           /\ s.cx \in 0..cols - 1 /\ s.cy \in 0..rows - 1
           /\ s.top \in 0..rows - 1 /\ s.bottom \in 0..rows - 1 /\ s.top <= s.bottom
           /\ s.mainTop \in 0..rows - 1 /\ s.mainBottom \in 0..rows - 1 /\ s.mainTop <= s.mainBottom
           /\ s.mainCx \in Nat /\ s.mainCy \in Nat
           /\ s.pendingWrap \in BOOLEAN /\ s.autoWrap \in BOOLEAN /\ s.origin \in BOOLEAN /\ s.alt \in BOOLEAN
  BY DEF Shape, Size, Screens, ScreensAt, InOrder

(* The cursor moves.                                                           *)

LEMMA CursorUpKeeps ==
    ASSUME NEW cols, NEW rows, NEW T, NEW B, Size(cols, rows, T, B),
           NEW s, Shape(s, cols, rows, T, B), NEW n \in Nat
    PROVE  Shape(cursorUp(s, n), cols, rows, T, B)
  <1> DEFINE y == Most(RowMin(s), s.cy - n)
  <1>1. y \in 0..rows - 1
    BY CursorFacts DEF Least, Most, Bound, RowMin
  <1>2. cursorUp(s, n) = [s EXCEPT !.pendingWrap = FALSE, !.cy = y]
    BY DEF cursorUp
  <1> HIDE DEF y
  <1>3. [s EXCEPT !.pendingWrap = FALSE, !.cy = y] \in Screens(cols, rows)
    BY <1>1, ZenonT(60) DEF Shape, Screens, ScreensAt
  <1>4. InOrder([s EXCEPT !.pendingWrap = FALSE, !.cy = y], cols, rows, T, B)
    BY <1>3 DEF Shape, InOrder, Screens, ScreensAt
  <1> QED
    BY <1>2, <1>3, <1>4 DEF Shape

LEMMA CursorDownKeeps ==
    ASSUME NEW cols, NEW rows, NEW T, NEW B, Size(cols, rows, T, B),
           NEW s, Shape(s, cols, rows, T, B), NEW n \in Nat
    PROVE  Shape(cursorDown(s, n), cols, rows, T, B)
  <1> DEFINE y == Least(RowMax(s), s.cy + n)
  <1>1. y \in 0..rows - 1
    BY CursorFacts DEF Least, Most, Bound, RowMax
  <1>2. cursorDown(s, n) = [s EXCEPT !.pendingWrap = FALSE, !.cy = y]
    BY DEF cursorDown
  <1> HIDE DEF y
  <1>3. [s EXCEPT !.pendingWrap = FALSE, !.cy = y] \in Screens(cols, rows)
    BY <1>1, ZenonT(60) DEF Shape, Screens, ScreensAt
  <1>4. InOrder([s EXCEPT !.pendingWrap = FALSE, !.cy = y], cols, rows, T, B)
    BY <1>3 DEF Shape, InOrder, Screens, ScreensAt
  <1> QED
    BY <1>2, <1>3, <1>4 DEF Shape

LEMMA CursorRightKeeps ==
    ASSUME NEW cols, NEW rows, NEW T, NEW B, Size(cols, rows, T, B),
           NEW s, Shape(s, cols, rows, T, B), NEW n \in Nat
    PROVE  Shape(cursorRight(s, n), cols, rows, T, B)
  <1> DEFINE x == Least(s.cols - 1, s.cx + n)
  <1>1. x \in 0..cols - 1
    BY CursorFacts DEF Least, Most, Bound
  <1>2. cursorRight(s, n) = [s EXCEPT !.pendingWrap = FALSE, !.cx = x]
    BY DEF cursorRight
  <1> HIDE DEF x
  <1>3. [s EXCEPT !.pendingWrap = FALSE, !.cx = x] \in Screens(cols, rows)
    BY <1>1, ZenonT(60) DEF Shape, Screens, ScreensAt
  <1>4. InOrder([s EXCEPT !.pendingWrap = FALSE, !.cx = x], cols, rows, T, B)
    BY <1>3 DEF Shape, InOrder, Screens, ScreensAt
  <1> QED
    BY <1>2, <1>3, <1>4 DEF Shape

LEMMA CursorLeftKeeps ==
    ASSUME NEW cols, NEW rows, NEW T, NEW B, Size(cols, rows, T, B),
           NEW s, Shape(s, cols, rows, T, B), NEW n \in Nat
    PROVE  Shape(cursorLeft(s, n), cols, rows, T, B)
  <1> DEFINE x == Most(0, s.cx - n)
  <1>1. x \in 0..cols - 1
    BY CursorFacts DEF Least, Most, Bound
  <1>2. cursorLeft(s, n) = [s EXCEPT !.pendingWrap = FALSE, !.cx = x]
    BY DEF cursorLeft
  <1> HIDE DEF x
  <1>3. [s EXCEPT !.pendingWrap = FALSE, !.cx = x] \in Screens(cols, rows)
    BY <1>1, ZenonT(60) DEF Shape, Screens, ScreensAt
  <1>4. InOrder([s EXCEPT !.pendingWrap = FALSE, !.cx = x], cols, rows, T, B)
    BY <1>3 DEF Shape, InOrder, Screens, ScreensAt
  <1> QED
    BY <1>2, <1>3, <1>4 DEF Shape

LEMMA CursorColumnKeeps ==
    ASSUME NEW cols, NEW rows, NEW T, NEW B, Size(cols, rows, T, B),
           NEW s, Shape(s, cols, rows, T, B), NEW n \in Nat
    PROVE  Shape(cursorColumn(s, n), cols, rows, T, B)
  <1> DEFINE x == Bound(0, n - 1, s.cols - 1)
  <1>1. x \in 0..cols - 1
    BY CursorFacts DEF Least, Most, Bound
  <1>2. cursorColumn(s, n) = [s EXCEPT !.pendingWrap = FALSE, !.cx = x]
    BY DEF cursorColumn
  <1> HIDE DEF x
  <1>3. [s EXCEPT !.pendingWrap = FALSE, !.cx = x] \in Screens(cols, rows)
    BY <1>1, ZenonT(60) DEF Shape, Screens, ScreensAt
  <1>4. InOrder([s EXCEPT !.pendingWrap = FALSE, !.cx = x], cols, rows, T, B)
    BY <1>3 DEF Shape, InOrder, Screens, ScreensAt
  <1> QED
    BY <1>2, <1>3, <1>4 DEF Shape

LEMMA CursorRowKeeps ==
    ASSUME NEW cols, NEW rows, NEW T, NEW B, Size(cols, rows, T, B),
           NEW s, Shape(s, cols, rows, T, B), NEW n \in Nat
    PROVE  Shape(cursorRow(s, n), cols, rows, T, B)
  <1> DEFINE y == Bound(RowMin(s), RowMin(s) + n - 1, RowMax(s))
  <1>1. y \in 0..rows - 1
    BY CursorFacts DEF Least, Most, Bound, RowMin, RowMax
  <1>2. cursorRow(s, n) = [s EXCEPT !.pendingWrap = FALSE, !.cy = y]
    BY DEF cursorRow
  <1> HIDE DEF y
  <1>3. [s EXCEPT !.pendingWrap = FALSE, !.cy = y] \in Screens(cols, rows)
    BY <1>1, ZenonT(60) DEF Shape, Screens, ScreensAt
  <1>4. InOrder([s EXCEPT !.pendingWrap = FALSE, !.cy = y], cols, rows, T, B)
    BY <1>3 DEF Shape, InOrder, Screens, ScreensAt
  <1> QED
    BY <1>2, <1>3, <1>4 DEF Shape

LEMMA CarriageReturnKeeps ==
    ASSUME NEW cols, NEW rows, NEW T, NEW B, Size(cols, rows, T, B),
           NEW s, Shape(s, cols, rows, T, B)
    PROVE  Shape(carriageReturn(s), cols, rows, T, B)
  <1> DEFINE x == 0
  <1>1. x \in 0..cols - 1
    BY CursorFacts DEF Least, Most, Bound
  <1>2. carriageReturn(s) = [s EXCEPT !.pendingWrap = FALSE, !.cx = x]
    BY DEF carriageReturn
  <1> HIDE DEF x
  <1>3. [s EXCEPT !.pendingWrap = FALSE, !.cx = x] \in Screens(cols, rows)
    BY <1>1, ZenonT(60) DEF Shape, Screens, ScreensAt
  <1>4. InOrder([s EXCEPT !.pendingWrap = FALSE, !.cx = x], cols, rows, T, B)
    BY <1>3 DEF Shape, InOrder, Screens, ScreensAt
  <1> QED
    BY <1>2, <1>3, <1>4 DEF Shape

LEMMA BackspaceKeeps ==
    ASSUME NEW cols, NEW rows, NEW T, NEW B, Size(cols, rows, T, B),
           NEW s, Shape(s, cols, rows, T, B)
    PROVE  Shape(backspace(s), cols, rows, T, B)
  <1> DEFINE x == Most(0, s.cx - 1)
  <1>1. x \in 0..cols - 1
    BY CursorFacts DEF Least, Most, Bound
  <1>2. backspace(s) = [s EXCEPT !.pendingWrap = FALSE, !.cx = x]
    BY DEF backspace
  <1> HIDE DEF x
  <1>3. [s EXCEPT !.pendingWrap = FALSE, !.cx = x] \in Screens(cols, rows)
    BY <1>1, ZenonT(60) DEF Shape, Screens, ScreensAt
  <1>4. InOrder([s EXCEPT !.pendingWrap = FALSE, !.cx = x], cols, rows, T, B)
    BY <1>3 DEF Shape, InOrder, Screens, ScreensAt
  <1> QED
    BY <1>2, <1>3, <1>4 DEF Shape

LEMMA TabKeeps ==
    ASSUME NEW cols, NEW rows, NEW T, NEW B, Size(cols, rows, T, B),
           NEW s, Shape(s, cols, rows, T, B)
    PROVE  Shape(tab(s), cols, rows, T, B)
  <1> DEFINE x == Least(s.cols - 1, ((s.cx \div 8) + 1) * 8)
  <1>1. x \in 0..cols - 1
    BY CursorFacts DEF Least, Most, Bound
  <1>2. tab(s) = [s EXCEPT !.pendingWrap = FALSE, !.cx = x]
    BY DEF tab
  <1> HIDE DEF x
  <1>3. [s EXCEPT !.pendingWrap = FALSE, !.cx = x] \in Screens(cols, rows)
    BY <1>1, ZenonT(60) DEF Shape, Screens, ScreensAt
  <1>4. InOrder([s EXCEPT !.pendingWrap = FALSE, !.cx = x], cols, rows, T, B)
    BY <1>3 DEF Shape, InOrder, Screens, ScreensAt
  <1> QED
    BY <1>2, <1>3, <1>4 DEF Shape

LEMMA SaveKeeps ==
    ASSUME NEW cols, NEW rows, NEW T, NEW B, Size(cols, rows, T, B),
           NEW s, Shape(s, cols, rows, T, B)
    PROVE  Shape(saveCursor(s), cols, rows, T, B)
  <1> DEFINE at == <<s.cx, s.cy>>
  <1>1. at \in Nat \X Nat
    BY CursorFacts DEF Least, Most, Bound
  <1>2. saveCursor(s) = [s EXCEPT !.saved = at]
    BY DEF saveCursor
  <1> HIDE DEF at
  <1>3. [s EXCEPT !.saved = at] \in Screens(cols, rows)
    BY <1>1, ZenonT(60) DEF Shape, Screens, ScreensAt
  <1>4. InOrder([s EXCEPT !.saved = at], cols, rows, T, B)
    BY <1>3 DEF Shape, InOrder, Screens, ScreensAt
  <1> QED
    BY <1>2, <1>3, <1>4 DEF Shape

LEMMA DecSaveKeeps ==
    ASSUME NEW cols, NEW rows, NEW T, NEW B, Size(cols, rows, T, B),
           NEW s, Shape(s, cols, rows, T, B)
    PROVE  Shape(decSaveCursor(s), cols, rows, T, B)
  <1> DEFINE at == <<s.cx, s.cy>>
  <1>1. at \in Nat \X Nat
    BY CursorFacts DEF Least, Most, Bound
  <1>2. decSaveCursor(s) = [s EXCEPT !.decSaved = at]
    BY DEF decSaveCursor
  <1> HIDE DEF at
  <1>3. [s EXCEPT !.decSaved = at] \in Screens(cols, rows)
    BY <1>1 DEF Shape, Screens, ScreensAt
  <1>4. InOrder([s EXCEPT !.decSaved = at], cols, rows, T, B)
    BY <1>3 DEF Shape, InOrder, Screens, ScreensAt
  <1> QED
    BY <1>2, <1>3, <1>4 DEF Shape

LEMMA OriginOnKeeps ==
    ASSUME NEW cols, NEW rows, NEW T, NEW B, Size(cols, rows, T, B),
           NEW s, Shape(s, cols, rows, T, B)
    PROVE  Shape(setOriginMode(s, TRUE), cols, rows, T, B)
  <1> DEFINE x == 0
             y == s.top
  <1>1. /\ x \in 0..cols - 1
        /\ y \in 0..rows - 1
    BY CursorFacts DEF Least, Most, Bound
  <1>2. setOriginMode(s, TRUE) = [s EXCEPT !.origin = TRUE, !.cx = x, !.cy = y, !.pendingWrap = FALSE]
    BY DEF setOriginMode
  <1> HIDE DEF x, y
  <1>3. [s EXCEPT !.origin = TRUE, !.cx = x, !.cy = y, !.pendingWrap = FALSE] \in Screens(cols, rows)
    BY <1>1, ZenonT(60) DEF Shape, Screens, ScreensAt
  <1>4. InOrder([s EXCEPT !.origin = TRUE, !.cx = x, !.cy = y, !.pendingWrap = FALSE], cols, rows, T, B)
    BY <1>3 DEF Shape, InOrder, Screens, ScreensAt
  <1> QED
    BY <1>2, <1>3, <1>4 DEF Shape

LEMMA OriginOffKeeps ==
    ASSUME NEW cols, NEW rows, NEW T, NEW B, Size(cols, rows, T, B),
           NEW s, Shape(s, cols, rows, T, B)
    PROVE  Shape(setOriginMode(s, FALSE), cols, rows, T, B)
  <1> DEFINE x == 0
             y == 0
  <1>1. /\ x \in 0..cols - 1
        /\ y \in 0..rows - 1
    BY CursorFacts DEF Least, Most, Bound
  <1>2. setOriginMode(s, FALSE) = [s EXCEPT !.origin = FALSE, !.cx = x, !.cy = y, !.pendingWrap = FALSE]
    BY DEF setOriginMode
  <1> HIDE DEF x, y
  <1>3. [s EXCEPT !.origin = FALSE, !.cx = x, !.cy = y, !.pendingWrap = FALSE] \in Screens(cols, rows)
    BY <1>1, ZenonT(60) DEF Shape, Screens, ScreensAt
  <1>4. InOrder([s EXCEPT !.origin = FALSE, !.cx = x, !.cy = y, !.pendingWrap = FALSE], cols, rows, T, B)
    BY <1>3 DEF Shape, InOrder, Screens, ScreensAt
  <1> QED
    BY <1>2, <1>3, <1>4 DEF Shape

(* A cursor that was somewhere else comes back onto the screen.                *)
Loose(s, cols, rows, T, B) == s \in ScreensAt(cols, rows, Nat, Nat) /\ InOrder(s, cols, rows, T, B)

LEMMA ClampShapes ==
    ASSUME NEW cols, NEW rows, NEW T, NEW B, Size(cols, rows, T, B),
           NEW s, Loose(s, cols, rows, T, B)
    PROVE  Shape(clampCursor(s), cols, rows, T, B)
  <1> DEFINE x == Bound(0, s.cx, s.cols - 1)
             y == IF s.origin THEN Bound(s.top, s.cy, s.bottom) ELSE Bound(0, s.cy, s.rows - 1)
  <1>1. /\ cols \in Nat /\ rows \in Nat /\ cols > 1 /\ rows > 1 /\ s.cols = cols /\ s.rows = rows
        /\ s.cx \in Nat /\ s.cy \in Nat /\ s.top \in 0..rows - 1 /\ s.bottom \in 0..rows - 1
        /\ s.top <= s.bottom /\ s.origin \in BOOLEAN
    BY DEF Loose, Size, ScreensAt, InOrder
  <1>2. x \in 0..cols - 1
    BY <1>1 DEF Bound, Least, Most
  <1>3. y \in 0..rows - 1
    <2>1. CASE s.origin
      BY <1>1, <2>1 DEF Bound, Least, Most
    <2>2. CASE ~s.origin
      BY <1>1, <2>2 DEF Bound, Least, Most
    <2> QED
      BY <1>1, <2>1, <2>2
  <1>4. clampCursor(s) = [s EXCEPT !.cx = x, !.cy = y]
    BY DEF clampCursor
  <1> HIDE DEF x, y
  <1>5. [s EXCEPT !.cx = x, !.cy = y] \in Screens(cols, rows)
    BY <1>2, <1>3, ZenonT(60) DEF Loose, Screens, ScreensAt
  <1>6. InOrder([s EXCEPT !.cx = x, !.cy = y], cols, rows, T, B)
    BY <1>5 DEF Loose, InOrder, Screens, ScreensAt
  <1> QED
    BY <1>4, <1>5, <1>6 DEF Shape

LEMMA RestoreKeeps ==
    ASSUME NEW cols, NEW rows, NEW T, NEW B, Size(cols, rows, T, B),
           NEW s, Shape(s, cols, rows, T, B)
    PROVE  Shape(restoreCursor(s), cols, rows, T, B)
  <1> DEFINE v == [s EXCEPT !.cx = s.saved[1], !.cy = s.saved[2], !.pendingWrap = FALSE]
  <1>1. s.saved[1] \in Nat /\ s.saved[2] \in Nat
    BY DEF Shape, Screens, ScreensAt
  <1>2. v \in ScreensAt(cols, rows, Nat, Nat)
    BY <1>1, ZenonT(60) DEF Shape, Screens, ScreensAt
  <1>3. InOrder(v, cols, rows, T, B)
    BY <1>2 DEF Shape, InOrder, Screens, ScreensAt
  <1>4. restoreCursor(s) = clampCursor(v)
    BY DEF restoreCursor
  <1> HIDE DEF v
  <1> QED
    BY <1>2, <1>3, <1>4, ClampShapes DEF Loose

LEMMA DecRestoreKeeps ==
    ASSUME NEW cols, NEW rows, NEW T, NEW B, Size(cols, rows, T, B),
           NEW s, Shape(s, cols, rows, T, B)
    PROVE  Shape(decRestoreCursor(s), cols, rows, T, B)
  <1> DEFINE v == [s EXCEPT !.cx = s.decSaved[1], !.cy = s.decSaved[2]]
  <1>1. s.decSaved[1] \in Nat /\ s.decSaved[2] \in Nat
    BY DEF Shape, Screens, ScreensAt
  <1>2. v \in ScreensAt(cols, rows, Nat, Nat)
    BY <1>1, ZenonT(60) DEF Shape, Screens, ScreensAt
  <1>3. InOrder(v, cols, rows, T, B)
    BY <1>2 DEF Shape, InOrder, Screens, ScreensAt
  <1>4. decRestoreCursor(s) = clampCursor(v)
    BY DEF decRestoreCursor
  <1> HIDE DEF v
  <1> QED
    BY <1>2, <1>3, <1>4, ClampShapes DEF Loose

(* A region that is asked for has more than one line, or it is the screen.     *)
LEMMA RegionKeeps ==
    ASSUME NEW cols, NEW rows, NEW T, NEW B, Size(cols, rows, T, B),
           NEW s, Shape(s, cols, rows, T, B), 
           NEW first \in Nat, NEW last \in Nat,
           setScrollRegion(s, first, last).top \in T, setScrollRegion(s, first, last).bottom \in B
    PROVE  Shape(setScrollRegion(s, first, last), cols, rows, T, B)
  <1> DEFINE low  == Bound(1, first, s.rows) - 1
             high == Bound(1, last, s.rows) - 1
             a == IF high > low THEN low ELSE 0
             b == IF high > low THEN high ELSE s.rows - 1
             y == IF s.origin THEN a ELSE 0
             x == 0
  <1>1. low \in 0..rows - 1 /\ high \in 0..rows - 1
    BY CursorFacts DEF Bound, Least, Most
  <1>2. setScrollRegion(s, first, last)
          = [s EXCEPT !.top = a, !.bottom = b, !.cx = x, !.cy = y, !.pendingWrap = FALSE]
    BY DEF setScrollRegion
  <1> HIDE DEF low, high
  <1>3. a \in 0..rows - 1 /\ b \in 0..rows - 1 /\ a <= b
    BY <1>1, CursorFacts
  <1>4. x \in 0..cols - 1
    BY CursorFacts
  <1> HIDE DEF a, b, x
  <1>5. y \in 0..rows - 1
    BY <1>3, CursorFacts
  <1> HIDE DEF y
  <1> DEFINE v == [s EXCEPT !.top = a, !.bottom = b, !.cx = x, !.cy = y, !.pendingWrap = FALSE]
  <1>6. v \in Screens(cols, rows)
    BY <1>3, <1>4, <1>5, ZenonT(60) DEF Shape, Screens, ScreensAt
  <1>8. v.top \in T /\ v.bottom \in B
    BY <1>2
  <1>7. InOrder(v, cols, rows, T, B)
    BY <1>3, <1>6, <1>8 DEF Shape, InOrder, Screens, ScreensAt
  <1> QED
    BY <1>2, <1>6, <1>7 DEF Shape

LEMMA RegionStays ==
    ASSUME NEW cols, NEW rows, Size(cols, rows, 0..rows - 1, 0..rows - 1),
           NEW s, Shape(s, cols, rows, 0..rows - 1, 0..rows - 1), NEW first \in Nat, NEW last \in Nat
    PROVE  Shape(setScrollRegion(s, first, last), cols, rows, 0..rows - 1, 0..rows - 1)
  <1> DEFINE low  == Bound(1, first, s.rows) - 1
             high == Bound(1, last, s.rows) - 1
             a == IF high > low THEN low ELSE 0
             b == IF high > low THEN high ELSE s.rows - 1
  <1>1. low \in 0..rows - 1 /\ high \in 0..rows - 1
    BY CursorFacts DEF Bound, Least, Most
  <1>2. setScrollRegion(s, first, last).top = a /\ setScrollRegion(s, first, last).bottom = b
    BY DEF setScrollRegion, Shape, Screens, ScreensAt
  <1> HIDE DEF low, high
  <1>3. a \in 0..rows - 1 /\ b \in 0..rows - 1
    BY <1>1, CursorFacts
  <1> QED
    BY <1>2, <1>3, RegionKeeps

(* The cells change, and nothing else.                                         *)
LEMMA CellsKeep ==
    ASSUME NEW cols, NEW rows, NEW T, NEW B, Size(cols, rows, T, B),
           NEW s, Shape(s, cols, rows, T, B), NEW g \in Grids(cols, rows)
    PROVE  Shape([s EXCEPT !.cells = g], cols, rows, T, B)
  <1> DEFINE v == [s EXCEPT !.cells = g]
  <1>1. v \in Screens(cols, rows)
    BY ZenonT(60) DEF Shape, Screens, ScreensAt
  <1>2. InOrder(v, cols, rows, T, B)
    BY <1>1 DEF Shape, InOrder, Screens, ScreensAt
  <1> QED
    BY <1>1, <1>2 DEF Shape

LEMMA CellFacts ==
    ASSUME NEW cols, NEW rows, NEW T, NEW B, Size(cols, rows, T, B),
           NEW s, Shape(s, cols, rows, T, B)
    PROVE  /\ s.cells \in Grids(cols, rows) /\ \A r \in 0..rows - 1 : s.cells[r] \in Lines(cols)
           /\ \A r \in 0..rows - 1, c \in 0..cols - 1 : s.cells[r][c] \in Chars
           /\ Blank \in Chars /\ BlankRow(cols) \in Lines(cols)
           /\ BlankGrid(cols, rows) \in Grids(cols, rows)
  <1>1. s.cells \in Grids(cols, rows)
    BY DEF Shape, Screens, ScreensAt
  <1>2. Blank \in Chars
    BY ScreenAssumption DEF Blank, Chars
  <1>3. BlankRow(cols) \in Lines(cols)
    BY <1>2 DEF BlankRow, Lines
  <1>4. BlankGrid(cols, rows) \in Grids(cols, rows)
    BY <1>3 DEF BlankGrid, Grids
  <1> QED
    BY <1>1, <1>2, <1>3, <1>4 DEF Grids, Lines

LEMMA RowsUpKeep ==
    ASSUME NEW cols, NEW rows, NEW T, NEW B, Size(cols, rows, T, B),
           NEW s, Shape(s, cols, rows, T, B), NEW from \in Nat, NEW n \in Nat
    PROVE  Shape(RowsUp(s, from, n), cols, rows, T, B)
  <1> DEFINE g == [r \in 0..s.rows - 1 |->
                     IF r < from \/ r > s.bottom THEN s.cells[r]
                     ELSE IF r + n <= s.bottom THEN s.cells[r + n] ELSE BlankRow(s.cols)]
  <1>1. g \in Grids(cols, rows)
    <2>1. ASSUME NEW r \in 0..rows - 1
          PROVE  g[r] \in Lines(cols)
      BY CursorFacts, CellFacts
    <2> HIDE DEF g
    <2>2. DOMAIN g = 0..rows - 1 /\ g = [r \in 0..rows - 1 |-> g[r]]
      BY CursorFacts DEF g
    <2> QED
      BY <2>1, <2>2 DEF Grids
  <1>2. RowsUp(s, from, n) = [s EXCEPT !.cells = g]
    BY DEF RowsUp
  <1> HIDE DEF g
  <1> QED
    BY <1>1, <1>2, CellsKeep

LEMMA RowsDownKeep ==
    ASSUME NEW cols, NEW rows, NEW T, NEW B, Size(cols, rows, T, B),
           NEW s, Shape(s, cols, rows, T, B), NEW from \in Nat, NEW n \in Nat
    PROVE  Shape(RowsDown(s, from, n), cols, rows, T, B)
  <1> DEFINE g == [r \in 0..s.rows - 1 |->
                     IF r < from \/ r > s.bottom THEN s.cells[r]
                     ELSE IF r - n >= from THEN s.cells[r - n] ELSE BlankRow(s.cols)]
  <1>1. g \in Grids(cols, rows)
    <2>1. ASSUME NEW r \in 0..rows - 1
          PROVE  g[r] \in Lines(cols)
      BY CursorFacts, CellFacts
    <2> HIDE DEF g
    <2>2. DOMAIN g = 0..rows - 1 /\ g = [r \in 0..rows - 1 |-> g[r]]
      BY CursorFacts DEF g
    <2> QED
      BY <2>1, <2>2 DEF Grids
  <1>2. RowsDown(s, from, n) = [s EXCEPT !.cells = g]
    BY DEF RowsDown
  <1> HIDE DEF g
  <1> QED
    BY <1>1, <1>2, CellsKeep

LEMMA WipedKeeps ==
    ASSUME NEW cols, NEW rows, NEW T, NEW B, Size(cols, rows, T, B),
           NEW s, Shape(s, cols, rows, T, B)
    PROVE  Shape(Wiped(s), cols, rows, T, B)
  <1>1. Wiped(s) = [s EXCEPT !.cells = BlankGrid(cols, rows)] /\ BlankGrid(cols, rows) \in Grids(cols, rows)
    BY CursorFacts, CellFacts DEF Wiped
  <1> QED
    BY <1>1, CellsKeep

(* Erasing.                                                                    *)

LEMMA EraseBelowKeeps ==
    ASSUME NEW cols, NEW rows, NEW T, NEW B, Size(cols, rows, T, B),
           NEW s, Shape(s, cols, rows, T, B)
    PROVE  Shape(eraseInDisplay(s, 0), cols, rows, T, B)
  <1> DEFINE g == [r \in 0..s.rows - 1 |-> [c \in 0..s.cols - 1 |->
                     IF r > s.cy \/ (r = s.cy /\ c >= s.cx) THEN Blank ELSE s.cells[r][c]]]
  <1>1. g \in Grids(cols, rows)
    BY CursorFacts, CellFacts DEF Grids, Lines
  <1>2. eraseInDisplay(s, 0) = [s EXCEPT !.cells = g]
    BY DEF eraseInDisplay, EraseWhere
  <1> HIDE DEF g
  <1> QED
    BY <1>1, <1>2, CellsKeep

LEMMA EraseAboveKeeps ==
    ASSUME NEW cols, NEW rows, NEW T, NEW B, Size(cols, rows, T, B),
           NEW s, Shape(s, cols, rows, T, B)
    PROVE  Shape(eraseInDisplay(s, 1), cols, rows, T, B)
  <1> DEFINE g == [r \in 0..s.rows - 1 |-> [c \in 0..s.cols - 1 |->
                     IF r < s.cy \/ (r = s.cy /\ c <= s.cx) THEN Blank ELSE s.cells[r][c]]]
  <1>1. g \in Grids(cols, rows)
    BY CursorFacts, CellFacts DEF Grids, Lines
  <1>2. eraseInDisplay(s, 1) = [s EXCEPT !.cells = g]
    BY DEF eraseInDisplay, EraseWhere
  <1> HIDE DEF g
  <1> QED
    BY <1>1, <1>2, CellsKeep

LEMMA EraseLineKeeps ==
    ASSUME NEW cols, NEW rows, NEW T, NEW B, Size(cols, rows, T, B),
           NEW s, Shape(s, cols, rows, T, B), NEW mode \in 0..2
    PROVE  Shape(eraseInLine(s, mode), cols, rows, T, B)
  <1> DEFINE g == [r \in 0..s.rows - 1 |-> [c \in 0..s.cols - 1 |->
                     IF r = s.cy /\ (mode = 0 => c >= s.cx) /\ (mode = 1 => c <= s.cx) THEN Blank ELSE s.cells[r][c]]]
  <1>1. g \in Grids(cols, rows)
    BY CursorFacts, CellFacts DEF Grids, Lines
  <1>2. eraseInLine(s, mode) = [s EXCEPT !.cells = g]
    BY DEF eraseInLine, EraseWhere
  <1> HIDE DEF g
  <1> QED
    BY <1>1, <1>2, CellsKeep

LEMMA EraseCharsKeeps ==
    ASSUME NEW cols, NEW rows, NEW T, NEW B, Size(cols, rows, T, B),
           NEW s, Shape(s, cols, rows, T, B), NEW n \in Nat
    PROVE  Shape(eraseChars(s, n), cols, rows, T, B)
  <1> DEFINE g == [r \in 0..s.rows - 1 |-> [c \in 0..s.cols - 1 |->
                     IF r = s.cy /\ c \in s.cx..s.cx + n - 1 THEN Blank ELSE s.cells[r][c]]]
  <1>1. g \in Grids(cols, rows)
    BY CursorFacts, CellFacts DEF Grids, Lines
  <1>2. eraseChars(s, n) = [s EXCEPT !.cells = g]
    BY DEF eraseChars, EraseWhere
  <1> HIDE DEF g
  <1> QED
    BY <1>1, <1>2, CellsKeep

LEMMA InsertCharsKeeps ==
    ASSUME NEW cols, NEW rows, NEW T, NEW B, Size(cols, rows, T, B),
           NEW s, Shape(s, cols, rows, T, B), NEW n \in Nat
    PROVE  Shape(insertChars(s, n), cols, rows, T, B)
  <1> DEFINE row == [c \in 0..s.cols - 1 |->
                       IF c < s.cx THEN s.cells[s.cy][c]
                       ELSE IF c - n >= s.cx THEN s.cells[s.cy][c - n] ELSE Blank]
             g == [s.cells EXCEPT ![s.cy] = row]
  <1>1. row \in Lines(cols)
    BY CursorFacts, CellFacts, SMTT(40) DEF Lines
  <1>2. insertChars(s, n) = [s EXCEPT !.cells = g]
    BY DEF insertChars
  <1> HIDE DEF row
  <1>3. g \in Grids(cols, rows)
    BY <1>1, CellFacts DEF Grids
  <1> HIDE DEF g
  <1> QED
    BY <1>2, <1>3, CellsKeep

LEMMA DeleteCharsKeeps ==
    ASSUME NEW cols, NEW rows, NEW T, NEW B, Size(cols, rows, T, B),
           NEW s, Shape(s, cols, rows, T, B), NEW n \in Nat
    PROVE  Shape(deleteChars(s, n), cols, rows, T, B)
  <1> DEFINE row == [c \in 0..s.cols - 1 |->
                       IF c < s.cx THEN s.cells[s.cy][c]
                       ELSE IF c + n < s.cols THEN s.cells[s.cy][c + n] ELSE Blank]
             g == [s.cells EXCEPT ![s.cy] = row]
  <1>1. row \in Lines(cols)
    BY CursorFacts, CellFacts DEF Lines
  <1>2. deleteChars(s, n) = [s EXCEPT !.cells = g]
    BY DEF deleteChars
  <1> HIDE DEF row
  <1>3. g \in Grids(cols, rows)
    BY <1>1, CellFacts DEF Grids
  <1> HIDE DEF g
  <1> QED
    BY <1>2, <1>3, CellsKeep

LEMMA ClearScrollbackKeeps ==
    ASSUME NEW cols, NEW rows, NEW T, NEW B, Size(cols, rows, T, B),
           NEW s, Shape(s, cols, rows, T, B)
    PROVE  Shape(clearScrollback(s), cols, rows, T, B)
  <1> DEFINE k == IF s.scrollback = <<>> THEN s.wiped ELSE s.wiped + 1
             v == [s EXCEPT !.scrollback = <<>>, !.viewOffset = 0, !.wiped = k]
  <1>1. k \in Nat /\ <<>> \in Seq(Lines(cols)) /\ Len(<<>>) = 0 /\ ScrollbackMax \in Nat
    <2>1. s.wiped \in Nat
      BY DEF Shape, Screens, ScreensAt
    <2>2. k \in Nat
      BY <2>1
    <2>3. <<>> \in Seq(Lines(cols)) /\ Len(<<>>) = 0
      OBVIOUS
    <2> QED
      BY <2>2, <2>3, ScreenAssumption
  <1>2. clearScrollback(s) = v
    BY DEF clearScrollback
  <1> HIDE DEF k
  <1>3. v \in Screens(cols, rows)
    BY <1>1 DEF Shape, Screens, ScreensAt
  <1>4. v.scrollback = <<>> /\ v.viewOffset = 0 /\ v.alt = s.alt /\ v.mainCells = s.mainCells
        /\ v.top = s.top /\ v.bottom = s.bottom /\ v.mainTop = s.mainTop /\ v.mainBottom = s.mainBottom
    BY DEF Shape, Screens, ScreensAt
  <1> HIDE DEF v
  <1>5. InOrder(v, cols, rows, T, B)
    BY <1>1, <1>4 DEF Shape, InOrder
  <1> QED
    BY <1>2, <1>3, <1>5 DEF Shape

LEMMA DisplayKeeps ==
    ASSUME NEW cols, NEW rows, NEW T, NEW B, Size(cols, rows, T, B),
           NEW s, Shape(s, cols, rows, T, B), NEW mode \in 0..3
    PROVE  Shape(eraseInDisplay(s, mode), cols, rows, T, B)
  <1>1. CASE mode = 0
    BY <1>1, EraseBelowKeeps
  <1>2. CASE mode = 1
    BY <1>2, EraseAboveKeeps
  <1>3. CASE mode = 2
    BY <1>3, WipedKeeps DEF eraseInDisplay
  <1>4. CASE mode = 3
    <2>1. Shape(Wiped(s), cols, rows, T, B)
      BY WipedKeeps
    <2>2. eraseInDisplay(s, mode) = clearScrollback(Wiped(s))
      BY <1>4 DEF eraseInDisplay
    <2> QED
      BY <2>1, <2>2, ClearScrollbackKeeps
  <1> QED
    BY <1>1, <1>2, <1>3, <1>4

(* The selection and the view.                                                 *)

Selections == [anchor : Int, from : Int, to : Int]

LEMMA SelKeeps ==
    ASSUME NEW cols, NEW rows, NEW T, NEW B, Size(cols, rows, T, B),
           NEW s, Shape(s, cols, rows, T, B), NEW q \in Selections
    PROVE  Shape([s EXCEPT !.sel = q], cols, rows, T, B)
  <1> DEFINE v == [s EXCEPT !.sel = q]
  <1>1. v \in Screens(cols, rows)
    BY ZenonT(60) DEF Shape, Screens, ScreensAt, Selections
  <1>2. InOrder(v, cols, rows, T, B)
    BY <1>1 DEF Shape, InOrder, Screens, ScreensAt
  <1> QED
    BY <1>1, <1>2 DEF Shape

LEMMA ViewKeeps ==
    ASSUME NEW cols, NEW rows, NEW T, NEW B, Size(cols, rows, T, B),
           NEW s, Shape(s, cols, rows, T, B), NEW n \in 0..Len(s.scrollback), s.alt => n = 0
    PROVE  Shape([s EXCEPT !.viewOffset = n], cols, rows, T, B)
  <1> DEFINE v == [s EXCEPT !.viewOffset = n]
  <1>1. n \in Nat /\ n <= Len(s.scrollback)
    BY DEF Shape, Screens, ScreensAt
  <1>2. v \in Screens(cols, rows)
    BY <1>1, ZenonT(60) DEF Shape, Screens, ScreensAt
  <1>3. v.viewOffset = n /\ v.alt = s.alt /\ v.scrollback = s.scrollback
    BY DEF Shape, Screens, ScreensAt
  <1>4. InOrder(v, cols, rows, T, B)
    BY <1>1, <1>2, <1>3 DEF Shape, InOrder, Screens, ScreensAt
  <1> QED
    BY <1>2, <1>4 DEF Shape

LEMMA ViewFacts ==
    ASSUME NEW cols, NEW rows, NEW T, NEW B, Size(cols, rows, T, B),
           NEW s, Shape(s, cols, rows, T, B)
    PROVE  /\ s.scrollback \in Seq(Lines(cols)) /\ Len(s.scrollback) \in Nat
           /\ Len(s.scrollback) <= ScrollbackMax /\ ScrollbackMax \in Nat /\ ScrollbackMax > 0
           /\ s.viewOffset \in 0..Len(s.scrollback) /\ (s.alt => s.viewOffset = 0)
           /\ s.sel \in Selections /\ s.sel.anchor \in Int /\ s.sel.from \in Int /\ s.sel.to \in Int
           /\ s.lost \in Nat /\ s.wiped \in Nat /\ s.lastChar \in Chars
           /\ MaxAbsIndex(s) \in Int /\ MaxViewOffset(s) = Len(s.scrollback)
  <1>1. s.scrollback \in Seq(Lines(cols)) /\ s.sel \in Selections /\ s.viewOffset \in Nat
        /\ s.lost \in Nat /\ s.wiped \in Nat /\ s.lastChar \in Chars
    BY DEF Shape, Screens, ScreensAt, Selections
  <1>2. Len(s.scrollback) \in Nat
    BY <1>1
  <1>3. Len(s.scrollback) <= ScrollbackMax /\ s.viewOffset <= Len(s.scrollback) /\ (s.alt => s.viewOffset = 0)
    BY DEF Shape, InOrder
  <1>4. MaxAbsIndex(s) \in Int
    BY <1>2, CursorFacts DEF MaxAbsIndex
  <1>5. s.sel.anchor \in Int /\ s.sel.from \in Int /\ s.sel.to \in Int
    BY <1>1 DEF Selections
  <1>6. ScrollbackMax \in Nat /\ ScrollbackMax > 0
    <2>1. ScrollbackMax \in Nat \ {0}
      BY ScreenAssumption
    <2> QED
      BY <2>1
  <1>7. s.viewOffset \in 0..Len(s.scrollback)
    BY <1>1, <1>2, <1>3
  <1>8. MaxViewOffset(s) = Len(s.scrollback)
    BY DEF MaxViewOffset
  <1> QED
    BY <1>1, <1>2, <1>3, <1>4, <1>5, <1>6, <1>7, <1>8

LEMMA ViewOffsetKeeps ==
    ASSUME NEW cols, NEW rows, NEW T, NEW B, Size(cols, rows, T, B),
           NEW s, Shape(s, cols, rows, T, B), NEW n \in Int, s.alt => n = 0
    PROVE  Shape(setViewOffset(s, n), cols, rows, T, B)
  <1> DEFINE k == Bound(0, n, MaxViewOffset(s))
  <1>1. k \in 0..Len(s.scrollback) /\ (s.alt => k = 0)
    BY ViewFacts DEF Bound, Least, Most
  <1>2. setViewOffset(s, n) = [s EXCEPT !.viewOffset = k]
    BY DEF setViewOffset
  <1> HIDE DEF k
  <1> QED
    BY <1>1, <1>2, ViewKeeps

LEMMA ClearSelectionKeeps ==
    ASSUME NEW cols, NEW rows, NEW T, NEW B, Size(cols, rows, T, B),
           NEW s, Shape(s, cols, rows, T, B)
    PROVE  Shape(clearSelection(s), cols, rows, T, B)
  <1>1. NoSelection \in Selections
    BY DEF NoSelection, Selections
  <1> QED
    BY <1>1, SelKeeps DEF clearSelection

LEMMA SelectionRangeKeeps ==
    ASSUME NEW cols, NEW rows, NEW T, NEW B, Size(cols, rows, T, B),
           NEW s, Shape(s, cols, rows, T, B), NEW n \in Int, NEW i \in Int, NEW j \in Int
    PROVE  Shape(setSelectionRange(s, n, i, j), cols, rows, T, B)
  <1> DEFINE p == Bound(0, i, MaxAbsIndex(s))
             q == Bound(0, j, MaxAbsIndex(s))
             r == [anchor |-> n, from |-> Least(p, q), to |-> Most(p, q)]
             o == [s.sel EXCEPT !.anchor = n]
  <1>1. p \in Int /\ q \in Int
    BY ViewFacts DEF Bound, Least, Most
  <1> HIDE DEF p, q
  <1>2. r \in Selections
    BY <1>1 DEF Least, Most, Selections
  <1>3. o \in Selections
    BY ViewFacts DEF Selections
  <1>4. [s EXCEPT !.sel.anchor = n] = [s EXCEPT !.sel = o]
    OBVIOUS
  <1>5. setSelectionRange(s, n, i, j)
          = IF i < 0 \/ j < 0 THEN clearSelection([s EXCEPT !.sel.anchor = n]) ELSE [s EXCEPT !.sel = r]
    BY DEF setSelectionRange, p, q
  <1> HIDE DEF r, o
  <1>6. Shape([s EXCEPT !.sel = r], cols, rows, T, B) /\ Shape([s EXCEPT !.sel = o], cols, rows, T, B)
    BY <1>2, <1>3, SelKeeps
  <1>7. Shape(clearSelection([s EXCEPT !.sel = o]), cols, rows, T, B)
    BY <1>6, ClearSelectionKeeps
  <1> QED
    BY <1>4, <1>5, <1>6, <1>7

LEMMA ShiftSelectionKeeps ==
    ASSUME NEW cols, NEW rows, NEW T, NEW B, Size(cols, rows, T, B),
           NEW s, Shape(s, cols, rows, T, B), NEW n \in Int
    PROVE  Shape(shiftSelectionBy(s, n), cols, rows, T, B)
  <1> DEFINE Shift(v) == Bound(0, v + n, MaxAbsIndex(s))
             q == [anchor |-> Shift(s.sel.anchor), from |-> Shift(s.sel.from), to |-> Shift(s.sel.to)]
  <1>1. \A v \in Int : Shift(v) \in Int
    BY ViewFacts DEF Bound, Least, Most
  <1>2. shiftSelectionBy(s, n) = IF s.sel.anchor < 0 \/ s.sel.from < 0 \/ s.sel.to < 0 THEN s
                                 ELSE [s EXCEPT !.sel = q]
    BY DEF shiftSelectionBy
  <1> HIDE DEF Shift
  <1>3. q \in Selections
    BY <1>1, ViewFacts DEF Selections
  <1> HIDE DEF q
  <1> QED
    BY <1>2, <1>3, SelKeeps

(* Lines leave the screen, and the oldest leave the history.                   *)

LEMMA HistoryKeeps ==
    ASSUME NEW cols, NEW rows, NEW T, NEW B, Size(cols, rows, T, B),
           NEW s, Shape(s, cols, rows, T, B), NEW q \in Seq(Lines(cols)), Len(q) <= ScrollbackMax,
           NEW n \in 0..Len(q), s.alt => n = 0, NEW m \in Nat
    PROVE  Shape([s EXCEPT !.scrollback = q, !.viewOffset = n, !.lost = m], cols, rows, T, B)
  <1> DEFINE v == [s EXCEPT !.scrollback = q, !.viewOffset = n, !.lost = m]
  <1>1. n \in Nat /\ n <= Len(q)
    OBVIOUS
  <1>2. v \in Screens(cols, rows)
    BY <1>1, ZenonT(60) DEF Shape, Screens, ScreensAt
  <1>3. v.viewOffset = n /\ v.alt = s.alt /\ v.scrollback = q
    BY DEF Shape, Screens, ScreensAt
  <1>4. InOrder(v, cols, rows, T, B)
    BY <1>1, <1>2, <1>3 DEF Shape, InOrder, Screens, ScreensAt
  <1> QED
    BY <1>2, <1>4 DEF Shape

Lengthened(s, q) == [s EXCEPT !.scrollback = q]

Shortened(s, q, over) ==
    [s EXCEPT !.scrollback = SubSeq(q, over + 1, Len(q)),
              !.viewOffset = Least(s.viewOffset, Len(SubSeq(q, over + 1, Len(q)))),
              !.lost = s.lost + over]

LEMMA TrimIs ==
    ASSUME NEW cols, NEW rows, NEW T, NEW B, Size(cols, rows, T, B),
           NEW s, Shape(s, cols, rows, T, B), NEW q \in Seq(Lines(cols)), NEW over \in Int,
           over = Len(q) - ScrollbackMax
    PROVE  trimScrollback(Lengthened(s, q)) = IF over <= 0 THEN Lengthened(s, q)
                                              ELSE shiftSelectionBy(Shortened(s, q, over), -(over * s.cols))
  <1> DEFINE u == [s EXCEPT !.scrollback = q]
             p == SubSeq(q, over + 1, Len(q))
             o == Least(s.viewOffset, Len(p))
             w == [s EXCEPT !.scrollback = p, !.viewOffset = o, !.lost = s.lost + over]
             kept == [u EXCEPT !.scrollback = p, !.lost = s.lost + over]
  <1>1. u.scrollback = q /\ u.viewOffset = s.viewOffset /\ u.lost = s.lost /\ u.cols = s.cols
    BY DEF Shape, Screens, ScreensAt
  <1>2. kept = [s EXCEPT !.scrollback = p, !.lost = s.lost + over]
    <2> HIDE DEF p
    <2> QED
      BY DEF Shape, Screens, ScreensAt
  <1>3. kept.viewOffset = s.viewOffset /\ MaxViewOffset(kept) = Len(p)
    <2> HIDE DEF p, kept
    <2> QED
      BY <1>2 DEF Shape, Screens, ScreensAt, MaxViewOffset
  <1>4. [kept EXCEPT !.viewOffset = o] = w
    <2>1. ASSUME NEW d, NEW e, NEW h
          PROVE  [[s EXCEPT !.scrollback = d, !.lost = e] EXCEPT !.viewOffset = h]
                   = [s EXCEPT !.scrollback = d, !.viewOffset = h, !.lost = e]
      <3>1. s \in ScreensAt(cols, rows, 0..cols - 1, 0..rows - 1)
        BY DEF Shape, Screens
      <3> QED
        BY <3>1 DEF ScreensAt
    <2>2. [[s EXCEPT !.scrollback = p, !.lost = s.lost + over] EXCEPT !.viewOffset = o]
            = [s EXCEPT !.scrollback = p, !.viewOffset = o, !.lost = s.lost + over]
      BY <2>1
    <2> HIDE DEF kept
    <2> QED
      BY <1>2, <2>2
  <1> HIDE DEF u
  <1>5. CASE over <= 0
    <2>1. trimScrollback(u) = u
      BY <1>1, <1>5 DEF trimScrollback
    <2> QED
      BY <1>5, <2>1 DEF u, Lengthened
  <1>6. CASE ~(over <= 0)
    <2>1. trimScrollback(u) = shiftSelectionBy([kept EXCEPT !.viewOffset = Least(@, MaxViewOffset(kept))],
                                               -(over * u.cols))
      BY <1>1, <1>6 DEF trimScrollback
    <2>2. [kept EXCEPT !.viewOffset = Least(@, MaxViewOffset(kept))] = w
      <3> HIDE DEF kept, w
      <3> QED
        BY <1>3, <1>4
    <2> HIDE DEF kept, w
    <2>3. trimScrollback(u) = shiftSelectionBy(w, -(over * s.cols))
      BY <1>1, <2>1, <2>2
    <2> QED
      BY <1>6, <2>3 DEF u, w, p, o, Lengthened, Shortened
  <1> QED
    BY <1>5, <1>6

LEMMA TrimKeeps ==
    ASSUME NEW cols, NEW rows, NEW T, NEW B, Size(cols, rows, T, B),
           NEW s, Shape(s, cols, rows, T, B), NEW q \in Seq(Lines(cols)), Len(q) >= Len(s.scrollback)
    PROVE  Shape(trimScrollback([s EXCEPT !.scrollback = q]), cols, rows, T, B)
  <1> DEFINE u == [s EXCEPT !.scrollback = q]
             over == Len(q) - ScrollbackMax
             p == SubSeq(q, over + 1, Len(q))
             o == Least(s.viewOffset, Len(p))
             l == s.lost + over
             w == [s EXCEPT !.scrollback = p, !.viewOffset = o, !.lost = l]
  <1>1. Len(q) \in Nat /\ over \in Int
    BY ViewFacts
  <1>2. trimScrollback(u) = IF over <= 0 THEN u ELSE shiftSelectionBy(w, -(over * s.cols))
    <2>1. over = Len(q) - ScrollbackMax
      OBVIOUS
    <2>2. u = Lengthened(s, q) /\ w = Shortened(s, q, over)
      BY DEF Lengthened, Shortened
    <2> HIDE DEF over, u, w
    <2> QED
      BY <1>1, <2>1, <2>2, TrimIs
  <1>3. CASE over <= 0
    <2>1. s.viewOffset \in 0..Len(q) /\ Len(q) <= ScrollbackMax
      BY <1>1, <1>3, ViewFacts
    <2>2. u = [s EXCEPT !.scrollback = q, !.viewOffset = s.viewOffset, !.lost = s.lost]
      <3>1. s \in ScreensAt(cols, rows, 0..cols - 1, 0..rows - 1)
        BY DEF Shape, Screens
      <3>2. s = [s EXCEPT !.viewOffset = s.viewOffset]
        BY <3>1 DEF ScreensAt
      <3>3. s = [s EXCEPT !.lost = s.lost]
        BY <3>1 DEF ScreensAt
      <3>4. [s EXCEPT !.scrollback = q, !.viewOffset = s.viewOffset, !.lost = s.lost]
              = [[s EXCEPT !.viewOffset = s.viewOffset, !.lost = s.lost] EXCEPT !.scrollback = q]
        BY <3>1 DEF ScreensAt
      <3> QED
        BY <3>2, <3>3, <3>4
    <2> HIDE DEF u
    <2>3. Shape(u, cols, rows, T, B)
      BY <2>1, <2>2, ViewFacts, HistoryKeeps
    <2> QED
      BY <1>2, <1>3, <2>3 DEF u
  <1>4. CASE over > 0
    <2>1. over \in Nat /\ over + 1 \in 1..Len(q)
      BY <1>1, <1>4, ViewFacts
    <2>2. p \in Seq(Lines(cols)) /\ Len(p) = ScrollbackMax
      BY <1>1, <2>1, ViewFacts, SubSeqProperties
    <2>3. o \in 0..Len(p) /\ (s.alt => o = 0)
      BY <2>2, ViewFacts DEF Least
    <2>4. l \in Nat
      BY <2>1, ViewFacts
    <2>5. Len(p) <= ScrollbackMax
      BY <2>2, ViewFacts
    <2>6. -(over * s.cols) \in Int
      BY <2>1, CursorFacts
    <2> HIDE DEF p, l, o
    <2>7. Shape(w, cols, rows, T, B)
      BY <2>2, <2>3, <2>4, <2>5, HistoryKeeps
    <2> HIDE DEF w, u, over
    <2>8. Shape(shiftSelectionBy(w, -(over * s.cols)), cols, rows, T, B)
      BY <2>6, <2>7, ShiftSelectionKeeps
    <2>9. ~(over <= 0)
      BY <1>1, <1>4
    <2> QED
      BY <1>2, <2>8, <2>9 DEF u
  <1> QED
    BY <1>1, <1>3, <1>4

LEMMA PushKeeps ==
    ASSUME NEW cols, NEW rows, NEW T, NEW B, Size(cols, rows, T, B),
           NEW s, Shape(s, cols, rows, T, B), NEW n \in 1..RegionHeight(s)
    PROVE  Shape(pushScrollbackLines(s, n), cols, rows, T, B)
  <1> DEFINE p == [i \in 1..n |-> s.cells[s.top + i - 1]]
             q == s.scrollback \o p
             t == trimScrollback([s EXCEPT !.scrollback = q])
             k == Least(t.viewOffset + n, MaxViewOffset(t))
  <1>1. n \in Nat /\ n <= s.bottom - s.top + 1 /\ n >= 1
    BY CursorFacts DEF RegionHeight
  <1>2. p \in Seq(Lines(cols)) /\ Len(p) = n
    <2>1. \A i \in 1..n : s.cells[s.top + i - 1] \in Lines(cols)
      <3>1. \A i \in 1..n : s.top + i - 1 \in 0..rows - 1
        BY <1>1, CursorFacts
      <3> QED
        BY <3>1, CellFacts
    <2> QED
      BY <1>1, <2>1
  <1> HIDE DEF p
  <1>3. q \in Seq(Lines(cols)) /\ Len(q) = Len(s.scrollback) + n
    <2>1. s.scrollback \in Seq(Lines(cols))
      BY ViewFacts
    <2> QED
      BY <1>2, <2>1, ConcatProperties
  <1> HIDE DEF q
  <1>8. Len(q) >= Len(s.scrollback)
    BY <1>1, <1>3, ViewFacts
  <1>4. Shape(t, cols, rows, T, B)
    BY <1>3, <1>8, TrimKeeps
  <1>5. pushScrollbackLines(s, n) = IF t.viewOffset = 0 THEN t ELSE [t EXCEPT !.viewOffset = k]
    BY DEF pushScrollbackLines, p, q
  <1> HIDE DEF t
  <1>6. k \in 0..Len(t.scrollback)
    BY <1>1, <1>4, ViewFacts DEF Least
  <1>7. t.viewOffset # 0 => ~t.alt
    BY <1>4, ViewFacts
  <1> HIDE DEF k
  <1> QED
    BY <1>4, <1>5, <1>6, <1>7, ViewKeeps

(* Lines move, and characters are written.                                     *)

LEMMA ScrollUpKeeps ==
    ASSUME NEW cols, NEW rows, NEW T, NEW B, Size(cols, rows, T, B),
           NEW s, Shape(s, cols, rows, T, B), NEW n \in Nat
    PROVE  Shape(scrollUp(s, n), cols, rows, T, B)
  <1> DEFINE count == Bound(1, n, RegionHeight(s))
             t == IF ~s.alt /\ s.top = 0 THEN pushScrollbackLines(s, count) ELSE s
  <1>1. count \in 1..RegionHeight(s) /\ count \in Nat /\ s.top \in Nat
    BY CursorFacts DEF Bound, Least, Most, RegionHeight
  <1>2. scrollUp(s, n) = RowsUp(t, s.top, count)
    BY DEF scrollUp
  <1> HIDE DEF count
  <1>3. Shape(t, cols, rows, T, B)
    BY <1>1, PushKeeps
  <1> HIDE DEF t
  <1> QED
    BY <1>1, <1>2, <1>3, RowsUpKeep

LEMMA ScrollDownKeeps ==
    ASSUME NEW cols, NEW rows, NEW T, NEW B, Size(cols, rows, T, B),
           NEW s, Shape(s, cols, rows, T, B), NEW n \in Nat
    PROVE  Shape(scrollDown(s, n), cols, rows, T, B)
  <1>1. Bound(1, n, RegionHeight(s)) \in Nat /\ s.top \in Nat
    BY CursorFacts DEF Bound, Least, Most, RegionHeight
  <1> QED
    BY <1>1, RowsDownKeep DEF scrollDown

LEMMA InsertLinesKeeps ==
    ASSUME NEW cols, NEW rows, NEW T, NEW B, Size(cols, rows, T, B),
           NEW s, Shape(s, cols, rows, T, B), NEW n \in Nat
    PROVE  Shape(insertLines(s, n), cols, rows, T, B)
  <1>1. Bound(1, n, s.bottom - s.cy + 1) \in Nat /\ s.cy \in Nat
    BY CursorFacts DEF Bound, Least, Most
  <1> QED
    BY <1>1, RowsDownKeep DEF insertLines

LEMMA DeleteLinesKeeps ==
    ASSUME NEW cols, NEW rows, NEW T, NEW B, Size(cols, rows, T, B),
           NEW s, Shape(s, cols, rows, T, B), NEW n \in Nat
    PROVE  Shape(deleteLines(s, n), cols, rows, T, B)
  <1>1. Bound(1, n, s.bottom - s.cy + 1) \in Nat /\ s.cy \in Nat
    BY CursorFacts DEF Bound, Least, Most
  <1> QED
    BY <1>1, RowsUpKeep DEF deleteLines

LEMMA CursorSetKeeps ==
    ASSUME NEW cols, NEW rows, NEW T, NEW B, Size(cols, rows, T, B),
           NEW s, Shape(s, cols, rows, T, B), NEW y \in 0..rows - 1
    PROVE  Shape([s EXCEPT !.pendingWrap = FALSE, !.cy = y], cols, rows, T, B)
  <1> DEFINE v == [s EXCEPT !.pendingWrap = FALSE, !.cy = y]
  <1>1. v \in Screens(cols, rows)
    BY ZenonT(60) DEF Shape, Screens, ScreensAt
  <1>2. InOrder(v, cols, rows, T, B)
    BY <1>1 DEF Shape, InOrder, Screens, ScreensAt
  <1> QED
    BY <1>1, <1>2 DEF Shape

LEMMA UnwrapKeeps ==
    ASSUME NEW cols, NEW rows, NEW T, NEW B, Size(cols, rows, T, B),
           NEW s, Shape(s, cols, rows, T, B)
    PROVE  Shape([s EXCEPT !.pendingWrap = FALSE], cols, rows, T, B)
  <1> DEFINE v == [s EXCEPT !.pendingWrap = FALSE]
  <1>1. v \in Screens(cols, rows)
    BY ZenonT(60) DEF Shape, Screens, ScreensAt
  <1>2. InOrder(v, cols, rows, T, B)
    BY <1>1 DEF Shape, InOrder, Screens, ScreensAt
  <1> QED
    BY <1>1, <1>2 DEF Shape

LEMMA NewLineKeeps ==
    ASSUME NEW cols, NEW rows, NEW T, NEW B, Size(cols, rows, T, B),
           NEW s, Shape(s, cols, rows, T, B)
    PROVE  Shape(newLine(s), cols, rows, T, B)
  <1> DEFINE t == [s EXCEPT !.pendingWrap = FALSE]
  <1>1. Shape(t, cols, rows, T, B) /\ t.cy = s.cy
    <2>1. t.cy = s.cy
      BY DEF Shape, Screens, ScreensAt
    <2>2. Shape(t, cols, rows, T, B)
      BY UnwrapKeeps
    <2> QED
      BY <2>1, <2>2
  <1>2. newLine(s) = IF s.cy = s.bottom THEN scrollUp(t, 1)
                     ELSE IF s.cy < s.rows - 1 THEN [t EXCEPT !.cy = t.cy + 1] ELSE t
    BY DEF newLine
  <1>3. [t EXCEPT !.cy = t.cy + 1] = [s EXCEPT !.pendingWrap = FALSE, !.cy = s.cy + 1]
    BY <1>1 DEF Shape, Screens, ScreensAt
  <1> HIDE DEF t
  <1>4. Shape(scrollUp(t, 1), cols, rows, T, B)
    BY <1>1, ScrollUpKeeps
  <1>5. s.cy < s.rows - 1 => s.cy + 1 \in 0..rows - 1
    BY CursorFacts
  <1>6. s.cy < s.rows - 1 => Shape([t EXCEPT !.cy = t.cy + 1], cols, rows, T, B)
    BY <1>3, <1>5, CursorSetKeeps
  <1> QED
    BY <1>1, <1>2, <1>4, <1>6

LEMMA ReverseIndexKeeps ==
    ASSUME NEW cols, NEW rows, NEW T, NEW B, Size(cols, rows, T, B),
           NEW s, Shape(s, cols, rows, T, B)
    PROVE  Shape(reverseIndex(s), cols, rows, T, B)
  <1> DEFINE t == [s EXCEPT !.pendingWrap = FALSE]
  <1>1. Shape(t, cols, rows, T, B) /\ t.cy = s.cy
    <2>1. t.cy = s.cy
      BY DEF Shape, Screens, ScreensAt
    <2>2. Shape(t, cols, rows, T, B)
      BY UnwrapKeeps
    <2> QED
      BY <2>1, <2>2
  <1>2. reverseIndex(s) = IF s.cy = s.top THEN scrollDown(t, 1)
                          ELSE IF s.cy > 0 THEN [t EXCEPT !.cy = t.cy - 1] ELSE t
    BY DEF reverseIndex
  <1>3. [t EXCEPT !.cy = t.cy - 1] = [s EXCEPT !.pendingWrap = FALSE, !.cy = s.cy - 1]
    BY <1>1 DEF Shape, Screens, ScreensAt
  <1> HIDE DEF t
  <1>4. Shape(scrollDown(t, 1), cols, rows, T, B)
    BY <1>1, ScrollDownKeeps
  <1>5. s.cy > 0 => s.cy - 1 \in 0..rows - 1
    BY CursorFacts
  <1>6. s.cy > 0 => Shape([t EXCEPT !.cy = t.cy - 1], cols, rows, T, B)
    BY <1>3, <1>5, CursorSetKeeps
  <1> QED
    BY <1>1, <1>2, <1>4, <1>6

LEMMA NextLineKeeps ==
    ASSUME NEW cols, NEW rows, NEW T, NEW B, Size(cols, rows, T, B),
           NEW s, Shape(s, cols, rows, T, B)
    PROVE  Shape(NextLine(s), cols, rows, T, B)
  BY CarriageReturnKeeps, NewLineKeeps DEF NextLine

(* The row a character is written to, and what follows it.                     *)
Written(row, cols, x, ch, width) ==
    [c \in 0..cols - 1 |-> IF c = x THEN ch ELSE IF c = x + 1 /\ width = 2 THEN Blank ELSE row[c]]

PrintOne(u, ch, width) ==
    LET full == u.cx + width >= u.cols
    IN  [u EXCEPT !.cells = [u.cells EXCEPT ![u.cy] = Written(u.cells[u.cy], u.cols, u.cx, ch, width)],
                  !.lastChar = ch, !.cx = IF full THEN u.cols - 1 ELSE u.cx + width,
                  !.pendingWrap = full /\ u.autoWrap]

LEMMA PrintKeeps ==
    ASSUME NEW cols, NEW rows, NEW T, NEW B, Size(cols, rows, T, B),
           NEW s, Shape(s, cols, rows, T, B), NEW ch \in Chars, NEW width \in 1..2
    PROVE  Shape(PrintOne(s, ch, width), cols, rows, T, B)
  <1> DEFINE full == s.cx + width >= s.cols
             row == Written(s.cells[s.cy], s.cols, s.cx, ch, width)
             g == [s.cells EXCEPT ![s.cy] = row]
             x == IF full THEN s.cols - 1 ELSE s.cx + width
             w == full /\ s.autoWrap
             v == [s EXCEPT !.cells = g, !.lastChar = ch, !.cx = x, !.pendingWrap = w]
  <1>1. row \in Lines(cols)
    BY CursorFacts, CellFacts DEF Lines, Written
  <1>2. PrintOne(s, ch, width) = v
    BY DEF PrintOne
  <1> HIDE DEF row
  <1>3. g \in Grids(cols, rows)
    BY <1>1, CellFacts DEF Grids
  <1> HIDE DEF g
  <1>4. x \in 0..cols - 1
    BY CursorFacts
  <1> HIDE DEF x
  <1>5. w \in BOOLEAN
    BY CursorFacts
  <1> HIDE DEF w
  <1>6. v \in Screens(cols, rows)
    BY <1>3, <1>4, <1>5, ZenonT(60) DEF Shape, Screens, ScreensAt
  <1>7. InOrder(v, cols, rows, T, B)
    BY <1>6 DEF Shape, InOrder, Screens, ScreensAt
  <1> QED
    BY <1>2, <1>6, <1>7 DEF Shape

LEMMA PutCharKeeps ==
    ASSUME NEW cols, NEW rows, NEW T, NEW B, Size(cols, rows, T, B),
           NEW s, Shape(s, cols, rows, T, B), NEW ch \in Chars
    PROVE  Shape(putChar(s, ch), cols, rows, T, B)
  <1> DEFINE width == charDisplayWidth(ch)
             t == IF s.pendingWrap /\ s.autoWrap THEN NextLine(s) ELSE s
             u == IF width > 1 /\ t.cx + width > t.cols /\ t.autoWrap THEN NextLine(t) ELSE t
  <1>1. width \in 1..2
    BY DEF charDisplayWidth
  <1>2. putChar(s, ch) = PrintOne(u, ch, width)
    BY DEF putChar, PrintOne, Written
  <1> HIDE DEF width
  <1>3. Shape(t, cols, rows, T, B)
    BY NextLineKeeps
  <1> HIDE DEF t
  <1>4. Shape(u, cols, rows, T, B)
    BY <1>3, NextLineKeeps
  <1> HIDE DEF u
  <1> QED
    BY <1>1, <1>2, <1>4, PrintKeeps

(* The same character n times, as RepeatLast writes it.                        *)
Repeated(t, ch, n) == FoldLeft(LAMBDA u, i : putChar(u, ch), t, [i \in 1..n |-> i])

LEMMA RepeatedStaysIn ==
    ASSUME NEW S, NEW t \in S, NEW ch, NEW n \in Nat, \A u \in S : putChar(u, ch) \in S
    PROVE  Repeated(t, ch, n) \in S
  <1> DEFINE c == [i \in 1..n |-> i]
             G == [p \in (1..n) \X S |-> putChar(p[2], ch)]
             Body(g, s) == IF s = {} THEN t ELSE putChar(g[s \ {Max(s)}], ch)
             f == CHOOSE g : g = [s \in SUBSET DOMAIN c |-> Body(g, s)]
  <1>1. DOMAIN c = 1..n
    OBVIOUS
  <1>2. Repeated(t, ch, n) = f[DOMAIN c]
    BY DEF Repeated, FoldLeft, MapThenFoldSet
  <1> HIDE DEF c
  <1>3. G \in [(1..n) \X S -> S]
    OBVIOUS
  <1>4. PICK g \in [SUBSET (1..n) -> S] : Folded(g, n, t, G)
    <2> HIDE DEF G
    <2> QED
      BY <1>3, FoldExists
  <1>5. \A s \in SUBSET (1..n) : s # {} => Max(s) \in 1..n
    <2> SUFFICES ASSUME NEW s \in SUBSET (1..n), s # {}
                 PROVE  Max(s) \in 1..n
      OBVIOUS
    <2>1. s \in SUBSET (0..n)
      OBVIOUS
    <2>2. Max(s) \in s
      BY <2>1, LastExists
    <2> QED
      BY <2>2
  <1>6. g = [s \in SUBSET DOMAIN c |-> Body(g, s)]
    <2>1. ASSUME NEW s \in SUBSET (1..n)
          PROVE  g[s] = Body(g, s)
      <3>1. CASE s = {}
        BY <1>4, <3>1 DEF Folded
      <3>2. CASE s # {}
        <4>1. s \ {Max(s)} \in SUBSET (1..n)
          OBVIOUS
        <4>2. g[s] = G[<<Max(s), g[s \ {Max(s)}]>>] /\ g[s \ {Max(s)}] \in S
          BY <1>4, <3>2, <4>1 DEF Folded
        <4> QED
          BY <1>5, <3>2, <4>2
      <3> QED
        BY <3>1, <3>2
    <2> HIDE DEF Body, G
    <2> QED
      BY <1>1, <1>4, <2>1
  <1>7. f = [s \in SUBSET DOMAIN c |-> Body(f, s)]
    <2> HIDE DEF Body
    <2> QED
      BY <1>6
  <1> HIDE DEF f
  <1>8. \A s \in SUBSET (1..n) : f[s] = Body(f, s)
    <2> HIDE DEF Body
    <2> QED
      BY <1>1, <1>7
  <1>9. f[{}] \in S /\ \A s \in SUBSET (1..n) : (s # {} /\ f[s \ {Max(s)}] \in S) => f[s] \in S
    BY <1>8
  <1>10. f[1..n] \in S
    BY <1>9, FoldStays
  <1> QED
    BY <1>1, <1>2, <1>10

LEMMA RepeatKeeps ==
    ASSUME NEW cols, NEW rows, NEW T, NEW B, Size(cols, rows, T, B),
           NEW s, Shape(s, cols, rows, T, B), NEW n \in Nat
    PROVE  Shape(RepeatLast(s, n), cols, rows, T, B)
  <1> DEFINE S == {u \in Screens(cols, rows) : InOrder(u, cols, rows, T, B)}
             k == Bound(1, n, s.cols * s.rows)
             ch == s.lastChar
  <1>1. s \in S /\ ch \in Chars /\ k \in Nat
    <2>1. s \in S
      BY DEF Shape
    <2>2. ch \in Chars
      BY ViewFacts
    <2>3. s.cols * s.rows \in Int
      BY CursorFacts
    <2>4. k \in Nat
      BY <2>3 DEF Bound, Least, Most
    <2> QED
      BY <2>1, <2>2, <2>4
  <1>2. \A u : u \in S <=> Shape(u, cols, rows, T, B)
    BY DEF Shape
  <1> HIDE DEF S
  <1>3. \A u \in S : putChar(u, ch) \in S
    BY <1>1, <1>2, PutCharKeeps
  <1>4. RepeatLast(s, n) = Repeated(s, ch, k)
    BY DEF RepeatLast, Repeated
  <1> HIDE DEF k, ch
  <1>5. Repeated(s, ch, k) \in S
    BY <1>1, <1>3, RepeatedStaysIn
  <1> QED
    BY <1>2, <1>4, <1>5

LEMMA SelectLineKeeps ==
    ASSUME NEW cols, NEW rows, NEW T, NEW B, Size(cols, rows, T, B),
           NEW s, Shape(s, cols, rows, T, B), NEW row \in Int
    PROVE  Shape(selectLineAt(s, row), cols, rows, T, B)
  <1>1. absIndexFromView(s, row, 0) \in Int /\ absIndexFromView(s, row, s.cols - 1) \in Int
    <2> DEFINE a == Len(s.scrollback) - s.viewOffset + row
    <2>1. Len(s.scrollback) \in Nat /\ s.viewOffset \in 0..Len(s.scrollback)
      BY ViewFacts
    <2>2. a \in Int
      BY <2>1
    <2>3. absIndexFromView(s, row, 0) = a * cols /\ absIndexFromView(s, row, s.cols - 1) = a * cols + (cols - 1)
      BY <2>1, CursorFacts DEF absIndexFromView
    <2> HIDE DEF a
    <2> QED
      BY <2>2, <2>3 DEF Size
  <1> QED
    BY <1>1, SelectionRangeKeeps DEF selectLineAt

(* The word around a character is between two blanks, or the ends.             *)
LEMMA SelectWordIs ==
    ASSUME NEW cols, NEW rows, NEW T, NEW B, Size(cols, rows, T, B),
           NEW s, Shape(s, cols, rows, T, B), NEW row \in 0..rows - 1, NEW col \in 0..cols - 1
    PROVE  \E n, i, j \in Int : selectWordAt(s, row, col) = setSelectionRange(s, n, i, j)
  <1> DEFINE at == absIndexFromView(s, row, col)
             IsWord(i, j) == \A k \in i..j : CharAt(s, k) # Blank
             end == MaxAbsIndex(s)
             Firsts == {i \in 0..at : IsWord(i, at)}
             first == CHOOSE i \in 0..at : IsWord(i, at) /\ (i = 0 \/ ~IsWord(i - 1, at))
             Lasts == {j \in at..end : IsWord(at, j)}
             last == CHOOSE j \in at..end : IsWord(at, j) /\ (j = end \/ ~IsWord(at, j + 1))
  <1>1. at \in Nat /\ end \in Int /\ at <= end
    <2> DEFINE a == Len(s.scrollback) - s.viewOffset + row
               m == Len(s.scrollback) + rows
    <2>0. Len(s.scrollback) \in Nat /\ s.viewOffset \in 0..Len(s.scrollback)
      BY ViewFacts
    <2>1. a \in Nat /\ m \in Nat /\ a + 1 <= m
      BY <2>0 DEF Size
    <2>2. at = a * cols + col /\ end = m * cols - 1
      BY CursorFacts DEF absIndexFromView, MaxAbsIndex
    <2> HIDE DEF a, m
    <2>3. cols \in Nat /\ col \in Nat /\ col < cols
      BY DEF Size
    <2>4. a * cols \in Nat /\ m * cols \in Nat /\ (a + 1) * cols <= m * cols /\ (a + 1) * cols = a * cols + cols
      BY <2>1, <2>3
    <2> QED
      BY <2>2, <2>3, <2>4
  <1> HIDE DEF at, end
  <1>2. selectWordAt(s, row, col)
          = IF CharAt(s, at) = Blank THEN setSelectionRange(s, s.sel.anchor, at, at)
            ELSE setSelectionRange(s, first, first, last)
    BY DEF selectWordAt, at, end
  <1>3. CASE CharAt(s, at) = Blank
    <2>1. s.sel.anchor \in Int /\ at \in Int
      BY <1>1, ViewFacts
    <2> QED
      BY <1>2, <1>3, <2>1
  <1>4. CASE CharAt(s, at) # Blank
    <2>1. first \in Int
      <3>1. IsWord(at, at) /\ at \in Firsts /\ Firsts \in SUBSET Nat
        BY <1>1, <1>4
      <3>2. PICK i \in Firsts : \A y \in Firsts : i <= y
        <4> HIDE DEF Firsts
        <4> QED
          BY <3>1, LeastExists
      <3>3. i \in 0..at /\ IsWord(i, at)
        BY <3>2
      <3>4. i = 0 \/ ~IsWord(i - 1, at)
        <4> SUFFICES ASSUME i # 0, IsWord(i - 1, at)
                     PROVE  FALSE
          OBVIOUS
        <4>1. i - 1 \in 0..at
          BY <1>1, <3>3
        <4>2. i - 1 \in Firsts
          BY <4>1
        <4>3. i <= i - 1
          BY <3>2, <4>2
        <4> QED
          BY <3>3, <4>3
      <3> HIDE DEF IsWord
      <3>5. first \in 0..at
        BY <3>3, <3>4
      <3> QED
        BY <3>5
    <2>2. last \in Int
      <3>1. IsWord(at, at) /\ at \in Lasts /\ end \in Nat /\ Lasts \in SUBSET (0..end)
        BY <1>1, <1>4
      <3>2. Max(Lasts) \in Lasts /\ \A y \in Lasts : y <= Max(Lasts)
        <4> HIDE DEF Lasts
        <4> QED
          BY <3>1, LastExists
      <3> DEFINE j == Max(Lasts)
      <3> HIDE DEF j
      <3>3. j \in Lasts /\ \A y \in Lasts : y <= j
        BY <3>2 DEF j
      <3>4. j \in at..end /\ IsWord(at, j)
        BY <3>3
      <3>5. j = end \/ ~IsWord(at, j + 1)
        <4> SUFFICES ASSUME j # end, IsWord(at, j + 1)
                     PROVE  FALSE
          OBVIOUS
        <4>1. j + 1 \in at..end
          BY <1>1, <3>4
        <4>2. j + 1 \in Lasts
          BY <4>1
        <4>3. j + 1 <= j
          BY <3>3, <4>2
        <4> QED
          BY <1>1, <3>4, <4>3
      <3> HIDE DEF IsWord
      <3>6. last \in at..end
        BY <3>4, <3>5
      <3> QED
        BY <1>1, <3>6
    <2> HIDE DEF first, last
    <2> QED
      BY <1>2, <1>4, <2>1, <2>2
  <1> QED
    BY <1>3, <1>4

LEMMA SelectWordKeeps ==
    ASSUME NEW cols, NEW rows, NEW T, NEW B, Size(cols, rows, T, B),
           NEW s, Shape(s, cols, rows, T, B), NEW row \in 0..rows - 1, NEW col \in 0..cols - 1
    PROVE  Shape(selectWordAt(s, row, col), cols, rows, T, B)
  <1>1. PICK n, i, j \in Int : selectWordAt(s, row, col) = setSelectionRange(s, n, i, j)
    BY SelectWordIs
  <1> QED
    BY <1>1, SelectionRangeKeeps

(* The alternate screen, and the reset.                                        *)

LEMMA HomeKeeps ==
    ASSUME NEW cols, NEW rows, NEW T, NEW B, Size(cols, rows, T, B),
           NEW s, Shape(s, cols, rows, T, B)
    PROVE  Shape([s EXCEPT !.cx = 0, !.cy = 0, !.top = 0, !.bottom = rows - 1, !.pendingWrap = FALSE],
                 cols, rows, T, B)
  <1> DEFINE v == [s EXCEPT !.cx = 0, !.cy = 0, !.top = 0, !.bottom = rows - 1, !.pendingWrap = FALSE]
  <1>1. 0 \in 0..cols - 1 /\ 0 \in 0..rows - 1 /\ rows - 1 \in 0..rows - 1 /\ 0 <= rows - 1
        /\ 0 \in T /\ rows - 1 \in B
    BY DEF Size
  <1>2. v \in Screens(cols, rows)
    BY <1>1, ZenonT(60) DEF Shape, Screens, ScreensAt
  <1>3. InOrder(v, cols, rows, T, B)
    BY <1>1, <1>2 DEF Shape, InOrder, Screens, ScreensAt
  <1> QED
    BY <1>2, <1>3 DEF Shape

LEMMA TopKeeps ==
    ASSUME NEW cols, NEW rows, NEW T, NEW B, Size(cols, rows, T, B),
           NEW s, Shape(s, cols, rows, T, B)
    PROVE  Shape([s EXCEPT !.viewOffset = 0], cols, rows, T, B)
  <1>1. 0 \in 0..Len(s.scrollback)
    BY ViewFacts
  <1> QED
    BY <1>1, ViewKeeps

(* The main screen is put behind a screen g.                                   *)
Behind(s, g) ==
    [s EXCEPT !.mainCells = s.cells, !.mainCx = s.cx, !.mainCy = s.cy, !.mainTop = s.top,
              !.mainBottom = s.bottom, !.alt = TRUE, !.altCells = g, !.cells = g]

LEMMA BehindIsScreen ==
    ASSUME NEW cols, NEW rows, NEW T, NEW B, Size(cols, rows, T, B),
           NEW s, Shape(s, cols, rows, T, B), NEW g \in Grids(cols, rows)
    PROVE  Behind(s, g) \in Screens(cols, rows)
  <1> DEFINE t == Behind(s, g)
  <1>1. s.cx \in Nat /\ s.cy \in Nat
    BY CursorFacts
  <1>2. s.cells \in Grids(cols, rows) /\ s.top \in 0..rows - 1 /\ s.bottom \in 0..rows - 1
    BY DEF Shape, Screens, ScreensAt
  <1>3. s \in ScreensAt(cols, rows, 0..cols - 1, 0..rows - 1)
    BY DEF Shape, Screens
  <1> QED
    BY <1>1, <1>2, <1>3, ZenonT(60) DEF Screens, ScreensAt, Behind

LEMMA BehindFacts ==
    ASSUME NEW cols, NEW rows, NEW T, NEW B, Size(cols, rows, T, B),
           NEW s, Shape(s, cols, rows, T, B), NEW g \in Grids(cols, rows)
    PROVE  Shape([Behind(s, g) EXCEPT !.viewOffset = 0], cols, rows, T, B)
  <1> DEFINE t == Behind(s, g)
             v == [t EXCEPT !.viewOffset = 0]
  <1>1. t \in Screens(cols, rows)
    BY BehindIsScreen
  <1>2. t.top = s.top /\ t.bottom = s.bottom /\ t.mainTop = s.top /\ t.mainBottom = s.bottom
        /\ t.mainCells = s.cells /\ t.scrollback = s.scrollback
    BY DEF Shape, Screens, ScreensAt, Behind
  <1> HIDE DEF t
  <1>3. v \in Screens(cols, rows)
    BY <1>1, ZenonT(60) DEF Screens, ScreensAt
  <1>4. v.top = s.top /\ v.bottom = s.bottom /\ v.mainTop = s.top /\ v.mainBottom = s.bottom
        /\ v.mainCells = s.cells /\ v.scrollback = s.scrollback /\ v.viewOffset = 0
    BY <1>1, <1>2 DEF Screens, ScreensAt
  <1> HIDE DEF v
  <1>5. s.cells \in Grids(cols, rows) /\ Len(s.scrollback) \in Nat
    BY CellFacts, ViewFacts
  <1>6. InOrder(v, cols, rows, T, B)
    BY <1>4, <1>5 DEF Shape, InOrder
  <1>7. Shape(v, cols, rows, T, B)
    BY <1>3, <1>6 DEF Shape
  <1> QED
    BY <1>7 DEF v, t

LEMMA SwapView ==
    ASSUME NEW cols, NEW rows, NEW s \in Screens(cols, rows), NEW g, NEW m
    PROVE  [[[s EXCEPT !.cells = g] EXCEPT !.cx = 0, !.cy = 0, !.top = 0, !.bottom = m, !.pendingWrap = FALSE]
              EXCEPT !.viewOffset = 0]
           = [[[s EXCEPT !.viewOffset = 0] EXCEPT !.cells = g]
                EXCEPT !.cx = 0, !.cy = 0, !.top = 0, !.bottom = m, !.pendingWrap = FALSE]
  BY DEF Screens, ScreensAt

LEMMA EnterKeeps ==
    ASSUME NEW cols, NEW rows, NEW T, NEW B, Size(cols, rows, T, B),
           NEW s, Shape(s, cols, rows, T, B)
    PROVE  /\ Shape(enterAltScreen(s, FALSE), cols, rows, T, B)
           /\ Shape(enterAltScreen(s, TRUE), cols, rows, T, B)
  <1> DEFINE g == IF s.altCells = NoGrid THEN BlankGrid(s.cols, s.rows) ELSE s.altCells
             t == IF s.alt THEN s ELSE Behind(s, g)
             home(u) == [u EXCEPT !.cx = 0, !.cy = 0, !.top = 0, !.bottom = rows - 1, !.pendingWrap = FALSE]
  <1>1. g \in Grids(cols, rows)
    <2>1. BlankGrid(s.cols, s.rows) \in Grids(cols, rows)
      BY CursorFacts, CellFacts
    <2>2. s.altCells \in Grids(cols, rows) \cup {NoGrid}
      BY DEF Shape, Screens, ScreensAt
    <2> QED
      BY <2>1, <2>2
  <1>2. t.cols = cols /\ t.rows = rows /\ t \in Screens(cols, rows)
    <2>1. s.cols = cols /\ s.rows = rows /\ s \in Screens(cols, rows)
      BY CursorFacts DEF Shape
    <2>2. Behind(s, g) \in Screens(cols, rows)
      <3> HIDE DEF g
      <3> QED
        BY <1>1, BehindIsScreen
    <2> HIDE DEF g
    <2>3. t \in Screens(cols, rows)
      BY <2>1, <2>2
    <2> QED
      BY <2>3 DEF Screens, ScreensAt
  <1>3. Shape([t EXCEPT !.viewOffset = 0], cols, rows, T, B)
    <2> HIDE DEF g
    <2>1. CASE s.alt
      BY <2>1, TopKeeps
    <2>2. CASE ~s.alt
      BY <1>1, <2>2, BehindFacts
    <2> QED
      BY <2>1, <2>2
  <1>4. enterAltScreen(s, FALSE) = [t EXCEPT !.viewOffset = 0]
    BY DEF enterAltScreen, Behind
  <1>5. enterAltScreen(s, TRUE) = [home(Wiped(t)) EXCEPT !.viewOffset = 0]
    <2>1. s.rows = rows
      BY CursorFacts
    <2> QED
      BY <2>1 DEF enterAltScreen, Behind
  <1> HIDE DEF t
  <1>6. home(Wiped(t)) = [[t EXCEPT !.cells = BlankGrid(cols, rows)]
                            EXCEPT !.cx = 0, !.cy = 0, !.top = 0, !.bottom = rows - 1, !.pendingWrap = FALSE]
    BY <1>2 DEF Wiped
  <1> DEFINE v == [t EXCEPT !.viewOffset = 0]
             z == [v EXCEPT !.cells = BlankGrid(cols, rows)]
  <1>7. enterAltScreen(s, TRUE) = home(z)
    <2>1. \A m : [[[t EXCEPT !.cells = BlankGrid(cols, rows)]
                    EXCEPT !.cx = 0, !.cy = 0, !.top = 0, !.bottom = m, !.pendingWrap = FALSE]
                      EXCEPT !.viewOffset = 0]
               = [z EXCEPT !.cx = 0, !.cy = 0, !.top = 0, !.bottom = m, !.pendingWrap = FALSE]
      BY <1>2, SwapView
    <2> HIDE DEF z
    <2> QED
      BY <1>5, <1>6, <2>1
  <1> HIDE DEF v
  <1>8. Shape(z, cols, rows, T, B)
    <2>1. BlankGrid(cols, rows) \in Grids(cols, rows)
      BY CellFacts
    <2> QED
      BY <1>3, <2>1, CellsKeep DEF v
  <1> HIDE DEF z
  <1>9. Shape(home(z), cols, rows, T, B)
    BY <1>8, HomeKeeps
  <1> QED
    BY <1>3, <1>4, <1>7, <1>9

(* The sets a screen's fields are in, whatever they are.                       *)
ScreensOf(C, R, G, H, X, Y, M, L) ==
    [cols : C, rows : R, cells : G, cx : X, cy : Y,
     pendingWrap : BOOLEAN, autoWrap : BOOLEAN, origin : BOOLEAN,
     top : M, bottom : M, alt : BOOLEAN, mainCells : H, altCells : H,
     mainCx : Nat, mainCy : Nat, mainTop : M, mainBottom : M,
     saved : Nat \X Nat, decSaved : Nat \X Nat, lastChar : Chars,
     scrollback : L, viewOffset : Nat,
     sel : [anchor : Int, from : Int, to : Int], lost : Nat, wiped : Nat]

LEMMA LeaveKeeps ==
    ASSUME NEW cols, NEW rows, NEW T, NEW B, Size(cols, rows, T, B),
           NEW s, Shape(s, cols, rows, T, B)
    PROVE  /\ Shape(leaveAltScreen(s, FALSE), cols, rows, T, B)
           /\ Shape(leaveAltScreen(s, TRUE), cols, rows, T, B)
  <1> DEFINE v == [s EXCEPT !.altCells = s.cells, !.cells = s.mainCells,
                            !.cx = s.mainCx, !.cy = s.mainCy, !.top = s.mainTop,
                            !.bottom = Least(s.mainBottom, s.rows - 1),
                            !.alt = FALSE, !.pendingWrap = FALSE]
             t == IF ~s.alt THEN s ELSE clampCursor(v)
  <1>1. s.alt => Shape(clampCursor(v), cols, rows, T, B)
    <2> SUFFICES ASSUME s.alt
                 PROVE  Shape(clampCursor(v), cols, rows, T, B)
      OBVIOUS
    <2>1. Least(s.mainBottom, s.rows - 1) = s.mainBottom
      BY CursorFacts DEF Least
    <2>2. s.mainCells \in Grids(cols, rows) /\ s.mainTop \in T /\ s.mainBottom \in B /\ s.viewOffset = 0
      BY DEF Shape, InOrder
    <2>7. s \in ScreensAt(cols, rows, 0..cols - 1, 0..rows - 1) /\ s.cells \in Grids(cols, rows)
          /\ s.mainCx \in Nat /\ s.mainCy \in Nat /\ s.mainTop \in 0..rows - 1 /\ s.mainBottom \in 0..rows - 1
      BY DEF Shape, Screens, ScreensAt
    <2> DEFINE b == Least(s.mainBottom, s.rows - 1)
    <2>8. b \in 0..rows - 1
      BY <2>1, <2>7
    <2>3. v \in ScreensAt(cols, rows, Nat, Nat)
      <3>1. v = [s EXCEPT !.altCells = s.cells, !.cells = s.mainCells,
                          !.cx = s.mainCx, !.cy = s.mainCy, !.top = s.mainTop,
                          !.bottom = b, !.alt = FALSE, !.pendingWrap = FALSE]
        OBVIOUS
      <3> HIDE DEF b, v
      <3> DEFINE C == {cols} R == {rows} G == Grids(cols, rows) H == Grids(cols, rows) \cup {NoGrid}
                 X == 0..cols - 1 Y == 0..rows - 1 L == Seq(Lines(cols)) N == Nat
                 m == [s EXCEPT !.altCells = s.cells, !.cells = s.mainCells]
                 n == [m EXCEPT !.cx = s.mainCx, !.cy = s.mainCy]
      <3>2. s \in ScreensOf(C, R, G, H, X, Y, Y, L)
        BY <2>7 DEF ScreensAt, ScreensOf
      <3>3. s.cells \in H /\ s.mainCells \in G /\ s.mainCx \in N /\ s.mainCy \in N /\ s.mainTop \in Y /\ b \in Y
        BY <2>2, <2>7, <2>8
      <3>4. ScreensOf(C, R, G, H, N, N, Y, L) = ScreensAt(cols, rows, Nat, Nat)
        BY DEF ScreensAt, ScreensOf
      <3>5. v = [n EXCEPT !.top = s.mainTop, !.bottom = b, !.alt = FALSE, !.pendingWrap = FALSE]
        BY <3>1
      <3> HIDE DEF C, R, G, H, X, Y, L, N
      <3>6. m \in ScreensOf(C, R, G, H, X, Y, Y, L)
        BY <3>2, <3>3, ZenonT(60) DEF ScreensOf
      <3> HIDE DEF m
      <3>7. n \in ScreensOf(C, R, G, H, N, N, Y, L)
        BY <3>3, <3>6 DEF ScreensOf
      <3> HIDE DEF n
      <3>8. v \in ScreensOf(C, R, G, H, N, N, Y, L)
        BY <3>3, <3>5, <3>7, ZenonT(60) DEF ScreensOf
      <3> QED
        BY <3>4, <3>8
    <2>4. v.top = s.mainTop /\ v.bottom = s.mainBottom /\ v.mainTop = s.mainTop /\ v.mainBottom = s.mainBottom
          /\ v.alt = FALSE /\ v.viewOffset = 0 /\ v.scrollback = s.scrollback
      BY <2>1, <2>2 DEF Shape, Screens, ScreensAt
    <2> HIDE DEF v
    <2>5. Len(s.scrollback) \in Nat
      BY ViewFacts
    <2>6. InOrder(v, cols, rows, T, B)
      BY <2>2, <2>4, <2>5 DEF Shape, InOrder
    <2> QED
      BY <2>3, <2>6, ClampShapes DEF Loose
  <1>2. Shape(t, cols, rows, T, B)
    BY <1>1
  <1>3. leaveAltScreen(s, FALSE) = [t EXCEPT !.viewOffset = 0]
        /\ leaveAltScreen(s, TRUE) = [Wiped(t) EXCEPT !.viewOffset = 0]
    BY DEF leaveAltScreen
  <1> HIDE DEF t
  <1>4. Shape(Wiped(t), cols, rows, T, B)
    BY <1>2, WipedKeeps
  <1>5. Shape([t EXCEPT !.viewOffset = 0], cols, rows, T, B)
    BY <1>2, TopKeeps
  <1>6. Shape([Wiped(t) EXCEPT !.viewOffset = 0], cols, rows, T, B)
    BY <1>4, TopKeeps
  <1> QED
    BY <1>3, <1>5, <1>6

LEMMA ClearTerminalKeeps ==
    ASSUME NEW cols, NEW rows, NEW T, NEW B, Size(cols, rows, T, B),
           NEW s, Shape(s, cols, rows, T, B), NEW U, NEW V, Size(cols, rows, U, V)
    PROVE  Shape(clearTerminal(s), cols, rows, U, V)
  <1> DEFINE v == [s EXCEPT !.cx = 0, !.cy = 0, !.pendingWrap = FALSE, !.origin = FALSE,
                            !.autoWrap = TRUE, !.alt = FALSE, !.lastChar = Blank,
                            !.top = 0, !.bottom = s.rows - 1, !.sel = NoSelection]
  <1>1. 0 \in 0..cols - 1 /\ 0 \in 0..rows - 1 /\ s.rows - 1 \in 0..rows - 1 /\ 0 <= s.rows - 1
        /\ 0 \in U /\ s.rows - 1 \in V
    <2>1. s.rows = rows
      BY CursorFacts
    <2> QED
      BY <2>1 DEF Size
  <1>2. NoSelection \in [anchor : Int, from : Int, to : Int] /\ Blank \in Chars
    BY CellFacts DEF NoSelection
  <1>3. v \in Screens(cols, rows)
    BY <1>1, <1>2, ZenonT(60) DEF Shape, Screens, ScreensAt
  <1>4. v.top = 0 /\ v.bottom = s.rows - 1 /\ v.mainTop = s.mainTop /\ v.mainBottom = s.mainBottom
        /\ v.alt = FALSE /\ v.viewOffset = s.viewOffset /\ v.scrollback = s.scrollback
    BY DEF Shape, Screens, ScreensAt
  <1>5. clearTerminal(s) = Wiped(clearScrollback(v))
    BY DEF clearTerminal
  <1> HIDE DEF v
  <1>6. InOrder(v, cols, rows, U, V)
    BY <1>1, <1>4 DEF Shape, InOrder
  <1> QED
    BY <1>3, <1>5, <1>6, WipedKeeps, ClearScrollbackKeeps DEF Shape

(* The widget changes size.                                                    *)

LEMMA CutFits ==
    ASSUME NEW cols, NEW rows, NEW c \in Nat, NEW r \in Nat, NEW g \in Grids(cols, rows)
    PROVE  Cut(g, c, r) \in Grids(c, r)
  <1>1. Blank \in Chars
    BY ScreenAssumption DEF Blank, Chars
  <1>2. \A i \in DOMAIN g : \A j \in DOMAIN g[i] : g[i][j] \in Chars
    BY DEF Grids, Lines
  <1> QED
    BY <1>1, <1>2 DEF Cut, Grids, Lines

LEMMA CutLineFits ==
    ASSUME NEW cols, NEW c \in Nat, NEW l \in Lines(cols)
    PROVE  CutLine(l, c) \in Lines(c)
  <1>1. Blank \in Chars
    BY ScreenAssumption DEF Blank, Chars
  <1> QED
    BY <1>1 DEF CutLine, Lines

Resized(s, c, r, cells, main, alt, x, y, i, j, k, l, q) ==
    [s EXCEPT !.cols = c, !.rows = r, !.cells = cells, !.mainCells = main, !.altCells = alt,
              !.cx = x, !.cy = y, !.top = i, !.bottom = j, !.mainTop = k, !.mainBottom = l,
              !.scrollback = q]

LEMMA ScreenChanges ==
    ASSUME NEW C, NEW R, NEW G, NEW H, NEW X, NEW Y, NEW M, NEW L,
           NEW C2, NEW R2, NEW G2, NEW H2, NEW X2, NEW Y2, NEW M2, NEW L2,
           NEW s \in ScreensOf(C, R, G, H, X, Y, M, L),
           NEW c \in C2, NEW r \in R2, NEW cells \in G2, NEW main \in H2, NEW alt \in H2,
           NEW x \in X2, NEW y \in Y2, NEW i \in M2, NEW j \in M2, NEW k \in M2, NEW l \in M2, NEW q \in L2
    PROVE  Resized(s, c, r, cells, main, alt, x, y, i, j, k, l, q) \in ScreensOf(C2, R2, G2, H2, X2, Y2, M2, L2)
  <1> DEFINE t == [s EXCEPT !.cols = c, !.rows = r, !.cells = cells]
             u == [t EXCEPT !.mainCells = main, !.altCells = alt]
             v == [u EXCEPT !.cx = x, !.cy = y]
             w == [v EXCEPT !.top = i, !.bottom = j]
             z == [w EXCEPT !.mainTop = k, !.mainBottom = l]
             m == [z EXCEPT !.scrollback = q]
  <1>1. t \in ScreensOf(C2, R2, G2, H, X, Y, M, L)
    BY ZenonT(60) DEF ScreensOf
  <1>2. m = Resized(s, c, r, cells, main, alt, x, y, i, j, k, l, q)
    BY DEF Resized
  <1> HIDE DEF t
  <1>3. u \in ScreensOf(C2, R2, G2, H2, X, Y, M, L)
    BY <1>1, ZenonT(60) DEF ScreensOf
  <1> HIDE DEF u
  <1>4. v \in ScreensOf(C2, R2, G2, H2, X2, Y2, M, L)
    BY <1>3, ZenonT(60) DEF ScreensOf
  <1> HIDE DEF v
  <1>5. z \in ScreensOf(C2, R2, G2, H2, X2, Y2, M2, L)
    BY <1>4, ZenonT(60) DEF ScreensOf
  <1> HIDE DEF z
  <1>6. m \in ScreensOf(C2, R2, G2, H2, X2, Y2, M2, L2)
    BY <1>5 DEF ScreensOf
  <1> HIDE DEF m
  <1> QED
    BY <1>2, <1>6

LEMMA ResizeKeeps ==
    ASSUME NEW cols, NEW rows, NEW T, NEW B, Size(cols, rows, T, B),
           NEW s, Shape(s, cols, rows, T, B),
           NEW c, NEW r, NEW U, NEW V, Size(c, r, U, V),
           \A i \in T \cap 0..rows - 1, j \in B \cap 0..rows - 1 :
               RegionAfter(i, j, rows, r)[1] \in U /\ RegionAfter(i, j, rows, r)[2] \in V
    PROVE  Shape(resizeGrid(s, c, r), c, r, U, V)
  <1> DEFINE cells  == Cut(s.cells, c, r)
             Other(grid) == IF grid = NoGrid THEN grid ELSE Cut(grid, c, r)
             region == RegionAfter(s.top, s.bottom, s.rows, r)
             kept   == RegionAfter(s.mainTop, s.mainBottom, s.rows, r)
             a == region[1]
             b == region[2]
             d == kept[1]
             e == kept[2]
             main == IF s.alt THEN Other(s.mainCells) ELSE cells
             alt  == IF s.alt THEN cells ELSE Other(s.altCells)
             x == Bound(0, s.cx, c - 1)
             y == Bound(0, s.cy, r - 1)
             q == [i \in DOMAIN s.scrollback |-> CutLine(s.scrollback[i], c)]
             v == [s EXCEPT !.cols = c, !.rows = r, !.cells = cells, !.mainCells = main, !.altCells = alt,
                            !.cx = x, !.cy = y, !.top = a, !.bottom = b, !.mainTop = d, !.mainBottom = e,
                            !.scrollback = q]
  <1>1. resizeGrid(s, c, r) = v
    BY DEF resizeGrid
  <1>2. c \in Nat /\ r \in Nat /\ c > 1 /\ r > 1
    BY DEF Size
  <1>3. cells \in Grids(c, r)
    BY <1>2, CellFacts, CutFits
  <1>4. main \in Grids(c, r) \cup {NoGrid} /\ alt \in Grids(c, r) \cup {NoGrid} /\ (s.alt => main \in Grids(c, r))
    <2>1. s.mainCells \in Grids(cols, rows) \cup {NoGrid} /\ s.altCells \in Grids(cols, rows) \cup {NoGrid}
          /\ (s.alt => s.mainCells \in Grids(cols, rows))
      BY DEF Shape, Screens, ScreensAt, InOrder
    <2>2. \A g \in Grids(cols, rows) : g # NoGrid
      <3>1. ASSUME NEW g \in Grids(cols, rows), g = NoGrid
            PROVE  FALSE
        <4>1. DOMAIN g = 0..rows - 1 /\ DOMAIN NoGrid = {}
          BY DEF Grids, NoGrid
        <4>2. 0 \in 0..rows - 1
          BY DEF Size
        <4> QED
          BY <3>1, <4>1, <4>2
      <3> QED
        BY <3>1
    <2>3. \A g \in Grids(cols, rows) : Cut(g, c, r) \in Grids(c, r)
      BY <1>2, CutFits
    <2> HIDE DEF cells
    <2>4. \A g \in Grids(cols, rows) \cup {NoGrid} : Other(g) \in Grids(c, r) \cup {NoGrid}
      BY <2>3
    <2> QED
      BY <1>3, <2>1, <2>2, <2>3, <2>4
  <1> HIDE DEF cells, main, alt
  <1>5. x \in 0..c - 1 /\ y \in 0..r - 1
    BY <1>2, CursorFacts DEF Bound, Least, Most
  <1> HIDE DEF x, y
  <1>6. a \in 0..r - 1 /\ b \in 0..r - 1 /\ a <= b
    BY <1>2, CursorFacts DEF RegionAfter, Least
  <1>7. d \in 0..r - 1 /\ e \in 0..r - 1 /\ d <= e
    BY <1>2, CursorFacts DEF RegionAfter, Least
  <1>8. a \in U /\ b \in V /\ (s.alt => d \in U /\ e \in V)
    BY CursorFacts DEF Shape, InOrder
  <1> HIDE DEF a, b, d, e
  <1>9. q \in Seq(Lines(c)) /\ Len(q) = Len(s.scrollback)
    <2>1. s.scrollback \in Seq(Lines(cols)) /\ Len(s.scrollback) \in Nat
      BY ViewFacts
    <2>3. \A i \in 1..Len(s.scrollback) : s.scrollback[i] \in Lines(cols)
      BY <2>1
    <2>2. \A i \in 1..Len(s.scrollback) : CutLine(s.scrollback[i], c) \in Lines(c)
      BY <1>2, <2>3, CutLineFits
    <2> QED
      BY <2>1, <2>2
  <1> HIDE DEF q
  <1>10. s \in ScreensAt(cols, rows, 0..cols - 1, 0..rows - 1)
    BY DEF Shape, Screens
  <1>11. v \in Screens(c, r)
    <2> DEFINE C == {cols} R == {rows} G == Grids(cols, rows) H == Grids(cols, rows) \cup {NoGrid}
               X == 0..cols - 1 Y == 0..rows - 1 L == Seq(Lines(cols))
               C2 == {c} R2 == {r} G2 == Grids(c, r) H2 == Grids(c, r) \cup {NoGrid}
               X2 == 0..c - 1 Y2 == 0..r - 1 L2 == Seq(Lines(c))
    <2>1. s \in ScreensOf(C, R, G, H, X, Y, Y, L)
      BY <1>10 DEF ScreensAt, ScreensOf
    <2>2. c \in C2 /\ r \in R2 /\ cells \in G2 /\ main \in H2 /\ alt \in H2 /\ x \in X2 /\ y \in Y2
          /\ a \in Y2 /\ b \in Y2 /\ d \in Y2 /\ e \in Y2 /\ q \in L2
      BY <1>3, <1>4, <1>5, <1>6, <1>7, <1>9
    <2>3. ScreensOf(C2, R2, G2, H2, X2, Y2, Y2, L2) = Screens(c, r)
      BY DEF Screens, ScreensAt, ScreensOf
    <2> HIDE DEF C, R, G, H, X, Y, L, C2, R2, G2, H2, X2, Y2, L2
    <2>4. Resized(s, c, r, cells, main, alt, x, y, a, b, d, e, q) \in ScreensOf(C2, R2, G2, H2, X2, Y2, Y2, L2)
      BY <2>1, <2>2, ScreenChanges
    <2>5. v = Resized(s, c, r, cells, main, alt, x, y, a, b, d, e, q)
      BY DEF Resized
    <2> QED
      BY <2>3, <2>4, <2>5
  <1>12. v.top = a /\ v.bottom = b /\ v.mainTop = d /\ v.mainBottom = e /\ v.alt = s.alt
         /\ v.mainCells = main /\ v.scrollback = q /\ v.viewOffset = s.viewOffset
    BY <1>10 DEF ScreensAt
  <1> HIDE DEF v
  <1>13. InOrder(v, c, r, U, V)
    <2>1. Len(s.scrollback) <= ScrollbackMax /\ s.viewOffset <= Len(s.scrollback) /\ (s.alt => s.viewOffset = 0)
      BY DEF Shape, InOrder
    <2> QED
      BY <1>4, <1>6, <1>7, <1>8, <1>9, <1>12, <2>1 DEF InOrder
  <1> QED
    BY <1>1, <1>11, <1>13 DEF Shape

(* Every control function leaves a screen behind.                              *)

LEMMA SetModeKeeps ==
    ASSUME NEW cols, NEW rows, NEW T, NEW B, Size(cols, rows, T, B),
           NEW s, Shape(s, cols, rows, T, B), NEW mode \in Nat
    PROVE  Shape(SetMode(s, mode), cols, rows, T, B)
  <1>1. CASE mode = 6
    <2>1. SetMode(s, mode) = setOriginMode(s, TRUE)
      BY <1>1 DEF SetMode
    <2> QED
      BY <2>1, OriginOnKeeps
  <1>2. CASE mode = 7
    <2>1. SetMode(s, mode) = [s EXCEPT !.autoWrap = TRUE]
      BY <1>2 DEF SetMode
    <2> DEFINE v == [s EXCEPT !.autoWrap = TRUE]
    <2>2. v \in Screens(cols, rows)
      BY ZenonT(60) DEF Shape, Screens, ScreensAt
    <2>3. InOrder(v, cols, rows, T, B)
      BY <2>2 DEF Shape, InOrder, Screens, ScreensAt
    <2> QED
      BY <2>1, <2>2, <2>3 DEF Shape
  <1>3. CASE mode \in {47, 1047}
    <2>0. mode # 6 /\ mode # 7 /\ mode \in {47, 1047}
      BY <1>3
    <2>1. SetMode(s, mode) = enterAltScreen(s, FALSE)
      <3>1. CASE mode = 47
        BY <3>1 DEF SetMode
      <3>2. CASE mode = 1047
        BY <3>2 DEF SetMode
      <3> QED
        BY <2>0, <3>1, <3>2, ZenonT(60)
    <2> QED
      BY <2>1, EnterKeeps
  <1>4. CASE mode = 1048
    BY <1>4, DecSaveKeeps DEF SetMode
  <1>5. CASE mode = 1049
    <2>1. Shape(decSaveCursor(s), cols, rows, T, B)
      BY DecSaveKeeps
    <2>2. SetMode(s, mode) = enterAltScreen(decSaveCursor(s), TRUE)
      BY <1>5 DEF SetMode
    <2> QED
      BY <2>1, <2>2, EnterKeeps
  <1>6. CASE mode \notin {6, 7, 47, 1047, 1048, 1049}
    <2>0. mode # 6 /\ mode # 7 /\ ~(mode \in {47, 1047}) /\ mode # 47 /\ mode # 1047 /\ mode # 1048 /\ mode # 1049
      BY <1>6
    <2>1. SetMode(s, mode) = s
      BY <2>0, ZenonT(60) DEF SetMode
    <2> QED
      BY <2>1
  <1> QED
    BY <1>1, <1>2, <1>3, <1>4, <1>5, <1>6

LEMMA ResetModeKeeps ==
    ASSUME NEW cols, NEW rows, NEW T, NEW B, Size(cols, rows, T, B),
           NEW s, Shape(s, cols, rows, T, B), NEW mode \in Nat
    PROVE  Shape(ResetMode(s, mode), cols, rows, T, B)
  <1>1. CASE mode = 6
    <2>1. ResetMode(s, mode) = setOriginMode(s, FALSE)
      BY <1>1 DEF ResetMode
    <2> QED
      BY <2>1, OriginOffKeeps
  <1>2. CASE mode = 7
    <2>1. ResetMode(s, mode) = [s EXCEPT !.autoWrap = FALSE]
      BY <1>2 DEF ResetMode
    <2> DEFINE v == [s EXCEPT !.autoWrap = FALSE]
    <2>2. v \in Screens(cols, rows)
      BY ZenonT(60) DEF Shape, Screens, ScreensAt
    <2>3. InOrder(v, cols, rows, T, B)
      BY <2>2 DEF Shape, InOrder, Screens, ScreensAt
    <2> QED
      BY <2>1, <2>2, <2>3 DEF Shape
  <1>3. CASE mode = 47
    <2>1. ResetMode(s, mode) = leaveAltScreen(s, FALSE)
      <3>1. (mode = 1047) = FALSE
        BY <1>3
      <3>2. ResetMode(s, mode) = leaveAltScreen(s, mode = 1047)
        BY <1>3 DEF ResetMode
      <3> QED
        BY <3>1, <3>2, Zenon
    <2> QED
      BY <2>1, LeaveKeeps
  <1>7. CASE mode = 1047
    <2>1. ResetMode(s, mode) = leaveAltScreen(s, TRUE)
      <3>1. (mode = 1047) = TRUE
        BY <1>7
      <3>2. ResetMode(s, mode) = leaveAltScreen(s, mode = 1047)
        BY <1>7 DEF ResetMode
      <3> QED
        BY <3>1, <3>2, Zenon
    <2> QED
      BY <2>1, LeaveKeeps
  <1>4. CASE mode = 1048
    BY <1>4, DecRestoreKeeps DEF ResetMode
  <1>5. CASE mode = 1049
    <2>1. Shape(leaveAltScreen(s, TRUE), cols, rows, T, B)
      BY LeaveKeeps
    <2>2. ResetMode(s, mode) = decRestoreCursor(leaveAltScreen(s, TRUE))
      BY <1>5 DEF ResetMode
    <2> QED
      BY <2>1, <2>2, DecRestoreKeeps
  <1>6. CASE mode \notin {6, 7, 47, 1047, 1048, 1049}
    <2>0. mode # 6 /\ mode # 7 /\ ~(mode \in {47, 1047}) /\ mode # 47 /\ mode # 1047 /\ mode # 1048 /\ mode # 1049
      BY <1>6
    <2>1. ResetMode(s, mode) = s
      BY <2>0 DEF ResetMode
    <2> QED
      BY <2>1
  <1> QED
    BY <1>1, <1>2, <1>3, <1>4, <1>5, <1>6, <1>7

Plain  == {"LF", "CR", "NEL", "BS", "HT", "RI", "SC", "RC", "RIS"}
Counts == {"REP", "CUU", "CUD", "CUF", "CUB", "CHA", "VPA", "ECH", "ICH", "DCH", "IL", "DL", "SU", "SD",
           "DECSET", "DECRST"}

LEMMA FunctionKinds ==
    ASSUME NEW f \in ControlFunctions
    PROVE  \/ f[1] = "print" /\ f[2] \in Chars
           \/ f[1] \in Plain
           \/ f[1] \in Counts /\ f[2] \in Nat
           \/ f[1] \in {"CUP", "STBM"} /\ f[2] \in Nat /\ f[3] \in Nat
           \/ f[1] = "ED" /\ f[2] \in 0..3
           \/ f[1] = "EL" /\ f[2] \in 0..2
  <1>1. \/ f \in {"print"} \X (Narrow \cup Wide)
        \/ f \in {<<name>> : name \in Plain}
        \/ f \in Counts \X Nat
        \/ f \in {"CUP", "STBM"} \X Nat \X Nat
        \/ f \in {"ED"} \X (0..3)
        \/ f \in {"EL"} \X (0..2)
    BY DEF ControlFunctions, Plain, Counts
  <1>2. CASE f \in {"print"} \X (Narrow \cup Wide)
    BY <1>2 DEF Chars
  <1>3. CASE f \in {<<name>> : name \in Plain}
    <2>1. PICK name \in Plain : f = <<name>>
      BY <1>3
    <2> QED
      BY <2>1
  <1>4. CASE f \in Counts \X Nat
    BY <1>4
  <1>5. CASE f \in {"CUP", "STBM"} \X Nat \X Nat
    BY <1>5
  <1>6. CASE f \in {"ED"} \X (0..3)
    BY <1>6
  <1>7. CASE f \in {"EL"} \X (0..2)
    BY <1>7
  <1> QED
    BY <1>1, <1>2, <1>3, <1>4, <1>5, <1>6, <1>7

LEMMA FeedKeeps ==
    ASSUME NEW cols, NEW rows, NEW T, NEW B, Size(cols, rows, T, B),
           NEW s, Shape(s, cols, rows, T, B), NEW f \in ControlFunctions,
           f[1] = "STBM" => /\ setScrollRegion(s, f[2], f[3]).top \in T
                            /\ setScrollRegion(s, f[2], f[3]).bottom \in B
    PROVE  Shape(Feed(s, f), cols, rows, T, B)
  <1>1. CASE f[1] = "print" /\ f[2] \in Chars
    <2>1. Feed(s, f) = putChar(s, f[2])
      BY <1>1 DEF Feed
    <2> QED
      BY <1>1, <2>1, PutCharKeeps
  <1>2. CASE f[1] \in Plain
    <2>1. CASE f[1] = "LF"
      <3>1. Feed(s, f) = newLine(s)
        BY <2>1 DEF Feed
      <3> QED
        BY <2>1, <3>1, NewLineKeeps
    <2>2. CASE f[1] = "CR"
      <3>1. Feed(s, f) = carriageReturn(s)
        BY <2>2 DEF Feed
      <3> QED
        BY <2>2, <3>1, CarriageReturnKeeps
    <2>3. CASE f[1] = "NEL"
      <3>1. Feed(s, f) = NextLine(s)
        BY <2>3 DEF Feed
      <3> QED
        BY <2>3, <3>1, NextLineKeeps
    <2>4. CASE f[1] = "BS"
      <3>1. Feed(s, f) = backspace(s)
        BY <2>4 DEF Feed
      <3> QED
        BY <2>4, <3>1, BackspaceKeeps
    <2>5. CASE f[1] = "HT"
      <3>1. Feed(s, f) = tab(s)
        BY <2>5 DEF Feed
      <3> QED
        BY <2>5, <3>1, TabKeeps
    <2>6. CASE f[1] = "RI"
      <3>1. Feed(s, f) = reverseIndex(s)
        BY <2>6 DEF Feed
      <3> QED
        BY <2>6, <3>1, ReverseIndexKeeps
    <2>7. CASE f[1] = "SC"
      <3>1. Feed(s, f) = saveCursor(s)
        BY <2>7 DEF Feed
      <3> QED
        BY <2>7, <3>1, SaveKeeps
    <2>8. CASE f[1] = "RC"
      <3>1. Feed(s, f) = restoreCursor(s)
        BY <2>8 DEF Feed
      <3> QED
        BY <2>8, <3>1, RestoreKeeps
    <2>9. CASE f[1] = "RIS"
      <3>1. Feed(s, f) = clearTerminal(s)
        BY <2>9 DEF Feed
      <3> QED
        BY <2>9, <3>1, ClearTerminalKeeps
    <2> QED
      BY <1>2, <2>1, <2>2, <2>3, <2>4, <2>5, <2>6, <2>7, <2>8, <2>9 DEF Plain
  <1>3. CASE f[1] \in Counts /\ f[2] \in Nat
    <2>1. CASE f[1] = "REP"
      <3>1. Feed(s, f) = RepeatLast(s, f[2])
        BY <2>1 DEF Feed
      <3> QED
        BY <2>1, <3>1, <1>3, RepeatKeeps
    <2>2. CASE f[1] = "CUU"
      <3>1. Feed(s, f) = cursorUp(s, f[2])
        BY <2>2 DEF Feed
      <3> QED
        BY <2>2, <3>1, <1>3, CursorUpKeeps
    <2>3. CASE f[1] = "CUD"
      <3>1. Feed(s, f) = cursorDown(s, f[2])
        BY <2>3 DEF Feed
      <3> QED
        BY <2>3, <3>1, <1>3, CursorDownKeeps
    <2>4. CASE f[1] = "CUF"
      <3>1. Feed(s, f) = cursorRight(s, f[2])
        BY <2>4 DEF Feed
      <3> QED
        BY <2>4, <3>1, <1>3, CursorRightKeeps
    <2>5. CASE f[1] = "CUB"
      <3>1. Feed(s, f) = cursorLeft(s, f[2])
        BY <2>5 DEF Feed
      <3> QED
        BY <2>5, <3>1, <1>3, CursorLeftKeeps
    <2>6. CASE f[1] = "CHA"
      <3>1. Feed(s, f) = cursorColumn(s, f[2])
        BY <2>6 DEF Feed
      <3> QED
        BY <2>6, <3>1, <1>3, CursorColumnKeeps
    <2>7. CASE f[1] = "VPA"
      <3>1. Feed(s, f) = cursorRow(s, f[2])
        BY <2>7 DEF Feed
      <3> QED
        BY <2>7, <3>1, <1>3, CursorRowKeeps
    <2>8. CASE f[1] = "ECH"
      <3>1. Feed(s, f) = eraseChars(s, f[2])
        BY <2>8 DEF Feed
      <3> QED
        BY <2>8, <3>1, <1>3, EraseCharsKeeps
    <2>9. CASE f[1] = "ICH"
      <3>1. Feed(s, f) = insertChars(s, f[2])
        BY <2>9 DEF Feed
      <3> QED
        BY <2>9, <3>1, <1>3, InsertCharsKeeps
    <2>10. CASE f[1] = "DCH"
      <3>1. Feed(s, f) = deleteChars(s, f[2])
        BY <2>10 DEF Feed
      <3> QED
        BY <2>10, <3>1, <1>3, DeleteCharsKeeps
    <2>11. CASE f[1] = "IL"
      <3>1. Feed(s, f) = insertLines(s, f[2])
        BY <2>11 DEF Feed
      <3> QED
        BY <2>11, <3>1, <1>3, InsertLinesKeeps
    <2>12. CASE f[1] = "DL"
      <3>1. Feed(s, f) = deleteLines(s, f[2])
        BY <2>12 DEF Feed
      <3> QED
        BY <2>12, <3>1, <1>3, DeleteLinesKeeps
    <2>13. CASE f[1] = "SU"
      <3>1. Feed(s, f) = scrollUp(s, f[2])
        BY <2>13 DEF Feed
      <3> QED
        BY <2>13, <3>1, <1>3, ScrollUpKeeps
    <2>14. CASE f[1] = "SD"
      <3>1. Feed(s, f) = scrollDown(s, f[2])
        BY <2>14 DEF Feed
      <3> QED
        BY <2>14, <3>1, <1>3, ScrollDownKeeps
    <2>15. CASE f[1] = "DECSET"
      <3>1. Feed(s, f) = SetMode(s, f[2])
        BY <2>15 DEF Feed
      <3> QED
        BY <2>15, <3>1, <1>3, SetModeKeeps
    <2>16. CASE f[1] = "DECRST"
      <3>1. Feed(s, f) = ResetMode(s, f[2])
        BY <2>16 DEF Feed
      <3> QED
        BY <2>16, <3>1, <1>3, ResetModeKeeps
    <2> QED
      BY <1>3, <2>1, <2>2, <2>3, <2>4, <2>5, <2>6, <2>7, <2>8, <2>9, <2>10, <2>11, <2>12, <2>13, <2>14, <2>15, <2>16 DEF Counts
  <1>4. CASE f[1] \in {"CUP", "STBM"} /\ f[2] \in Nat /\ f[3] \in Nat
    <2>1. CASE f[1] = "CUP"
      <3>1. Feed(s, f) = cursorColumn(cursorRow(s, f[2]), f[3])
        BY <2>1 DEF Feed, cursorTo
      <3>2. Shape(cursorRow(s, f[2]), cols, rows, T, B)
        BY <1>4, CursorRowKeeps
      <3> QED
        BY <1>4, <3>1, <3>2, CursorColumnKeeps
    <2>2. CASE f[1] = "STBM"
      <3>1. Feed(s, f) = setScrollRegion(s, f[2], f[3])
        BY <2>2 DEF Feed
      <3> QED
        BY <1>4, <2>2, <3>1, RegionKeeps
    <2> QED
      BY <1>4, <2>1, <2>2
  <1>5. CASE f[1] = "ED" /\ f[2] \in 0..3
    <2>1. Feed(s, f) = eraseInDisplay(s, f[2])
      BY <1>5 DEF Feed
    <2> QED
      BY <1>5, <2>1, DisplayKeeps
  <1>6. CASE f[1] = "EL" /\ f[2] \in 0..2
    <2>1. Feed(s, f) = eraseInLine(s, f[2])
      BY <1>6 DEF Feed
    <2> QED
      BY <1>6, <2>1, EraseLineKeeps
  <1> QED
    BY <1>1, <1>2, <1>3, <1>4, <1>5, <1>6, FunctionKinds

-----------------------------------------------------------------------------
(* What holds in every state.                                                  *)

Mice == [mode : {0} \cup MouseModes, pressed : Buttons \cup {"none"}, selecting : BOOLEAN]

(* A program has a button in mind only while the user holds it, the mouse is   *)
(* tracked and the widget interactive, and it is the one the widget follows.   *)
Holding(m, seen) ==
    /\ m.pressed # "none" => m.pressed \in gesture.held /\ m.mode \in MouseModes /\ interactive
    /\ seen \subseteq gesture.held /\ \A b \in seen : m.pressed = b

Rolls(cols) == [plain : BOOLEAN, lines : Seq(Lines(cols)), x : Nat]

(* The endless paper, cut where the history begins and filled up with blanks.  *)
RolledAs(s, lines, n, k, y) ==
    /\ n >= y + 1 /\ k = Least(n - (y + 1), ScrollbackMax)
    /\ \A r \in 0..y : s.cells[r] = lines[n - y + r]
    /\ \A i \in 1..k : s.scrollback[i] = lines[n - y - 1 - k + i]
    /\ \A r \in y + 1..s.rows - 1 : s.cells[r] = BlankRow(s.cols)

Rolled(s, lines) == RolledAs(s, lines, Len(lines), Len(s.scrollback), s.cy)

(* Plain output is written as it is on paper: the pen is where the cursor is,  *)
(* or behind the last column when the line is full.                            *)
Unset(s) == ~s.alt /\ s.top = 0 /\ s.bottom = s.rows - 1 /\ s.autoWrap /\ ~s.origin

AsOnPaper(s, p) ==
    p.plain => /\ Unset(s)
               /\ p.x = (IF s.pendingWrap THEN s.cols ELSE s.cx)
               /\ s.pendingWrap => s.cx = s.cols - 1
               /\ Rolled(s, p.lines)

Sound(s, m) ==
    /\ Size(s.cols, s.rows, 0..s.rows - 1, 0..s.rows - 1) /\ m \in BOOLEAN
    /\ Shape(s, s.cols, s.rows, 0..s.rows - 1, 0..s.rows - 1)
    /\ m = FALSE => Shape(s, s.cols, s.rows, {0}, {s.rows - 1})

ScreenInv == Sound(screen, margins)

MouseInv ==
    /\ mouse \in Mice /\ interactive \in BOOLEAN
    /\ gesture \in [held : SUBSET Buttons, seen : SUBSET Buttons, excused : BOOLEAN]
    /\ ~gesture.excused => /\ \A a, b \in gesture.held : a = b
                           /\ Holding(mouse, gesture.seen)

RollInv == roll \in Rolls(screen.cols) /\ AsOnPaper(screen, roll)

BudgetInv == budget \in [output : Nat, resize : Nat, user : Nat, piece : Nat]

TerminalInv == ScreenInv /\ MouseInv /\ RollInv /\ BudgetInv

-----------------------------------------------------------------------------
(* A chunk is fed.                                                             *)

LEMMA FedRegions ==
    ASSUME NEW cols, NEW rows, Size(cols, rows, 0..rows - 1, 0..rows - 1),
           NEW s, Shape(s, cols, rows, 0..rows - 1, 0..rows - 1),
           NEW m \in BOOLEAN, ~m => Shape(s, cols, rows, {0}, {rows - 1}), NEW f \in ControlFunctions
    PROVE  /\ SetsMargins(m, s, f) \in BOOLEAN
           /\ Shape(Feed(s, f), cols, rows, 0..rows - 1, 0..rows - 1)
           /\ ~SetsMargins(m, s, f) => Shape(Feed(s, f), cols, rows, {0}, {rows - 1})
  <1>1. Size(cols, rows, {0}, {rows - 1})
    BY DEF Size
  <1>2. f[1] = "STBM" => /\ f[2] \in Nat /\ f[3] \in Nat
                         /\ setScrollRegion(s, f[2], f[3]).top \in 0..rows - 1
                         /\ setScrollRegion(s, f[2], f[3]).bottom \in 0..rows - 1
    <2> SUFFICES ASSUME f[1] = "STBM"
                 PROVE  /\ f[2] \in Nat /\ f[3] \in Nat
                        /\ setScrollRegion(s, f[2], f[3]).top \in 0..rows - 1
                        /\ setScrollRegion(s, f[2], f[3]).bottom \in 0..rows - 1
      OBVIOUS
    <2>1. f[2] \in Nat /\ f[3] \in Nat
      BY FunctionKinds DEF Plain, Counts
    <2>2. Shape(setScrollRegion(s, f[2], f[3]), cols, rows, 0..rows - 1, 0..rows - 1)
      BY <2>1, RegionStays
    <2> QED
      BY <2>1, <2>2, CursorFacts
  <1>3. Shape(Feed(s, f), cols, rows, 0..rows - 1, 0..rows - 1)
    BY <1>2, FeedKeeps
  <1>4. SetsMargins(m, s, f) \in BOOLEAN
    BY DEF SetsMargins
  <1>5. ASSUME ~SetsMargins(m, s, f)
        PROVE  Shape(Feed(s, f), cols, rows, {0}, {rows - 1})
    <2>1. CASE f[1] = "RIS"
      <3>1. Feed(s, f) = clearTerminal(s)
        BY <2>1 DEF Feed
      <3> QED
        BY <1>1, <3>1, ClearTerminalKeeps
    <2>2. CASE f[1] # "RIS"
      <3>1. ~m
        BY <1>5, <2>2 DEF SetsMargins
      <3>2. Shape(s, cols, rows, {0}, {rows - 1}) /\ s.rows = rows
        BY <3>1, CursorFacts
      <3>3. f[1] = "STBM" => /\ setScrollRegion(s, f[2], f[3]).top \in {0}
                             /\ setScrollRegion(s, f[2], f[3]).bottom \in {rows - 1}
        BY <1>5, <2>2, <3>2 DEF SetsMargins
      <3> QED
        BY <1>1, <3>2, <3>3, FeedKeeps
    <2> QED
      BY <2>1, <2>2
  <1> QED
    BY <1>3, <1>4, <1>5

LEMMA FedMouse ==
    ASSUME NEW m \in Mice, NEW seen \in SUBSET Buttons, NEW f \in ControlFunctions
    PROVE  /\ FeedMouse(m, f) \in Mice
           /\ Holding(m, seen) => Holding(FeedMouse(m, f), IF FeedMouse(m, f).mode = 0 THEN {} ELSE seen)
  <1> DEFINE n == FeedMouse(m, f)
  <1>1. CASE f[1] = "RIS"
    BY <1>1 DEF FeedMouse, Mice, Holding
  <1>2. CASE f[1] = "DECSET" /\ f[2] \in MouseModes
    BY <1>2 DEF FeedMouse, Mice, Holding, MouseModes
  <1>3. CASE f[1] = "DECRST" /\ f[2] = m.mode
    BY <1>3 DEF FeedMouse, Mice, Holding
  <1>4. CASE f[1] # "RIS" /\ ~(f[1] = "DECSET" /\ f[2] \in MouseModes) /\ ~(f[1] = "DECRST" /\ f[2] = m.mode)
    <2>1. n = m
      BY <1>4 DEF FeedMouse
    <2>2. Holding(m, seen) => Holding(m, IF m.mode = 0 THEN {} ELSE seen)
      BY DEF Holding
    <2> QED
      BY <2>1, <2>2
  <1> QED
    BY <1>1, <1>2, <1>3, <1>4

(* What does not change when lines are pushed into the history.                *)
Frame(s, t) ==
    /\ t.cols = s.cols /\ t.rows = s.rows /\ t.cells = s.cells /\ t.cx = s.cx /\ t.cy = s.cy
    /\ t.pendingWrap = s.pendingWrap /\ t.autoWrap = s.autoWrap /\ t.origin = s.origin
    /\ t.top = s.top /\ t.bottom = s.bottom /\ t.alt = s.alt

LEMMA ShiftFrame ==
    ASSUME NEW cols, NEW rows, NEW s \in Screens(cols, rows), NEW n
    PROVE  Frame(s, shiftSelectionBy(s, n)) /\ shiftSelectionBy(s, n).scrollback = s.scrollback
  <1>1. ASSUME NEW q
        PROVE  Frame(s, [s EXCEPT !.sel = q]) /\ [s EXCEPT !.sel = q].scrollback = s.scrollback
    BY DEF Frame, Screens, ScreensAt
  <1>2. \E q : shiftSelectionBy(s, n) = s \/ shiftSelectionBy(s, n) = [s EXCEPT !.sel = q]
    BY DEF shiftSelectionBy
  <1>3. Frame(s, s)
    BY DEF Frame
  <1> QED
    BY <1>1, <1>2, <1>3

LastLines(q) == IF Len(q) <= ScrollbackMax THEN q ELSE SubSeq(q, Len(q) - ScrollbackMax + 1, Len(q))

LEMMA TrimFrame ==
    ASSUME NEW cols, NEW rows, NEW T, NEW B, Size(cols, rows, T, B),
           NEW s, Shape(s, cols, rows, T, B), NEW q \in Seq(Lines(cols)), Len(q) >= Len(s.scrollback)
    PROVE  /\ Frame(s, trimScrollback([s EXCEPT !.scrollback = q]))
           /\ trimScrollback([s EXCEPT !.scrollback = q]).scrollback = LastLines(q)
  <1> DEFINE u == [s EXCEPT !.scrollback = q]
             over == Len(q) - ScrollbackMax
             p == SubSeq(q, over + 1, Len(q))
             o == Least(s.viewOffset, Len(p))
             l == s.lost + over
             w == [s EXCEPT !.scrollback = p, !.viewOffset = o, !.lost = l]
  <1>1. Len(q) \in Nat /\ over \in Int /\ ScrollbackMax \in Nat
    BY ViewFacts
  <1>2. trimScrollback(u) = IF over <= 0 THEN u ELSE shiftSelectionBy(w, -(over * s.cols))
    <2>1. over = Len(q) - ScrollbackMax
      OBVIOUS
    <2>2. u = Lengthened(s, q) /\ w = Shortened(s, q, over)
      BY DEF Lengthened, Shortened
    <2> HIDE DEF over, u, w
    <2> QED
      BY <1>1, <2>1, <2>2, TrimIs
  <1>3. LastLines(q) = IF over <= 0 THEN q ELSE p
    BY <1>1 DEF LastLines
  <1>4. Frame(s, u) /\ u.scrollback = q
    BY DEF Frame, Shape, Screens, ScreensAt
  <1>5. ~(over <= 0) => w \in Screens(cols, rows)
    <2> SUFFICES ASSUME ~(over <= 0)
                 PROVE  w \in Screens(cols, rows)
      OBVIOUS
    <2>1. over \in Nat /\ over + 1 \in 1..Len(q)
      BY <1>1, ViewFacts
    <2>2. p \in Seq(Lines(cols)) /\ Len(p) \in Nat
      BY <1>1, <2>1, SubSeqProperties
    <2>3. o \in Nat
      BY <2>2, ViewFacts DEF Least
    <2>4. l \in Nat
      BY <2>1, ViewFacts
    <2> HIDE DEF p, o, l
    <2> QED
      BY <2>2, <2>3, <2>4, ZenonT(60) DEF Shape, Screens, ScreensAt
  <1>6. Frame(s, w) /\ w.scrollback = p
    <2> HIDE DEF p, o, l
    <2> QED
      BY DEF Frame, Shape, Screens, ScreensAt
  <1> HIDE DEF u, w, p, over
  <1>7. CASE over <= 0
    BY <1>2, <1>3, <1>4, <1>7 DEF u
  <1>8. CASE ~(over <= 0)
    <2> DEFINE z == shiftSelectionBy(w, -(over * s.cols))
    <2>1. Frame(w, z) /\ z.scrollback = w.scrollback
      BY <1>5, <1>8, ShiftFrame
    <2> HIDE DEF z
    <2>2. Frame(s, z)
      BY <1>6, <2>1 DEF Frame
    <2>3. trimScrollback(u) = z
      BY <1>2, <1>8 DEF z
    <2> QED
      BY <1>3, <1>6, <1>8, <2>1, <2>2, <2>3 DEF u
  <1> QED
    BY <1>7, <1>8

LEMMA PushFrame ==
    ASSUME NEW cols, NEW rows, NEW T, NEW B, Size(cols, rows, T, B),
           NEW s, Shape(s, cols, rows, T, B)
    PROVE  /\ Frame(s, pushScrollbackLines(s, 1))
           /\ pushScrollbackLines(s, 1).scrollback = LastLines(Append(s.scrollback, s.cells[s.top]))
  <1> DEFINE p == [i \in 1..1 |-> s.cells[s.top + i - 1]]
             q == Append(s.scrollback, s.cells[s.top])
             t == trimScrollback([s EXCEPT !.scrollback = q])
             k == Least(t.viewOffset + 1, MaxViewOffset(t))
  <1>1. s.scrollback \in Seq(Lines(cols)) /\ s.cells[s.top] \in Lines(cols) /\ s.top \in Nat
    BY CellFacts, CursorFacts, ViewFacts
  <1>2. s.scrollback \o p = q
    <2>1. p = <<s.cells[s.top]>>
      <3>1. s.top + 1 - 1 = s.top
        BY <1>1
      <3>2. 1..1 = {1}
        OBVIOUS
      <3> QED
        BY <3>1, <3>2
    <2> HIDE DEF p
    <2> QED
      BY <1>1, <2>1
  <1>3. q \in Seq(Lines(cols)) /\ Len(q) >= Len(s.scrollback)
    BY <1>1
  <1>4. pushScrollbackLines(s, 1) = IF t.viewOffset = 0 THEN t ELSE [t EXCEPT !.viewOffset = k]
    <2> HIDE DEF q
    <2> QED
      BY <1>2 DEF pushScrollbackLines
  <1> HIDE DEF q
  <1>5. Frame(s, t) /\ t.scrollback = LastLines(q)
    BY <1>3, TrimFrame
  <1>6. Shape(t, cols, rows, T, B)
    BY <1>3, TrimKeeps
  <1> HIDE DEF t, k
  <1>7. Frame(s, [t EXCEPT !.viewOffset = k]) /\ [t EXCEPT !.viewOffset = k].scrollback = t.scrollback
    BY <1>5, <1>6 DEF Frame, Shape, Screens, ScreensAt
  <1> QED
    BY <1>4, <1>5, <1>7 DEF q

(* The history of a longer list of lines: its last ones, and no more.          *)
LEMMA TrimmedFacts ==
    ASSUME NEW S, NEW q \in Seq(S), Len(q) <= ScrollbackMax + 1
    PROVE  /\ LastLines(q) \in Seq(S) /\ Len(LastLines(q)) = Least(Len(q), ScrollbackMax)
           /\ \A i \in 1..Len(LastLines(q)) : LastLines(q)[i] = q[Len(q) - Len(LastLines(q)) + i]
  <1>1. Len(q) \in Nat /\ ScrollbackMax \in Nat \ {0}
    <2>1. ScrollbackMax \in Nat \ {0}
      BY ScreenAssumption
    <2> QED
      BY <2>1
  <1>2. CASE Len(q) <= ScrollbackMax
    <2>1. LastLines(q) = q
      BY <1>2 DEF LastLines
    <2> QED
      BY <1>1, <1>2, <2>1 DEF Least
  <1>3. CASE Len(q) = ScrollbackMax + 1
    <2>1. LastLines(q) = SubSeq(q, 2, Len(q))
      BY <1>1, <1>3 DEF LastLines
    <2>2. \A i \in 2..Len(q) : q[i] \in S
      BY <1>1
    <2>3. /\ SubSeq(q, 2, Len(q)) \in Seq(S) /\ Len(SubSeq(q, 2, Len(q))) = ScrollbackMax
          /\ \A i \in 1..Len(q) - 2 + 1 : SubSeq(q, 2, Len(q))[i] = q[2 + i - 1]
      BY <1>1, <1>3, <2>2, SubSeqProperties
    <2>4. Least(Len(q), ScrollbackMax) = ScrollbackMax
      BY <1>1, <1>3 DEF Least
    <2>5. \A i \in 1..ScrollbackMax : SubSeq(q, 2, Len(q))[i] = q[Len(q) - ScrollbackMax + i]
      <3> SUFFICES ASSUME NEW i \in 1..ScrollbackMax
                   PROVE  SubSeq(q, 2, Len(q))[i] = q[Len(q) - ScrollbackMax + i]
        OBVIOUS
      <3>1. i \in 1..Len(q) - 2 + 1 /\ 2 + i - 1 = Len(q) - ScrollbackMax + i
        BY <1>1, <1>3
      <3> QED
        BY <2>3, <3>1
    <2> QED
      BY <2>1, <2>3, <2>4, <2>5
  <1> QED
    BY <1>1, <1>2, <1>3

(* A line feed on an unset screen: down, or the lines move up.                 *)
Moved(s, t, cols, rows) ==
    /\ Unset(t) /\ t.cols = cols /\ t.rows = rows /\ t.cx = s.cx /\ t.pendingWrap = FALSE
    /\ s.cy < rows - 1 => /\ t.cy = s.cy + 1 /\ t.cells = s.cells /\ t.scrollback = s.scrollback
    /\ s.cy = rows - 1 =>
         /\ t.cy = s.cy /\ t.scrollback = LastLines(Append(s.scrollback, s.cells[0]))
         /\ \A r \in 0..rows - 1 : t.cells[r] = IF r < rows - 1 THEN s.cells[r + 1] ELSE BlankRow(cols)

LEMMA NewLineMoves ==
    ASSUME NEW cols, NEW rows, Size(cols, rows, 0..rows - 1, 0..rows - 1),
           NEW s, Shape(s, cols, rows, 0..rows - 1, 0..rows - 1), Unset(s)
    PROVE  Moved(s, newLine(s), cols, rows)
  <1> DEFINE t == newLine(s)
             v == [s EXCEPT !.pendingWrap = FALSE]
             w == [v EXCEPT !.cy = v.cy + 1]
             u == pushScrollbackLines(v, 1)
             z == RowsUp(u, 0, 1)
  <1>1. s.bottom = rows - 1 /\ s.top = 0 /\ ~s.alt /\ s.rows = rows /\ s.cols = cols /\ s.cy \in 0..rows - 1
        /\ rows \in Nat /\ rows > 1
    BY CursorFacts DEF Unset
  <1>2. Shape(v, cols, rows, 0..rows - 1, 0..rows - 1)
    BY UnwrapKeeps
  <1>3. /\ v.cols = s.cols /\ v.rows = s.rows /\ v.cells = s.cells /\ v.cx = s.cx /\ v.cy = s.cy
        /\ v.pendingWrap = FALSE /\ v.autoWrap = s.autoWrap /\ v.origin = s.origin
        /\ v.top = s.top /\ v.bottom = s.bottom /\ v.alt = s.alt /\ v.scrollback = s.scrollback
    BY DEF Shape, Screens, ScreensAt
  <1>4. t = IF s.cy = s.bottom THEN scrollUp(v, 1) ELSE IF s.cy < s.rows - 1 THEN w ELSE v
    BY DEF newLine
  <1>5. CASE s.cy < rows - 1
    <2>1. t = w
      BY <1>1, <1>4, <1>5
    <2>2. /\ w.cols = v.cols /\ w.rows = v.rows /\ w.cells = v.cells /\ w.cx = v.cx /\ w.cy = v.cy + 1
          /\ w.pendingWrap = v.pendingWrap /\ w.autoWrap = v.autoWrap /\ w.origin = v.origin
          /\ w.top = v.top /\ w.bottom = v.bottom /\ w.alt = v.alt /\ w.scrollback = v.scrollback
      <3> HIDE DEF v
      <3> QED
        BY <1>2 DEF Shape, Screens, ScreensAt
    <2> HIDE DEF t, w, v
    <2> QED
      BY <1>1, <1>3, <1>5, <2>1, <2>2 DEF Unset, t, Moved
  <1>6. CASE s.cy = rows - 1
    <2>1. Bound(1, 1, RegionHeight(v)) = 1
      BY <1>1, <1>3 DEF Bound, Least, Most, RegionHeight
    <2>2. scrollUp(v, 1) = z
      <3> HIDE DEF v
      <3> QED
        BY <1>1, <1>3, <2>1 DEF scrollUp
    <2>3. t = z
      BY <1>1, <1>4, <1>6, <2>2
    <2> HIDE DEF v
    <2>4. Frame(v, u) /\ u.scrollback = LastLines(Append(v.scrollback, v.cells[v.top]))
      BY <1>2, PushFrame
    <2>5. 1 \in 1..RegionHeight(v)
      BY <1>1, <1>3 DEF RegionHeight
    <2>6. Shape(u, cols, rows, 0..rows - 1, 0..rows - 1)
      BY <1>2, <2>5, PushKeeps
    <2> HIDE DEF u
    <2> DEFINE g == [r \in 0..u.rows - 1 |-> IF r < 0 \/ r > u.bottom THEN u.cells[r]
                                             ELSE IF r + 1 <= u.bottom THEN u.cells[r + 1] ELSE BlankRow(u.cols)]
    <2>7. z = [u EXCEPT !.cells = g]
      BY DEF RowsUp
    <2>8. \A r \in 0..rows - 1 : g[r] = IF r < rows - 1 THEN s.cells[r + 1] ELSE BlankRow(cols)
      BY <1>1, <1>3, <2>4 DEF Frame
    <2> HIDE DEF g, z
    <2>9. /\ z.cols = u.cols /\ z.rows = u.rows /\ z.cells = g /\ z.cx = u.cx /\ z.cy = u.cy
          /\ z.pendingWrap = u.pendingWrap /\ z.autoWrap = u.autoWrap /\ z.origin = u.origin
          /\ z.top = u.top /\ z.bottom = u.bottom /\ z.alt = u.alt /\ z.scrollback = u.scrollback
      BY <2>6, <2>7 DEF Shape, Screens, ScreensAt
    <2>10. Unset(z) /\ z.cols = cols /\ z.rows = rows /\ z.cx = s.cx /\ z.pendingWrap = FALSE /\ z.cy = s.cy
           /\ z.scrollback = LastLines(Append(s.scrollback, s.cells[0])) /\ z.cells = g
      BY <1>1, <1>3, <2>4, <2>9 DEF Unset, Frame
    <2>11. ~(s.cy < rows - 1)
      BY <1>1, <1>6
    <2> HIDE DEF t
    <2> QED
      BY <2>3, <2>8, <2>10, <2>11 DEF t, Moved
  <1>7. s.cy < rows - 1 \/ s.cy = rows - 1
    BY <1>1
  <1> QED
    BY <1>5, <1>6, <1>7

LEMMA NewLineRolls ==
    ASSUME NEW cols, NEW rows, Size(cols, rows, 0..rows - 1, 0..rows - 1),
           NEW s, Shape(s, cols, rows, 0..rows - 1, 0..rows - 1), Unset(s),
           NEW lines \in Seq(Lines(cols)), Rolled(s, lines)
    PROVE  Rolled(newLine(s), Append(lines, BlankRow(cols)))
  <1> DEFINE t == newLine(s)
             b == BlankRow(cols)
             more == Append(lines, b)
             n == Len(lines)
             k == Len(s.scrollback)
             y == s.cy
  <1>1. n \in Nat /\ k \in Nat /\ y \in 0..rows - 1 /\ rows \in Nat /\ rows > 1 /\ ScrollbackMax \in Nat
        /\ s.rows = rows /\ s.cols = cols /\ k <= ScrollbackMax /\ ScrollbackMax > 0
    BY CursorFacts, ViewFacts
  <1>2. /\ n >= y + 1 /\ k = Least(n - (y + 1), ScrollbackMax)
        /\ \A r \in 0..y : s.cells[r] = lines[n - y + r]
        /\ \A i \in 1..k : s.scrollback[i] = lines[n - y - 1 - k + i]
        /\ \A r \in y + 1..rows - 1 : s.cells[r] = b
    BY <1>1 DEF Rolled, RolledAs
  <1>3. Len(more) = n + 1 /\ (\A i \in 1..n : more[i] = lines[i]) /\ more[n + 1] = b
    BY <1>1
  <1>4. s.scrollback \in Seq(Lines(cols)) /\ s.cells[0] \in Lines(cols)
    BY CellFacts, ViewFacts, <1>1
  <1>8. /\ t.cols = cols /\ t.rows = rows
        /\ y < rows - 1 => t.cy = y + 1 /\ t.cells = s.cells /\ t.scrollback = s.scrollback
        /\ y = rows - 1 =>
             /\ t.cy = y /\ t.scrollback = LastLines(Append(s.scrollback, s.cells[0]))
             /\ \A r \in 0..rows - 1 : t.cells[r] = IF r < rows - 1 THEN s.cells[r + 1] ELSE b
    <2>1. Moved(s, newLine(s), cols, rows)
      BY NewLineMoves
    <2> QED
      BY <2>1 DEF Moved
  <1> HIDE DEF more, b
  <1>5. CASE y < rows - 1
    <2>1. t.cy = y + 1 /\ t.cells = s.cells /\ t.scrollback = s.scrollback /\ t.rows = rows /\ t.cols = cols
      BY <1>5, <1>8
    <2> HIDE DEF t, n, k, y
    <2>2. n + 1 >= t.cy + 1 /\ k = Least(n + 1 - (t.cy + 1), ScrollbackMax)
      <3>1. n + 1 - (t.cy + 1) = n - (y + 1)
        BY <1>1, <2>1
      <3> QED
        BY <1>1, <1>2, <2>1, <3>1
    <2>3. \A r \in 0..t.cy : t.cells[r] = more[n + 1 - t.cy + r]
      <3> SUFFICES ASSUME NEW r \in 0..y + 1
                   PROVE  s.cells[r] = more[n - y + r]
        BY <1>1, <2>1
      <3>1. CASE r \in 0..y
        <4>1. n - y + r \in 1..n
          BY <1>1, <1>2, <3>1
        <4> QED
          BY <1>2, <1>3, <3>1, <4>1
      <3>2. CASE r = y + 1
        <4>1. r \in y + 1..rows - 1 /\ n - y + r = n + 1
          BY <1>1, <1>5, <3>2
        <4> QED
          BY <1>2, <1>3, <4>1
      <3> QED
        BY <1>1, <3>1, <3>2
    <2>4. \A i \in 1..k : t.scrollback[i] = more[n + 1 - t.cy - 1 - k + i]
      <3> SUFFICES ASSUME NEW i \in 1..k
                   PROVE  s.scrollback[i] = more[n - y - 1 - k + i]
        BY <1>1, <2>1
      <3>1. n - y - 1 - k + i \in 1..n
        BY <1>1, <1>2 DEF Least
      <3> QED
        BY <1>2, <1>3, <3>1
    <2>5. \A r \in t.cy + 1..t.rows - 1 : t.cells[r] = b
      <3> SUFFICES ASSUME NEW r \in y + 2..rows - 1
                   PROVE  s.cells[r] = b
        BY <1>1, <2>1
      <3> QED
        BY <1>1, <1>2
    <2>6. Len(t.scrollback) = k
      BY <2>1 DEF k
    <2> DEFINE h == n + 1
               z == y + 1
    <2>7. h = Len(more) /\ z = t.cy /\ k = Len(t.scrollback) /\ rows = t.rows /\ cols = t.cols /\ h \in Nat
      BY <1>1, <1>3, <2>1, <2>6
    <2>21. h >= z + 1 /\ k = Least(h - (z + 1), ScrollbackMax)
      BY <1>1, <2>1, <2>2
    <2>22. \A r \in 0..z : t.cells[r] = more[h - z + r]
      BY <1>1, <2>1, <2>3
    <2>23. \A i \in 1..k : t.scrollback[i] = more[h - z - 1 - k + i]
      BY <1>1, <2>1, <2>4
    <2>24. \A r \in z + 1..rows - 1 : t.cells[r] = BlankRow(cols)
      BY <1>1, <2>1, <2>5 DEF b
    <2> HIDE DEF h, z
    <2>8. Rolled(t, more)
      <3>1. RolledAs(t, more, h, k, z)
        BY <2>7, <2>21, <2>22, <2>23, <2>24 DEF RolledAs
      <3> QED
        BY <2>7, <3>1 DEF Rolled
    <2> QED
      BY <2>8 DEF t, more, b
  <1>6. CASE y = rows - 1
    <2> DEFINE q == Append(s.scrollback, s.cells[0])
               p == LastLines(q)
               m == Len(p)
    <2>1. /\ t.cy = y /\ t.scrollback = p /\ t.rows = rows /\ t.cols = cols
          /\ \A r \in 0..rows - 1 : t.cells[r] = IF r < rows - 1 THEN s.cells[r + 1] ELSE b
      BY <1>6, <1>8
    <2>2. q \in Seq(Lines(cols)) /\ Len(q) = k + 1 /\ (\A i \in 1..k : q[i] = s.scrollback[i]) /\ q[k + 1] = s.cells[0]
      BY <1>1, <1>4
    <2> HIDE DEF q
    <2>3. p \in Seq(Lines(cols)) /\ m = Least(k + 1, ScrollbackMax) /\ \A i \in 1..m : p[i] = q[k + 1 - m + i]
      <3>1. Len(q) <= ScrollbackMax + 1
        BY <1>1, <2>2
      <3>2. p \in Seq(Lines(cols)) /\ Len(p) = Least(Len(q), ScrollbackMax)
            /\ \A i \in 1..Len(p) : p[i] = q[Len(q) - Len(p) + i]
        BY <2>2, <3>1, TrimmedFacts
      <3>3. \A i \in 1..m : p[i] = q[(k + 1) - m + i]
        BY <2>2, <3>2
      <3> QED
        BY <2>2, <3>2, <3>3
    <2> HIDE DEF p
    <2>4. m \in Nat /\ m >= 1 /\ m <= k + 1
      BY <1>1, <2>3 DEF Least
    <2>8. Len(t.scrollback) = m
      BY <2>1
    <2> HIDE DEF t, n, k, y, m
    <2>5. n + 1 >= y + 1 /\ m = Least(n + 1 - (y + 1), ScrollbackMax)
      BY <1>1, <1>2, <2>3 DEF Least
    <2>6. \A r \in 0..y : t.cells[r] = more[n + 1 - y + r]
      <3> SUFFICES ASSUME NEW r \in 0..rows - 1
                   PROVE  t.cells[r] = more[n + 1 - y + r]
        BY <1>1, <1>6
      <3>1. CASE r < rows - 1
        <4>1. t.cells[r] = s.cells[r + 1] /\ r + 1 \in 0..y
          BY <1>1, <1>6, <2>1, <3>1
        <4>2. s.cells[r + 1] = lines[n - y + (r + 1)]
          BY <1>2, <4>1
        <4>3. n - y + (r + 1) \in 1..n /\ n - y + (r + 1) = n + 1 - y + r
          BY <1>1, <1>2, <1>6, <3>1
        <4> QED
          BY <1>3, <4>1, <4>2, <4>3
      <3>2. CASE r = rows - 1
        <4>1. t.cells[r] = b
          BY <1>1, <2>1, <3>2
        <4>2. n + 1 - y + r = n + 1
          BY <1>1, <1>6, <3>2
        <4> QED
          BY <1>3, <4>1, <4>2
      <3> QED
        BY <1>1, <3>1, <3>2
    <2>7. \A i \in 1..m : t.scrollback[i] = more[n + 1 - y - 1 - m + i]
      <3> SUFFICES ASSUME NEW i \in 1..m
                   PROVE  p[i] = more[n - y - m + i]
        BY <1>1, <2>1, <2>4
      <3>1. p[i] = q[k + 1 - m + i] /\ k + 1 - m + i \in 1..k + 1
        BY <1>1, <2>3, <2>4
      <3>2. CASE k + 1 - m + i \in 1..k
        <4>1. q[k + 1 - m + i] = lines[n - y - 1 - k + (k + 1 - m + i)]
          BY <1>2, <2>2, <3>2
        <4>2. n - y - 1 - k + (k + 1 - m + i) = n - y - m + i /\ n - y - m + i \in 1..n
          BY <1>1, <1>2, <2>4, <3>2 DEF Least
        <4> QED
          BY <1>3, <3>1, <4>1, <4>2
      <3>3. CASE k + 1 - m + i = k + 1
        <4>1. q[k + 1 - m + i] = s.cells[0] /\ s.cells[0] = lines[n - y + 0]
          BY <1>1, <1>2, <2>2, <3>3
        <4>2. n - y - m + i = n - y + 0 /\ n - y + 0 \in 1..n
          BY <1>1, <1>2, <2>4, <3>3
        <4> QED
          BY <1>3, <3>1, <4>1, <4>2
      <3> QED
        BY <1>1, <2>4, <3>1, <3>2, <3>3
    <2>9. \A r \in y + 1..rows - 1 : t.cells[r] = b
      BY <1>1, <1>6
    <2> DEFINE h == n + 1
    <2>10. h = Len(more) /\ y = t.cy /\ m = Len(t.scrollback) /\ rows = t.rows /\ cols = t.cols /\ h \in Nat
      BY <1>1, <1>3, <2>1, <2>8
    <2>21. h >= y + 1 /\ m = Least(h - (y + 1), ScrollbackMax)
      BY <1>1, <2>1, <2>5
    <2>22. \A r \in 0..y : t.cells[r] = more[h - y + r]
      BY <1>1, <2>1, <2>6
    <2>23. \A i \in 1..m : t.scrollback[i] = more[h - y - 1 - m + i]
      BY <1>1, <2>4, <2>7
    <2>24. \A r \in y + 1..rows - 1 : t.cells[r] = BlankRow(cols)
      BY <1>1, <2>1, <2>9 DEF b
    <2> HIDE DEF h
    <2>11. Rolled(t, more)
      <3>1. RolledAs(t, more, h, m, y)
        BY <2>10, <2>21, <2>22, <2>23, <2>24 DEF RolledAs
      <3> QED
        BY <2>10, <3>1 DEF Rolled
    <2> QED
      BY <2>11 DEF t, more, b
  <1>7. y < rows - 1 \/ y = rows - 1
    BY <1>1
  <1> QED
    BY <1>5, <1>6, <1>7

LEMMA RolledSame ==
    ASSUME NEW s, NEW t, NEW lines, Rolled(s, lines), t.cy = s.cy, t.rows = s.rows, t.cols = s.cols,
           t.cells = s.cells, t.scrollback = s.scrollback
    PROVE  Rolled(t, lines)
  BY DEF Rolled, RolledAs

(* The next line, from its first column.                                       *)
LEMMA NextLineRolls ==
    ASSUME NEW cols, NEW rows, Size(cols, rows, 0..rows - 1, 0..rows - 1),
           NEW s, Shape(s, cols, rows, 0..rows - 1, 0..rows - 1), Unset(s),
           NEW lines \in Seq(Lines(cols)), Rolled(s, lines)
    PROVE  /\ Shape(NextLine(s), cols, rows, 0..rows - 1, 0..rows - 1) /\ Unset(NextLine(s))
           /\ NextLine(s).cx = 0 /\ NextLine(s).pendingWrap = FALSE
           /\ Rolled(NextLine(s), Append(lines, BlankRow(cols)))
  <1> DEFINE t == carriageReturn(s)
             u == newLine(t)
  <1>1. Shape(t, cols, rows, 0..rows - 1, 0..rows - 1)
    BY CarriageReturnKeeps
  <1>2. /\ t.cols = s.cols /\ t.rows = s.rows /\ t.cells = s.cells /\ t.cx = 0 /\ t.cy = s.cy
        /\ t.autoWrap = s.autoWrap /\ t.origin = s.origin
        /\ t.top = s.top /\ t.bottom = s.bottom /\ t.alt = s.alt /\ t.scrollback = s.scrollback
    BY DEF carriageReturn, Shape, Screens, ScreensAt
  <1>3. NextLine(s) = u
    BY DEF NextLine
  <1>4. Shape(NextLine(s), cols, rows, 0..rows - 1, 0..rows - 1)
    BY NextLineKeeps
  <1> HIDE DEF t
  <1>5. Unset(t)
    BY <1>2 DEF Unset
  <1>6. Rolled(t, lines)
    BY <1>2, RolledSame
  <1>7. Rolled(u, Append(lines, BlankRow(cols)))
    BY <1>1, <1>5, <1>6, NewLineRolls
  <1>8. Moved(t, u, cols, rows)
    BY <1>1, <1>5, NewLineMoves
  <1> HIDE DEF u
  <1>9. Unset(u) /\ u.cx = 0 /\ u.pendingWrap = FALSE
    BY <1>2, <1>8 DEF Moved
  <1> QED
    BY <1>3, <1>4, <1>7, <1>9

Wrote(lines, cols, x, ch, width) == [lines EXCEPT ![Len(lines)] = Written(lines[Len(lines)], cols, x, ch, width)]

(* The pen behind a character: at its end, which may be that of the line.      *)
Printed(v, lines, end, cols) ==
    /\ Unset(v) /\ Rolled(v, lines) /\ lines \in Seq(Lines(cols)) /\ v.cols = cols
    /\ end = (IF v.pendingWrap THEN cols ELSE v.cx) /\ (v.pendingWrap => v.cx = cols - 1)

LEMMA PrintRolls ==
    ASSUME NEW cols, NEW rows, Size(cols, rows, 0..rows - 1, 0..rows - 1),
           NEW s, Shape(s, cols, rows, 0..rows - 1, 0..rows - 1), Unset(s),
           NEW lines \in Seq(Lines(cols)), Rolled(s, lines),
           NEW ch \in Chars, NEW width \in 1..2, s.cx + width <= cols
    PROVE  Printed(PrintOne(s, ch, width), Wrote(lines, cols, s.cx, ch, width), s.cx + width, cols)
  <1> DEFINE v == PrintOne(s, ch, width)
             full == s.cx + width >= s.cols
             row == Written(s.cells[s.cy], s.cols, s.cx, ch, width)
             g == [s.cells EXCEPT ![s.cy] = row]
             n == Len(lines)
             y == s.cy
             k == Len(s.scrollback)
             next == Wrote(lines, cols, s.cx, ch, width)
  <1>1. n \in Nat /\ k \in Nat /\ y \in 0..rows - 1 /\ rows \in Nat /\ rows > 1 /\ ScrollbackMax \in Nat
        /\ s.rows = rows /\ s.cols = cols /\ s.cx \in 0..cols - 1 /\ cols \in Nat /\ s.autoWrap
    BY CursorFacts, ViewFacts DEF Unset
  <1>2. /\ v.cols = s.cols /\ v.rows = s.rows /\ v.cells = g /\ v.cy = s.cy
        /\ v.cx = (IF full THEN s.cols - 1 ELSE s.cx + width)
        /\ v.autoWrap = s.autoWrap /\ v.origin = s.origin
        /\ v.top = s.top /\ v.bottom = s.bottom /\ v.alt = s.alt /\ v.scrollback = s.scrollback
    <2> HIDE DEF row
    <2> QED
      BY DEF PrintOne, Shape, Screens, ScreensAt, row
  <1>3. (full => v.pendingWrap = TRUE) /\ (~full => v.pendingWrap = FALSE)
    <2>1. v.pendingWrap = (full /\ s.autoWrap)
      BY DEF PrintOne, Shape, Screens, ScreensAt
    <2> HIDE DEF full, v
    <2> QED
      BY <1>1, <2>1
  <1>4. /\ n >= y + 1 /\ k = Least(n - (y + 1), ScrollbackMax)
        /\ \A r \in 0..y : s.cells[r] = lines[n - y + r]
        /\ \A i \in 1..k : s.scrollback[i] = lines[n - y - 1 - k + i]
        /\ \A r \in y + 1..rows - 1 : s.cells[r] = BlankRow(cols)
    BY <1>1 DEF Rolled, RolledAs
  <1>5. s.cells \in [0..rows - 1 -> Lines(cols)] /\ lines[n] \in Lines(cols) /\ s.cells[y] = lines[n]
    <2>1. n - y + y = n /\ y \in 0..y /\ n \in 1..n
      <3>1. n >= y + 1
        BY <1>4
      <3> HIDE DEF n, y, k
      <3> QED
        BY <1>1, <3>1
    <2>2. s.cells \in [0..rows - 1 -> Lines(cols)]
      BY CellFacts DEF Grids
    <2> QED
      BY <1>4, <2>1, <2>2
  <1>6. row \in Lines(cols) /\ row = Written(lines[n], cols, s.cx, ch, width)
    <2>1. row \in Lines(cols)
      BY CursorFacts, CellFacts DEF Lines, Written
    <2> QED
      BY <1>1, <1>5, <2>1
  <1>7. next \in Seq(Lines(cols)) /\ Len(next) = n /\ next[n] = row /\ \A i \in 1..n - 1 : next[i] = lines[i]
    <2>1. next = [lines EXCEPT ![n] = row] /\ n \in 1..n
      BY <1>1, <1>4, <1>6 DEF Wrote
    <2> HIDE DEF row, next
    <2> QED
      BY <1>1, <1>6, <2>1
  <1>8. \A r \in 0..rows - 1 : g[r] = IF r = y THEN row ELSE s.cells[r]
    <2> HIDE DEF row
    <2> QED
      BY <1>1, <1>5
  <1> HIDE DEF v, g, row, n, y, k, next
  <1>9. Unset(v)
    BY <1>2 DEF Unset
  <1>10. Rolled(v, next)
    <2>1. \A r \in 0..y : v.cells[r] = next[n - y + r]
      <3> SUFFICES ASSUME NEW r \in 0..y
                   PROVE  g[r] = next[n - y + r]
        BY <1>2
      <3>1. CASE r = y
        <4>1. n - y + r = n /\ r \in 0..rows - 1
          BY <1>1, <3>1
        <4> QED
          BY <1>7, <1>8, <3>1, <4>1
      <3>2. CASE r # y
        <4>1. n - y + r \in 1..n - 1 /\ r \in 0..rows - 1
          <5>1. n >= y + 1
            BY <1>4
          <5> QED
            BY <1>1, <3>2, <5>1
        <4> QED
          BY <1>4, <1>7, <1>8, <3>2, <4>1
      <3> QED
        BY <3>1, <3>2
    <2>2. \A i \in 1..k : v.scrollback[i] = next[n - y - 1 - k + i]
      <3> SUFFICES ASSUME NEW i \in 1..k
                   PROVE  s.scrollback[i] = next[n - y - 1 - k + i]
        BY <1>2
      <3>1. n - y - 1 - k + i \in 1..n - 1
        BY <1>1, <1>4 DEF Least
      <3> QED
        BY <1>4, <1>7, <3>1
    <2>3. \A r \in y + 1..rows - 1 : v.cells[r] = BlankRow(cols)
      <3> SUFFICES ASSUME NEW r \in y + 1..rows - 1
                   PROVE  g[r] = BlankRow(cols)
        BY <1>2
      <3>1. r \in 0..rows - 1 /\ r # y
        BY <1>1
      <3> QED
        BY <1>4, <1>8, <3>1
    <2>4. RolledAs(v, next, n, k, y)
      BY <1>1, <1>2, <1>4, <2>1, <2>2, <2>3 DEF RolledAs
    <2>5. n = Len(next) /\ k = Len(v.scrollback) /\ y = v.cy
      BY <1>2, <1>7 DEF k, y
    <2> QED
      BY <2>4, <2>5 DEF Rolled
  <1>11. s.cx + width = IF v.pendingWrap THEN cols ELSE v.cx
    BY <1>1, <1>2, <1>3
  <1>12. v.pendingWrap => v.cx = cols - 1
    BY <1>1, <1>2, <1>3
  <1> QED
    BY <1>1, <1>2, <1>7, <1>9, <1>10, <1>11, <1>12 DEF v, next, Printed

(* A screen without anything on it is a fresh sheet.                           *)
LEMMA PaperStarts ==
    ASSUME NEW cols \in Nat, NEW rows \in Nat, cols > 1, rows > 1, NEW z, z.cols = cols, z.rows = rows,
           z.cx = 0, z.cy = 0, z.pendingWrap = FALSE, Unset(z), z.scrollback = <<>>, z.cells = BlankGrid(cols, rows)
    PROVE  Paper(cols) \in Rolls(cols) /\ AsOnPaper(z, Paper(cols))
  <1> DEFINE lines == <<BlankRow(cols)>>
  <1>1. Blank \in Chars /\ ScrollbackMax \in Nat
    <2>1. ScrollbackMax \in Nat \ {0} /\ Blank \in Chars
      BY ScreenAssumption DEF Blank, Chars
    <2> QED
      BY <2>1
  <1>2. BlankRow(cols) \in Lines(cols)
    BY <1>1 DEF BlankRow, Lines
  <1>3. \A r \in 0..rows - 1 : z.cells[r] = BlankRow(cols)
    BY DEF BlankGrid
  <1>4. lines \in Seq(Lines(cols)) /\ Len(lines) = 1 /\ lines[1] = BlankRow(cols)
    BY <1>2
  <1>5. Paper(cols).plain = TRUE /\ Paper(cols).lines = lines /\ Paper(cols).x = 0
        /\ Paper(cols) = [plain |-> TRUE, lines |-> lines, x |-> 0]
    BY DEF Paper
  <1> HIDE DEF lines
  <1>6. Paper(cols) \in Rolls(cols)
    BY <1>4, <1>5 DEF Rolls
  <1>7. Rolled(z, lines)
    <2>1. Len(z.scrollback) = 0
      OBVIOUS
    <2>2. 0 = Least(1 - (0 + 1), ScrollbackMax)
      BY <1>1 DEF Least
    <2>3. \A r \in 0..0 : z.cells[r] = lines[1 - 0 + r]
      <3>1. \A r \in 0..0 : r = 0
        OBVIOUS
      <3>2. 1 - 0 + 0 = 1 /\ 0 \in 0..rows - 1
        OBVIOUS
      <3>3. z.cells[0] = lines[1]
        BY <1>3, <1>4, <3>2
      <3> QED
        BY <3>1, <3>2, <3>3
    <2>4. \A r \in 0 + 1..z.rows - 1 : z.cells[r] = BlankRow(z.cols)
      BY <1>3
    <2>5. RolledAs(z, lines, 1, 0, 0)
      BY <2>2, <2>3, <2>4 DEF RolledAs
    <2> QED
      BY <1>4, <2>1, <2>5 DEF Rolled
  <1>8. AsOnPaper(z, Paper(cols))
    BY <1>5, <1>7 DEF AsOnPaper
  <1> QED
    BY <1>6, <1>8

LEMMA ClearRolls ==
    ASSUME NEW cols, NEW rows, Size(cols, rows, 0..rows - 1, 0..rows - 1),
           NEW s, Shape(s, cols, rows, 0..rows - 1, 0..rows - 1)
    PROVE  Paper(cols) \in Rolls(cols) /\ AsOnPaper(clearTerminal(s), Paper(cols))
  <1> DEFINE v == [s EXCEPT !.cx = 0, !.cy = 0, !.pendingWrap = FALSE, !.origin = FALSE,
                            !.autoWrap = TRUE, !.alt = FALSE, !.lastChar = Blank,
                            !.top = 0, !.bottom = s.rows - 1, !.sel = NoSelection]
             n == IF v.scrollback = <<>> THEN v.wiped ELSE v.wiped + 1
             w == [v EXCEPT !.scrollback = <<>>, !.viewOffset = 0, !.wiped = n]
             g == BlankGrid(w.cols, w.rows)
             z == [w EXCEPT !.cells = g]
  <1>1. clearTerminal(s) = z
    BY DEF clearTerminal, Wiped, clearScrollback
  <1>2. /\ v.cols = cols /\ v.rows = rows /\ v.cx = 0 /\ v.cy = 0 /\ v.pendingWrap = FALSE /\ v.origin = FALSE
        /\ v.autoWrap = TRUE /\ v.alt = FALSE /\ v.top = 0 /\ v.bottom = rows - 1
    BY DEF Shape, Screens, ScreensAt
  <1>3. DOMAIN v = DOMAIN s
    OBVIOUS
  <1>4. /\ z.cols = v.cols /\ z.rows = v.rows /\ z.cx = v.cx /\ z.cy = v.cy /\ z.pendingWrap = v.pendingWrap
        /\ z.origin = v.origin /\ z.autoWrap = v.autoWrap /\ z.alt = v.alt /\ z.top = v.top /\ z.bottom = v.bottom
        /\ z.scrollback = <<>> /\ z.cells = g /\ w.cols = v.cols /\ w.rows = v.rows
    <2>1. "scrollback" \in DOMAIN s /\ "cells" \in DOMAIN s
      BY DEF Shape, Screens, ScreensAt
    <2> HIDE DEF v, n, g
    <2> QED
      BY <1>3, <2>1
  <1> HIDE DEF v, w, z
  <1>5. rows \in Nat /\ rows > 1 /\ cols \in Nat /\ cols > 1
    BY CursorFacts
  <1>6. z.cells = BlankGrid(cols, rows)
    BY <1>2, <1>4
  <1>7. Unset(z)
    BY <1>2, <1>4 DEF Unset
  <1> QED
    BY <1>1, <1>2, <1>4, <1>5, <1>6, <1>7, PaperStarts

LEMMA CarriageRolls ==
    ASSUME NEW cols, NEW rows, Size(cols, rows, 0..rows - 1, 0..rows - 1),
           NEW s, Shape(s, cols, rows, 0..rows - 1, 0..rows - 1),
           NEW p \in Rolls(cols), p.plain, AsOnPaper(s, p)
    PROVE  [p EXCEPT !.x = 0] \in Rolls(cols) /\ AsOnPaper(carriageReturn(s), [p EXCEPT !.x = 0])
  <1> DEFINE t == carriageReturn(s)
             q == [p EXCEPT !.x = 0]
  <1>1. /\ t.cols = s.cols /\ t.rows = s.rows /\ t.cells = s.cells /\ t.cx = 0 /\ t.cy = s.cy
        /\ t.autoWrap = s.autoWrap /\ t.origin = s.origin /\ t.pendingWrap = FALSE
        /\ t.top = s.top /\ t.bottom = s.bottom /\ t.alt = s.alt /\ t.scrollback = s.scrollback
    BY DEF carriageReturn, Shape, Screens, ScreensAt
  <1>2. q \in Rolls(cols) /\ q.lines = p.lines /\ q.x = 0
    BY DEF Rolls
  <1>3. Unset(s) /\ Rolled(s, p.lines)
    BY DEF AsOnPaper
  <1> HIDE DEF t, q
  <1>4. Unset(t)
    BY <1>1, <1>3 DEF Unset
  <1>5. Rolled(t, q.lines)
    BY <1>1, <1>2, <1>3, RolledSame
  <1>6. AsOnPaper(t, q)
    BY <1>1, <1>2, <1>4, <1>5 DEF AsOnPaper
  <1> QED
    BY <1>2, <1>6 DEF t, q

PaperFeed(p, cols) == [p EXCEPT !.lines = Append(p.lines, BlankRow(cols)), !.x = Least(p.x, cols - 1)]

LEMMA LineFeedRolls ==
    ASSUME NEW cols, NEW rows, Size(cols, rows, 0..rows - 1, 0..rows - 1),
           NEW s, Shape(s, cols, rows, 0..rows - 1, 0..rows - 1),
           NEW p \in Rolls(cols), p.plain, AsOnPaper(s, p)
    PROVE  PaperFeed(p, cols) \in Rolls(cols) /\ AsOnPaper(newLine(s), PaperFeed(p, cols))
  <1> DEFINE t == newLine(s)
             q == PaperFeed(p, cols)
  <1>1. s.cols = cols /\ cols \in Nat /\ cols > 1 /\ s.cx \in 0..cols - 1 /\ BlankRow(cols) \in Lines(cols)
    BY CursorFacts, CellFacts
  <1>2. Unset(s) /\ Rolled(s, p.lines) /\ p.lines \in Seq(Lines(cols)) /\ p.x \in Nat
        /\ p.x = (IF s.pendingWrap THEN s.cols ELSE s.cx) /\ (s.pendingWrap => s.cx = s.cols - 1)
    BY DEF AsOnPaper, Rolls
  <1>3. Rolled(t, Append(p.lines, BlankRow(cols)))
    BY <1>2, NewLineRolls
  <1>4. Moved(s, t, cols, rows)
    BY <1>2, NewLineMoves
  <1> HIDE DEF t
  <1>5. Least(p.x, cols - 1) = s.cx
    BY <1>1, <1>2 DEF Least
  <1> DEFINE l == Append(p.lines, BlankRow(cols))
  <1>6. l \in Seq(Lines(cols))
    BY <1>1, <1>2
  <1>7. q = [p EXCEPT !.lines = l, !.x = s.cx]
    BY <1>5 DEF PaperFeed
  <1> HIDE DEF l, q
  <1>8. q.plain = p.plain /\ q.x = s.cx /\ q.lines = l
    BY <1>7 DEF Rolls
  <1>9. q \in Rolls(cols)
    <2>1. s.cx \in Nat
      BY <1>1
    <2> QED
      BY <1>6, <1>7, <2>1 DEF Rolls
  <1>10. Unset(t) /\ t.cx = s.cx /\ t.pendingWrap = FALSE /\ t.cols = s.cols
    BY <1>1, <1>4 DEF Moved
  <1>11. AsOnPaper(t, q)
    BY <1>3, <1>8, <1>10 DEF AsOnPaper, l
  <1> QED
    BY <1>9, <1>11 DEF t, q

(* A character goes where it fits, on the screen and on paper.                 *)
PaperLines(p, cols, width) == IF p.x + width > cols THEN Append(p.lines, BlankRow(cols)) ELSE p.lines
PaperColumn(p, cols, width) == IF p.x + width > cols THEN 0 ELSE p.x
PaperPrint(p, cols, ch, width) ==
    [p EXCEPT !.lines = Wrote(PaperLines(p, cols, width), cols, PaperColumn(p, cols, width), ch, width),
              !.x = PaperColumn(p, cols, width) + width]

LEMMA PutCharRolls ==
    ASSUME NEW cols, NEW rows, Size(cols, rows, 0..rows - 1, 0..rows - 1),
           NEW s, Shape(s, cols, rows, 0..rows - 1, 0..rows - 1),
           NEW p \in Rolls(cols), p.plain, AsOnPaper(s, p), NEW ch \in Chars
    PROVE  /\ PaperPrint(p, cols, ch, charDisplayWidth(ch)) \in Rolls(cols)
           /\ AsOnPaper(putChar(s, ch), PaperPrint(p, cols, ch, charDisplayWidth(ch)))
  <1> DEFINE width == charDisplayWidth(ch)
             l == PaperLines(p, cols, width)
             x == PaperColumn(p, cols, width)
             m == Wrote(l, cols, x, ch, width)
             q == PaperPrint(p, cols, ch, width)
  <1> DEFINE t == IF s.pendingWrap /\ s.autoWrap THEN NextLine(s) ELSE s
             u == IF width > 1 /\ t.cx + width > t.cols /\ t.autoWrap THEN NextLine(t) ELSE t
             z == IF p.x + width > cols THEN NextLine(s) ELSE s
  <1>20. l = (IF p.x + width > cols THEN Append(p.lines, BlankRow(cols)) ELSE p.lines)
         /\ x = (IF p.x + width > cols THEN 0 ELSE p.x)
    BY DEF PaperLines, PaperColumn
  <1>21. q = [p EXCEPT !.lines = m, !.x = x + width]
    BY DEF PaperPrint
  <1>1. /\ s.cols = cols /\ cols \in Nat /\ cols > 1 /\ s.cx \in 0..cols - 1 /\ BlankRow(cols) \in Lines(cols)
        /\ width \in 1..2
    BY CursorFacts, CellFacts DEF charDisplayWidth
  <1>2. Unset(s) /\ Rolled(s, p.lines) /\ p.lines \in Seq(Lines(cols)) /\ p.x \in Nat /\ s.autoWrap
        /\ p.x = (IF s.pendingWrap THEN s.cols ELSE s.cx) /\ (s.pendingWrap => s.cx = s.cols - 1)
    BY DEF AsOnPaper, Rolls, Unset
  <1>3. putChar(s, ch) = PrintOne(u, ch, width)
    BY DEF putChar, PrintOne, Written
  <1> HIDE DEF width, l, x, m, q
  <1>4. /\ Shape(NextLine(s), cols, rows, 0..rows - 1, 0..rows - 1) /\ Unset(NextLine(s))
        /\ NextLine(s).cx = 0 /\ NextLine(s).pendingWrap = FALSE
        /\ Rolled(NextLine(s), Append(p.lines, BlankRow(cols)))
    BY <1>2, NextLineRolls
  <1>5. NextLine(s).cols = cols
    BY <1>4, CursorFacts
  <1>6. u = z
    <2>1. CASE s.pendingWrap
      <3>1. t = NextLine(s) /\ p.x + width > cols
        BY <1>1, <1>2, <2>1
      <3>2. ~(t.cx + width > t.cols)
        BY <1>1, <1>4, <1>5, <3>1
      <3> QED
        BY <3>1, <3>2
    <2>2. CASE ~s.pendingWrap
      <3>1. t = s /\ p.x = s.cx
        BY <1>2, <2>2
      <3>2. CASE p.x + width > cols
        <4>1. width > 1 /\ s.cx + width > s.cols
          BY <1>1, <3>1, <3>2
        <4> QED
          BY <1>2, <3>1, <3>2, <4>1
      <3>3. CASE ~(p.x + width > cols)
        <4>1. ~(s.cx + width > s.cols)
          BY <1>1, <3>1, <3>3
        <4> QED
          BY <3>1, <3>3, <4>1
      <3> QED
        BY <3>2, <3>3
    <2> QED
      BY <2>1, <2>2
  <1> HIDE DEF t, u
  <1>7. /\ Shape(z, cols, rows, 0..rows - 1, 0..rows - 1) /\ Unset(z) /\ z.cx = x /\ x + width <= cols
        /\ l \in Seq(Lines(cols)) /\ Rolled(z, l) /\ x \in Nat
    <2>1. CASE p.x + width > cols
      BY <1>1, <1>2, <1>4, <1>20, <2>1
    <2>2. CASE ~(p.x + width > cols)
      <3>1. z = s /\ l = p.lines /\ x = p.x
        BY <1>20, <2>2
      <3>2. ~s.pendingWrap
        BY <1>1, <1>2, <2>2
      <3> QED
        BY <1>1, <1>2, <2>2, <3>1, <3>2
    <2> QED
      BY <2>1, <2>2
  <1> HIDE DEF z
  <1> DEFINE v == PrintOne(z, ch, width)
  <1>8. /\ Unset(v) /\ Rolled(v, m) /\ m \in Seq(Lines(cols))
        /\ z.cx + width = (IF v.pendingWrap THEN cols ELSE v.cx)
        /\ v.pendingWrap => v.cx = cols - 1
        /\ v.cols = cols
    <2>1. m = Wrote(l, cols, z.cx, ch, width) /\ z.cx + width <= cols
      BY <1>7 DEF m
    <2>2. Printed(v, m, z.cx + width, cols)
      BY <1>1, <1>7, <2>1, PrintRolls
    <2> QED
      BY <2>2 DEF Printed
  <1> HIDE DEF v
  <1> DEFINE y == x + width
  <1>9. y \in Nat /\ q = [p EXCEPT !.lines = m, !.x = y] /\ y = z.cx + width
    BY <1>1, <1>7, <1>21
  <1> HIDE DEF y
  <1>10. q \in Rolls(cols) /\ q.plain = p.plain /\ q.lines = m /\ q.x = y
    BY <1>8, <1>9 DEF Rolls
  <1>11. AsOnPaper(v, q)
    BY <1>8, <1>9, <1>10 DEF AsOnPaper
  <1> QED
    BY <1>3, <1>6, <1>10, <1>11 DEF v, q, width

(* One control function keeps the screen and the paper alike.                  *)
LEMMA FedRoll ==
    ASSUME NEW cols, NEW rows, Size(cols, rows, 0..rows - 1, 0..rows - 1),
           NEW s, Shape(s, cols, rows, 0..rows - 1, 0..rows - 1),
           NEW p \in Rolls(cols), AsOnPaper(s, p), NEW f \in ControlFunctions,
           NEW q, q = IF p.plain \/ f[1] = "RIS" THEN WritePaper(p, s.cols, f) ELSE p
    PROVE  q \in Rolls(cols) /\ AsOnPaper(Feed(s, f), q)
  <1>1. s.cols = cols /\ cols \in Nat /\ cols > 1
    BY CursorFacts
  <1>2. p.plain \in BOOLEAN /\ p.lines \in Seq(Lines(cols)) /\ p.x \in Nat
    BY DEF Rolls
  <1>3. CASE f[1] = "RIS"
    <2>1. Feed(s, f) = clearTerminal(s)
      BY <1>3 DEF Feed
    <2>2. q = Paper(cols)
      BY <1>1, <1>3 DEF WritePaper
    <2> QED
      BY <2>1, <2>2, ClearRolls
  <1>4. CASE f[1] # "RIS" /\ ~p.plain
    <2>1. q = p
      BY <1>4
    <2> QED
      BY <1>4, <2>1 DEF AsOnPaper
  <1>5. CASE f[1] = "CR" /\ p.plain
    <2>1. Feed(s, f) = carriageReturn(s)
      BY <1>5 DEF Feed
    <2>2. q = [p EXCEPT !.x = 0]
      BY <1>1, <1>5 DEF WritePaper
    <2> QED
      BY <1>5, <2>1, <2>2, CarriageRolls
  <1>6. CASE f[1] = "LF" /\ p.plain
    <2>1. Feed(s, f) = newLine(s)
      BY <1>6 DEF Feed
    <2>2. q = [[p EXCEPT !.lines = Append(@, BlankRow(cols))] EXCEPT !.x = Least(@, cols - 1)]
      BY <1>1, <1>6 DEF WritePaper
    <2>3. q = PaperFeed(p, cols)
      BY <2>2 DEF Rolls, PaperFeed
    <2> QED
      BY <1>6, <2>1, <2>3, LineFeedRolls
  <1>7. CASE f[1] = "print" /\ p.plain
    <2> DEFINE ch == f[2]
               width == charDisplayWidth(ch)
               l == PaperLines(p, cols, width)
               x == PaperColumn(p, cols, width)
               m == Wrote(l, cols, x, ch, width)
               w == IF p.x + width > cols THEN [[p EXCEPT !.lines = Append(@, BlankRow(cols))] EXCEPT !.x = 0] ELSE p
               Row(line) == [c \in 0..cols - 1 |-> IF c = w.x THEN ch
                                          ELSE IF c = w.x + 1 /\ width = 2 THEN Blank ELSE line[c]]
    <2>1. Feed(s, f) = putChar(s, ch) /\ ch \in Chars
      BY <1>7, FunctionKinds DEF Feed, Plain, Counts
    <2>2. q = [w EXCEPT !.lines[Len(w.lines)] = Row(@), !.x = @ + width]
      BY <1>1, <1>7 DEF WritePaper
    <2>3. w.lines = l /\ w.x = x /\ w = [p EXCEPT !.lines = l, !.x = x]
      BY DEF Rolls, PaperLines, PaperColumn
    <2>4. q = PaperPrint(p, cols, ch, width)
      <3>1. m = [l EXCEPT ![Len(l)] = Row(l[Len(l)])]
        BY <2>3 DEF Written, Wrote
      <3> DEFINE e == Row(w.lines[Len(w.lines)])
                 i == Len(w.lines)
      <3>2. q = [w EXCEPT !.lines = [w.lines EXCEPT ![i] = e], !.x = w.x + width]
        <4> HIDE DEF w, width
        <4> QED
          BY <2>2
      <3> HIDE DEF w, l, x, width, Row
      <3>3. q = [w EXCEPT !.lines = m, !.x = x + width]
        BY <2>3, <3>1, <3>2
      <3> HIDE DEF m
      <3>4. q = [p EXCEPT !.lines = m, !.x = x + width]
        BY <2>3, <3>3 DEF Rolls
      <3> QED
        BY <3>4 DEF m, l, x, PaperPrint
    <2> HIDE DEF ch
    <2> QED
      BY <1>7, <2>1, <2>4, PutCharRolls
  <1>8. CASE f[1] \notin {"RIS", "CR", "LF", "print"} /\ p.plain
    <2>1. q = [p EXCEPT !.plain = FALSE, !.lines = <<>>]
      BY <1>8 DEF WritePaper
    <2>3. <<>> \in Seq(Lines(cols))
      OBVIOUS
    <2>2. q \in Rolls(cols) /\ q.plain = FALSE
      BY <2>1, <2>3 DEF Rolls
    <2> QED
      BY <2>2 DEF AsOnPaper
  <1> QED
    BY <1>2, <1>3, <1>4, <1>5, <1>6, <1>7, <1>8

(* What a chunk leads to, from one control function to the next.               *)
Fed(t, cols, rows) ==
    /\ Shape(t.screen, cols, rows, 0..rows - 1, 0..rows - 1)
    /\ ~t.margins => Shape(t.screen, cols, rows, {0}, {rows - 1})
    /\ gesture.excused \/ Holding(t.mouse, t.seen)
    /\ AsOnPaper(t.screen, t.roll)

FedStates(cols, rows) ==
    {t \in [screen : Screens(cols, rows), mouse : Mice, seen : SUBSET Buttons, roll : Rolls(cols), margins : BOOLEAN] :
        Fed(t, cols, rows)}

LEMMA FeedOneStays ==
    ASSUME NEW cols, NEW rows, Size(cols, rows, 0..rows - 1, 0..rows - 1),
           NEW t \in FedStates(cols, rows), NEW f \in ControlFunctions
    PROVE  FeedOne(t, f) \in FedStates(cols, rows)
  <1> DEFINE s == t.screen
             m == FeedMouse(t.mouse, f)
             seen == IF m.mode = 0 THEN {} ELSE t.seen
             p == t.roll
             q == IF p.plain \/ f[1] = "RIS" THEN WritePaper(p, s.cols, f) ELSE p
             n == SetsMargins(t.margins, s, f)
             u == Feed(s, f)
             next == [screen |-> u, mouse |-> m, seen |-> seen, roll |-> q, margins |-> n]
  <1>1. FeedOne(t, f) = next
    BY DEF FeedOne
  <1>2. /\ Shape(s, cols, rows, 0..rows - 1, 0..rows - 1) /\ (~t.margins => Shape(s, cols, rows, {0}, {rows - 1}))
        /\ (gesture.excused \/ Holding(t.mouse, t.seen)) /\ AsOnPaper(s, p)
        /\ t.mouse \in Mice /\ t.seen \in SUBSET Buttons /\ p \in Rolls(cols) /\ t.margins \in BOOLEAN
    BY DEF FedStates, Fed
  <1>3. q \in Rolls(cols) /\ AsOnPaper(u, q)
    <2> HIDE DEF s, p
    <2> QED
      BY <1>2, FedRoll
  <1>4. /\ n \in BOOLEAN /\ Shape(u, cols, rows, 0..rows - 1, 0..rows - 1)
        /\ ~n => Shape(u, cols, rows, {0}, {rows - 1})
    <2> HIDE DEF s
    <2> QED
      BY <1>2, FedRegions
  <1>5. m \in Mice /\ (Holding(t.mouse, t.seen) => Holding(m, seen))
    BY <1>2, FedMouse
  <1>6. seen \in SUBSET Buttons
    BY <1>2
  <1>7. u \in Screens(cols, rows)
    BY <1>4 DEF Shape
  <1> HIDE DEF s, m, seen, p, q, n, u
  <1>8. Fed(next, cols, rows)
    BY <1>2, <1>3, <1>4, <1>5 DEF Fed
  <1> QED
    BY <1>1, <1>3, <1>4, <1>5, <1>6, <1>7, <1>8 DEF FedStates

(* The same for a chunk: FedStates is what the next item does not lead out of. *)
LEMMA ChunkStays ==
    ASSUME NEW cols, NEW rows, Size(cols, rows, 0..rows - 1, 0..rows - 1),
           NEW t \in FedStates(cols, rows), NEW chunk \in Seq(ControlFunctions)
    PROVE  FoldLeft(FeedOne, t, chunk) \in FedStates(cols, rows)
  <1> DEFINE S == FedStates(cols, rows)
  <1>1. \A u \in S, k \in ControlFunctions : FeedOne(u, k) \in S
    BY FeedOneStays
  <1> HIDE DEF S
  <1>2. t \in S
    BY DEF S
  <1>3. FoldLeft(FeedOne, t, chunk) \in S
    BY <1>1, <1>2, FedStaysIn
  <1> QED
    BY <1>3 DEF S

-----------------------------------------------------------------------------
(* The invariant.                                                              *)

(* What a history is compared with, the view and the selection apart.          *)
LEMMA KeptSame ==
    ASSUME NEW s, NEW t, NEW p, AsOnPaper(s, p), Frame(s, t), t.scrollback = s.scrollback
    PROVE  AsOnPaper(t, p)
  <1>1. CASE ~p.plain
    BY <1>1 DEF AsOnPaper
  <1>2. CASE p.plain
    <2>1. Unset(s) /\ Rolled(s, p.lines)
      BY <1>2 DEF AsOnPaper
    <2>2. Unset(t)
      BY <2>1 DEF Unset, Frame
    <2>3. Rolled(t, p.lines)
      BY <2>1, RolledSame DEF Frame
    <2> QED
      BY <2>2, <2>3 DEF AsOnPaper, Frame
  <1> QED
    BY <1>1, <1>2

(* The user's view and selection: anything else of the screen stays.           *)
Shown(s, t) == Frame(s, t) /\ t.scrollback = s.scrollback

Fields == {"cols", "rows", "cells", "cx", "cy", "pendingWrap", "autoWrap", "origin", "top", "bottom", "alt",
           "scrollback", "viewOffset"}

LEMMA HasFields ==
    ASSUME NEW cols, NEW rows, NEW s \in Screens(cols, rows)
    PROVE  Fields \subseteq DOMAIN s
  BY DEF Screens, ScreensAt, Fields

LEMMA ViewFrame ==
    ASSUME NEW s, Fields \subseteq DOMAIN s, NEW n
    PROVE  Shown(s, setViewOffset(s, n))
  <1> DEFINE k == Bound(0, n, MaxViewOffset(s))
  <1>1. setViewOffset(s, n) = [s EXCEPT !.viewOffset = k]
    BY DEF setViewOffset
  <1> HIDE DEF k
  <1> QED
    BY <1>1 DEF Frame, Shown, Fields

LEMMA SelFrame ==
    ASSUME NEW s, Fields \subseteq DOMAIN s, NEW q
    PROVE  Shown(s, [s EXCEPT !.sel = q]) /\ Fields \subseteq DOMAIN [s EXCEPT !.sel = q]
  BY DEF Shown, Frame, Fields

LEMMA ClearSelectionFrame ==
    ASSUME NEW s, Fields \subseteq DOMAIN s
    PROVE  Shown(s, clearSelection(s))
  <1>1. Shown(s, s)
    BY DEF Shown, Frame
  <1> QED
    BY <1>1, SelFrame DEF clearSelection

LEMMA SelectionRangeFrame ==
    ASSUME NEW s, Fields \subseteq DOMAIN s, NEW n, NEW i, NEW j
    PROVE  Shown(s, setSelectionRange(s, n, i, j))
  <1> DEFINE p == Bound(0, i, MaxAbsIndex(s))
             q == Bound(0, j, MaxAbsIndex(s))
             r == [anchor |-> n, from |-> Least(p, q), to |-> Most(p, q)]
             o == [s.sel EXCEPT !.anchor = n]
             u == [s EXCEPT !.sel = o]
  <1>1. [s EXCEPT !.sel.anchor = n] = u
    OBVIOUS
  <1>2. setSelectionRange(s, n, i, j) = IF i < 0 \/ j < 0 THEN clearSelection(u) ELSE [s EXCEPT !.sel = r]
    BY <1>1 DEF setSelectionRange
  <1> HIDE DEF r, o
  <1>3. Shown(s, u) /\ Fields \subseteq DOMAIN u /\ Shown(s, [s EXCEPT !.sel = r])
    BY SelFrame
  <1> HIDE DEF u
  <1>4. Shown(u, clearSelection(u))
    BY <1>3, ClearSelectionFrame
  <1>5. Shown(s, clearSelection(u))
    BY <1>3, <1>4 DEF Shown, Frame
  <1> QED
    BY <1>2, <1>3, <1>5

(* What the user does to a screen keeps it a screen.                           *)
OnlyShown(s, t, m) == Sound(t, m) /\ Shown(s, t)

LEMMA DoneIs ==
    ASSUME NEW s, NEW m, Sound(s, m), NEW t, Shown(s, t),
           Shape(t, s.cols, s.rows, 0..s.rows - 1, 0..s.rows - 1),
           m = FALSE => Shape(t, s.cols, s.rows, {0}, {s.rows - 1})
    PROVE  OnlyShown(s, t, m)
  <1>1. t.cols = s.cols /\ t.rows = s.rows
    BY DEF Shown, Frame
  <1> QED
    BY <1>1 DEF OnlyShown, Sound

LEMMA SoundFacts ==
    ASSUME NEW s, NEW m, Sound(s, m)
    PROVE  /\ Size(s.cols, s.rows, 0..s.rows - 1, 0..s.rows - 1) /\ Size(s.cols, s.rows, {0}, {s.rows - 1})
           /\ Shape(s, s.cols, s.rows, 0..s.rows - 1, 0..s.rows - 1)
           /\ m = FALSE => Shape(s, s.cols, s.rows, {0}, {s.rows - 1})
           /\ m \in BOOLEAN /\ Fields \subseteq DOMAIN s /\ s \in Screens(s.cols, s.rows)
           /\ s.cols \in Nat /\ s.rows \in Nat /\ s.cols > 1 /\ s.rows > 1
           /\ s.sel.anchor \in Int /\ s.viewOffset \in Nat /\ s.alt \in BOOLEAN /\ s.pendingWrap \in BOOLEAN
  <1>1. /\ Size(s.cols, s.rows, 0..s.rows - 1, 0..s.rows - 1) /\ m \in BOOLEAN
        /\ Shape(s, s.cols, s.rows, 0..s.rows - 1, 0..s.rows - 1)
        /\ m = FALSE => Shape(s, s.cols, s.rows, {0}, {s.rows - 1})
    BY DEF Sound
  <1>2. s \in Screens(s.cols, s.rows)
    BY <1>1 DEF Shape
  <1>3. Size(s.cols, s.rows, {0}, {s.rows - 1})
    BY <1>1 DEF Size
  <1>4. s.sel.anchor \in Int /\ s.viewOffset \in Nat /\ s.alt \in BOOLEAN /\ s.pendingWrap \in BOOLEAN
    <2>1. s \in ScreensAt(s.cols, s.rows, 0..s.cols - 1, 0..s.rows - 1)
      BY <1>2 DEF Screens
    <2> QED
      BY <2>1 DEF ScreensAt
  <1>5. Fields \subseteq DOMAIN s
    BY <1>2, HasFields
  <1>6. s.cols \in Nat /\ s.rows \in Nat /\ s.cols > 1 /\ s.rows > 1
    BY <1>1 DEF Size
  <1> QED
    BY <1>1, <1>2, <1>3, <1>4, <1>5, <1>6

LEMMA ViewDone ==
    ASSUME NEW s, NEW m, Sound(s, m), NEW n \in Int, s.alt => n = 0
    PROVE  OnlyShown(s, setViewOffset(s, n), m)
  <1>1. Shape(setViewOffset(s, n), s.cols, s.rows, 0..s.rows - 1, 0..s.rows - 1)
    BY SoundFacts, ViewOffsetKeeps
  <1>2. m = FALSE => Shape(setViewOffset(s, n), s.cols, s.rows, {0}, {s.rows - 1})
    <2> SUFFICES ASSUME m = FALSE
                 PROVE  Shape(setViewOffset(s, n), s.cols, s.rows, {0}, {s.rows - 1})
      OBVIOUS
    <2>1. Size(s.cols, s.rows, {0}, {s.rows - 1}) /\ Shape(s, s.cols, s.rows, {0}, {s.rows - 1})
      BY SoundFacts
    <2> QED
      BY <2>1, ViewOffsetKeeps
  <1>3. Shown(s, setViewOffset(s, n))
    BY SoundFacts, ViewFrame
  <1> QED
    BY <1>1, <1>2, <1>3, DoneIs

LEMMA ClearSelectionDone ==
    ASSUME NEW s, NEW m, Sound(s, m)
    PROVE  OnlyShown(s, clearSelection(s), m)
  <1>1. Shape(clearSelection(s), s.cols, s.rows, 0..s.rows - 1, 0..s.rows - 1)
    BY SoundFacts, ClearSelectionKeeps
  <1>2. m = FALSE => Shape(clearSelection(s), s.cols, s.rows, {0}, {s.rows - 1})
    <2> SUFFICES ASSUME m = FALSE
                 PROVE  Shape(clearSelection(s), s.cols, s.rows, {0}, {s.rows - 1})
      OBVIOUS
    <2>1. Size(s.cols, s.rows, {0}, {s.rows - 1}) /\ Shape(s, s.cols, s.rows, {0}, {s.rows - 1})
      BY SoundFacts
    <2> QED
      BY <2>1, ClearSelectionKeeps
  <1>3. Shown(s, clearSelection(s))
    BY SoundFacts, ClearSelectionFrame
  <1> QED
    BY <1>1, <1>2, <1>3, DoneIs

LEMMA SelectionRangeDone ==
    ASSUME NEW s, NEW m, Sound(s, m), NEW n \in Int, NEW i \in Int, NEW j \in Int
    PROVE  OnlyShown(s, setSelectionRange(s, n, i, j), m)
  <1>1. Shape(setSelectionRange(s, n, i, j), s.cols, s.rows, 0..s.rows - 1, 0..s.rows - 1)
    BY SoundFacts, SelectionRangeKeeps
  <1>2. m = FALSE => Shape(setSelectionRange(s, n, i, j), s.cols, s.rows, {0}, {s.rows - 1})
    <2> SUFFICES ASSUME m = FALSE
                 PROVE  Shape(setSelectionRange(s, n, i, j), s.cols, s.rows, {0}, {s.rows - 1})
      OBVIOUS
    <2>1. Size(s.cols, s.rows, {0}, {s.rows - 1}) /\ Shape(s, s.cols, s.rows, {0}, {s.rows - 1})
      BY SoundFacts
    <2> QED
      BY <2>1, SelectionRangeKeeps
  <1>3. Shown(s, setSelectionRange(s, n, i, j))
    BY SoundFacts, SelectionRangeFrame
  <1> QED
    BY <1>1, <1>2, <1>3, DoneIs

LEMMA SelectLineDone ==
    ASSUME NEW s, NEW m, Sound(s, m), NEW row \in Int
    PROVE  OnlyShown(s, selectLineAt(s, row), m)
  <1>1. Shape(selectLineAt(s, row), s.cols, s.rows, 0..s.rows - 1, 0..s.rows - 1)
    BY SoundFacts, SelectLineKeeps
  <1>2. m = FALSE => Shape(selectLineAt(s, row), s.cols, s.rows, {0}, {s.rows - 1})
    <2> SUFFICES ASSUME m = FALSE
                 PROVE  Shape(selectLineAt(s, row), s.cols, s.rows, {0}, {s.rows - 1})
      OBVIOUS
    <2>1. Size(s.cols, s.rows, {0}, {s.rows - 1}) /\ Shape(s, s.cols, s.rows, {0}, {s.rows - 1})
      BY SoundFacts
    <2> QED
      BY <2>1, SelectLineKeeps
  <1>3. Shown(s, selectLineAt(s, row))
    BY SoundFacts, SelectionRangeFrame DEF selectLineAt
  <1> QED
    BY <1>1, <1>2, <1>3, DoneIs

LEMMA SelectWordDone ==
    ASSUME NEW s, NEW m, Sound(s, m), NEW row \in 0..s.rows - 1, NEW col \in 0..s.cols - 1
    PROVE  OnlyShown(s, selectWordAt(s, row, col), m)
  <1>1. Shape(selectWordAt(s, row, col), s.cols, s.rows, 0..s.rows - 1, 0..s.rows - 1)
    BY SoundFacts, SelectWordKeeps
  <1>2. m = FALSE => Shape(selectWordAt(s, row, col), s.cols, s.rows, {0}, {s.rows - 1})
    <2> SUFFICES ASSUME m = FALSE
                 PROVE  Shape(selectWordAt(s, row, col), s.cols, s.rows, {0}, {s.rows - 1})
      OBVIOUS
    <2>1. Size(s.cols, s.rows, {0}, {s.rows - 1}) /\ Shape(s, s.cols, s.rows, {0}, {s.rows - 1})
      BY SoundFacts
    <2> QED
      BY <2>1, SelectWordKeeps
  <1>3. \E n, i, j : selectWordAt(s, row, col) = setSelectionRange(s, n, i, j)
    BY DEF selectWordAt
  <1>4. Shown(s, selectWordAt(s, row, col))
    BY <1>3, SoundFacts, SelectionRangeFrame
  <1> QED
    BY <1>1, <1>2, <1>4, DoneIs

-----------------------------------------------------------------------------
(* The widget changes size.                                                    *)

LEMMA ResizeSound ==
    ASSUME NEW s, NEW m, Sound(s, m), NEW c \in Nat, NEW r \in Nat, c > 1, r > 1
    PROVE  /\ Sound(clampCursor(resizeGrid(s, c, r)), m)
           /\ clampCursor(resizeGrid(s, c, r)).cols = c /\ clampCursor(resizeGrid(s, c, r)).rows = r
  <1> DEFINE cols == s.cols
             rows == s.rows
             u == resizeGrid(s, c, r)
             t == clampCursor(u)
  <1>1. Size(cols, rows, 0..rows - 1, 0..rows - 1) /\ Shape(s, cols, rows, 0..rows - 1, 0..rows - 1) /\ m \in BOOLEAN
        /\ rows \in Nat /\ rows > 1
    BY SoundFacts
  <1>2. Size(c, r, 0..r - 1, 0..r - 1) /\ Size(c, r, {0}, {r - 1})
    BY DEF Size
  <1>3. \A i \in (0..rows - 1) \cap 0..rows - 1, j \in (0..rows - 1) \cap 0..rows - 1 :
            RegionAfter(i, j, rows, r)[1] \in 0..r - 1 /\ RegionAfter(i, j, rows, r)[2] \in 0..r - 1
    <2> HIDE DEF rows
    <2> QED
      BY <1>1 DEF RegionAfter, Least
  <1>4. Shape(u, c, r, 0..r - 1, 0..r - 1)
    <2> HIDE DEF rows, cols, u
    <2>1. Shape(resizeGrid(s, c, r), c, r, 0..r - 1, 0..r - 1)
      BY <1>1, <1>2, <1>3, ResizeKeeps
    <2> QED
      BY <2>1 DEF u
  <1>5. m = FALSE => Shape(u, c, r, {0}, {r - 1})
    <2> SUFFICES ASSUME m = FALSE
                 PROVE  Shape(u, c, r, {0}, {r - 1})
      OBVIOUS
    <2>1. Size(cols, rows, {0}, {rows - 1}) /\ Shape(s, cols, rows, {0}, {rows - 1})
      BY SoundFacts
    <2>2. \A i \in {0} \cap 0..rows - 1, j \in {rows - 1} \cap 0..rows - 1 :
              RegionAfter(i, j, rows, r)[1] \in {0} /\ RegionAfter(i, j, rows, r)[2] \in {r - 1}
      BY DEF RegionAfter
    <2> HIDE DEF rows, cols, u
    <2>3. Shape(resizeGrid(s, c, r), c, r, {0}, {r - 1})
      BY <1>2, <2>1, <2>2, ResizeKeeps
    <2> QED
      BY <2>3 DEF u
  <1> HIDE DEF u
  <1>6. ASSUME NEW T, NEW B, Size(c, r, T, B), Shape(u, c, r, T, B)
        PROVE  Shape(t, c, r, T, B)
    <2>1. 0..c - 1 \subseteq Nat /\ 0..r - 1 \subseteq Nat
      OBVIOUS
    <2>2. u \in ScreensAt(c, r, Nat, Nat)
      BY <1>6, <2>1 DEF Shape, Screens, ScreensAt
    <2>3. Loose(u, c, r, T, B)
      BY <1>6, <2>2 DEF Loose, Shape
    <2> QED
      BY <1>6, <2>3, ClampShapes
  <1>7. Shape(t, c, r, 0..r - 1, 0..r - 1) /\ (m = FALSE => Shape(t, c, r, {0}, {r - 1}))
    BY <1>2, <1>4, <1>5, <1>6
  <1> HIDE DEF t
  <1>8. t.cols = c /\ t.rows = r
    BY <1>2, <1>7, CursorFacts
  <1>9. Sound(t, m)
    BY <1>1, <1>2, <1>7, <1>8 DEF Sound
  <1> QED
    BY <1>8, <1>9 DEF t, u

(* A widget that grows shows what it has shown, and blanks.                    *)
LEMMA GrowthRolls ==
    ASSUME NEW s, NEW m, Sound(s, m), NEW c \in Nat, NEW r \in Nat, c >= s.cols, r >= s.rows,
           NEW p \in Rolls(s.cols), p.plain, AsOnPaper(s, p), ~s.pendingWrap,
           NEW q, q = [p EXCEPT !.lines = [i \in DOMAIN p.lines |-> CutLine(p.lines[i], c)]]
    PROVE  q \in Rolls(c) /\ AsOnPaper(clampCursor(resizeGrid(s, c, r)), q)
  <1> DEFINE cols == s.cols
             rows == s.rows
             u == resizeGrid(s, c, r)
             t == clampCursor(u)
             lines == p.lines
             l == [i \in DOMAIN lines |-> CutLine(lines[i], c)]
             n == Len(lines)
             k == Len(s.scrollback)
             y == s.cy
  <1>1. /\ cols \in Nat /\ rows \in Nat /\ cols > 1 /\ rows > 1 /\ s.cx \in 0..cols - 1 /\ y \in 0..rows - 1
        /\ s.cells \in [0..rows - 1 -> Lines(cols)] /\ s.scrollback \in Seq(Lines(cols)) /\ k \in Nat
        /\ ScrollbackMax \in Nat
    <2>1. /\ Size(cols, rows, 0..rows - 1, 0..rows - 1) /\ Shape(s, cols, rows, 0..rows - 1, 0..rows - 1)
          /\ cols \in Nat /\ rows \in Nat /\ cols > 1 /\ rows > 1
      BY SoundFacts
    <2> HIDE DEF cols, rows
    <2>2. s.cx \in 0..cols - 1 /\ y \in 0..rows - 1
      BY <2>1, CursorFacts
    <2>3. s.cells \in [0..rows - 1 -> Lines(cols)]
      BY <2>1, CellFacts DEF Grids
    <2>4. s.scrollback \in Seq(Lines(cols)) /\ k \in Nat /\ ScrollbackMax \in Nat
      BY <2>1, ViewFacts
    <2> QED
      BY <2>1, <2>2, <2>3, <2>4
  <1>2. /\ Unset(s) /\ Rolled(s, lines) /\ p.x = s.cx /\ lines \in Seq(Lines(cols))
    BY DEF AsOnPaper, Rolls
  <1>3. s \in Screens(s.cols, s.rows)
    BY SoundFacts
  <1> DEFINE cells  == Cut(s.cells, c, r)
             main == IF s.alt THEN (IF s.mainCells = NoGrid THEN s.mainCells ELSE Cut(s.mainCells, c, r)) ELSE cells
             alt  == IF s.alt THEN cells ELSE (IF s.altCells = NoGrid THEN s.altCells ELSE Cut(s.altCells, c, r))
             a == RegionAfter(s.top, s.bottom, s.rows, r)[1]
             b == RegionAfter(s.top, s.bottom, s.rows, r)[2]
             d == RegionAfter(s.mainTop, s.mainBottom, s.rows, r)[1]
             e == RegionAfter(s.mainTop, s.mainBottom, s.rows, r)[2]
             x2 == Bound(0, s.cx, c - 1)
             y2 == Bound(0, s.cy, r - 1)
             g == [i \in DOMAIN s.scrollback |-> CutLine(s.scrollback[i], c)]
  <1>4. u = Resized(s, c, r, cells, main, alt, x2, y2, a, b, d, e, g)
    BY DEF resizeGrid, Resized
  <1>5. a = 0 /\ b = r - 1
    BY <1>2 DEF RegionAfter, Unset
  <1>6. x2 = s.cx /\ y2 = s.cy
    BY <1>1, SMTT(40) DEF Bound, Least, Most
  <1> HIDE DEF cells, main, alt, a, b, d, e, x2, y2, g, u
  <1>7. /\ u.cols = c /\ u.rows = r /\ u.cells = cells /\ u.cx = x2 /\ u.cy = y2 /\ u.scrollback = g
        /\ u.top = a /\ u.bottom = b /\ u.alt = s.alt /\ u.autoWrap = s.autoWrap /\ u.origin = s.origin
        /\ u.pendingWrap = s.pendingWrap /\ Fields \subseteq DOMAIN u
    BY <1>3, <1>4 DEF Resized, Screens, ScreensAt, Fields
  <1> DEFINE x3 == Bound(0, u.cx, u.cols - 1)
             y3 == IF u.origin THEN Bound(u.top, u.cy, u.bottom) ELSE Bound(0, u.cy, u.rows - 1)
  <1>8. t = [u EXCEPT !.cx = x3, !.cy = y3]
    BY DEF clampCursor
  <1>9. x3 = s.cx /\ y3 = s.cy
    <2>1. ~u.origin
      BY <1>2, <1>7 DEF Unset
    <2>2. Bound(0, s.cx, c - 1) = s.cx /\ Bound(0, s.cy, r - 1) = s.cy
      BY <1>1, SMTT(40) DEF Bound, Least, Most
    <2> QED
      BY <1>6, <1>7, <2>1, <2>2
  <1> HIDE DEF x3, y3, t
  <1>10. /\ t.cols = c /\ t.rows = r /\ t.cells = cells /\ t.cx = s.cx /\ t.cy = y /\ t.scrollback = g
         /\ t.top = 0 /\ t.bottom = r - 1 /\ t.alt = s.alt /\ t.autoWrap = s.autoWrap /\ t.origin = s.origin
         /\ t.pendingWrap = s.pendingWrap
    BY <1>5, <1>7, <1>8, <1>9 DEF Fields
  <1>11. Unset(t)
    BY <1>2, <1>10 DEF Unset
  <1>12. /\ n \in Nat /\ n >= y + 1 /\ k = Least(n - (y + 1), ScrollbackMax)
         /\ \A i \in 0..y : s.cells[i] = lines[n - y + i]
         /\ \A i \in 1..k : s.scrollback[i] = lines[n - y - 1 - k + i]
         /\ \A i \in y + 1..rows - 1 : s.cells[i] = BlankRow(cols)
    BY <1>2 DEF Rolled, RolledAs
  <1>13. l \in Seq(Lines(c)) /\ Len(l) = n /\ \A i \in 1..n : l[i] = CutLine(lines[i], c)
    <2>1. \A i \in 1..n : lines[i] \in Lines(cols)
      BY <1>2
    <2>2. \A i \in 1..n : CutLine(lines[i], c) \in Lines(c)
      BY <2>1, CutLineFits
    <2>3. n \in Nat /\ DOMAIN lines = 1..n
      BY <1>2
    <2>4. l = [i \in 1..n |-> CutLine(lines[i], c)]
      BY <2>3
    <2> HIDE DEF l, n
    <2> QED
      BY <2>2, <2>3, <2>4
  <1>14. Len(g) = k /\ \A i \in 1..k : g[i] = CutLine(s.scrollback[i], c)
    BY <1>1 DEF g
  <1>15. \A i \in 0..rows - 1 : cells[i] = CutLine(s.cells[i], c)
    <2> SUFFICES ASSUME NEW i \in 0..rows - 1
                 PROVE  cells[i] = CutLine(s.cells[i], c)
      OBVIOUS
    <2>1. i \in 0..r - 1 /\ i \in DOMAIN s.cells
      BY <1>1
    <2> QED
      BY <2>1 DEF cells, Cut, CutLine
  <1>16. \A i \in rows..r - 1 : cells[i] = BlankRow(c)
    <2> SUFFICES ASSUME NEW i \in rows..r - 1
                 PROVE  cells[i] = BlankRow(c)
      OBVIOUS
    <2>1. i \in 0..r - 1 /\ i \notin DOMAIN s.cells
      BY <1>1
    <2> QED
      BY <2>1 DEF cells, Cut, BlankRow
  <1>17. CutLine(BlankRow(cols), c) = BlankRow(c)
    BY <1>1 DEF CutLine, BlankRow
  <1> HIDE DEF l, n, k, y, rows, cols
  <1>22. n \in Nat /\ n >= y + 1 /\ k = Least(n - (y + 1), ScrollbackMax)
    BY <1>12
  <1>23. y \in 0..rows - 1 /\ rows \in Nat /\ k \in Nat /\ ScrollbackMax \in Nat
    BY <1>1
  <1>18. Rolled(t, l)
    <2>1. \A i \in 0..y : t.cells[i] = l[n - y + i]
      <3> SUFFICES ASSUME NEW i \in 0..y
                   PROVE  cells[i] = l[n - y + i]
        BY <1>10
      <3>1. n - y + i \in 1..n /\ i \in 0..rows - 1
        BY <1>22, <1>23
      <3> QED
        BY <1>12, <1>13, <1>15, <3>1
    <2>2. \A i \in 1..k : t.scrollback[i] = l[n - y - 1 - k + i]
      <3> SUFFICES ASSUME NEW i \in 1..k
                   PROVE  g[i] = l[n - y - 1 - k + i]
        BY <1>10
      <3>1. n - y - 1 - k + i \in 1..n
        BY <1>22, <1>23 DEF Least
      <3> QED
        BY <1>12, <1>13, <1>14, <3>1
    <2>3. \A i \in y + 1..r - 1 : t.cells[i] = BlankRow(c)
      <3> SUFFICES ASSUME NEW i \in y + 1..r - 1
                   PROVE  cells[i] = BlankRow(c)
        BY <1>10
      <3>1. CASE i \in rows..r - 1
        BY <1>16, <3>1
      <3>2. CASE i \in y + 1..rows - 1
        <4>1. i \in 0..rows - 1 /\ s.cells[i] = BlankRow(cols)
          BY <1>1, <1>12, <3>2
        <4> QED
          BY <1>15, <1>17, <4>1
      <3> QED
        BY <1>1, <3>1, <3>2
    <2>4. RolledAs(t, l, n, k, y)
      BY <1>10, <1>12, <2>1, <2>2, <2>3 DEF RolledAs
    <2>5. n = Len(l) /\ k = Len(t.scrollback) /\ y = t.cy
      BY <1>10, <1>13, <1>14
    <2> QED
      BY <2>4, <2>5 DEF Rolled
  <1>19. q = [p EXCEPT !.lines = l]
    BY DEF l
  <1>20. q \in Rolls(c) /\ q.lines = l /\ q.plain = p.plain /\ q.x = p.x
    BY <1>13, <1>19 DEF Rolls
  <1>21. AsOnPaper(t, q)
    BY <1>2, <1>10, <1>11, <1>18, <1>20 DEF AsOnPaper
  <1> QED
    BY <1>20, <1>21 DEF t, u

-----------------------------------------------------------------------------
(* One step per operation.                                                     *)

LEMMA FreshFits ==
    ASSUME NEW c \in Nat, NEW r \in Nat, c > 1, r > 1
    PROVE  /\ Sound(FreshScreen(c, r), FALSE) /\ FreshScreen(c, r).cols = c
           /\ Paper(c) \in Rolls(c) /\ AsOnPaper(FreshScreen(c, r), Paper(c))
  <1> DEFINE s == FreshScreen(c, r)
             g == BlankGrid(c, r)
  <1>1. Blank \in Chars /\ ScrollbackMax \in Nat
    <2>1. ScrollbackMax \in Nat \ {0} /\ Blank \in Chars
      BY ScreenAssumption DEF Blank, Chars
    <2> QED
      BY <2>1
  <1>2. g \in Grids(c, r)
    BY <1>1 DEF BlankGrid, BlankRow, Grids, Lines
  <1>3. NoSelection \in [anchor : Int, from : Int, to : Int]
    BY DEF NoSelection
  <1>4. <<>> \in Seq(Lines(c)) /\ Len(<<>>) = 0
    OBVIOUS
  <1> HIDE DEF g
  <1>5. s \in Screens(c, r)
    BY <1>1, <1>2, <1>3, <1>4 DEF FreshScreen, Screens, ScreensAt, g
  <1>6. /\ s.cols = c /\ s.rows = r /\ s.cells = g /\ s.cx = 0 /\ s.cy = 0 /\ s.pendingWrap = FALSE
        /\ s.autoWrap = TRUE /\ s.origin = FALSE /\ s.top = 0 /\ s.bottom = r - 1 /\ s.alt = FALSE
        /\ s.mainTop = 0 /\ s.mainBottom = r - 1 /\ s.scrollback = <<>> /\ s.viewOffset = 0
    BY DEF FreshScreen, g
  <1> HIDE DEF s
  <1>7. ASSUME NEW T, NEW B, 0 \in T, r - 1 \in B
        PROVE  Shape(s, c, r, T, B)
    BY <1>1, <1>4, <1>5, <1>6, <1>7 DEF Shape, InOrder
  <1>8. Shape(s, c, r, 0..r - 1, 0..r - 1) /\ Shape(s, c, r, {0}, {r - 1}) /\ Size(c, r, 0..r - 1, 0..r - 1)
    BY <1>7 DEF Size
  <1>9. Sound(s, FALSE)
    BY <1>6, <1>8 DEF Sound
  <1>10. Unset(s)
    BY <1>6 DEF Unset
  <1>11. Paper(c) \in Rolls(c) /\ AsOnPaper(s, Paper(c))
    BY <1>6, <1>10, PaperStarts DEF g
  <1> QED
    BY <1>6, <1>9, <1>11 DEF s

LEMMA InitHolds == Init => TerminalInv
  <1> SUFFICES ASSUME Init
               PROVE  TerminalInv
    OBVIOUS
  <1>1. PICK size \in Sizes : screen = FreshScreen(size[1], size[2]) /\ roll = Paper(size[1])
    BY DEF Init
  <1>2. size[1] \in Nat /\ size[2] \in Nat /\ size[1] > 1 /\ size[2] > 1
    BY TerminalAssumption
  <1>3. margins = FALSE
    BY DEF Init
  <1>4. ScreenInv /\ screen.cols = size[1] /\ RollInv
    BY <1>1, <1>2, <1>3, FreshFits DEF ScreenInv, RollInv
  <1>5. MouseInv
    BY DEF Init, MouseInv, Mice, Holding
  <1>6. BudgetInv
    BY TerminalAssumption DEF Init, BudgetInv
  <1> QED
    BY <1>4, <1>5, <1>6 DEF TerminalInv

LEMMA SpendKeeps ==
    ASSUME BudgetInv, NEW kind \in {"output", "resize", "user", "piece"}, Spend(kind)
    PROVE  BudgetInv'
  <1> DEFINE n == budget[kind] - 1
  <1>1. n \in Nat /\ budget' = [budget EXCEPT ![kind] = n]
    BY DEF Spend, BudgetInv
  <1> HIDE DEF n
  <1> QED
    BY <1>1 DEF BudgetInv

(* What the user does leaves the margins and the paper alone.                  *)
LEMMA DoneKeeps ==
    ASSUME TerminalInv, Spend("user"), OnlyShown(screen, screen', margins), UNCHANGED <<roll, margins>>
    PROVE  ScreenInv' /\ RollInv' /\ BudgetInv'
  <1>1. BudgetInv'
    BY SpendKeeps DEF TerminalInv
  <1>2. ScreenInv'
    BY DEF OnlyShown, ScreenInv
  <1>3. screen'.cols = screen.cols /\ AsOnPaper(screen', roll)
    BY KeptSame DEF OnlyShown, Shown, Frame, TerminalInv, RollInv
  <1>4. RollInv'
    BY <1>3 DEF TerminalInv, RollInv
  <1> QED
    BY <1>1, <1>2, <1>4

LEMMA UnchangedDone ==
    ASSUME ScreenInv
    PROVE  OnlyShown(screen, screen, margins)
  BY DEF ScreenInv, OnlyShown, Shown, Frame

LEMMA IndexIsInt ==
    ASSUME ScreenInv, NEW spot \in Spots
    PROVE  /\ Least(spot[1], screen.rows - 1) \in 0..screen.rows - 1
           /\ Least(spot[2], screen.cols - 1) \in 0..screen.cols - 1
           /\ IndexAt(spot) \in Int
  <1> DEFINE row == Least(spot[1], screen.rows - 1)
             col == Least(spot[2], screen.cols - 1)
             cols == screen.cols
             k == Len(screen.scrollback)
             a == k - screen.viewOffset + row
  <1>1. spot[1] \in Nat /\ spot[2] \in Nat
    BY TerminalAssumption
  <1>2. cols \in Nat /\ screen.rows \in Nat /\ cols > 1 /\ screen.rows > 1 /\ screen.viewOffset \in Nat
    BY SoundFacts DEF ScreenInv
  <1>3. k \in Nat
    <2>1. Size(cols, screen.rows, 0..screen.rows - 1, 0..screen.rows - 1)
          /\ Shape(screen, cols, screen.rows, 0..screen.rows - 1, 0..screen.rows - 1)
      BY SoundFacts DEF ScreenInv
    <2> QED
      BY <2>1, ViewFacts
  <1>4. row \in 0..screen.rows - 1 /\ col \in 0..cols - 1
    BY <1>1, <1>2 DEF Least
  <1>5. IndexAt(spot) = a * cols + col
    BY DEF IndexAt, absIndexFromView
  <1>6. a \in Int
    BY <1>2, <1>3, <1>4
  <1>7. a * cols + col \in Int
    <2> HIDE DEF a, cols, col
    <2> QED
      BY <1>2, <1>4, <1>6
  <1> QED
    BY <1>4, <1>5, <1>7

LEMMA OutputKeeps ==
    ASSUME TerminalInv, NEW chunk \in Outputs, Output(chunk)
    PROVE  TerminalInv'
  <1> DEFINE cols == screen.cols
             rows == screen.rows
             t == [screen |-> screen, mouse |-> mouse, seen |-> gesture.seen, roll |-> roll, margins |-> margins]
             fed == FoldLeft(FeedOne, t, chunk)
  <1>1. /\ Spend("output") /\ screen' = Settled(screen, fed.screen) /\ mouse' = fed.mouse
        /\ gesture' = [gesture EXCEPT !.seen = fed.seen] /\ roll' = fed.roll /\ margins' = fed.margins
        /\ interactive' = interactive
    BY DEF Output
  <1>2. /\ Size(cols, rows, 0..rows - 1, 0..rows - 1) /\ Shape(screen, cols, rows, 0..rows - 1, 0..rows - 1)
        /\ (margins = FALSE => Shape(screen, cols, rows, {0}, {rows - 1}))
        /\ screen \in Screens(cols, rows) /\ margins \in BOOLEAN
    BY SoundFacts DEF TerminalInv, ScreenInv
  <1>3. /\ mouse \in Mice /\ interactive \in BOOLEAN
        /\ gesture \in [held : SUBSET Buttons, seen : SUBSET Buttons, excused : BOOLEAN]
        /\ ~gesture.excused => /\ \A a, b \in gesture.held : a = b
                               /\ Holding(mouse, gesture.seen)
    BY DEF TerminalInv, MouseInv
  <1>4. roll \in Rolls(cols) /\ AsOnPaper(screen, roll)
    BY DEF TerminalInv, RollInv
  <1>5. t \in FedStates(cols, rows)
    <2>1. ~margins => margins = FALSE
      BY <1>2
    <2>2. Fed(t, cols, rows)
      BY <1>2, <1>3, <1>4, <2>1 DEF Fed
    <2> HIDE DEF cols, rows
    <2> QED
      BY <1>2, <1>3, <1>4, <2>2 DEF FedStates
  <1>6. chunk \in Seq(ControlFunctions)
    BY TerminalAssumption
  <1> HIDE DEF t
  <1>7. fed \in FedStates(cols, rows)
    BY <1>2, <1>5, <1>6, ChunkStays
  <1> HIDE DEF fed
  <1>8. /\ Shape(fed.screen, cols, rows, 0..rows - 1, 0..rows - 1)
        /\ ~fed.margins => Shape(fed.screen, cols, rows, {0}, {rows - 1})
        /\ gesture.excused \/ Holding(fed.mouse, fed.seen)
        /\ AsOnPaper(fed.screen, fed.roll)
        /\ fed.mouse \in Mice /\ fed.seen \in SUBSET Buttons /\ fed.roll \in Rolls(cols) /\ fed.margins \in BOOLEAN
    BY <1>7 DEF FedStates, Fed
  <1>9. fed.screen.cols = cols /\ fed.screen.rows = rows
    <2> HIDE DEF cols, rows
    <2> QED
      BY <1>2, <1>8, CursorFacts
  <1>10. Sound(fed.screen, fed.margins)
    <2>1. fed.margins = FALSE => ~fed.margins
      OBVIOUS
    <2> HIDE DEF cols, rows
    <2> QED
      BY <1>2, <1>8, <1>9, <2>1 DEF Sound
  <1>11. OnlyShown(fed.screen, Settled(screen, fed.screen), fed.margins)
    <2>1. OnlyShown(fed.screen, setViewOffset(fed.screen, 0), fed.margins)
      BY <1>10, ViewDone
    <2>2. OnlyShown(fed.screen, fed.screen, fed.margins)
      BY <1>10 DEF OnlyShown, Shown, Frame
    <2> QED
      BY <2>1, <2>2 DEF Settled
  <1>12. ScreenInv'
    BY <1>1, <1>11 DEF ScreenInv, OnlyShown
  <1>13. RollInv'
    <2>1. AsOnPaper(screen', roll')
      BY <1>1, <1>8, <1>11, KeptSame DEF OnlyShown, Shown
    <2>2. screen'.cols = cols
      BY <1>1, <1>9, <1>11 DEF OnlyShown, Shown, Frame
    <2> QED
      BY <1>1, <1>8, <2>1, <2>2 DEF RollInv
  <1>14. MouseInv'
    <2>1. /\ gesture' \in [held : SUBSET Buttons, seen : SUBSET Buttons, excused : BOOLEAN]
          /\ gesture'.held = gesture.held /\ gesture'.seen = fed.seen /\ gesture'.excused = gesture.excused
      BY <1>1, <1>3, <1>8
    <2>2. ~gesture'.excused => Holding(mouse, gesture.seen)'
      BY <1>1, <1>8, <2>1 DEF Holding
    <2> QED
      BY <1>1, <1>3, <1>8, <2>1, <2>2 DEF MouseInv
  <1>15. BudgetInv'
    BY <1>1, SpendKeeps DEF TerminalInv
  <1> QED
    BY <1>12, <1>13, <1>14, <1>15 DEF TerminalInv

LEMMA ResizeStep ==
    ASSUME TerminalInv, NEW size \in Sizes, syncPtySize(size)
    PROVE  TerminalInv'
  <1> DEFINE c == size[1]
             r == size[2]
             t == clampCursor(resizeGrid(screen, c, r))
             keeps == roll.plain /\ c >= screen.cols /\ r >= screen.rows /\ ~screen.pendingWrap
             grown == [roll EXCEPT !.lines = [i \in DOMAIN roll.lines |-> CutLine(roll.lines[i], c)]]
             ended == [roll EXCEPT !.plain = FALSE, !.lines = <<>>]
  <1>1. c \in Nat /\ r \in Nat /\ c > 1 /\ r > 1
    BY TerminalAssumption
  <1>2. /\ Spend("resize") /\ screen' = t /\ UNCHANGED <<mouse, interactive, margins, gesture>>
        /\ roll' = (IF keeps THEN grown ELSE ended)
    BY DEF syncPtySize
  <1>3. Sound(screen, margins) /\ roll \in Rolls(screen.cols) /\ AsOnPaper(screen, roll)
    BY DEF TerminalInv, ScreenInv, RollInv
  <1>4. Sound(t, margins) /\ t.cols = c
    <2> HIDE DEF c, r
    <2>1. /\ Sound(clampCursor(resizeGrid(screen, c, r)), margins)
          /\ clampCursor(resizeGrid(screen, c, r)).cols = c
      BY <1>1, <1>3, ResizeSound
    <2> QED
      BY <2>1
  <1>5. ScreenInv'
    BY <1>2, <1>4 DEF ScreenInv
  <1>6. ASSUME keeps
        PROVE  RollInv'
    <2>1. grown \in Rolls(c) /\ AsOnPaper(t, grown)
      BY <1>1, <1>3, <1>6, GrowthRolls
    <2> HIDE DEF t, grown, keeps, c
    <2>2. roll' = grown
      BY <1>2, <1>6
    <2>3. screen' = t /\ screen'.cols = c
      BY <1>2, <1>4
    <2> QED
      BY <2>1, <2>2, <2>3 DEF RollInv
  <1>7. ASSUME ~keeps
        PROVE  RollInv'
    <2>1. <<>> \in Seq(Lines(c))
      OBVIOUS
    <2>2. ended \in Rolls(c) /\ ended.plain = FALSE
      BY <1>3, <2>1 DEF Rolls
    <2>3. AsOnPaper(t, ended)
      BY <2>2 DEF AsOnPaper
    <2> HIDE DEF t, keeps, ended, c
    <2>4. roll' = ended
      BY <1>2, <1>7
    <2>5. screen' = t /\ screen'.cols = c
      BY <1>2, <1>4
    <2> QED
      BY <2>2, <2>3, <2>4, <2>5 DEF RollInv
  <1>8. MouseInv'
    BY <1>2 DEF TerminalInv, MouseInv, Holding
  <1>9. BudgetInv'
    BY <1>2, SpendKeeps DEF TerminalInv
  <1> QED
    BY <1>5, <1>6, <1>7, <1>8, <1>9 DEF TerminalInv

(* The view and the selection, by key, wheel and menu.                         *)
LEMMA UserKeeps ==
    ASSUME TerminalInv,
           (\E lines \in {-1, 1} : ScrollView(lines)) \/ TypeKey \/ (\E copies \in BOOLEAN : CopyOrPaste(copies))
    PROVE  TerminalInv'
  <1>1. Sound(screen, margins)
    BY DEF TerminalInv, ScreenInv
  <1>2. ASSUME UNCHANGED <<mouse, gesture, interactive>>
        PROVE  MouseInv'
    BY <1>2 DEF TerminalInv, MouseInv, Holding
  <1>3. CASE \E lines \in {-1, 1} : ScrollView(lines)
    <2>1. PICK lines \in {-1, 1} : ScrollView(lines)
      BY <1>3
    <2>2. /\ Spend("user") /\ ~screen.alt /\ screen' = setViewOffset(screen, screen.viewOffset + lines)
          /\ UNCHANGED <<roll, margins>> /\ UNCHANGED <<mouse, gesture, interactive>>
      BY <2>1 DEF ScrollView, Unseen
    <2>3. screen.viewOffset + lines \in Int
      <3>1. screen.viewOffset \in Nat
        BY <1>1, SoundFacts
      <3> QED
        BY <3>1
    <2>4. OnlyShown(screen, screen', margins)
      BY <1>1, <2>2, <2>3, ViewDone
    <2> QED
      BY <1>2, <2>2, <2>4, DoneKeeps DEF TerminalInv
  <1>4. CASE TypeKey
    <2>1. /\ Spend("user") /\ screen' = setViewOffset(screen, 0)
          /\ UNCHANGED <<roll, margins>> /\ UNCHANGED <<mouse, gesture, interactive>>
      BY <1>4 DEF TypeKey, Unseen
    <2>2. OnlyShown(screen, screen', margins)
      BY <1>1, <2>1, ViewDone
    <2> QED
      BY <1>2, <2>1, <2>2, DoneKeeps DEF TerminalInv
  <1>5. CASE \E copies \in BOOLEAN : CopyOrPaste(copies)
    <2>1. /\ Spend("user") /\ (screen' = clearSelection(screen) \/ screen' = screen)
          /\ UNCHANGED <<roll, margins>> /\ UNCHANGED <<mouse, gesture, interactive>>
      BY <1>5 DEF CopyOrPaste, Unseen, Pasted
    <2>2. OnlyShown(screen, screen', margins)
      BY <1>1, <2>1, ClearSelectionDone, UnchangedDone DEF ScreenInv
    <2> QED
      BY <1>2, <2>1, <2>2, DoneKeeps DEF TerminalInv
  <1> QED
    BY <1>3, <1>4, <1>5

LEMMA ClearKeeps ==
    ASSUME TerminalInv, ClearTerminal
    PROVE  TerminalInv'
  <1> DEFINE cols == screen.cols
             rows == screen.rows
             t == clearTerminal(screen)
  <1>1. /\ Spend("user") /\ screen' = t /\ mouse' = FeedMouse(mouse, <<"RIS">>) /\ roll' = Paper(cols)
        /\ margins' = FALSE /\ interactive' = interactive
        /\ gesture' = [gesture EXCEPT !.excused = gesture.excused \/ gesture.held # {}]
    BY DEF ClearTerminal
  <1>2. /\ Size(cols, rows, 0..rows - 1, 0..rows - 1) /\ Shape(screen, cols, rows, 0..rows - 1, 0..rows - 1)
        /\ Size(cols, rows, {0}, {rows - 1})
    BY SoundFacts DEF TerminalInv, ScreenInv
  <1>3. Shape(t, cols, rows, 0..rows - 1, 0..rows - 1) /\ Shape(t, cols, rows, {0}, {rows - 1})
    <2> HIDE DEF cols, rows
    <2> QED
      BY <1>2, ClearTerminalKeeps
  <1>4. Paper(cols) \in Rolls(cols) /\ AsOnPaper(t, Paper(cols))
    BY <1>2, ClearRolls
  <1> HIDE DEF t
  <1>5. t.cols = cols /\ t.rows = rows
    <2> HIDE DEF cols, rows
    <2> QED
      BY <1>2, <1>3, CursorFacts
  <1>6. Sound(t, FALSE)
    <2> HIDE DEF cols, rows
    <2> QED
      BY <1>2, <1>3, <1>5 DEF Sound
  <1>7. ScreenInv'
    BY <1>1, <1>6 DEF ScreenInv
  <1>8. RollInv'
    BY <1>1, <1>4, <1>5 DEF RollInv
  <1>9. MouseInv'
    <2>1. mouse' = [mouse EXCEPT !.mode = 0, !.pressed = "none", !.selecting = FALSE]
      BY <1>1 DEF FeedMouse
    <2> QED
      BY <1>1, <2>1 DEF TerminalInv, MouseInv, Mice, Holding
  <1>10. BudgetInv'
    BY <1>1, SpendKeeps DEF TerminalInv
  <1> QED
    BY <1>7, <1>8, <1>9, <1>10 DEF TerminalInv

LEMMA SetInteractiveKeeps ==
    ASSUME TerminalInv, NEW enabled \in BOOLEAN, setInteractive(enabled)
    PROVE  TerminalInv'
  <1>1. /\ Spend("user") /\ interactive' = enabled /\ UNCHANGED <<screen, mouse, roll, margins>>
        /\ gesture' = [gesture EXCEPT !.excused = gesture.excused \/ gesture.held # {}]
    BY DEF setInteractive
  <1>2. ScreenInv' /\ RollInv' /\ BudgetInv'
    BY <1>1, UnchangedDone, DoneKeeps DEF TerminalInv
  <1>3. MouseInv'
    BY <1>1 DEF TerminalInv, MouseInv, Mice, Holding
  <1> QED
    BY <1>2, <1>3 DEF TerminalInv

(* Pressed buttons.  The program has one in mind from a reported press on.     *)
LEMMA PressKeeps ==
    ASSUME MouseInv, NEW btn \in Buttons, Pressing(btn), interactive' = interactive, mouse' \in Mice,
           \/ mouse'.pressed = btn /\ mouse'.mode \in MouseModes /\ interactive
           \/ mouse'.pressed = mouse.pressed
    PROVE  MouseInv'
  <1> DEFINE held == gesture.held \cup {btn}
             excused == gesture.excused \/ gesture.held # {}
             seen == IF mouse'.pressed = btn THEN gesture.seen \cup {btn} ELSE gesture.seen
  <1>1. gesture' = [gesture EXCEPT !.held = held, !.excused = excused, !.seen = seen]
    BY DEF Pressing
  <1>2. gesture \in [held : SUBSET Buttons, seen : SUBSET Buttons, excused : BOOLEAN]
    BY DEF MouseInv
  <1>3. held \in SUBSET Buttons /\ seen \in SUBSET Buttons /\ excused \in BOOLEAN
    BY <1>2
  <1> HIDE DEF held, seen, excused
  <1>4. /\ gesture' \in [held : SUBSET Buttons, seen : SUBSET Buttons, excused : BOOLEAN]
        /\ gesture'.held = held /\ gesture'.seen = seen /\ gesture'.excused = excused
    BY <1>1, <1>2, <1>3
  <1>5. ASSUME ~gesture'.excused
        PROVE  (\A a, b \in held : a = b) /\ Holding(mouse, gesture.seen)'
    <2>1. ~gesture.excused /\ gesture.held = {}
      BY <1>4, <1>5 DEF excused
    <2>2. held = {btn} /\ gesture.seen = {} /\ mouse.pressed = "none" /\ btn # "none"
      BY <2>1 DEF held, MouseInv, Holding, Mice, Buttons
    <2>3. CASE mouse'.pressed = btn
      <3>1. mouse'.mode \in MouseModes /\ interactive
        BY <2>2, <2>3
      <3>2. seen = {btn}
        BY <2>2, <2>3 DEF seen
      <3> QED
        BY <1>4, <2>2, <2>3, <3>1, <3>2 DEF Holding
    <2>4. CASE mouse'.pressed # btn
      <3>1. mouse'.pressed = "none" /\ seen = {}
        BY <2>2, <2>4 DEF seen
      <3> QED
        BY <1>4, <2>2, <3>1 DEF Holding
    <2> QED
      BY <2>3, <2>4
  <1> QED
    BY <1>4, <1>5 DEF MouseInv

LEMMA PressEventKeeps ==
    ASSUME TerminalInv, NEW btn \in Buttons, NEW spot \in Spots, NEW shift \in BOOLEAN, NEW special \in BOOLEAN,
           mousePressEvent(btn, spot, shift, special)
    PROVE  TerminalInv'
  <1>1. /\ Spend("user") /\ Pressing(btn) /\ UNCHANGED <<roll, margins>> /\ interactive' = interactive
    BY DEF mousePressEvent, Unseen
  <1>2. MouseInv /\ mouse \in Mice /\ interactive \in BOOLEAN /\ ScreenInv /\ Sound(screen, margins)
    BY DEF TerminalInv, MouseInv, ScreenInv
  <1>3. \/ screen' = screen /\ mouse' = mouse
        \/ shouldReportMouse(shift) /\ screen' = clearSelection(screen) /\ mouse' = [mouse EXCEPT !.pressed = btn]
        \/ (screen' = clearSelection(screen) \/ screen' = screen) /\ mouse' = mouse
        \/ /\ \/ screen' = selectLineAt(screen, Least(spot[1], screen.rows - 1))
              \/ screen' = setSelectionRange(screen, IndexAt(spot), IndexAt(spot), IndexAt(spot))
           /\ mouse' = [mouse EXCEPT !.selecting = ~special]
    BY DEF mousePressEvent, Pasted
  <1>4. OnlyShown(screen, screen', margins)
    <2>1. OnlyShown(screen, screen, margins) /\ OnlyShown(screen, clearSelection(screen), margins)
      BY <1>2, UnchangedDone, ClearSelectionDone
    <2>2. Least(spot[1], screen.rows - 1) \in Int /\ IndexAt(spot) \in Int
      <3>1. Least(spot[1], screen.rows - 1) \in 0..screen.rows - 1 /\ IndexAt(spot) \in Int
        BY <1>2, IndexIsInt
      <3> QED
        BY <3>1
    <2>3. /\ OnlyShown(screen, selectLineAt(screen, Least(spot[1], screen.rows - 1)), margins)
          /\ OnlyShown(screen, setSelectionRange(screen, IndexAt(spot), IndexAt(spot), IndexAt(spot)), margins)
      BY <1>2, <2>2, SelectLineDone, SelectionRangeDone
    <2> QED
      BY <1>3, <2>1, <2>3
  <1>5. /\ mouse' \in Mice
        /\ \/ mouse'.pressed = btn /\ mouse'.mode \in MouseModes /\ interactive
           \/ mouse'.pressed = mouse.pressed
    BY <1>2, <1>3 DEF Mice, shouldReportMouse, mouseReportingActive
  <1>6. MouseInv'
    BY <1>1, <1>2, <1>5, PressKeeps
  <1> QED
    BY <1>1, <1>4, <1>6, DoneKeeps DEF TerminalInv

LEMMA MoveKeeps ==
    ASSUME TerminalInv, NEW spot \in Spots, NEW shift \in BOOLEAN, mouseMoveEvent(spot, shift)
    PROVE  TerminalInv'
  <1>1. /\ Spend("user") /\ UNCHANGED <<roll, margins>> /\ UNCHANGED <<mouse, gesture, interactive>>
        /\ screen' = setSelectionRange(screen, screen.sel.anchor, screen.sel.anchor, IndexAt(spot))
    BY DEF mouseMoveEvent, Unseen
  <1>2. ScreenInv /\ Sound(screen, margins) /\ screen.sel.anchor \in Int
    BY SoundFacts DEF TerminalInv, ScreenInv
  <1>3. IndexAt(spot) \in Int
    BY <1>2, IndexIsInt
  <1>4. OnlyShown(screen, screen', margins)
    BY <1>1, <1>2, <1>3, SelectionRangeDone
  <1>5. MouseInv'
    BY <1>1 DEF TerminalInv, MouseInv, Holding
  <1> QED
    BY <1>1, <1>4, <1>5, DoneKeeps DEF TerminalInv

LEMMA ReleaseKeeps ==
    ASSUME TerminalInv, NEW btn \in Buttons, NEW spot \in Spots, mouseReleaseEvent(btn, spot)
    PROVE  TerminalInv'
  <1> DEFINE s == setSelectionRange(screen, screen.sel.anchor, screen.sel.anchor, IndexAt(spot))
             held == gesture.held \ {btn}
             seen == IF Completes THEN gesture.seen \ {mouse.pressed} ELSE gesture.seen
  <1>1. /\ Spend("user") /\ btn \in gesture.held /\ UNCHANGED <<roll, margins>> /\ interactive' = interactive
        /\ gesture' = [gesture EXCEPT !.held = held, !.seen = seen]
    BY DEF mouseReleaseEvent, Unseen
  <1>2. \/ Completes /\ mouse' = [mouse EXCEPT !.pressed = "none"] /\ screen' = screen
        \/ /\ ~Completes /\ mouse' = [mouse EXCEPT !.selecting = FALSE]
           /\ screen' = clearSelection(s) \/ screen' = s
        \/ ~Completes /\ mouse' = mouse /\ screen' = screen
    BY DEF mouseReleaseEvent
  <1>3. ScreenInv /\ Sound(screen, margins) /\ screen.sel.anchor \in Int
    BY SoundFacts DEF TerminalInv, ScreenInv
  <1>4. IndexAt(spot) \in Int
    BY <1>3, IndexIsInt
  <1>5. OnlyShown(screen, s, margins)
    BY <1>3, <1>4, SelectionRangeDone
  <1> HIDE DEF s
  <1>6. OnlyShown(s, clearSelection(s), margins)
    BY <1>5, ClearSelectionDone DEF OnlyShown
  <1>7. OnlyShown(screen, screen', margins)
    BY <1>2, <1>3, <1>5, <1>6, UnchangedDone DEF OnlyShown, Shown, Frame
  <1>8. /\ mouse \in Mice /\ gesture \in [held : SUBSET Buttons, seen : SUBSET Buttons, excused : BOOLEAN]
        /\ interactive \in BOOLEAN
        /\ ~gesture.excused => (\A a, b \in gesture.held : a = b) /\ Holding(mouse, gesture.seen)
    BY DEF TerminalInv, MouseInv
  <1>9. held \in SUBSET Buttons /\ seen \in SUBSET Buttons
    BY <1>8
  <1>10. /\ gesture' \in [held : SUBSET Buttons, seen : SUBSET Buttons, excused : BOOLEAN]
         /\ gesture'.held = held /\ gesture'.seen = seen /\ gesture'.excused = gesture.excused
    <2> HIDE DEF held, seen
    <2> QED
      BY <1>1, <1>8, <1>9
  <1>11. mouse' \in Mice
    BY <1>2, <1>8 DEF Mice
  <1>12. ASSUME ~gesture'.excused
         PROVE  held = {} /\ mouse'.pressed = "none" /\ seen = {}
    <2>1. (\A a, b \in gesture.held : a = b) /\ Holding(mouse, gesture.seen)
      BY <1>8, <1>10, <1>12
    <2>2. held = {}
      BY <1>1, <2>1
    <2>3. CASE Completes
      <3>1. mouse'.pressed = "none"
        BY <1>2, <1>8, <2>3 DEF Mice
      <3>2. \A b \in gesture.seen : b = mouse.pressed
        BY <2>1 DEF Holding
      <3>3. seen = {}
        BY <2>3, <3>2
      <3> QED
        BY <2>2, <3>1, <3>3
    <2>4. CASE ~Completes
      <3>1. mouse.pressed = "none"
        BY <2>1, <2>4 DEF Completes, Holding, mouseReportingActive
      <3>2. gesture.seen = {}
        BY <1>8, <2>1, <3>1 DEF Holding, Buttons
      <3> QED
        BY <1>2, <1>8, <2>2, <2>4, <3>1, <3>2 DEF Mice
    <2> QED
      BY <2>2, <2>3, <2>4
  <1>13. MouseInv'
    <2>1. ~gesture'.excused => Holding(mouse, gesture.seen)'
      BY <1>10, <1>12 DEF Holding
    <2>2. ~gesture'.excused => \A a, b \in gesture'.held : a = b
      BY <1>10, <1>12
    <2> QED
      BY <1>1, <1>8, <1>10, <1>11, <2>1, <2>2 DEF MouseInv
  <1> QED
    BY <1>1, <1>7, <1>13, DoneKeeps DEF TerminalInv

LEMMA DoubleClickKeeps ==
    ASSUME TerminalInv, NEW spot \in Spots, NEW shift \in BOOLEAN, mouseDoubleClickEvent(spot, shift)
    PROVE  TerminalInv'
  <1> DEFINE row == Least(spot[1], screen.rows - 1)
             col == Least(spot[2], screen.cols - 1)
  <1>1. /\ Spend("user") /\ Pressing("left") /\ UNCHANGED <<roll, margins>> /\ interactive' = interactive
        /\ \/ screen' = screen /\ mouse' = mouse
           \/ screen' = selectWordAt(screen, row, col) /\ mouse' = [mouse EXCEPT !.selecting = FALSE]
    BY DEF mouseDoubleClickEvent, Unseen
  <1>2. MouseInv /\ mouse \in Mice /\ ScreenInv /\ Sound(screen, margins)
    BY DEF TerminalInv, MouseInv, ScreenInv
  <1>3. row \in 0..screen.rows - 1 /\ col \in 0..screen.cols - 1
    BY <1>2, IndexIsInt
  <1> HIDE DEF row, col
  <1>4. OnlyShown(screen, screen', margins)
    BY <1>1, <1>2, <1>3, UnchangedDone, SelectWordDone
  <1>5. mouse' \in Mice /\ mouse'.pressed = mouse.pressed
    BY <1>1, <1>2 DEF Mice
  <1>6. MouseInv'
    BY <1>1, <1>2, <1>5, PressKeeps DEF Buttons
  <1> QED
    BY <1>1, <1>4, <1>6, DoneKeeps DEF TerminalInv

LEMMA NextKeeps == TerminalInv /\ [Next]_vars => TerminalInv'
  <1> SUFFICES ASSUME TerminalInv, [Next]_vars
               PROVE  TerminalInv'
    OBVIOUS
  <1>1. ASSUME NEW chunk \in Outputs, Output(chunk)
        PROVE  TerminalInv'
    BY <1>1, OutputKeeps
  <1>2. ASSUME NEW size \in Sizes, syncPtySize(size)
        PROVE  TerminalInv'
    BY <1>2, ResizeStep
  <1>3. CASE (\E lines \in {-1, 1} : ScrollView(lines)) \/ TypeKey \/ (\E copies \in BOOLEAN : CopyOrPaste(copies))
    BY <1>3, UserKeeps
  <1>4. CASE ClearTerminal
    BY <1>4, ClearKeeps
  <1>5. ASSUME NEW enabled \in BOOLEAN, setInteractive(enabled)
        PROVE  TerminalInv'
    BY <1>5, SetInteractiveKeeps
  <1>6. CASE Mouse
    BY <1>6, PressEventKeeps, MoveKeeps, ReleaseKeeps, DoubleClickKeeps DEF Mouse
  <1>7. ASSUME NEW piece \in Pieces, WriteBytes(piece)
        PROVE  TerminalInv'
    <2>1. Spend("piece") /\ UNCHANGED <<screen, mouse, interactive, roll, margins, gesture>>
      BY <1>7 DEF WriteBytes
    <2>2. BudgetInv'
      BY <2>1, SpendKeeps DEF TerminalInv
    <2> QED
      BY <2>1, <2>2 DEF TerminalInv, ScreenInv, MouseInv, RollInv, Holding
  <1>8. CASE UNCHANGED vars
    BY <1>8 DEF vars, TerminalInv, ScreenInv, MouseInv, RollInv, BudgetInv, Holding
  <1> QED
    BY <1>1, <1>2, <1>3, <1>4, <1>5, <1>6, <1>7, <1>8 DEF Next

-----------------------------------------------------------------------------
(* Bytes are read one by one.                                                  *)

(* What the parser can be, whatever it has been fed.                           *)
Parts == Bytes \cup Seq(Bytes) \cup {"U+FFFD", "line drawing", "escape", "csi", "osc"}
Items == Seq(Parts)
Parsers == [state : {"Ground", "Escape", "Csi", "Osc", "Charset"}, seq : Seq(Bytes), utf8 : Seq(Bytes),
            out : Seq(Items), sets : {"ASCII", "DecSpecial"} \X {"ASCII", "DecSpecial"}, gl : {1, 2}, slot : {1, 2}]

LEMMA EmitStays ==
    ASSUME NEW p \in Parsers, NEW item \in Items
    PROVE  Emit(p, item) \in Parsers
  <1>1. Append(p.out, item) \in Seq(Items)
    BY DEF Parsers
  <1> HIDE DEF Items
  <1> QED
    BY <1>1 DEF Emit, Parsers

LEMMA DoneStays ==
    ASSUME NEW p \in Parsers, NEW item \in Items
    PROVE  Done(p, item) \in Parsers
  <1>1. <<>> \in Seq(Bytes)
    OBVIOUS
  <1>2. [p EXCEPT !.state = "Ground", !.seq = <<>>] \in Parsers
    BY <1>1 DEF Parsers
  <1> QED
    BY <1>2, EmitStays DEF Done

LEMMA KeepStays ==
    ASSUME NEW p \in Parsers, NEW b \in Bytes
    PROVE  /\ Keep(p, b) \in Parsers
           /\ [p EXCEPT !.seq = Append(@, b)] \in Parsers
  <1>1. Append(p.seq, b) \in Seq(Bytes)
    BY DEF Parsers
  <1> QED
    BY <1>1 DEF Keep, Parsers

LEMMA ItemsAre ==
    ASSUME NEW b \in Bytes, NEW c \in Seq(Bytes)
    PROVE  /\ <<b>> \in Items /\ c \in Items /\ <<"U+FFFD">> \in Items /\ <<"osc">> \in Items
           /\ <<"line drawing", b>> \in Items /\ <<"escape", b>> \in Items /\ <<"csi", b, c>> \in Items
  <1>1. /\ b \in Parts /\ c \in Parts /\ Bytes \subseteq Parts
        /\ \A a \in {"U+FFFD", "line drawing", "escape", "csi", "osc"} : a \in Parts
    BY DEF Parts
  <1>2. c \in Seq(Parts)
    BY <1>1, SeqMonotonic
  <1>3. \A x, y, z \in Parts : <<x>> \in Seq(Parts) /\ <<x, y>> \in Seq(Parts) /\ <<x, y, z>> \in Seq(Parts)
    OBVIOUS
  <1> QED
    BY <1>1, <1>2, <1>3 DEF Items

LEMMA LeadStays ==
    ASSUME NEW p \in Parsers, NEW b \in Bytes
    PROVE  LeadByte(p, b) \in Parsers
  <1>1. Emit(p, <<b>>) \in Parsers /\ Emit(p, <<"U+FFFD">>) \in Parsers
    <2>1. <<>> \in Seq(Bytes)
      OBVIOUS
    <2> QED
      BY <2>1, EmitStays, ItemsAre
  <1>2. [p EXCEPT !.utf8 = <<b>>] \in Parsers
    <2>1. <<b>> \in Seq(Bytes)
      OBVIOUS
    <2> QED
      BY <2>1 DEF Parsers
  <1>3. \/ LeadByte(p, b) = Emit(p, <<b>>)
        \/ LeadByte(p, b) = Emit(p, <<"U+FFFD">>)
        \/ LeadByte(p, b) = [p EXCEPT !.utf8 = <<b>>]
    BY DEF LeadByte
  <1> QED
    BY <1>1, <1>2, <1>3

LEMMA TextStays ==
    ASSUME NEW p \in Parsers, NEW b \in Bytes
    PROVE  TextByte(p, b) \in Parsers
  <1> DEFINE char == Append(p.utf8, b)
             q == [p EXCEPT !.utf8 = <<>>]
  <1>1. char \in Seq(Bytes) /\ <<>> \in Seq(Bytes)
    BY DEF Parsers
  <1>2. q \in Parsers /\ [p EXCEPT !.utf8 = char] \in Parsers
    <2> HIDE DEF char
    <2> QED
      BY <1>1 DEF Parsers
  <1>3. LeadByte(p, b) \in Parsers /\ LeadByte(q, b) \in Parsers
    BY <1>2, LeadStays
  <1>4. Emit(q, char) \in Parsers
    <2>1. char \in Items
      BY <1>1, ItemsAre
    <2> QED
      BY <1>2, <2>1, EmitStays
  <1> QED
    BY <1>2, <1>3, <1>4 DEF TextByte

LEMMA GroundStays ==
    ASSUME NEW p \in Parsers, NEW b \in Bytes
    PROVE  GroundByte(p, b) \in Parsers
  <1>1. <<>> \in Seq(Bytes)
    OBVIOUS
  <1>2. [p EXCEPT !.state = "Escape", !.seq = <<>>] \in Parsers
    BY <1>1 DEF Parsers
  <1>3. [p EXCEPT !.gl = 2] \in Parsers /\ [p EXCEPT !.gl = 1] \in Parsers
    BY DEF Parsers
  <1>4. [p EXCEPT !.utf8 = <<>>] \in Parsers
    BY <1>1 DEF Parsers
  <1>5. Emit(p, <<b>>) \in Parsers /\ Emit([p EXCEPT !.utf8 = <<>>], <<"line drawing", b>>) \in Parsers
    BY <1>1, <1>4, EmitStays, ItemsAre
  <1>6. TextByte(p, b) \in Parsers
    BY TextStays
  <1>7. CASE b \in {"ESC", "SO", "SI"}
    BY <1>2, <1>3, <1>7 DEF GroundByte, Controls
  <1>8. CASE b \in Controls
    <2>1. GroundByte(p, b) = Emit(p, <<b>>)
      BY <1>8 DEF GroundByte, Controls
    <2> QED
      BY <1>5, <2>1
  <1>9. CASE b \notin {"ESC", "SO", "SI"} \cup Controls
    <2>1. \/ GroundByte(p, b) = Emit([p EXCEPT !.utf8 = <<>>], <<"line drawing", b>>)
          \/ GroundByte(p, b) = TextByte(p, b)
      BY <1>9 DEF GroundByte
    <2> QED
      BY <1>5, <1>6, <2>1
  <1> QED
    BY <1>7, <1>8, <1>9

LEMMA ByteStays ==
    ASSUME NEW p \in Parsers, NEW b \in Bytes
    PROVE  feedByte(p, b) \in Parsers
  <1>1. <<>> \in Seq(Bytes) /\ p.seq \in Seq(Bytes)
    BY DEF Parsers
  <1>2. p.state = "Ground" => feedByte(p, b) \in Parsers
    BY GroundStays DEF feedByte
  <1>3. ASSUME NEW s \in {"Csi", "Osc", "Charset"}, NEW k \in {1, 2}
        PROVE  [p EXCEPT !.state = s, !.seq = <<>>] \in Parsers /\ [p EXCEPT !.state = s, !.seq = <<>>, !.slot = k] \in Parsers
    BY <1>1 DEF Parsers
  <1>4. /\ Done(p, <<"escape", b>>) \in Parsers /\ Done(p, <<"csi", b, p.seq>>) \in Parsers
        /\ Done(p, <<"osc">>) \in Parsers
    BY <1>1, ItemsAre, DoneStays
  <1>5. Keep(p, b) \in Parsers /\ [p EXCEPT !.seq = Append(@, b)] \in Parsers
    BY KeepStays
  <1>6. EscapeByte(p, b) \in Parsers
    BY <1>3, <1>4 DEF EscapeByte
  <1>7. CsiByte(p, b) \in Parsers
    BY <1>4, <1>5 DEF CsiByte
  <1>8. OscByte(p, b) \in Parsers
    BY <1>4, <1>5 DEF OscByte
  <1>9. designateCharset(p, b) \in Parsers
    <2> DEFINE t == [p.sets EXCEPT ![p.slot] = IF b = "0" THEN "DecSpecial" ELSE "ASCII"]
    <2>1. t \in {"ASCII", "DecSpecial"} \X {"ASCII", "DecSpecial"}
      BY DEF Parsers
    <2>2. designateCharset(p, b) = [p EXCEPT !.sets = t, !.state = "Ground"]
      BY DEF designateCharset
    <2> HIDE DEF t
    <2> QED
      BY <2>1, <2>2 DEF Parsers
  <1>10. p.state \in {"Ground", "Escape", "Csi", "Osc", "Charset"}
    BY DEF Parsers
  <1> QED
    BY <1>2, <1>6, <1>7, <1>8, <1>9, <1>10 DEF feedByte

LEMMA FirstOnes ==
    ASSUME NEW n \in Nat, NEW k \in 0..n
    PROVE  /\ 1..k \subseteq 1..n /\ 1..k \subseteq 0..n
           /\ k # 0 => k \in 1..k /\ (1..k) \ {k} = 1..(k - 1)
  OBVIOUS

(* Reading leaves a parser behind after each of the bytes.                     *)
LEMMA BytesAreRead ==
    ASSUME NEW p \in Parsers, NEW c \in Seq(Bytes)
    PROVE  \E h \in [0..Len(c) -> Parsers] :
             /\ h[0] = p /\ FeedBytes(p, c) = h[Len(c)]
             /\ \A i \in 1..Len(c) : h[i] = feedByte(h[i - 1], c[i])
  <1> DEFINE n == Len(c)
             S == Parsers
             G == [q \in (1..n) \X S |-> feedByte(q[2], c[q[1]])]
             Body(g, s) == IF s = {} THEN p ELSE feedByte(g[s \ {Max(s)}], c[Max(s)])
             f == CHOOSE g : g = [s \in SUBSET DOMAIN c |-> Body(g, s)]
  <1>1. n \in Nat /\ DOMAIN c = 1..n /\ \A i \in 1..n : c[i] \in Bytes
    OBVIOUS
  <1>2. FeedBytes(p, c) = f[DOMAIN c]
    BY DEF FeedBytes, FoldLeft, MapThenFoldSet
  <1> HIDE DEF n
  <1>3. G \in [(1..n) \X S -> S]
    BY <1>1, ByteStays
  <1>4. PICK g \in [SUBSET (1..n) -> S] : Folded(g, n, p, G)
    <2> HIDE DEF G, S
    <2>1. p \in S
      BY DEF S
    <2> QED
      BY <1>1, <1>3, <2>1, FoldExists
  <1>5. \A s \in SUBSET (1..n) : s # {} => Max(s) \in 1..n
    <2> SUFFICES ASSUME NEW s \in SUBSET (1..n), s # {}
                 PROVE  Max(s) \in 1..n
      OBVIOUS
    <2>1. s \in SUBSET (0..n)
      BY <1>1
    <2>2. Max(s) \in s
      BY <1>1, <2>1, LastExists
    <2> QED
      BY <2>2
  <1>6. g = [s \in SUBSET DOMAIN c |-> Body(g, s)]
    <2>1. ASSUME NEW s \in SUBSET (1..n)
          PROVE  g[s] = Body(g, s)
      <3>1. CASE s = {}
        BY <1>4, <3>1 DEF Folded
      <3>2. CASE s # {}
        <4>1. s \ {Max(s)} \in SUBSET (1..n)
          OBVIOUS
        <4>2. g[s] = G[<<Max(s), g[s \ {Max(s)}]>>] /\ g[s \ {Max(s)}] \in S
          BY <1>4, <3>2, <4>1 DEF Folded
        <4> QED
          BY <1>5, <3>2, <4>2
      <3> QED
        BY <3>1, <3>2
    <2> HIDE DEF Body, G
    <2> QED
      BY <1>1, <1>4, <2>1
  <1>7. f = [s \in SUBSET DOMAIN c |-> Body(f, s)]
    <2> HIDE DEF Body
    <2> QED
      BY <1>6
  <1> HIDE DEF f
  <1>8. \A s \in SUBSET (1..n) : f[s] = Body(f, s)
    <2> HIDE DEF Body
    <2> QED
      BY <1>1, <1>7
  <1>9. f[{}] = p
    BY <1>8
  <1>10. ASSUME NEW i \in 1..n
         PROVE  f[1..i] = feedByte(f[1..(i - 1)], c[i])
    <2>1. i \in Nat /\ i # 0
      BY <1>1
    <2>2. 1..i \in SUBSET (1..n) /\ i \in 1..i /\ 1..i \in SUBSET (0..n) /\ 1..i # {}
      <3>1. i \in 0..n
        BY <1>1
      <3> QED
        BY <1>1, <2>1, <3>1, FirstOnes
    <2>3. Max(1..i) = i
      <3>1. Max(1..i) \in 1..i /\ \A y \in 1..i : y <= Max(1..i)
        BY <1>1, <2>2, LastExists
      <3> QED
        BY <2>1, <2>2, <3>1
    <2>4. (1..i) \ {i} = 1..(i - 1)
      BY <2>1
    <2> QED
      BY <1>8, <2>2, <2>3, <2>4
  <1>11. f[{}] \in S /\ \A s \in SUBSET (1..n) : (s # {} /\ f[s \ {Max(s)}] \in S) => f[s] \in S
    <2>1. f[{}] \in S
      BY <1>9
    <2>2. ASSUME NEW s \in SUBSET (1..n), s # {}, f[s \ {Max(s)}] \in S
          PROVE  f[s] \in S
      <3>1. c[Max(s)] \in Bytes
        BY <1>1, <1>5, <2>2
      <3>2. f[s] = feedByte(f[s \ {Max(s)}], c[Max(s)])
        BY <1>8, <2>2
      <3> QED
        BY <2>2, <3>1, <3>2, ByteStays
    <2> QED
      BY <2>1, <2>2
  <1>12. ASSUME NEW k \in 0..n
         PROVE  f[1..k] \in S
    <2>1. k \in Nat
      BY <1>1
    <2>2. \A s \in SUBSET (1..k) : (s # {} /\ f[s \ {Max(s)}] \in S) => f[s] \in S
      <3>1. 1..k \subseteq 1..n
        BY <1>1, FirstOnes
      <3> HIDE DEF S
      <3> QED
        BY <1>11, <3>1
    <2> HIDE DEF S
    <2> QED
      BY <1>11, <2>1, <2>2, FoldStays
  <1> DEFINE h == [i \in 0..n |-> f[1..i]]
  <1>13. h \in [0..n -> S]
    BY <1>12
  <1>14. h[0] = p
    <2>1. 1..0 = {} /\ 0 \in 0..n
      BY <1>1
    <2> QED
      BY <1>9, <2>1
  <1>15. FeedBytes(p, c) = h[n]
    BY <1>1, <1>2
  <1>16. \A i \in 1..n : h[i] = feedByte(h[i - 1], c[i])
    <2> SUFFICES ASSUME NEW i \in 1..n
                 PROVE  h[i] = feedByte(h[i - 1], c[i])
      OBVIOUS
    <2>1. i \in 0..n /\ i - 1 \in 0..n
      BY <1>1
    <2> QED
      BY <1>10, <2>1
  <1> HIDE DEF h, S
  <1>17. h \in [0..Len(c) -> Parsers] /\ h[0] = p /\ FeedBytes(p, c) = h[Len(c)]
         /\ \A i \in 1..Len(c) : h[i] = feedByte(h[i - 1], c[i])
    BY <1>13, <1>14, <1>15, <1>16 DEF n, S
  <1> QED
    BY <1>17

-----------------------------------------------------------------------------
(* What a byte does to the parser, field by field.                             *)
IsAt(r, st, q, u, o, z, g, k) ==
    /\ r.state = st /\ r.seq = q /\ r.utf8 = u /\ r.out = o
    /\ r.sets = z /\ r.gl = g /\ r.slot = k

LEMMA EmitFields ==
    ASSUME NEW p \in Parsers, NEW i
    PROVE  /\ IsAt(Emit(p, i), p.state, p.seq, p.utf8, Append(p.out, i), p.sets, p.gl, p.slot)
           /\ IsAt(Done(p, i), "Ground", <<>>, p.utf8, Append(p.out, i), p.sets, p.gl, p.slot)
           /\ IsAt(Emit([p EXCEPT !.utf8 = <<>>], i), p.state, p.seq, <<>>, Append(p.out, i), p.sets, p.gl, p.slot)
  BY DEF Emit, Done, Parsers, IsAt

LEMMA KeepFields ==
    ASSUME NEW p \in Parsers, NEW b
    PROVE  IsAt(Keep(p, b), p.state, IF Len(p.seq) < SeqMax THEN Append(p.seq, b) ELSE p.seq,
                p.utf8, p.out, p.sets, p.gl, p.slot)
  BY DEF Keep, Parsers, IsAt

LEMMA TextIsRead ==
    ASSUME NEW p \in Parsers, p.state = "Ground", NEW b \in Bytes,
           b \notin {"ESC", "SO", "SI"} \cup Controls,
           p.sets[p.gl] = "ASCII" \/ b \in {"2", "3", "x", "bad"}
    PROVE  feedByte(p, b) = TextByte(p, b)
  <1>1. feedByte(p, b) = GroundByte(p, b)
    BY DEF feedByte
  <1>2. ~(activeCharset(p) = "DecSpecial" /\ b \notin {"2", "3", "x", "bad"})
    BY DEF activeCharset
  <1>3. GroundByte(p, b) = TextByte(p, b)
    BY <1>2 DEF GroundByte
  <1> QED
    BY <1>1, <1>3

LEMMA LineIsDrawn ==
    ASSUME NEW p \in Parsers, p.state = "Ground", p.sets[p.gl] = "DecSpecial"
    PROVE  IsAt(feedByte(p, "a"), "Ground", p.seq, <<>>, Append(p.out, <<"line drawing", "a">>), p.sets, p.gl, p.slot)
  <1>1. feedByte(p, "a") = GroundByte(p, "a")
    BY DEF feedByte
  <1>2. GroundByte(p, "a") = Emit([p EXCEPT !.utf8 = <<>>], <<"line drawing", "a">>)
    BY DEF GroundByte, activeCharset, Controls
  <1>3. IsAt(Emit([p EXCEPT !.utf8 = <<>>], <<"line drawing", "a">>), p.state, p.seq, <<>>,
             Append(p.out, <<"line drawing", "a">>), p.sets, p.gl, p.slot)
    BY EmitFields
  <1> QED
    BY <1>1, <1>2, <1>3

LEMMA LeadFields ==
    ASSUME NEW p \in Parsers, p.utf8 = <<>>
    PROVE  /\ \A b \in {"a", "0", "["} : IsAt(LeadByte(p, b), p.state, p.seq, <<>>, Append(p.out, <<b>>), p.sets, p.gl, p.slot)
           /\ \A b \in {"2", "3"} : IsAt(LeadByte(p, b), p.state, p.seq, <<b>>, p.out, p.sets, p.gl, p.slot)
           /\ IsAt(LeadByte(p, "bad"), p.state, p.seq, <<>>, Append(p.out, <<"U+FFFD">>), p.sets, p.gl, p.slot)
  <1>1. \A b \in {"a", "0", "["} : utf8ExpectedLength(b) = 1
    BY DEF utf8ExpectedLength
  <1>2. utf8ExpectedLength("2") = 2 /\ utf8ExpectedLength("3") = 3 /\ utf8ExpectedLength("bad") = 0
    BY DEF utf8ExpectedLength
  <1>3. ASSUME NEW b \in {"a", "0", "["}
        PROVE  IsAt(LeadByte(p, b), p.state, p.seq, <<>>, Append(p.out, <<b>>), p.sets, p.gl, p.slot)
    <2>1. LeadByte(p, b) = Emit(p, <<b>>)
      BY <1>1 DEF LeadByte
    <2>2. IsAt(Emit(p, <<b>>), p.state, p.seq, p.utf8, Append(p.out, <<b>>), p.sets, p.gl, p.slot)
      BY EmitFields
    <2> QED
      BY <2>1, <2>2
  <1>4. ASSUME NEW b \in {"2", "3"}
        PROVE  IsAt(LeadByte(p, b), p.state, p.seq, <<b>>, p.out, p.sets, p.gl, p.slot)
    <2>1. LeadByte(p, b) = [p EXCEPT !.utf8 = <<b>>]
      BY <1>2 DEF LeadByte
    <2> QED
      BY <2>1 DEF IsAt, Parsers
  <1>5. IsAt(LeadByte(p, "bad"), p.state, p.seq, <<>>, Append(p.out, <<"U+FFFD">>), p.sets, p.gl, p.slot)
    <2>1. LeadByte(p, "bad") = Emit(p, <<"U+FFFD">>)
      BY <1>2 DEF LeadByte
    <2>2. IsAt(Emit(p, <<"U+FFFD">>), p.state, p.seq, p.utf8, Append(p.out, <<"U+FFFD">>), p.sets, p.gl, p.slot)
      BY EmitFields
    <2> QED
      BY <2>1, <2>2
  <1> QED
    BY <1>3, <1>4, <1>5

(* A character that was under way goes, and the next begins.                   *)
LEMMA LeadIsRead ==
    ASSUME NEW p \in Parsers, p.state = "Ground"
    PROVE  /\ p.sets[p.gl] = "ASCII" => \A b \in {"a", "0", "["} :
                IsAt(feedByte(p, b), "Ground", p.seq, <<>>, Append(p.out, <<b>>), p.sets, p.gl, p.slot)
           /\ \A b \in {"2", "3"} : IsAt(feedByte(p, b), "Ground", p.seq, <<b>>, p.out, p.sets, p.gl, p.slot)
           /\ IsAt(feedByte(p, "bad"), "Ground", p.seq, <<>>, Append(p.out, <<"U+FFFD">>), p.sets, p.gl, p.slot)
  <1> DEFINE r == [p EXCEPT !.utf8 = <<>>]
  <1>1. r \in Parsers /\ IsAt(r, "Ground", p.seq, <<>>, p.out, p.sets, p.gl, p.slot)
    <2>1. <<>> \in Seq(Bytes)
      OBVIOUS
    <2> QED
      BY <2>1 DEF Parsers, IsAt
  <1>2. ASSUME NEW b \in Bytes, b # "x"
        PROVE  TextByte(p, b) = LeadByte(r, b) \/ (p.utf8 = <<>> /\ TextByte(p, b) = LeadByte(p, b))
    BY <1>2 DEF TextByte, Continues
  <1>3. ASSUME NEW t \in Parsers, IsAt(t, "Ground", p.seq, <<>>, p.out, p.sets, p.gl, p.slot)
        PROVE  /\ \A b \in {"a", "0", "["} : IsAt(LeadByte(t, b), "Ground", p.seq, <<>>, Append(p.out, <<b>>), p.sets, p.gl, p.slot)
               /\ \A b \in {"2", "3"} : IsAt(LeadByte(t, b), "Ground", p.seq, <<b>>, p.out, p.sets, p.gl, p.slot)
               /\ IsAt(LeadByte(t, "bad"), "Ground", p.seq, <<>>, Append(p.out, <<"U+FFFD">>), p.sets, p.gl, p.slot)
    <2>1. t.state = "Ground" /\ t.seq = p.seq /\ t.utf8 = <<>> /\ t.out = p.out /\ t.sets = p.sets /\ t.gl = p.gl /\ t.slot = p.slot
      BY <1>3 DEF IsAt
    <2> QED
      BY <2>1, LeadFields
  <1> HIDE DEF r
  <1>4. p.utf8 = <<>> => IsAt(p, "Ground", p.seq, <<>>, p.out, p.sets, p.gl, p.slot)
    BY DEF IsAt
  <1>5. /\ \A b \in {"a", "0", "["} : IsAt(TextByte(p, b), "Ground", p.seq, <<>>, Append(p.out, <<b>>), p.sets, p.gl, p.slot)
        /\ \A b \in {"2", "3"} : IsAt(TextByte(p, b), "Ground", p.seq, <<b>>, p.out, p.sets, p.gl, p.slot)
        /\ IsAt(TextByte(p, "bad"), "Ground", p.seq, <<>>, Append(p.out, <<"U+FFFD">>), p.sets, p.gl, p.slot)
    <2>1. \A b \in {"a", "0", "[", "2", "3", "bad"} :
            TextByte(p, b) = LeadByte(r, b) \/ (p.utf8 = <<>> /\ TextByte(p, b) = LeadByte(p, b))
      BY <1>2 DEF Bytes
    <2> QED
      BY <1>1, <1>3, <1>4, <2>1
  <1>6. \A b \in {"2", "3", "bad"} : feedByte(p, b) = TextByte(p, b)
    BY TextIsRead DEF Bytes, Controls
  <1>7. p.sets[p.gl] = "ASCII" => \A b \in {"a", "0", "["} : feedByte(p, b) = TextByte(p, b)
    BY TextIsRead DEF Bytes, Controls
  <1> QED
    BY <1>5, <1>6, <1>7

(* The characters that are read here, as far as they have been read.           *)
LEMMA CharactersGrow ==
    /\ Append(<<"2">>, "x") = <<"2", "x">> /\ Append(<<"3">>, "x") = <<"3", "x">>
    /\ Append(<<"3", "x">>, "x") = <<"3", "x", "x">>
  <1>1. /\ <<"2">> \in Seq({"2", "3", "x"}) /\ <<"3">> \in Seq({"2", "3", "x"}) /\ <<"3", "x">> \in Seq({"2", "3", "x"})
        /\ <<"2", "x">> \in Seq({"2", "3", "x"}) /\ <<"3", "x", "x">> \in Seq({"2", "3", "x"})
    OBVIOUS
  <1>2. /\ Len(<<"2">>) = 1 /\ Len(<<"3">>) = 1 /\ Len(<<"3", "x">>) = 2 /\ Len(<<"2", "x">>) = 2
        /\ Len(<<"3", "x", "x">>) = 3
    OBVIOUS
  <1>3. Append(<<"2">>, "x") = <<"2", "x">>
    <2>1. /\ Append(<<"2">>, "x") \in Seq({"2", "3", "x"}) /\ Len(Append(<<"2">>, "x")) = 2
          /\ \A i \in 1..2 : Append(<<"2">>, "x")[i] = <<"2", "x">>[i]
      BY <1>1, <1>2, AppendProperties
    <2> QED
      BY <1>1, <1>2, <2>1, SeqEqual
  <1>4. Append(<<"3">>, "x") = <<"3", "x">>
    <2>1. /\ Append(<<"3">>, "x") \in Seq({"2", "3", "x"}) /\ Len(Append(<<"3">>, "x")) = 2
          /\ \A i \in 1..2 : Append(<<"3">>, "x")[i] = <<"3", "x">>[i]
      BY <1>1, <1>2, AppendProperties
    <2> QED
      BY <1>1, <1>2, <2>1, SeqEqual
  <1>5. Append(<<"3", "x">>, "x") = <<"3", "x", "x">>
    <2>1. /\ Append(<<"3", "x">>, "x") \in Seq({"2", "3", "x"}) /\ Len(Append(<<"3", "x">>, "x")) = 3
          /\ \A i \in 1..3 : Append(<<"3", "x">>, "x")[i] = <<"3", "x", "x">>[i]
      BY <1>1, <1>2, AppendProperties
    <2> QED
      BY <1>1, <1>2, <2>1, SeqEqual
  <1> QED
    BY <1>3, <1>4, <1>5

LEMMA RestIsRead ==
    ASSUME NEW p \in Parsers, p.state = "Ground"
    PROVE  /\ p.utf8 = <<"2">> => IsAt(feedByte(p, "x"), "Ground", p.seq, <<>>, Append(p.out, <<"2", "x">>), p.sets, p.gl, p.slot)
           /\ p.utf8 = <<"3">> => IsAt(feedByte(p, "x"), "Ground", p.seq, <<"3", "x">>, p.out, p.sets, p.gl, p.slot)
           /\ p.utf8 = <<"3", "x">> =>
                IsAt(feedByte(p, "x"), "Ground", p.seq, <<>>, Append(p.out, <<"3", "x", "x">>), p.sets, p.gl, p.slot)
  <1>1. feedByte(p, "x") = TextByte(p, "x")
    BY TextIsRead DEF Bytes, Controls
  <1>2. ASSUME NEW c \in Seq(Bytes), p.utf8 # <<>>, c = Append(p.utf8, "x")
        PROVE  TextByte(p, "x") = IF Len(c) >= utf8ExpectedLength(c[1])
                                  THEN Emit([p EXCEPT !.utf8 = <<>>], c) ELSE [p EXCEPT !.utf8 = c]
    BY <1>2 DEF TextByte, Continues
  <1>3. utf8ExpectedLength("2") = 2 /\ utf8ExpectedLength("3") = 3
    BY DEF utf8ExpectedLength
  <1>4. "2" \in Bytes /\ "3" \in Bytes /\ "x" \in Bytes
    BY DEF Bytes
  <1>5. ASSUME p.utf8 = <<"2">>
        PROVE  IsAt(feedByte(p, "x"), "Ground", p.seq, <<>>, Append(p.out, <<"2", "x">>), p.sets, p.gl, p.slot)
    <2> DEFINE c == <<"2", "x">>
    <2>1. c \in Seq(Bytes) /\ Len(c) = 2 /\ c[1] = "2" /\ p.utf8 # <<>> /\ c = Append(p.utf8, "x")
      BY <1>4, <1>5, CharactersGrow
    <2> HIDE DEF c
    <2>2. TextByte(p, "x") = Emit([p EXCEPT !.utf8 = <<>>], c)
      <3>1. Len(c) >= utf8ExpectedLength(c[1])
        BY <1>3, <2>1
      <3>2. TextByte(p, "x") = IF Len(c) >= utf8ExpectedLength(c[1])
                               THEN Emit([p EXCEPT !.utf8 = <<>>], c) ELSE [p EXCEPT !.utf8 = c]
        BY <1>2, <2>1
      <3> QED
        BY <3>1, <3>2
    <2>3. IsAt(Emit([p EXCEPT !.utf8 = <<>>], c), p.state, p.seq, <<>>, Append(p.out, c), p.sets, p.gl, p.slot)
      BY EmitFields
    <2> QED
      BY <1>1, <2>2, <2>3 DEF c
  <1>6. ASSUME p.utf8 = <<"3">>
        PROVE  IsAt(feedByte(p, "x"), "Ground", p.seq, <<"3", "x">>, p.out, p.sets, p.gl, p.slot)
    <2> DEFINE c == <<"3", "x">>
    <2>1. c \in Seq(Bytes) /\ Len(c) = 2 /\ c[1] = "3" /\ p.utf8 # <<>> /\ c = Append(p.utf8, "x")
      BY <1>4, <1>6, CharactersGrow
    <2> HIDE DEF c
    <2>2. TextByte(p, "x") = [p EXCEPT !.utf8 = c]
      BY <1>2, <1>3, <2>1
    <2>3. IsAt([p EXCEPT !.utf8 = c], p.state, p.seq, c, p.out, p.sets, p.gl, p.slot)
      BY DEF IsAt, Parsers
    <2> QED
      BY <1>1, <2>2, <2>3 DEF c
  <1>7. ASSUME p.utf8 = <<"3", "x">>
        PROVE  IsAt(feedByte(p, "x"), "Ground", p.seq, <<>>, Append(p.out, <<"3", "x", "x">>), p.sets, p.gl, p.slot)
    <2> DEFINE c == <<"3", "x", "x">>
    <2>1. c \in Seq(Bytes) /\ Len(c) = 3 /\ c[1] = "3" /\ p.utf8 # <<>> /\ c = Append(p.utf8, "x")
      BY <1>4, <1>7, CharactersGrow
    <2> HIDE DEF c
    <2>2. TextByte(p, "x") = Emit([p EXCEPT !.utf8 = <<>>], c)
      <3>1. Len(c) >= utf8ExpectedLength(c[1])
        BY <1>3, <2>1
      <3>2. TextByte(p, "x") = IF Len(c) >= utf8ExpectedLength(c[1])
                               THEN Emit([p EXCEPT !.utf8 = <<>>], c) ELSE [p EXCEPT !.utf8 = c]
        BY <1>2, <2>1
      <3> QED
        BY <3>1, <3>2
    <2>3. IsAt(Emit([p EXCEPT !.utf8 = <<>>], c), p.state, p.seq, <<>>, Append(p.out, c), p.sets, p.gl, p.slot)
      BY EmitFields
    <2> QED
      BY <1>1, <2>2, <2>3 DEF c
  <1> QED
    BY <1>5, <1>6, <1>7

LEMMA ControlIsRead ==
    ASSUME NEW p \in Parsers, p.state = "Ground"
    PROVE  /\ IsAt(feedByte(p, "ESC"), "Escape", <<>>, p.utf8, p.out, p.sets, p.gl, p.slot)
           /\ IsAt(feedByte(p, "SO"), "Ground", p.seq, p.utf8, p.out, p.sets, 2, p.slot)
           /\ IsAt(feedByte(p, "SI"), "Ground", p.seq, p.utf8, p.out, p.sets, 1, p.slot)
           /\ IsAt(feedByte(p, "LF"), "Ground", p.seq, p.utf8, Append(p.out, <<"LF">>), p.sets, p.gl, p.slot)
  <1>1. \A b : feedByte(p, b) = GroundByte(p, b)
    BY DEF feedByte
  <1>2. /\ GroundByte(p, "ESC") = [p EXCEPT !.state = "Escape", !.seq = <<>>]
        /\ GroundByte(p, "SO") = [p EXCEPT !.gl = 2] /\ GroundByte(p, "SI") = [p EXCEPT !.gl = 1]
        /\ GroundByte(p, "LF") = Emit(p, <<"LF">>)
    BY DEF GroundByte, Controls
  <1>3. /\ IsAt([p EXCEPT !.state = "Escape", !.seq = <<>>], "Escape", <<>>, p.utf8, p.out, p.sets, p.gl, p.slot)
        /\ IsAt([p EXCEPT !.gl = 2], "Ground", p.seq, p.utf8, p.out, p.sets, 2, p.slot)
        /\ IsAt([p EXCEPT !.gl = 1], "Ground", p.seq, p.utf8, p.out, p.sets, 1, p.slot)
    BY DEF IsAt, Parsers
  <1>4. IsAt(Emit(p, <<"LF">>), p.state, p.seq, p.utf8, Append(p.out, <<"LF">>), p.sets, p.gl, p.slot)
    BY EmitFields
  <1> QED
    BY <1>1, <1>2, <1>3, <1>4

LEMMA SequenceStarts ==
    ASSUME NEW p \in Parsers, p.state = "Escape"
    PROVE  /\ IsAt(feedByte(p, "["), "Csi", <<>>, p.utf8, p.out, p.sets, p.gl, p.slot)
           /\ IsAt(feedByte(p, "]"), "Osc", <<>>, p.utf8, p.out, p.sets, p.gl, p.slot)
           /\ IsAt(feedByte(p, "("), "Charset", <<>>, p.utf8, p.out, p.sets, p.gl, 1)
           /\ IsAt(feedByte(p, "a"), "Ground", <<>>, p.utf8, Append(p.out, <<"escape", "a">>), p.sets, p.gl, p.slot)
  <1>1. \A b : feedByte(p, b) = EscapeByte(p, b)
    BY DEF feedByte
  <1>2. /\ EscapeByte(p, "[") = [p EXCEPT !.state = "Csi", !.seq = <<>>]
        /\ EscapeByte(p, "]") = [p EXCEPT !.state = "Osc", !.seq = <<>>]
        /\ EscapeByte(p, "(") = [p EXCEPT !.state = "Charset", !.seq = <<>>, !.slot = 1]
        /\ EscapeByte(p, "a") = Done(p, <<"escape", "a">>)
    BY DEF EscapeByte
  <1>3. /\ IsAt([p EXCEPT !.state = "Csi", !.seq = <<>>], "Csi", <<>>, p.utf8, p.out, p.sets, p.gl, p.slot)
        /\ IsAt([p EXCEPT !.state = "Osc", !.seq = <<>>], "Osc", <<>>, p.utf8, p.out, p.sets, p.gl, p.slot)
        /\ IsAt([p EXCEPT !.state = "Charset", !.seq = <<>>, !.slot = 1], "Charset", <<>>, p.utf8, p.out, p.sets, p.gl, 1)
    BY DEF IsAt, Parsers
  <1>4. IsAt(Done(p, <<"escape", "a">>), "Ground", <<>>, p.utf8, Append(p.out, <<"escape", "a">>), p.sets, p.gl, p.slot)
    BY EmitFields
  <1> QED
    BY <1>1, <1>2, <1>3, <1>4

Stored(q, b) == IF Len(q) < SeqMax THEN Append(q, b) ELSE q

LEMMA CsiIsRead ==
    ASSUME NEW p \in Parsers, p.state = "Csi"
    PROVE  /\ IsAt(feedByte(p, "a"), "Ground", <<>>, p.utf8, Append(p.out, <<"csi", "a", p.seq>>), p.sets, p.gl, p.slot)
           /\ IsAt(feedByte(p, "0"), "Csi", Stored(p.seq, "0"), p.utf8, p.out, p.sets, p.gl, p.slot)
  <1>1. \A b : feedByte(p, b) = CsiByte(p, b)
    BY DEF feedByte
  <1>2. CsiByte(p, "a") = Done(p, <<"csi", "a", p.seq>>) /\ CsiByte(p, "0") = Keep(p, "0")
    BY DEF CsiByte, isCsiFinal
  <1>3. IsAt(Done(p, <<"csi", "a", p.seq>>), "Ground", <<>>, p.utf8, Append(p.out, <<"csi", "a", p.seq>>), p.sets, p.gl, p.slot)
    BY EmitFields
  <1>4. IsAt(Keep(p, "0"), p.state, Stored(p.seq, "0"), p.utf8, p.out, p.sets, p.gl, p.slot)
    BY KeepFields DEF Stored
  <1> QED
    BY <1>1, <1>2, <1>3, <1>4

LEMMA OscIsRead ==
    ASSUME NEW p \in Parsers, p.state = "Osc"
    PROVE  /\ IsAt(feedByte(p, "BEL"), "Ground", <<>>, p.utf8, Append(p.out, <<"osc">>), p.sets, p.gl, p.slot)
           /\ (p.seq # <<>> /\ Last(p.seq) = "ESC") =>
                IsAt(feedByte(p, "\\"), "Ground", <<>>, p.utf8, Append(p.out, <<"osc">>), p.sets, p.gl, p.slot)
           /\ IsAt(feedByte(p, "ESC"), "Osc", Append(p.seq, "ESC"), p.utf8, p.out, p.sets, p.gl, p.slot)
           /\ \A b \in {"0", "a", "3"} : IsAt(feedByte(p, b), "Osc", Stored(p.seq, b), p.utf8, p.out, p.sets, p.gl, p.slot)
  <1>1. \A b : feedByte(p, b) = OscByte(p, b)
    BY DEF feedByte
  <1>2. /\ OscByte(p, "BEL") = Done(p, <<"osc">>)
        /\ (p.seq # <<>> /\ Last(p.seq) = "ESC") => OscByte(p, "\\") = Done(p, <<"osc">>)
        /\ OscByte(p, "ESC") = [p EXCEPT !.seq = Append(@, "ESC")]
        /\ \A b \in {"0", "a", "3"} : OscByte(p, b) = Keep(p, b)
    BY DEF OscByte
  <1>3. IsAt(Done(p, <<"osc">>), "Ground", <<>>, p.utf8, Append(p.out, <<"osc">>), p.sets, p.gl, p.slot)
    BY EmitFields
  <1>4. IsAt([p EXCEPT !.seq = Append(@, "ESC")], "Osc", Append(p.seq, "ESC"), p.utf8, p.out, p.sets, p.gl, p.slot)
    BY DEF IsAt, Parsers
  <1>5. \A b : IsAt(Keep(p, b), p.state, Stored(p.seq, b), p.utf8, p.out, p.sets, p.gl, p.slot)
    BY KeepFields DEF Stored
  <1> QED
    BY <1>1, <1>2, <1>3, <1>4, <1>5

LEMMA CharsetIsRead ==
    ASSUME NEW p \in Parsers, p.state = "Charset", p.slot = 1
    PROVE  /\ IsAt(feedByte(p, "0"), "Ground", p.seq, p.utf8, p.out, <<"DecSpecial", p.sets[2]>>, p.gl, 1)
           /\ IsAt(feedByte(p, "a"), "Ground", p.seq, p.utf8, p.out, <<"ASCII", p.sets[2]>>, p.gl, 1)
  <1>1. \A b : feedByte(p, b) = designateCharset(p, b)
    BY DEF feedByte
  <1>2. p.sets \in {"ASCII", "DecSpecial"} \X {"ASCII", "DecSpecial"}
    BY DEF Parsers
  <1>3. [p.sets EXCEPT ![1] = "DecSpecial"] = <<"DecSpecial", p.sets[2]>> /\ [p.sets EXCEPT ![1] = "ASCII"] = <<"ASCII", p.sets[2]>>
    BY <1>2
  <1>4. /\ designateCharset(p, "0") = [p EXCEPT !.sets = <<"DecSpecial", p.sets[2]>>, !.state = "Ground"]
        /\ designateCharset(p, "a") = [p EXCEPT !.sets = <<"ASCII", p.sets[2]>>, !.state = "Ground"]
    BY <1>3 DEF designateCharset
  <1>5. /\ IsAt([p EXCEPT !.sets = <<"DecSpecial", p.sets[2]>>, !.state = "Ground"],
                "Ground", p.seq, p.utf8, p.out, <<"DecSpecial", p.sets[2]>>, p.gl, 1)
        /\ IsAt([p EXCEPT !.sets = <<"ASCII", p.sets[2]>>, !.state = "Ground"],
                "Ground", p.seq, p.utf8, p.out, <<"ASCII", p.sets[2]>>, p.gl, 1)
    BY DEF IsAt, Parsers
  <1> QED
    BY <1>1, <1>4, <1>5

-----------------------------------------------------------------------------
(* The pieces of a stream.  Between two of them the parser is at rest; of a    *)
(* character that broke off it knows, but not for long.                        *)
Resting(p, m) ==
    p \in Parsers /\ p.state = "Ground" /\ p.seq = <<>> /\ p.out = m /\ p.sets = <<"ASCII", "DecSpecial">> /\ p.gl = 1

LEMMA OneRead ==
    ASSUME NEW p \in Parsers, NEW b1 \in Bytes
    PROVE  \E q1 \in Parsers :
             /\ q1 = feedByte(p, b1) /\ FeedBytes(p, <<b1>>) = q1
  <1>1. <<b1>> \in Seq(Bytes) /\ Len(<<b1>>) = 1
    OBVIOUS
  <1>2. PICK h \in [0..1 -> Parsers] :
          /\ h[0] = p /\ FeedBytes(p, <<b1>>) = h[1]
          /\ \A i \in 1..1 : h[i] = feedByte(h[i - 1], <<b1>>[i])
    BY <1>1, BytesAreRead
  <1>3. /\ h[1] \in Parsers /\ h[1] = feedByte(p, b1)
    BY <1>2
  <1> QED
    BY <1>2, <1>3

LEMMA TwoRead ==
    ASSUME NEW p \in Parsers, NEW b1 \in Bytes, NEW b2 \in Bytes
    PROVE  \E q1, q2 \in Parsers :
             /\ q1 = feedByte(p, b1) /\ q2 = feedByte(q1, b2) /\ FeedBytes(p, <<b1, b2>>) = q2
  <1>1. <<b1, b2>> \in Seq(Bytes) /\ Len(<<b1, b2>>) = 2
    OBVIOUS
  <1>2. PICK h \in [0..2 -> Parsers] :
          /\ h[0] = p /\ FeedBytes(p, <<b1, b2>>) = h[2]
          /\ \A i \in 1..2 : h[i] = feedByte(h[i - 1], <<b1, b2>>[i])
    BY <1>1, BytesAreRead
  <1>3. /\ h[1] \in Parsers /\ h[1] = feedByte(p, b1)
        /\ h[2] \in Parsers /\ h[2] = feedByte(h[1], b2)
    BY <1>2
  <1> QED
    BY <1>2, <1>3

LEMMA ThreeRead ==
    ASSUME NEW p \in Parsers, NEW b1 \in Bytes, NEW b2 \in Bytes, NEW b3 \in Bytes
    PROVE  \E q1, q2, q3 \in Parsers :
             /\ q1 = feedByte(p, b1) /\ q2 = feedByte(q1, b2) /\ q3 = feedByte(q2, b3)
             /\ FeedBytes(p, <<b1, b2, b3>>) = q3
  <1>1. <<b1, b2, b3>> \in Seq(Bytes) /\ Len(<<b1, b2, b3>>) = 3
    OBVIOUS
  <1>2. PICK h \in [0..3 -> Parsers] :
          /\ h[0] = p /\ FeedBytes(p, <<b1, b2, b3>>) = h[3]
          /\ \A i \in 1..3 : h[i] = feedByte(h[i - 1], <<b1, b2, b3>>[i])
    BY <1>1, BytesAreRead
  <1>3. /\ h[1] \in Parsers /\ h[1] = feedByte(p, b1)
        /\ h[2] \in Parsers /\ h[2] = feedByte(h[1], b2)
        /\ h[3] \in Parsers /\ h[3] = feedByte(h[2], b3)
    BY <1>2
  <1> QED
    BY <1>2, <1>3

LEMMA FiveRead ==
    ASSUME NEW p \in Parsers, NEW b1 \in Bytes, NEW b2 \in Bytes, NEW b3 \in Bytes, NEW b4 \in Bytes, NEW b5 \in Bytes
    PROVE  \E q1, q2, q3, q4, q5 \in Parsers :
             /\ q1 = feedByte(p, b1) /\ q2 = feedByte(q1, b2) /\ q3 = feedByte(q2, b3)
             /\ q4 = feedByte(q3, b4) /\ q5 = feedByte(q4, b5) /\ FeedBytes(p, <<b1, b2, b3, b4, b5>>) = q5
  <1>1. <<b1, b2, b3, b4, b5>> \in Seq(Bytes) /\ Len(<<b1, b2, b3, b4, b5>>) = 5
    OBVIOUS
  <1>2. PICK h \in [0..5 -> Parsers] :
          /\ h[0] = p /\ FeedBytes(p, <<b1, b2, b3, b4, b5>>) = h[5]
          /\ \A i \in 1..5 : h[i] = feedByte(h[i - 1], <<b1, b2, b3, b4, b5>>[i])
    BY <1>1, BytesAreRead, ZenonT(60)
  <1>3. /\ h[1] \in Parsers /\ h[1] = feedByte(p, b1)
        /\ h[2] \in Parsers /\ h[2] = feedByte(h[1], b2)
        /\ h[3] \in Parsers /\ h[3] = feedByte(h[2], b3)
        /\ h[4] \in Parsers /\ h[4] = feedByte(h[3], b4)
        /\ h[5] \in Parsers /\ h[5] = feedByte(h[4], b5)
    BY <1>2
  <1> QED
    BY <1>2, <1>3

LEMMA SixRead ==
    ASSUME NEW p \in Parsers, NEW b1 \in Bytes, NEW b2 \in Bytes, NEW b3 \in Bytes, NEW b4 \in Bytes, NEW b5 \in Bytes, NEW b6 \in Bytes
    PROVE  \E q1, q2, q3, q4, q5, q6 \in Parsers :
             /\ q1 = feedByte(p, b1) /\ q2 = feedByte(q1, b2) /\ q3 = feedByte(q2, b3)
             /\ q4 = feedByte(q3, b4) /\ q5 = feedByte(q4, b5) /\ q6 = feedByte(q5, b6)
             /\ FeedBytes(p, <<b1, b2, b3, b4, b5, b6>>) = q6
  <1>1. <<b1, b2, b3, b4, b5, b6>> \in Seq(Bytes) /\ Len(<<b1, b2, b3, b4, b5, b6>>) = 6
    OBVIOUS
  <1>2. PICK h \in [0..6 -> Parsers] :
          /\ h[0] = p /\ FeedBytes(p, <<b1, b2, b3, b4, b5, b6>>) = h[6]
          /\ \A i \in 1..6 : h[i] = feedByte(h[i - 1], <<b1, b2, b3, b4, b5, b6>>[i])
    BY <1>1, BytesAreRead, SMTT(40)
  <1>3. /\ h[1] \in Parsers /\ h[1] = feedByte(p, b1)
        /\ h[2] \in Parsers /\ h[2] = feedByte(h[1], b2)
        /\ h[3] \in Parsers /\ h[3] = feedByte(h[2], b3)
        /\ h[4] \in Parsers /\ h[4] = feedByte(h[3], b4)
        /\ h[5] \in Parsers /\ h[5] = feedByte(h[4], b5)
        /\ h[6] \in Parsers /\ h[6] = feedByte(h[5], b6)
    BY <1>2
  <1> QED
    BY <1>2, <1>3

LEMMA SevenRead ==
    ASSUME NEW p \in Parsers, NEW b1 \in Bytes, NEW b2 \in Bytes, NEW b3 \in Bytes, NEW b4 \in Bytes, NEW b5 \in Bytes, NEW b6 \in Bytes, NEW b7 \in Bytes
    PROVE  \E q1, q2, q3, q4, q5, q6, q7 \in Parsers :
             /\ q1 = feedByte(p, b1) /\ q2 = feedByte(q1, b2) /\ q3 = feedByte(q2, b3)
             /\ q4 = feedByte(q3, b4) /\ q5 = feedByte(q4, b5) /\ q6 = feedByte(q5, b6)
             /\ q7 = feedByte(q6, b7) /\ FeedBytes(p, <<b1, b2, b3, b4, b5, b6, b7>>) = q7
  <1>1. <<b1, b2, b3, b4, b5, b6, b7>> \in Seq(Bytes) /\ Len(<<b1, b2, b3, b4, b5, b6, b7>>) = 7
    OBVIOUS
  <1>2. PICK h \in [0..7 -> Parsers] :
          /\ h[0] = p /\ FeedBytes(p, <<b1, b2, b3, b4, b5, b6, b7>>) = h[7]
          /\ \A i \in 1..7 : h[i] = feedByte(h[i - 1], <<b1, b2, b3, b4, b5, b6, b7>>[i])
    BY <1>1, BytesAreRead, ZenonT(60)
  <1>3. /\ h[1] \in Parsers /\ h[1] = feedByte(p, b1)
        /\ h[2] \in Parsers /\ h[2] = feedByte(h[1], b2)
        /\ h[3] \in Parsers /\ h[3] = feedByte(h[2], b3)
        /\ h[4] \in Parsers /\ h[4] = feedByte(h[3], b4)
        /\ h[5] \in Parsers /\ h[5] = feedByte(h[4], b5)
        /\ h[6] \in Parsers /\ h[6] = feedByte(h[5], b6)
        /\ h[7] \in Parsers /\ h[7] = feedByte(h[6], b7)
    BY <1>2
  <1> QED
    BY <1>2, <1>3

LEMMA SetsAre == /\ <<"ASCII", "DecSpecial">>[1] = "ASCII" /\ <<"ASCII", "DecSpecial">>[2] = "DecSpecial"
                 /\ <<"DecSpecial", "DecSpecial">>[1] = "DecSpecial" /\ <<"DecSpecial", "DecSpecial">>[2] = "DecSpecial"
  OBVIOUS

LEMMA LetterRead ==
    ASSUME NEW p, NEW m, Resting(p, m)
    PROVE  Resting(FeedBytes(p, <<"a">>), Append(m, <<"a">>))
  <1>1. "a" \in Bytes
    BY DEF Bytes
  <1>2. PICK q1 \in Parsers :
          /\ q1 = feedByte(p, "a") /\ FeedBytes(p, <<"a">>) = q1
    BY <1>1, OneRead DEF Resting
  <1>3. p \in Parsers /\ p.state = "Ground" /\ p.seq = <<>> /\ p.out = m /\ p.sets = <<"ASCII", "DecSpecial">> /\ p.gl = 1
    BY DEF Resting
  <1>4. q1.state = "Ground" /\ q1.out = Append(m, <<"a">>) /\ q1.sets = <<"ASCII", "DecSpecial">> /\ q1.gl = 1 /\ q1.seq = <<>>
    BY <1>2, <1>3, LeadIsRead, SetsAre DEF IsAt
  <1> QED
    BY <1>2, <1>4 DEF Resting

LEMMA DigitRead ==
    ASSUME NEW p, NEW m, Resting(p, m)
    PROVE  Resting(FeedBytes(p, <<"0">>), Append(m, <<"0">>))
  <1>1. "0" \in Bytes
    BY DEF Bytes
  <1>2. PICK q1 \in Parsers :
          /\ q1 = feedByte(p, "0") /\ FeedBytes(p, <<"0">>) = q1
    BY <1>1, OneRead DEF Resting
  <1>3. p \in Parsers /\ p.state = "Ground" /\ p.seq = <<>> /\ p.out = m /\ p.sets = <<"ASCII", "DecSpecial">> /\ p.gl = 1
    BY DEF Resting
  <1>4. q1.state = "Ground" /\ q1.out = Append(m, <<"0">>) /\ q1.sets = <<"ASCII", "DecSpecial">> /\ q1.gl = 1 /\ q1.seq = <<>>
    BY <1>2, <1>3, LeadIsRead, SetsAre DEF IsAt
  <1> QED
    BY <1>2, <1>4 DEF Resting

LEMMA BracketRead ==
    ASSUME NEW p, NEW m, Resting(p, m)
    PROVE  Resting(FeedBytes(p, <<"[">>), Append(m, <<"[">>))
  <1>1. "[" \in Bytes
    BY DEF Bytes
  <1>2. PICK q1 \in Parsers :
          /\ q1 = feedByte(p, "[") /\ FeedBytes(p, <<"[">>) = q1
    BY <1>1, OneRead DEF Resting
  <1>3. p \in Parsers /\ p.state = "Ground" /\ p.seq = <<>> /\ p.out = m /\ p.sets = <<"ASCII", "DecSpecial">> /\ p.gl = 1
    BY DEF Resting
  <1>4. q1.state = "Ground" /\ q1.out = Append(m, <<"[">>) /\ q1.sets = <<"ASCII", "DecSpecial">> /\ q1.gl = 1 /\ q1.seq = <<>>
    BY <1>2, <1>3, LeadIsRead, SetsAre DEF IsAt
  <1> QED
    BY <1>2, <1>4 DEF Resting

LEMMA TwoBytesRead ==
    ASSUME NEW p, NEW m, Resting(p, m)
    PROVE  Resting(FeedBytes(p, <<"2", "x">>), Append(m, <<"2", "x">>))
  <1>1. "2" \in Bytes /\ "x" \in Bytes
    BY DEF Bytes
  <1>2. PICK q1, q2 \in Parsers :
          /\ q1 = feedByte(p, "2") /\ q2 = feedByte(q1, "x") /\ FeedBytes(p, <<"2", "x">>) = q2
    BY <1>1, TwoRead DEF Resting
  <1>3. p \in Parsers /\ p.state = "Ground" /\ p.seq = <<>> /\ p.out = m /\ p.sets = <<"ASCII", "DecSpecial">> /\ p.gl = 1
    BY DEF Resting
  <1>4. q1.state = "Ground" /\ q1.out = m /\ q1.sets = <<"ASCII", "DecSpecial">> /\ q1.gl = 1 /\ q1.seq = <<>> /\ q1.utf8 = <<"2">>
    BY <1>2, <1>3, LeadIsRead DEF IsAt
  <1>5. q2.state = "Ground" /\ q2.out = Append(m, <<"2", "x">>) /\ q2.sets = <<"ASCII", "DecSpecial">> /\ q2.gl = 1 /\ q2.seq = <<>>
    BY <1>2, <1>4, RestIsRead DEF IsAt
  <1> QED
    BY <1>2, <1>5 DEF Resting

LEMMA ThreeBytesRead ==
    ASSUME NEW p, NEW m, Resting(p, m)
    PROVE  Resting(FeedBytes(p, <<"3", "x", "x">>), Append(m, <<"3", "x", "x">>))
  <1>1. "3" \in Bytes /\ "x" \in Bytes
    BY DEF Bytes
  <1>2. PICK q1, q2, q3 \in Parsers :
          /\ q1 = feedByte(p, "3") /\ q2 = feedByte(q1, "x") /\ q3 = feedByte(q2, "x")
          /\ FeedBytes(p, <<"3", "x", "x">>) = q3
    BY <1>1, ThreeRead DEF Resting
  <1>3. p \in Parsers /\ p.state = "Ground" /\ p.seq = <<>> /\ p.out = m /\ p.sets = <<"ASCII", "DecSpecial">> /\ p.gl = 1
    BY DEF Resting
  <1>4. q1.state = "Ground" /\ q1.out = m /\ q1.sets = <<"ASCII", "DecSpecial">> /\ q1.gl = 1 /\ q1.seq = <<>> /\ q1.utf8 = <<"3">>
    BY <1>2, <1>3, LeadIsRead DEF IsAt
  <1>5. q2.state = "Ground" /\ q2.out = m /\ q2.sets = <<"ASCII", "DecSpecial">> /\ q2.gl = 1 /\ q2.seq = <<>> /\ q2.utf8 = <<"3", "x">>
    BY <1>2, <1>4, RestIsRead DEF IsAt
  <1>6. q3.state = "Ground" /\ q3.out = Append(m, <<"3", "x", "x">>) /\ q3.sets = <<"ASCII", "DecSpecial">> /\ q3.gl = 1 /\ q3.seq = <<>>
    BY <1>2, <1>5, RestIsRead DEF IsAt
  <1> QED
    BY <1>2, <1>6 DEF Resting

LEMMA BadRead ==
    ASSUME NEW p, NEW m, Resting(p, m)
    PROVE  Resting(FeedBytes(p, <<"bad">>), Append(m, <<"U+FFFD">>))
  <1>1. "bad" \in Bytes
    BY DEF Bytes
  <1>2. PICK q1 \in Parsers :
          /\ q1 = feedByte(p, "bad") /\ FeedBytes(p, <<"bad">>) = q1
    BY <1>1, OneRead DEF Resting
  <1>3. p \in Parsers /\ p.state = "Ground" /\ p.seq = <<>> /\ p.out = m /\ p.sets = <<"ASCII", "DecSpecial">> /\ p.gl = 1
    BY DEF Resting
  <1>4. q1.state = "Ground" /\ q1.out = Append(m, <<"U+FFFD">>) /\ q1.sets = <<"ASCII", "DecSpecial">> /\ q1.gl = 1 /\ q1.seq = <<>>
    BY <1>2, <1>3, LeadIsRead DEF IsAt
  <1> QED
    BY <1>2, <1>4 DEF Resting

LEMMA LineFeedRead ==
    ASSUME NEW p, NEW m, Resting(p, m)
    PROVE  Resting(FeedBytes(p, <<"LF">>), Append(m, <<"LF">>))
  <1>1. "LF" \in Bytes
    BY DEF Bytes
  <1>2. PICK q1 \in Parsers :
          /\ q1 = feedByte(p, "LF") /\ FeedBytes(p, <<"LF">>) = q1
    BY <1>1, OneRead DEF Resting
  <1>3. p \in Parsers /\ p.state = "Ground" /\ p.seq = <<>> /\ p.out = m /\ p.sets = <<"ASCII", "DecSpecial">> /\ p.gl = 1
    BY DEF Resting
  <1>4. q1.state = "Ground" /\ q1.out = Append(m, <<"LF">>) /\ q1.sets = <<"ASCII", "DecSpecial">> /\ q1.gl = 1 /\ q1.seq = <<>>
    BY <1>2, <1>3, ControlIsRead DEF IsAt
  <1> QED
    BY <1>2, <1>4 DEF Resting

LEMMA EscapeRead ==
    ASSUME NEW p, NEW m, Resting(p, m)
    PROVE  Resting(FeedBytes(p, <<"ESC", "a">>), Append(m, <<"escape", "a">>))
  <1>1. "ESC" \in Bytes /\ "a" \in Bytes
    BY DEF Bytes
  <1>2. PICK q1, q2 \in Parsers :
          /\ q1 = feedByte(p, "ESC") /\ q2 = feedByte(q1, "a") /\ FeedBytes(p, <<"ESC", "a">>) = q2
    BY <1>1, TwoRead DEF Resting
  <1>3. p \in Parsers /\ p.state = "Ground" /\ p.seq = <<>> /\ p.out = m /\ p.sets = <<"ASCII", "DecSpecial">> /\ p.gl = 1
    BY DEF Resting
  <1>4. q1.state = "Escape" /\ q1.out = m /\ q1.sets = <<"ASCII", "DecSpecial">> /\ q1.gl = 1
    BY <1>2, <1>3, ControlIsRead DEF IsAt
  <1>5. q2.state = "Ground" /\ q2.out = Append(m, <<"escape", "a">>) /\ q2.sets = <<"ASCII", "DecSpecial">> /\ q2.gl = 1 /\ q2.seq = <<>>
    BY <1>2, <1>4, SequenceStarts DEF IsAt
  <1> QED
    BY <1>2, <1>5 DEF Resting

LEMMA ShiftedRead ==
    ASSUME NEW p, NEW m, Resting(p, m)
    PROVE  Resting(FeedBytes(p, <<"SO", "a", "2", "x", "SI">>), Append(Append(m, <<"line drawing", "a">>), <<"2", "x">>))
  <1>1. "SO" \in Bytes /\ "a" \in Bytes /\ "2" \in Bytes /\ "x" \in Bytes /\ "SI" \in Bytes
    BY DEF Bytes
  <1>2. PICK q1, q2, q3, q4, q5 \in Parsers :
          /\ q1 = feedByte(p, "SO") /\ q2 = feedByte(q1, "a") /\ q3 = feedByte(q2, "2")
          /\ q4 = feedByte(q3, "x") /\ q5 = feedByte(q4, "SI") /\ FeedBytes(p, <<"SO", "a", "2", "x", "SI">>) = q5
    BY <1>1, FiveRead DEF Resting
  <1>3. p \in Parsers /\ p.state = "Ground" /\ p.seq = <<>> /\ p.out = m /\ p.sets = <<"ASCII", "DecSpecial">> /\ p.gl = 1
    BY DEF Resting
  <1>4. q1.state = "Ground" /\ q1.out = m /\ q1.sets = <<"ASCII", "DecSpecial">> /\ q1.gl = 2 /\ q1.seq = <<>>
    <2>1. IsAt(feedByte(p, "SO"), "Ground", p.seq, p.utf8, p.out, p.sets, 2, p.slot)
      BY <1>2, <1>3, ControlIsRead
    <2> QED
      BY <1>2, <1>3, <2>1 DEF IsAt
  <1>5. q2.state = "Ground" /\ q2.out = Append(m, <<"line drawing", "a">>) /\ q2.sets = <<"ASCII", "DecSpecial">> /\ q2.gl = 2 /\ q2.seq = <<>>
    <2>1. IsAt(feedByte(q1, "a"), "Ground", q1.seq, <<>>, Append(q1.out, <<"line drawing", "a">>), q1.sets, q1.gl, q1.slot)
      BY <1>2, <1>4, LineIsDrawn, SetsAre
    <2> QED
      BY <1>2, <1>4, <2>1, SetsAre DEF IsAt
  <1>6. q3.state = "Ground" /\ q3.out = Append(m, <<"line drawing", "a">>) /\ q3.sets = <<"ASCII", "DecSpecial">> /\ q3.gl = 2 /\ q3.seq = <<>> /\ q3.utf8 = <<"2">>
    BY <1>2, <1>5, LeadIsRead DEF IsAt
  <1>7. q4.state = "Ground" /\ q4.out = Append(Append(m, <<"line drawing", "a">>), <<"2", "x">>) /\ q4.sets = <<"ASCII", "DecSpecial">> /\ q4.gl = 2 /\ q4.seq = <<>>
    BY <1>2, <1>6, RestIsRead DEF IsAt
  <1>8. q5.state = "Ground" /\ q5.out = Append(Append(m, <<"line drawing", "a">>), <<"2", "x">>) /\ q5.sets = <<"ASCII", "DecSpecial">> /\ q5.gl = 1 /\ q5.seq = <<>>
    <2>1. IsAt(feedByte(q4, "SI"), "Ground", q4.seq, q4.utf8, q4.out, q4.sets, 1, q4.slot)
      BY <1>2, <1>7, ControlIsRead
    <2> QED
      BY <1>2, <1>7, <2>1 DEF IsAt
  <1> QED
    BY <1>2, <1>8 DEF Resting

LEMMA DrawnRead ==
    ASSUME NEW p, NEW m, Resting(p, m)
    PROVE  Resting(FeedBytes(p, <<"ESC", "(", "0", "a", "ESC", "(", "a">>), Append(m, <<"line drawing", "a">>))
  <1>1. "ESC" \in Bytes /\ "(" \in Bytes /\ "0" \in Bytes /\ "a" \in Bytes
    BY DEF Bytes
  <1>2. PICK q1, q2, q3, q4, q5, q6, q7 \in Parsers :
          /\ q1 = feedByte(p, "ESC") /\ q2 = feedByte(q1, "(") /\ q3 = feedByte(q2, "0")
          /\ q4 = feedByte(q3, "a") /\ q5 = feedByte(q4, "ESC") /\ q6 = feedByte(q5, "(")
          /\ q7 = feedByte(q6, "a") /\ FeedBytes(p, <<"ESC", "(", "0", "a", "ESC", "(", "a">>) = q7
    BY <1>1, SevenRead DEF Resting
  <1>3. p \in Parsers /\ p.state = "Ground" /\ p.seq = <<>> /\ p.out = m /\ p.sets = <<"ASCII", "DecSpecial">> /\ p.gl = 1
    BY DEF Resting
  <1>4. q1.state = "Escape" /\ q1.out = m /\ q1.sets = <<"ASCII", "DecSpecial">> /\ q1.gl = 1 /\ q1.seq = <<>>
    <2>1. IsAt(feedByte(p, "ESC"), "Escape", <<>>, p.utf8, p.out, p.sets, p.gl, p.slot)
      BY <1>2, <1>3, ControlIsRead
    <2> QED
      BY <1>2, <1>3, <2>1 DEF IsAt
  <1>5. q2.state = "Charset" /\ q2.out = m /\ q2.sets = <<"ASCII", "DecSpecial">> /\ q2.gl = 1 /\ q2.seq = <<>> /\ q2.slot = 1
    <2>1. IsAt(feedByte(q1, "("), "Charset", <<>>, q1.utf8, q1.out, q1.sets, q1.gl, 1)
      BY <1>2, <1>4, SequenceStarts
    <2> QED
      BY <1>2, <1>4, <2>1 DEF IsAt
  <1>6. q3.state = "Ground" /\ q3.out = m /\ q3.sets = <<"DecSpecial", "DecSpecial">> /\ q3.gl = 1 /\ q3.seq = <<>>
    <2>1. IsAt(feedByte(q2, "0"), "Ground", q2.seq, q2.utf8, q2.out, <<"DecSpecial", q2.sets[2]>>, q2.gl, 1)
      BY <1>2, <1>5, CharsetIsRead
    <2>2. q2.sets[2] = "DecSpecial"
      BY <1>5, SetsAre
    <2>3. q3 = feedByte(q2, "0")
      BY <1>2
    <2> QED
      BY <1>5, <2>1, <2>2, <2>3 DEF IsAt
  <1>7. q4.state = "Ground" /\ q4.out = Append(m, <<"line drawing", "a">>) /\ q4.sets = <<"DecSpecial", "DecSpecial">> /\ q4.gl = 1 /\ q4.seq = <<>>
    <2>1. IsAt(feedByte(q3, "a"), "Ground", q3.seq, <<>>, Append(q3.out, <<"line drawing", "a">>), q3.sets, q3.gl, q3.slot)
      BY <1>2, <1>6, LineIsDrawn, SetsAre
    <2> QED
      BY <1>2, <1>6, <2>1, SetsAre DEF IsAt
  <1>8. q5.state = "Escape" /\ q5.out = Append(m, <<"line drawing", "a">>) /\ q5.sets = <<"DecSpecial", "DecSpecial">> /\ q5.gl = 1 /\ q5.seq = <<>>
    <2>1. IsAt(feedByte(q4, "ESC"), "Escape", <<>>, q4.utf8, q4.out, q4.sets, q4.gl, q4.slot)
      BY <1>2, <1>7, ControlIsRead
    <2> QED
      BY <1>2, <1>7, <2>1 DEF IsAt
  <1>9. q6.state = "Charset" /\ q6.out = Append(m, <<"line drawing", "a">>) /\ q6.sets = <<"DecSpecial", "DecSpecial">> /\ q6.gl = 1 /\ q6.seq = <<>> /\ q6.slot = 1
    <2>1. IsAt(feedByte(q5, "("), "Charset", <<>>, q5.utf8, q5.out, q5.sets, q5.gl, 1)
      BY <1>2, <1>8, SequenceStarts
    <2> QED
      BY <1>2, <1>8, <2>1 DEF IsAt
  <1>10. q7.state = "Ground" /\ q7.out = Append(m, <<"line drawing", "a">>) /\ q7.sets = <<"ASCII", "DecSpecial">> /\ q7.gl = 1 /\ q7.seq = <<>>
    <2>1. IsAt(feedByte(q6, "a"), "Ground", q6.seq, q6.utf8, q6.out, <<"ASCII", q6.sets[2]>>, q6.gl, 1)
      BY <1>2, <1>9, CharsetIsRead
    <2>2. q6.sets[2] = "DecSpecial"
      BY <1>9, SetsAre
    <2>3. q7 = feedByte(q6, "a")
      BY <1>2
    <2> QED
      BY <1>9, <2>1, <2>2, <2>3 DEF IsAt
  <1> QED
    BY <1>2, <1>10 DEF Resting

LEMMA PlainCsiRead ==
    ASSUME NEW p, NEW m, Resting(p, m)
    PROVE  Resting(FeedBytes(p, <<"ESC", "[", "a">>), Append(m, <<"csi", "a", <<>>>>))
  <1>1. "ESC" \in Bytes /\ "[" \in Bytes /\ "a" \in Bytes
    BY DEF Bytes
  <1>2. PICK q1, q2, q3 \in Parsers :
          /\ q1 = feedByte(p, "ESC") /\ q2 = feedByte(q1, "[") /\ q3 = feedByte(q2, "a")
          /\ FeedBytes(p, <<"ESC", "[", "a">>) = q3
    BY <1>1, ThreeRead DEF Resting
  <1>3. p \in Parsers /\ p.state = "Ground" /\ p.seq = <<>> /\ p.out = m /\ p.sets = <<"ASCII", "DecSpecial">> /\ p.gl = 1
    BY DEF Resting
  <1>4. q1.state = "Escape" /\ q1.out = m /\ q1.sets = <<"ASCII", "DecSpecial">> /\ q1.gl = 1
    <2>1. IsAt(feedByte(p, "ESC"), "Escape", <<>>, p.utf8, p.out, p.sets, p.gl, p.slot)
      BY <1>2, <1>3, ControlIsRead
    <2> QED
      BY <1>2, <1>3, <2>1 DEF IsAt
  <1>5. q2.state = "Csi" /\ q2.out = m /\ q2.sets = <<"ASCII", "DecSpecial">> /\ q2.gl = 1 /\ q2.seq = <<>>
    <2>1. IsAt(feedByte(q1, "["), "Csi", <<>>, q1.utf8, q1.out, q1.sets, q1.gl, q1.slot)
      BY <1>2, <1>4, SequenceStarts
    <2> QED
      BY <1>2, <1>4, <2>1 DEF IsAt
  <1>6. q3.state = "Ground" /\ q3.out = Append(m, <<"csi", "a", <<>>>>) /\ q3.sets = <<"ASCII", "DecSpecial">> /\ q3.gl = 1 /\ q3.seq = <<>>
    BY <1>2, <1>5, CsiIsRead DEF IsAt
  <1> QED
    BY <1>2, <1>6 DEF Resting

LEMMA LongCsiRead ==
    ASSUME NEW p, NEW m, Resting(p, m)
    PROVE  Resting(FeedBytes(p, <<"ESC", "[", "0", "0", "0", "a">>), Append(m, <<"csi", "a", Stored(Stored(Stored(<<>>, "0"), "0"), "0")>>))
  <1>1. "ESC" \in Bytes /\ "[" \in Bytes /\ "0" \in Bytes /\ "a" \in Bytes
    BY DEF Bytes
  <1>2. PICK q1, q2, q3, q4, q5, q6 \in Parsers :
          /\ q1 = feedByte(p, "ESC") /\ q2 = feedByte(q1, "[") /\ q3 = feedByte(q2, "0")
          /\ q4 = feedByte(q3, "0") /\ q5 = feedByte(q4, "0") /\ q6 = feedByte(q5, "a")
          /\ FeedBytes(p, <<"ESC", "[", "0", "0", "0", "a">>) = q6
    BY <1>1, SixRead DEF Resting
  <1>3. p \in Parsers /\ p.state = "Ground" /\ p.seq = <<>> /\ p.out = m /\ p.sets = <<"ASCII", "DecSpecial">> /\ p.gl = 1
    BY DEF Resting
  <1>4. q1.state = "Escape" /\ q1.out = m /\ q1.sets = <<"ASCII", "DecSpecial">> /\ q1.gl = 1
    <2>1. IsAt(feedByte(p, "ESC"), "Escape", <<>>, p.utf8, p.out, p.sets, p.gl, p.slot)
      BY <1>2, <1>3, ControlIsRead
    <2> QED
      BY <1>2, <1>3, <2>1 DEF IsAt
  <1>5. q2.state = "Csi" /\ q2.out = m /\ q2.sets = <<"ASCII", "DecSpecial">> /\ q2.gl = 1 /\ q2.seq = <<>>
    <2>1. IsAt(feedByte(q1, "["), "Csi", <<>>, q1.utf8, q1.out, q1.sets, q1.gl, q1.slot)
      BY <1>2, <1>4, SequenceStarts
    <2> QED
      BY <1>2, <1>4, <2>1 DEF IsAt
  <1>6. q3.state = "Csi" /\ q3.out = m /\ q3.sets = <<"ASCII", "DecSpecial">> /\ q3.gl = 1 /\ q3.seq = Stored(<<>>, "0")
    BY <1>2, <1>5, CsiIsRead DEF IsAt
  <1>7. q4.state = "Csi" /\ q4.out = m /\ q4.sets = <<"ASCII", "DecSpecial">> /\ q4.gl = 1 /\ q4.seq = Stored(Stored(<<>>, "0"), "0")
    BY <1>2, <1>6, CsiIsRead DEF IsAt
  <1>8. q5.state = "Csi" /\ q5.out = m /\ q5.sets = <<"ASCII", "DecSpecial">> /\ q5.gl = 1 /\ q5.seq = Stored(Stored(Stored(<<>>, "0"), "0"), "0")
    BY <1>2, <1>7, CsiIsRead DEF IsAt
  <1>9. q6.state = "Ground" /\ q6.out = Append(m, <<"csi", "a", Stored(Stored(Stored(<<>>, "0"), "0"), "0")>>) /\ q6.sets = <<"ASCII", "DecSpecial">> /\ q6.gl = 1 /\ q6.seq = <<>>
    BY <1>2, <1>8, CsiIsRead, SMTT(40) DEF IsAt
  <1> QED
    BY <1>2, <1>9 DEF Resting

LEMMA BellEndsRead ==
    ASSUME NEW p, NEW m, Resting(p, m)
    PROVE  Resting(FeedBytes(p, <<"ESC", "]", "0", "a", "3", "BEL">>), Append(m, <<"osc">>))
  <1>1. "ESC" \in Bytes /\ "]" \in Bytes /\ "0" \in Bytes /\ "a" \in Bytes /\ "3" \in Bytes /\ "BEL" \in Bytes
    BY DEF Bytes
  <1>2. PICK q1, q2, q3, q4, q5, q6 \in Parsers :
          /\ q1 = feedByte(p, "ESC") /\ q2 = feedByte(q1, "]") /\ q3 = feedByte(q2, "0")
          /\ q4 = feedByte(q3, "a") /\ q5 = feedByte(q4, "3") /\ q6 = feedByte(q5, "BEL")
          /\ FeedBytes(p, <<"ESC", "]", "0", "a", "3", "BEL">>) = q6
    BY <1>1, SixRead DEF Resting
  <1>3. p \in Parsers /\ p.state = "Ground" /\ p.seq = <<>> /\ p.out = m /\ p.sets = <<"ASCII", "DecSpecial">> /\ p.gl = 1
    BY DEF Resting
  <1>4. q1.state = "Escape" /\ q1.out = m /\ q1.sets = <<"ASCII", "DecSpecial">> /\ q1.gl = 1
    <2>1. IsAt(feedByte(p, "ESC"), "Escape", <<>>, p.utf8, p.out, p.sets, p.gl, p.slot)
      BY <1>2, <1>3, ControlIsRead
    <2> QED
      BY <1>2, <1>3, <2>1 DEF IsAt
  <1>5. q2.state = "Osc" /\ q2.out = m /\ q2.sets = <<"ASCII", "DecSpecial">> /\ q2.gl = 1
    <2>1. IsAt(feedByte(q1, "]"), "Osc", <<>>, q1.utf8, q1.out, q1.sets, q1.gl, q1.slot)
      BY <1>2, <1>4, SequenceStarts
    <2> QED
      BY <1>2, <1>4, <2>1 DEF IsAt
  <1>6. q3.state = "Osc" /\ q3.out = m /\ q3.sets = <<"ASCII", "DecSpecial">> /\ q3.gl = 1
    <2>1. IsAt(feedByte(q2, "0"), "Osc", Stored(q2.seq, "0"), q2.utf8, q2.out, q2.sets, q2.gl, q2.slot)
      BY <1>2, <1>5, OscIsRead
    <2> QED
      BY <1>2, <1>5, <2>1 DEF IsAt
  <1>7. q4.state = "Osc" /\ q4.out = m /\ q4.sets = <<"ASCII", "DecSpecial">> /\ q4.gl = 1
    <2>1. IsAt(feedByte(q3, "a"), "Osc", Stored(q3.seq, "a"), q3.utf8, q3.out, q3.sets, q3.gl, q3.slot)
      BY <1>2, <1>6, OscIsRead
    <2> QED
      BY <1>2, <1>6, <2>1 DEF IsAt
  <1>8. q5.state = "Osc" /\ q5.out = m /\ q5.sets = <<"ASCII", "DecSpecial">> /\ q5.gl = 1
    <2>1. IsAt(feedByte(q4, "3"), "Osc", Stored(q4.seq, "3"), q4.utf8, q4.out, q4.sets, q4.gl, q4.slot)
      BY <1>2, <1>7, OscIsRead
    <2> QED
      BY <1>2, <1>7, <2>1 DEF IsAt
  <1>9. q6.state = "Ground" /\ q6.out = Append(m, <<"osc">>) /\ q6.sets = <<"ASCII", "DecSpecial">> /\ q6.gl = 1 /\ q6.seq = <<>>
    <2>1. IsAt(feedByte(q5, "BEL"), "Ground", <<>>, q5.utf8, Append(q5.out, <<"osc">>), q5.sets, q5.gl, q5.slot)
      BY <1>2, <1>8, OscIsRead
    <2> QED
      BY <1>2, <1>8, <2>1 DEF IsAt
  <1> QED
    BY <1>2, <1>9 DEF Resting

LEMMA EscapeIsLast ==
    ASSUME NEW q \in Parsers
    PROVE  Append(q.seq, "ESC") # <<>> /\ Last(Append(q.seq, "ESC")) = "ESC"
  <1>1. q.seq \in Seq(Bytes) /\ "ESC" \in Bytes
    BY DEF Parsers, Bytes
  <1>2. Append(q.seq, "ESC") # <<>> /\ Len(Append(q.seq, "ESC")) = Len(q.seq) + 1 /\ Append(q.seq, "ESC")[Len(q.seq) + 1] = "ESC"
    BY <1>1, AppendProperties
  <1> QED
    BY <1>2 DEF Last

LEMMA EscapeEndsRead ==
    ASSUME NEW p, NEW m, Resting(p, m)
    PROVE  Resting(FeedBytes(p, <<"ESC", "]", "a", "a", "a", "ESC", "\\">>), Append(m, <<"osc">>))
  <1>1. "ESC" \in Bytes /\ "]" \in Bytes /\ "a" \in Bytes /\ "\\" \in Bytes
    BY DEF Bytes
  <1>2. PICK q1, q2, q3, q4, q5, q6, q7 \in Parsers :
          /\ q1 = feedByte(p, "ESC") /\ q2 = feedByte(q1, "]") /\ q3 = feedByte(q2, "a")
          /\ q4 = feedByte(q3, "a") /\ q5 = feedByte(q4, "a") /\ q6 = feedByte(q5, "ESC")
          /\ q7 = feedByte(q6, "\\") /\ FeedBytes(p, <<"ESC", "]", "a", "a", "a", "ESC", "\\">>) = q7
    BY <1>1, SevenRead DEF Resting
  <1>3. p \in Parsers /\ p.state = "Ground" /\ p.seq = <<>> /\ p.out = m /\ p.sets = <<"ASCII", "DecSpecial">> /\ p.gl = 1
    BY DEF Resting
  <1>4. q1.state = "Escape" /\ q1.out = m /\ q1.sets = <<"ASCII", "DecSpecial">> /\ q1.gl = 1
    <2>1. IsAt(feedByte(p, "ESC"), "Escape", <<>>, p.utf8, p.out, p.sets, p.gl, p.slot)
      BY <1>2, <1>3, ControlIsRead
    <2> QED
      BY <1>2, <1>3, <2>1 DEF IsAt
  <1>5. q2.state = "Osc" /\ q2.out = m /\ q2.sets = <<"ASCII", "DecSpecial">> /\ q2.gl = 1
    <2>1. IsAt(feedByte(q1, "]"), "Osc", <<>>, q1.utf8, q1.out, q1.sets, q1.gl, q1.slot)
      BY <1>2, <1>4, SequenceStarts
    <2> QED
      BY <1>2, <1>4, <2>1 DEF IsAt
  <1>6. q3.state = "Osc" /\ q3.out = m /\ q3.sets = <<"ASCII", "DecSpecial">> /\ q3.gl = 1
    <2>1. IsAt(feedByte(q2, "a"), "Osc", Stored(q2.seq, "a"), q2.utf8, q2.out, q2.sets, q2.gl, q2.slot)
      BY <1>2, <1>5, OscIsRead
    <2> QED
      BY <1>2, <1>5, <2>1 DEF IsAt
  <1>7. q4.state = "Osc" /\ q4.out = m /\ q4.sets = <<"ASCII", "DecSpecial">> /\ q4.gl = 1
    <2>1. IsAt(feedByte(q3, "a"), "Osc", Stored(q3.seq, "a"), q3.utf8, q3.out, q3.sets, q3.gl, q3.slot)
      BY <1>2, <1>6, OscIsRead
    <2> QED
      BY <1>2, <1>6, <2>1 DEF IsAt
  <1>8. q5.state = "Osc" /\ q5.out = m /\ q5.sets = <<"ASCII", "DecSpecial">> /\ q5.gl = 1
    <2>1. IsAt(feedByte(q4, "a"), "Osc", Stored(q4.seq, "a"), q4.utf8, q4.out, q4.sets, q4.gl, q4.slot)
      BY <1>2, <1>7, OscIsRead
    <2> QED
      BY <1>2, <1>7, <2>1 DEF IsAt
  <1>9. q6.state = "Osc" /\ q6.out = m /\ q6.sets = <<"ASCII", "DecSpecial">> /\ q6.gl = 1 /\ q6.seq = Append(q5.seq, "ESC")
    <2>1. IsAt(feedByte(q5, "ESC"), "Osc", Append(q5.seq, "ESC"), q5.utf8, q5.out, q5.sets, q5.gl, q5.slot)
      BY <1>2, <1>8, OscIsRead
    <2> QED
      BY <1>2, <1>8, <2>1 DEF IsAt
  <1>10. q7.state = "Ground" /\ q7.out = Append(m, <<"osc">>) /\ q7.sets = <<"ASCII", "DecSpecial">> /\ q7.gl = 1 /\ q7.seq = <<>>
    <2>1. IsAt(feedByte(q6, "\\"), "Ground", <<>>, q6.utf8, Append(q6.out, <<"osc">>), q6.sets, q6.gl, q6.slot)
      BY <1>2, <1>9, OscIsRead, EscapeIsLast, ZenonT(60)
    <2> QED
      BY <1>2, <1>9, <2>1 DEF IsAt
  <1> QED
    BY <1>2, <1>10 DEF Resting

LEMMA BrokenTwoRead ==
    ASSUME NEW p, NEW m, Resting(p, m)
    PROVE  Resting(FeedBytes(p, <<"2">>), m)
  <1>1. "2" \in Bytes
    BY DEF Bytes
  <1>2. PICK q1 \in Parsers :
          /\ q1 = feedByte(p, "2") /\ FeedBytes(p, <<"2">>) = q1
    BY <1>1, OneRead DEF Resting
  <1>3. p \in Parsers /\ p.state = "Ground" /\ p.seq = <<>> /\ p.out = m /\ p.sets = <<"ASCII", "DecSpecial">> /\ p.gl = 1
    BY DEF Resting
  <1>4. q1.state = "Ground" /\ q1.out = m /\ q1.sets = <<"ASCII", "DecSpecial">> /\ q1.gl = 1 /\ q1.seq = <<>>
    BY <1>2, <1>3, LeadIsRead DEF IsAt
  <1> QED
    BY <1>2, <1>4 DEF Resting

LEMMA BrokenThreeRead ==
    ASSUME NEW p, NEW m, Resting(p, m)
    PROVE  Resting(FeedBytes(p, <<"3", "x">>), m)
  <1>1. "3" \in Bytes /\ "x" \in Bytes
    BY DEF Bytes
  <1>2. PICK q1, q2 \in Parsers :
          /\ q1 = feedByte(p, "3") /\ q2 = feedByte(q1, "x") /\ FeedBytes(p, <<"3", "x">>) = q2
    BY <1>1, TwoRead DEF Resting
  <1>3. p \in Parsers /\ p.state = "Ground" /\ p.seq = <<>> /\ p.out = m /\ p.sets = <<"ASCII", "DecSpecial">> /\ p.gl = 1
    BY DEF Resting
  <1>4. q1.state = "Ground" /\ q1.out = m /\ q1.sets = <<"ASCII", "DecSpecial">> /\ q1.gl = 1 /\ q1.seq = <<>> /\ q1.utf8 = <<"3">>
    BY <1>2, <1>3, LeadIsRead DEF IsAt
  <1>5. q2.state = "Ground" /\ q2.out = m /\ q2.sets = <<"ASCII", "DecSpecial">> /\ q2.gl = 1 /\ q2.seq = <<>>
    BY <1>2, <1>4, RestIsRead DEF IsAt
  <1> QED
    BY <1>2, <1>5 DEF Resting

LEMMA OneMore ==
    ASSUME NEW m \in Seq(Items), NEW x \in Items
    PROVE  m \o <<x>> = Append(m, x) /\ Append(m, x) \in Seq(Items)
  <1> HIDE DEF Items
  <1> QED
    BY AppendIsConcat, AppendProperties

LEMMA TwoMore ==
    ASSUME NEW m \in Seq(Items), NEW x \in Items, NEW y \in Items
    PROVE  m \o <<x, y>> = Append(Append(m, x), y)
  <1>1. <<x>> \o <<y>> = <<x, y>> /\ <<x>> \in Seq(Items) /\ <<y>> \in Seq(Items)
    <2>1. <<x>> \in Seq(Items) /\ <<y>> \in Seq(Items) /\ <<x, y>> \in Seq(Items) /\ Len(<<x>>) = 1 /\ Len(<<y>>) = 1 /\ Len(<<x, y>>) = 2
      OBVIOUS
    <2>2. /\ <<x>> \o <<y>> \in Seq(Items) /\ Len(<<x>> \o <<y>>) = 2
          /\ \A i \in 1..2 : (<<x>> \o <<y>>)[i] = <<x, y>>[i]
      BY <2>1, ConcatProperties
    <2> QED
      BY <2>1, <2>2, SeqEqual
  <1>2. m \o (<<x>> \o <<y>>) = (m \o <<x>>) \o <<y>>
    BY <1>1, ConcatAssociative
  <1>3. Append(m, x) \in Seq(Items) /\ m \o <<x>> = Append(m, x)
    BY OneMore
  <1>4. Append(m, x) \o <<y>> = Append(Append(m, x), y)
    BY <1>3, OneMore
  <1> QED
    BY <1>1, <1>2, <1>3, <1>4

(* A sequence that is too long is kept as far as it fits.                      *)
LEMMA StoredGrows ==
    ASSUME NEW q \in Seq({"0"}), Len(q) <= SeqMax
    PROVE  /\ Stored(q, "0") \in Seq({"0"}) /\ Len(Stored(q, "0")) <= SeqMax
           /\ Len(Stored(q, "0")) = IF Len(q) < SeqMax THEN Len(q) + 1 ELSE Len(q)
  <1>1. Len(q) \in Nat /\ SeqMax \in Nat
    BY ParserAssumption
  <1>2. Append(q, "0") \in Seq({"0"}) /\ Len(Append(q, "0")) = Len(q) + 1
    OBVIOUS
  <1> QED
    BY <1>1, <1>2 DEF Stored

LEMMA StoredIsKept == Stored(Stored(Stored(<<>>, "0"), "0"), "0") = Kept(<<"0", "0", "0">>)
  <1> DEFINE z == <<"0", "0", "0">>
             a == Stored(<<>>, "0")
             b == Stored(a, "0")
             c == Stored(b, "0")
             k == IF 3 < SeqMax THEN 3 ELSE SeqMax
  <1>1. SeqMax \in Nat /\ SeqMax >= 1 /\ k \in 1..3
    BY ParserAssumption
  <1>2. <<>> \in Seq({"0"}) /\ Len(<<>>) = 0
    OBVIOUS
  <1>3. a \in Seq({"0"}) /\ Len(a) <= SeqMax /\ Len(a) = 1
    <2>1. Len(<<>>) <= SeqMax /\ Len(<<>>) < SeqMax /\ Len(<<>>) + 1 = 1
      BY <1>1, <1>2
    <2>2. /\ a \in Seq({"0"}) /\ Len(a) <= SeqMax
          /\ Len(a) = IF Len(<<>>) < SeqMax THEN Len(<<>>) + 1 ELSE Len(<<>>)
      BY <1>2, <2>1, StoredGrows
    <2> QED
      BY <2>1, <2>2
  <1> HIDE DEF a
  <1>4. b \in Seq({"0"}) /\ Len(b) <= SeqMax /\ Len(b) = IF 1 < SeqMax THEN 2 ELSE 1
    <2>1. /\ b \in Seq({"0"}) /\ Len(b) <= SeqMax
          /\ Len(b) = IF Len(a) < SeqMax THEN Len(a) + 1 ELSE Len(a)
      BY <1>3, StoredGrows
    <2> QED
      BY <1>1, <1>3, <2>1
  <1> HIDE DEF b
  <1>5. c \in Seq({"0"}) /\ Len(c) = IF Len(b) < SeqMax THEN Len(b) + 1 ELSE Len(b)
    BY <1>1, <1>4, StoredGrows
  <1> HIDE DEF c
  <1>6. Len(c) = k
    BY <1>1, <1>4, <1>5
  <1>7. z \in Seq({"0"}) /\ Len(z) = 3
    OBVIOUS
  <1>8. Kept(z) = SubSeq(z, 1, k)
    BY <1>1, <1>7 DEF Kept
  <1> HIDE DEF z, k
  <1>9. SubSeq(z, 1, k) \in Seq({"0"}) /\ Len(SubSeq(z, 1, k)) = k
    BY <1>1, <1>7, SubSeqProperties
  <1>10. c = SubSeq(z, 1, k)
    <2>1. \A i \in 1..k : c[i] = "0" /\ SubSeq(z, 1, k)[i] = "0"
      BY <1>5, <1>6, <1>9, ElementOfSeq
    <2> QED
      BY <1>5, <1>6, <1>9, <2>1, SeqEqual
  <1> QED
    BY <1>8, <1>10 DEF a, b, c, z

(* Every piece is read as what it is.                                          *)
LEMMA PieceIsRead ==
    ASSUME NEW p, NEW m \in Seq(Items), Resting(p, m), NEW piece \in Pieces
    PROVE  Resting(FeedBytes(p, piece.bytes), m \o piece.read) /\ m \o piece.read \in Seq(Items)
  <1>1. /\ <<"a">> \in Items /\ <<"0">> \in Items /\ <<"[">> \in Items /\ <<"LF">> \in Items
        /\ <<"2", "x">> \in Items /\ <<"3", "x", "x">> \in Items /\ <<"U+FFFD">> \in Items /\ <<"osc">> \in Items
        /\ <<"escape", "a">> \in Items /\ <<"line drawing", "a">> \in Items
        /\ <<"csi", "a", <<>>>> \in Items /\ <<"csi", "a", Kept(<<"0", "0", "0">>)>> \in Items
    <2>1. "a" \in Bytes /\ "0" \in Bytes /\ "[" \in Bytes /\ "LF" \in Bytes /\ "2" \in Bytes /\ "3" \in Bytes /\ "x" \in Bytes
      BY DEF Bytes
    <2>2. <<>> \in Seq(Bytes) /\ <<"2", "x">> \in Seq(Bytes) /\ <<"3", "x", "x">> \in Seq(Bytes)
      BY <2>1
    <2>3. Kept(<<"0", "0", "0">>) \in Seq(Bytes)
      <3>1. <<>> \in Seq({"0"}) /\ Len(<<>>) <= SeqMax
        BY ParserAssumption
      <3>2. Stored(<<>>, "0") \in Seq({"0"}) /\ Len(Stored(<<>>, "0")) <= SeqMax
        BY <3>1, StoredGrows
      <3>3. Stored(Stored(<<>>, "0"), "0") \in Seq({"0"}) /\ Len(Stored(Stored(<<>>, "0"), "0")) <= SeqMax
        BY <3>2, StoredGrows
      <3>4. Kept(<<"0", "0", "0">>) \in Seq({"0"})
        BY <3>3, StoredGrows, StoredIsKept
      <3>5. {"0"} \subseteq Bytes
        BY <2>1
      <3> QED
        BY <3>4, <3>5, SeqMonotonic
    <2> QED
      BY <2>1, <2>2, <2>3, ItemsAre
  <1>2. ASSUME piece = [bytes |-> <<"a">>, read |-> << <<"a">> >>]
        PROVE  Resting(FeedBytes(p, piece.bytes), m \o piece.read) /\ m \o piece.read \in Seq(Items)
    <2>1. Resting(FeedBytes(p, <<"a">>), Append(m, <<"a">>))
      BY LetterRead
    <2>2. m \o <<<<"a">>>> = Append(m, <<"a">>) /\ Append(m, <<"a">>) \in Seq(Items)
      BY <1>1, OneMore
    <2> QED
      BY <1>2, <2>1, <2>2
  <1>3. ASSUME piece = [bytes |-> <<"0">>, read |-> << <<"0">> >>]
        PROVE  Resting(FeedBytes(p, piece.bytes), m \o piece.read) /\ m \o piece.read \in Seq(Items)
    <2>1. Resting(FeedBytes(p, <<"0">>), Append(m, <<"0">>))
      BY DigitRead
    <2>2. m \o <<<<"0">>>> = Append(m, <<"0">>) /\ Append(m, <<"0">>) \in Seq(Items)
      BY <1>1, OneMore
    <2> QED
      BY <1>3, <2>1, <2>2
  <1>4. ASSUME piece = [bytes |-> <<"[">>, read |-> << <<"[">> >>]
        PROVE  Resting(FeedBytes(p, piece.bytes), m \o piece.read) /\ m \o piece.read \in Seq(Items)
    <2>1. Resting(FeedBytes(p, <<"[">>), Append(m, <<"[">>))
      BY BracketRead
    <2>2. m \o <<<<"[">>>> = Append(m, <<"[">>) /\ Append(m, <<"[">>) \in Seq(Items)
      BY <1>1, OneMore
    <2> QED
      BY <1>4, <2>1, <2>2
  <1>5. ASSUME piece = [bytes |-> <<"2", "x">>, read |-> << <<"2", "x">> >>]
        PROVE  Resting(FeedBytes(p, piece.bytes), m \o piece.read) /\ m \o piece.read \in Seq(Items)
    <2>1. Resting(FeedBytes(p, <<"2", "x">>), Append(m, <<"2", "x">>))
      BY TwoBytesRead
    <2>2. m \o <<<<"2", "x">>>> = Append(m, <<"2", "x">>) /\ Append(m, <<"2", "x">>) \in Seq(Items)
      BY <1>1, OneMore
    <2> QED
      BY <1>5, <2>1, <2>2
  <1>6. ASSUME piece = [bytes |-> <<"3", "x", "x">>, read |-> << <<"3", "x", "x">> >>]
        PROVE  Resting(FeedBytes(p, piece.bytes), m \o piece.read) /\ m \o piece.read \in Seq(Items)
    <2>1. Resting(FeedBytes(p, <<"3", "x", "x">>), Append(m, <<"3", "x", "x">>))
      BY ThreeBytesRead
    <2>2. m \o <<<<"3", "x", "x">>>> = Append(m, <<"3", "x", "x">>) /\ Append(m, <<"3", "x", "x">>) \in Seq(Items)
      BY <1>1, OneMore
    <2> QED
      BY <1>6, <2>1, <2>2
  <1>7. ASSUME piece = [bytes |-> <<"bad">>, read |-> << <<"U+FFFD">> >>]
        PROVE  Resting(FeedBytes(p, piece.bytes), m \o piece.read) /\ m \o piece.read \in Seq(Items)
    <2>1. Resting(FeedBytes(p, <<"bad">>), Append(m, <<"U+FFFD">>))
      BY BadRead
    <2>2. m \o <<<<"U+FFFD">>>> = Append(m, <<"U+FFFD">>) /\ Append(m, <<"U+FFFD">>) \in Seq(Items)
      BY <1>1, OneMore
    <2> QED
      BY <1>7, <2>1, <2>2
  <1>8. ASSUME piece = [bytes |-> <<"LF">>, read |-> << <<"LF">> >>]
        PROVE  Resting(FeedBytes(p, piece.bytes), m \o piece.read) /\ m \o piece.read \in Seq(Items)
    <2>1. Resting(FeedBytes(p, <<"LF">>), Append(m, <<"LF">>))
      BY LineFeedRead
    <2>2. m \o <<<<"LF">>>> = Append(m, <<"LF">>) /\ Append(m, <<"LF">>) \in Seq(Items)
      BY <1>1, OneMore
    <2> QED
      BY <1>8, <2>1, <2>2
  <1>9. ASSUME piece = [bytes |-> <<"ESC", "a">>, read |-> << <<"escape", "a">> >>]
        PROVE  Resting(FeedBytes(p, piece.bytes), m \o piece.read) /\ m \o piece.read \in Seq(Items)
    <2>1. Resting(FeedBytes(p, <<"ESC", "a">>), Append(m, <<"escape", "a">>))
      BY EscapeRead
    <2>2. m \o <<<<"escape", "a">>>> = Append(m, <<"escape", "a">>) /\ Append(m, <<"escape", "a">>) \in Seq(Items)
      BY <1>1, OneMore
    <2> QED
      BY <1>9, <2>1, <2>2
  <1>10. ASSUME piece = [bytes |-> <<"SO", "a", "2", "x", "SI">>, read |-> << <<"line drawing", "a">>, <<"2", "x">> >>]
        PROVE  Resting(FeedBytes(p, piece.bytes), m \o piece.read) /\ m \o piece.read \in Seq(Items)
    <2>1. Resting(FeedBytes(p, <<"SO", "a", "2", "x", "SI">>), Append(Append(m, <<"line drawing", "a">>), <<"2", "x">>))
      BY ShiftedRead
    <2>2. m \o <<<<"line drawing", "a">>, <<"2", "x">>>> = Append(Append(m, <<"line drawing", "a">>), <<"2", "x">>) /\ Append(Append(m, <<"line drawing", "a">>), <<"2", "x">>) \in Seq(Items)
      BY <1>1, OneMore, TwoMore, ZenonT(60)
    <2> QED
      BY <1>10, <2>1, <2>2
  <1>11. ASSUME piece = [bytes |-> <<"ESC", "(", "0", "a", "ESC", "(", "a">>, read |-> << <<"line drawing", "a">> >>]
        PROVE  Resting(FeedBytes(p, piece.bytes), m \o piece.read) /\ m \o piece.read \in Seq(Items)
    <2>1. Resting(FeedBytes(p, <<"ESC", "(", "0", "a", "ESC", "(", "a">>), Append(m, <<"line drawing", "a">>))
      BY DrawnRead
    <2>2. m \o <<<<"line drawing", "a">>>> = Append(m, <<"line drawing", "a">>) /\ Append(m, <<"line drawing", "a">>) \in Seq(Items)
      BY <1>1, OneMore
    <2> QED
      BY <1>11, <2>1, <2>2
  <1>12. ASSUME piece = [bytes |-> <<"ESC", "[", "a">>, read |-> << <<"csi", "a", <<>>>> >>]
        PROVE  Resting(FeedBytes(p, piece.bytes), m \o piece.read) /\ m \o piece.read \in Seq(Items)
    <2>1. Resting(FeedBytes(p, <<"ESC", "[", "a">>), Append(m, <<"csi", "a", <<>>>>))
      BY PlainCsiRead
    <2>2. m \o <<<<"csi", "a", <<>>>>>> = Append(m, <<"csi", "a", <<>>>>) /\ Append(m, <<"csi", "a", <<>>>>) \in Seq(Items)
      BY <1>1, OneMore
    <2> QED
      BY <1>12, <2>1, <2>2
  <1>13. ASSUME piece = [bytes |-> <<"ESC", "[", "0", "0", "0", "a">>, read |-> << <<"csi", "a", Kept(<<"0", "0", "0">>)>> >>]
        PROVE  Resting(FeedBytes(p, piece.bytes), m \o piece.read) /\ m \o piece.read \in Seq(Items)
    <2>1. Resting(FeedBytes(p, <<"ESC", "[", "0", "0", "0", "a">>), Append(m, <<"csi", "a", Kept(<<"0", "0", "0">>)>>))
      BY LongCsiRead, StoredIsKept
    <2>2. m \o <<<<"csi", "a", Kept(<<"0", "0", "0">>)>>>> = Append(m, <<"csi", "a", Kept(<<"0", "0", "0">>)>>) /\ Append(m, <<"csi", "a", Kept(<<"0", "0", "0">>)>>) \in Seq(Items)
      BY <1>1, OneMore
    <2> QED
      BY <1>13, <2>1, <2>2
  <1>14. ASSUME piece = [bytes |-> <<"ESC", "]", "0", "a", "3", "BEL">>, read |-> << <<"osc">> >>]
        PROVE  Resting(FeedBytes(p, piece.bytes), m \o piece.read) /\ m \o piece.read \in Seq(Items)
    <2>1. Resting(FeedBytes(p, <<"ESC", "]", "0", "a", "3", "BEL">>), Append(m, <<"osc">>))
      BY BellEndsRead
    <2>2. m \o <<<<"osc">>>> = Append(m, <<"osc">>) /\ Append(m, <<"osc">>) \in Seq(Items)
      BY <1>1, OneMore
    <2> QED
      BY <1>14, <2>1, <2>2
  <1>15. ASSUME piece = [bytes |-> <<"ESC", "]", "a", "a", "a", "ESC", "\\">>, read |-> << <<"osc">> >>]
        PROVE  Resting(FeedBytes(p, piece.bytes), m \o piece.read) /\ m \o piece.read \in Seq(Items)
    <2>1. Resting(FeedBytes(p, <<"ESC", "]", "a", "a", "a", "ESC", "\\">>), Append(m, <<"osc">>))
      BY EscapeEndsRead
    <2>2. m \o <<<<"osc">>>> = Append(m, <<"osc">>) /\ Append(m, <<"osc">>) \in Seq(Items)
      BY <1>1, OneMore
    <2> QED
      BY <1>15, <2>1, <2>2
  <1>16. ASSUME piece = [bytes |-> <<"2">>, read |-> <<>>]
        PROVE  Resting(FeedBytes(p, piece.bytes), m \o piece.read) /\ m \o piece.read \in Seq(Items)
    <2>1. Resting(FeedBytes(p, <<"2">>), m)
      BY BrokenTwoRead
    <2>2. m \o <<>> = m
      BY ConcatEmptySeq
    <2> QED
      BY <1>16, <2>1, <2>2
  <1>17. ASSUME piece = [bytes |-> <<"3", "x">>, read |-> <<>>]
        PROVE  Resting(FeedBytes(p, piece.bytes), m \o piece.read) /\ m \o piece.read \in Seq(Items)
    <2>1. Resting(FeedBytes(p, <<"3", "x">>), m)
      BY BrokenThreeRead
    <2>2. m \o <<>> = m
      BY ConcatEmptySeq
    <2> QED
      BY <1>17, <2>1, <2>2
  <1> QED
    BY <1>2, <1>3, <1>4, <1>5, <1>6, <1>7, <1>8, <1>9, <1>10, <1>11, <1>12, <1>13, <1>14, <1>15, <1>16, <1>17 DEF Pieces

(* The parser is at rest, and has read what was meant.                         *)
StreamInv == meant \in Seq(Items) /\ Resting(parser, meant)

LEMMA StreamIsInvariant == Spec => []StreamInv
  <1>1. Init => StreamInv
    <2> SUFFICES ASSUME Init
                 PROVE  StreamInv
      OBVIOUS
    <2>1. parser = NewParser /\ meant = <<>>
      BY DEF Init
    <2>2. <<>> \in Seq(Bytes) /\ <<>> \in Seq(Items)
      OBVIOUS
    <2>3. <<"ASCII", "DecSpecial">> \in {"ASCII", "DecSpecial"} \X {"ASCII", "DecSpecial"}
      OBVIOUS
    <2>4. NewParser \in Parsers
      <3> HIDE DEF Items
      <3> QED
        BY <2>2, <2>3 DEF NewParser, Parsers
    <2> QED
      BY <2>1, <2>2, <2>4 DEF StreamInv, Resting, NewParser
  <1>2. StreamInv /\ [Next]_vars => StreamInv'
    <2> SUFFICES ASSUME StreamInv, [Next]_vars
                 PROVE  StreamInv'
      OBVIOUS
    <2>1. ASSUME NEW piece \in Pieces, WriteBytes(piece)
          PROVE  StreamInv'
      <3>1. parser' = FeedBytes(parser, piece.bytes) /\ meant' = meant \o piece.read
        BY <2>1 DEF WriteBytes
      <3> QED
        BY <3>1, PieceIsRead DEF StreamInv
    <2>2. ASSUME UNCHANGED <<parser, meant>>
          PROVE  StreamInv'
      BY <2>2 DEF StreamInv
    <2>3. (\E piece \in Pieces : WriteBytes(piece)) \/ UNCHANGED <<parser, meant>>
      <3>1. (Spend("output") \/ Spend("resize") \/ Spend("user")) => UNCHANGED <<parser, meant>>
        BY DEF Spend
      <3>2. /\ \A chunk : Output(chunk) => Spend("output")
            /\ \A size : syncPtySize(size) => Spend("resize")
            /\ \A lines : ScrollView(lines) => Spend("user")
            /\ TypeKey => Spend("user")
            /\ \A copies : CopyOrPaste(copies) => Spend("user")
            /\ ClearTerminal => Spend("user")
            /\ \A enabled : setInteractive(enabled) => Spend("user")
        BY DEF Output, syncPtySize, ScrollView, TypeKey, CopyOrPaste, ClearTerminal, setInteractive
      <3>3. Mouse => Spend("user")
        <4>1. /\ \A btn, spot, shift, special : mousePressEvent(btn, spot, shift, special) => Spend("user")
              /\ \A spot, shift : mouseMoveEvent(spot, shift) => Spend("user")
              /\ \A btn, spot : mouseReleaseEvent(btn, spot) => Spend("user")
              /\ \A spot, shift : mouseDoubleClickEvent(spot, shift) => Spend("user")
          BY DEF mousePressEvent, mouseMoveEvent, mouseReleaseEvent, mouseDoubleClickEvent
        <4> QED
          BY <4>1 DEF Mouse
      <3>4. UNCHANGED vars => UNCHANGED <<parser, meant>>
        BY DEF vars
      <3> QED
        BY <3>1, <3>2, <3>3, <3>4 DEF Next
    <2> QED
      BY <2>1, <2>2, <2>3
  <1> QED
    BY <1>1, <1>2, PTL DEF Spec

-----------------------------------------------------------------------------
(* The theorems.                                                               *)

(* The inductive invariant: a screen that fits the widget, the mouse and what  *)
(* the program thinks of it, the plain output as it is on the screen and in    *)
(* the history (appendOutput, syncPtySize and the events of the mouse in       *)
(* TerminalWidget.cpp).                                                        *)
THEOREM TerminalHolds == Spec => []TerminalInv
  BY InitHolds, NextKeeps, PTL DEF Spec

(* Whatever is written, saved, restored, resized and selected, in whatever     *)
(* order: the cursor is on the screen, the margins are margins of it, its      *)
(* grids fit, the view is within the history, and the whole screen scrolls     *)
(* again after a shrink unless a program asked for less                        *)
(* (TerminalWidget.cpp:435-514, 596-602, 1086-1138, 1778-1788).                *)
THEOREM ScreensHold == Spec => []ScreenHolds
  <1>1. TerminalInv => ScreenHolds
    <2> SUFFICES ASSUME TerminalInv
                 PROVE  ScreenHolds
      OBVIOUS
    <2> DEFINE s == screen
               cols == screen.cols
               rows == screen.rows
    <2>1. /\ Size(cols, rows, 0..rows - 1, 0..rows - 1) /\ Size(cols, rows, {0}, {rows - 1})
          /\ Shape(s, cols, rows, 0..rows - 1, 0..rows - 1)
          /\ (margins = FALSE => Shape(s, cols, rows, {0}, {rows - 1})) /\ margins \in BOOLEAN
      BY SoundFacts DEF TerminalInv, ScreenInv
    <2>2. /\ s.cx \in 0..cols - 1 /\ s.cy \in 0..rows - 1 /\ s.top \in 0..rows - 1 /\ s.bottom \in 0..rows - 1
          /\ s.top <= s.bottom /\ s.mainTop \in 0..rows - 1 /\ s.mainBottom \in 0..rows - 1
          /\ s.mainTop <= s.mainBottom /\ cols \in Nat /\ rows \in Nat
      BY <2>1, CursorFacts
    <2>3. /\ s.scrollback \in Seq(Lines(cols)) /\ Len(s.scrollback) \in Nat /\ Len(s.scrollback) <= ScrollbackMax
          /\ s.viewOffset \in 0..Len(s.scrollback) /\ MaxViewOffset(s) = Len(s.scrollback)
      BY <2>1, ViewFacts
    <2>4. \A g \in Grids(cols, rows) : IsGrid(g, s)
      BY DEF IsGrid, Grids, Lines, Chars
    <2>5. /\ s.cells \in Grids(cols, rows) /\ s.altCells \in Grids(cols, rows) \cup {NoGrid}
          /\ s.alt => s.mainCells \in Grids(cols, rows) /\ s.viewOffset = 0
      BY <2>1 DEF Shape, InOrder, Screens, ScreensAt
    <2>6. \A i \in DOMAIN s.scrollback : DOMAIN s.scrollback[i] = 0..cols - 1
      <3>1. \A i \in DOMAIN s.scrollback : s.scrollback[i] \in Lines(cols)
        BY <2>3
      <3> QED
        BY <3>1 DEF Lines
    <2>7. ScreenWellFormed
      BY <2>2, <2>3, <2>4, <2>5, <2>6 DEF ScreenWellFormed
    <2>8. FullRegionGrowsBack
      <3> SUFFICES ASSUME margins = FALSE
                   PROVE  s.top = 0 /\ s.bottom = rows - 1
        BY <2>1 DEF FullRegionGrowsBack
      <3> QED
        BY <2>1 DEF Shape, InOrder
    <2> QED
      BY <2>7, <2>8 DEF ScreenHolds
  <1> QED
    BY <1>1, TerminalHolds, PTL

(* When the user has let go of the mouse, the program thinks so too, unless    *)
(* the gesture left what the code follows (TerminalWidget.cpp:2868-2885).      *)
THEOREM PressesReleased == Spec => []PressesAreReleased
  <1>1. TerminalInv => PressesAreReleased
    BY DEF TerminalInv, MouseInv, Holding, PressesAreReleased
  <1> QED
    BY <1>1, TerminalHolds, PTL

LEMMA SuffixIs ==
    ASSUME NEW S, NEW q \in Seq(S), NEW l \in Seq(S), NEW m, NEW n, m = Len(q), n = Len(l), m \in 0..n,
           \A i \in 1..m : q[i] = l[n - m + i]
    PROVE  IsSuffix(q, l)
  <1> DEFINE f == [i \in 1..m |-> q[m - i + 1]]
             g == [i \in 1..n |-> l[n - i + 1]]
  <1>1. m \in Nat /\ n \in Nat /\ m <= n
    OBVIOUS
  <1>2. Reverse(q) = f /\ Reverse(l) = g
    BY DEF Reverse
  <1>3. f \in Seq(S) /\ Len(f) = m /\ \A i \in 1..m : f[i] = q[m - i + 1]
    <2>1. \A i \in 1..m : q[m - i + 1] \in S
      <3> SUFFICES ASSUME NEW i \in 1..m
                   PROVE  q[m - i + 1] \in S
        OBVIOUS
      <3>1. m - i + 1 \in 1..m
        BY <1>1
      <3> QED
        BY <3>1
    <2> QED
      BY <1>1, <2>1
  <1>4. g \in Seq(S) /\ Len(g) = n /\ \A i \in 1..n : g[i] = l[n - i + 1]
    <2>1. \A i \in 1..n : l[n - i + 1] \in S
      <3> SUFFICES ASSUME NEW i \in 1..n
                   PROVE  l[n - i + 1] \in S
        OBVIOUS
      <3>1. n - i + 1 \in 1..n
        BY <1>1
      <3> QED
        BY <3>1
    <2> QED
      BY <1>1, <2>1
  <1> HIDE DEF f, g
  <1>5. \A i \in 1..m : f[i] = g[i]
    <2> SUFFICES ASSUME NEW i \in 1..m
                 PROVE  f[i] = g[i]
      OBVIOUS
    <2>1. m - i + 1 \in 1..m /\ n - m + (m - i + 1) = n - i + 1 /\ i \in 1..n
      BY <1>1
    <2>2. q[m - i + 1] = l[n - m + (m - i + 1)]
      BY <2>1
    <2> QED
      BY <1>3, <1>4, <2>1, <2>2
  <1>6. SubSeq(f, 1, m) = SubSeq(g, 1, m)
    BY <1>1, <1>3, <1>4, <1>5
  <1> QED
    BY <1>1, <1>2, <1>3, <1>4, <1>6 DEF IsSuffix, IsPrefix

(* What has scrolled off and what is above the cursor are the last lines of    *)
(* the plain output, as many as the history keeps, and nothing stands below    *)
(* (TerminalWidget.cpp:435-446, 604-627, 857-906, 1742-1769).                  *)
THEOREM OutputKept == Spec => []PlainOutputIsKept
  <1>1. TerminalInv => PlainOutputIsKept
    <2> SUFFICES ASSUME TerminalInv, roll.plain
                 PROVE  PlainOutputIsKept
      BY DEF PlainOutputIsKept
    <2> DEFINE s == screen
               lines == roll.lines
               n == Len(lines)
               k == Len(s.scrollback)
               y == s.cy
               shown == [i \in 1..y + 1 |-> s.cells[i - 1]]
               all == s.scrollback \o shown
               m == k + (y + 1)
               Rows == Lines(s.cols)
    <2>1. /\ Size(s.cols, s.rows, 0..s.rows - 1, 0..s.rows - 1)
          /\ Shape(s, s.cols, s.rows, 0..s.rows - 1, 0..s.rows - 1)
      BY SoundFacts DEF TerminalInv, ScreenInv
    <2>2. y \in Nat /\ k \in Nat /\ s.scrollback \in Seq(Rows) /\ y \in 0..s.rows - 1 /\ ScrollbackMax \in Nat
          /\ s.rows \in Nat
      BY <2>1, CursorFacts, ViewFacts
    <2>3. s.cells \in [0..s.rows - 1 -> Rows]
      BY <2>1, CellFacts DEF Grids
    <2>4. /\ lines \in Seq(Rows) /\ n \in Nat /\ n >= y + 1 /\ k = Least(n - (y + 1), ScrollbackMax)
          /\ \A r \in 0..y : s.cells[r] = lines[n - y + r]
          /\ \A i \in 1..k : s.scrollback[i] = lines[n - y - 1 - k + i]
          /\ \A r \in y + 1..s.rows - 1 : s.cells[r] = BlankRow(s.cols)
      BY DEF TerminalInv, RollInv, AsOnPaper, Rolls, Rolled, RolledAs
    <2>5. n \in Nat /\ n >= y + 1 /\ k = Least(n - (y + 1), ScrollbackMax)
      BY <2>4
    <2>6. shown \in Seq(Rows) /\ Len(shown) = y + 1 /\ \A i \in 1..y + 1 : shown[i] = s.cells[i - 1]
      <3>1. \A i \in 1..y + 1 : s.cells[i - 1] \in Rows
        <4> SUFFICES ASSUME NEW i \in 1..y + 1
                     PROVE  s.cells[i - 1] \in Rows
          OBVIOUS
        <4>1. i - 1 \in 0..s.rows - 1
          BY <2>2
        <4> QED
          BY <2>3, <4>1
      <3> QED
        BY <2>2, <3>1
    <2> HIDE DEF shown, Rows
    <2>7. all \in Seq(Rows) /\ Len(all) = k + Len(shown)
          /\ \A i \in 1..k + Len(shown) : all[i] = IF i <= k THEN s.scrollback[i] ELSE shown[i - k]
      <3>1. s.scrollback \in Seq(Rows) /\ shown \in Seq(Rows) /\ k = Len(s.scrollback)
        BY <2>2, <2>6
      <3> HIDE DEF s, k, y
      <3> QED
        BY <3>1, ConcatProperties
    <2>8. all \in Seq(Rows) /\ Len(all) = m
          /\ \A i \in 1..m : all[i] = IF i <= k THEN s.scrollback[i] ELSE shown[i - k]
      <3> HIDE DEF all, k, y
      <3> QED
        BY <2>6, <2>7
    <2> HIDE DEF n, k, y, all, s, lines
    <2>9. m \in 0..n
      BY <2>2, <2>5 DEF Least
    <2>10. \A i \in 1..m : all[i] = lines[n - m + i]
      <3> SUFFICES ASSUME NEW i \in 1..m
                   PROVE  all[i] = lines[n - m + i]
        OBVIOUS
      <3>1. CASE i <= k
        <4>1. i \in 1..k /\ n - y - 1 - k + i = n - m + i
          BY <2>2, <2>5, <3>1
        <4> QED
          BY <2>4, <2>8, <3>1, <4>1
      <3>2. CASE ~(i <= k)
        <4>1. i - k \in 1..y + 1 /\ i - k - 1 \in 0..y /\ n - y + (i - k - 1) = n - m + i
          <5>1. y \in Nat /\ k \in Nat /\ n \in Nat
            BY <2>2, <2>5
          <5> QED
            BY <3>2, <5>1
        <4>2. all[i] = s.cells[i - k - 1]
          BY <2>6, <2>8, <3>2, <4>1
        <4> QED
          BY <2>4, <4>1, <4>2
      <3> QED
        BY <3>1, <3>2
    <2>11. n = Len(lines)
      BY DEF n
    <2>12. IsSuffix(all, lines)
      <3> HIDE DEF m
      <3> QED
        BY <2>4, <2>8, <2>9, <2>10, <2>11, SuffixIs
    <2>13. Len(all) = Least(n, ScrollbackMax + y + 1)
      BY <2>2, <2>5, <2>8 DEF Least
    <2> QED
      BY <2>4, <2>12, <2>13 DEF PlainOutputIsKept, all, shown, n, k, y, s, lines
  <1> QED
    BY <1>1, TerminalHolds, PTL

(* Any pieces of a stream in any order are read as what they are, and none     *)
(* leaves the byte machine in a state that changes how the next one is read    *)
(* (TerminalWidget.cpp:1533-1718), wherever a sequence stops being kept.       *)
THEOREM StreamIsRead == Spec => []StreamIsReadAsWritten
  <1>1. StreamInv => StreamIsReadAsWritten
    BY DEF StreamInv, Resting, StreamIsReadAsWritten
  <1> QED
    BY <1>1, StreamIsInvariant, PTL

-----------------------------------------------------------------------------
(* What the user looks at.  The history q goes on from the history p when k    *)
(* lines of it have been trimmed.  A view that is n lines from the bottom of   *)
(* it, and a selection in it, move with their lines.                           *)
Followed(p, q, k) == Len(q) >= Len(p) /\ \A i \in k + 1..Len(p) : q[i - k] = p[i]

Anchored(old, v, new, w, k) == (v = 0 => w = 0) /\ (w # 0 => new - w = Most(0, old - v - k))

Ordered(a) == a.from <= a.to

Shifted(a, b, old, k, cols) ==
    (a.anchor >= 0 /\ k * cols <= a.from /\ a.from <= a.to /\ a.to < old * cols)
      => b.anchor >= 0 /\ b.from = a.from - k * cols /\ b.to = a.to - k * cols

StillShown(s, t, k) ==
    /\ Followed(s.scrollback, t.scrollback, k)
    /\ Anchored(Len(s.scrollback), s.viewOffset, Len(t.scrollback), t.viewOffset, k)
    /\ Shifted(s.sel, t.sel, Len(s.scrollback), k, s.cols)

GoesOn(s, t) ==
    /\ t.lost >= s.lost /\ t.wiped >= s.wiped
    /\ Ordered(s.sel) => Ordered(t.sel)
    /\ t.wiped = s.wiped => StillShown(s, t, t.lost - s.lost)

LEMMA FollowedOn ==
    ASSUME NEW S, NEW p \in Seq(S), NEW q \in Seq(S), NEW r \in Seq(S), NEW k \in Nat, NEW l \in Nat,
           Followed(p, q, k), Followed(q, r, l)
    PROVE  Followed(p, r, k + l)
  <1>1. Len(p) \in Nat /\ Len(q) \in Nat /\ Len(r) \in Nat /\ Len(r) >= Len(p)
    BY DEF Followed
  <1>2. ASSUME NEW i \in k + l + 1..Len(p)
        PROVE  r[i - (k + l)] = p[i]
    <2>1. i \in k + 1..Len(p) /\ i - k \in l + 1..Len(q) /\ (i - k) - l = i - (k + l)
      BY <1>1, <1>2 DEF Followed
    <2>2. q[i - k] = p[i] /\ r[(i - k) - l] = q[i - k]
      BY <2>1 DEF Followed
    <2> QED
      BY <2>1, <2>2
  <1> QED
    BY <1>1, <1>2 DEF Followed

LEMMA AnchoredOn ==
    ASSUME NEW a \in Nat, NEW b \in Nat, NEW c \in Nat, NEW u \in 0..a, NEW v \in 0..b, NEW w \in 0..c,
           NEW k \in Nat, NEW l \in Nat, Anchored(a, u, b, v, k), Anchored(b, v, c, w, l)
    PROVE  Anchored(a, u, c, w, k + l)
  BY DEF Anchored, Most

LEMMA ShiftedOn ==
    ASSUME NEW a \in Selections, NEW b \in Selections, NEW c \in Selections, NEW m \in Nat, NEW n \in Nat, n >= m,
           NEW k \in Nat, NEW l \in Nat, NEW cols \in Nat,
           Shifted(a, b, m, k, cols), Shifted(b, c, n, l, cols)
    PROVE  Shifted(a, c, m, k + l, cols)
  <1>1. (k + l) * cols = k * cols + l * cols /\ k * cols \in Nat /\ l * cols \in Nat /\ m * cols <= n * cols
        /\ m * cols \in Nat /\ n * cols \in Nat
    OBVIOUS
  <1>2. \A x \in {a, b, c} : x.from \in Int /\ x.to \in Int /\ x.anchor \in Int
    BY DEF Selections
  <1> DEFINE K == k * cols
             L == l * cols
             M == m * cols
             N == n * cols
             O == (k + l) * cols
  <1>3. K \in Nat /\ L \in Nat /\ M \in Nat /\ N \in Nat /\ O = K + L /\ M <= N
    BY <1>1
  <1>4. (a.anchor >= 0 /\ K <= a.from /\ a.from <= a.to /\ a.to < M)
           => b.anchor >= 0 /\ b.from = a.from - K /\ b.to = a.to - K
    BY DEF Shifted
  <1>5. (b.anchor >= 0 /\ L <= b.from /\ b.from <= b.to /\ b.to < N)
           => c.anchor >= 0 /\ c.from = b.from - L /\ c.to = b.to - L
    BY DEF Shifted
  <1>6. SUFFICES (a.anchor >= 0 /\ O <= a.from /\ a.from <= a.to /\ a.to < M)
                   => c.anchor >= 0 /\ c.from = a.from - O /\ c.to = a.to - O
    BY DEF Shifted
  <1> HIDE DEF K, L, M, N, O
  <1> QED
    BY <1>2, <1>3, <1>4, <1>5

LEMMA GoesOnAgain ==
    ASSUME NEW cols, NEW rows, NEW T, NEW B, Size(cols, rows, T, B),
           NEW s, Shape(s, cols, rows, T, B), NEW t, Shape(t, cols, rows, T, B),
           NEW u, Shape(u, cols, rows, T, B), GoesOn(s, t), GoesOn(t, u)
    PROVE  GoesOn(s, u)
  <1>1. s.lost \in Nat /\ t.lost \in Nat /\ u.lost \in Nat /\ s.wiped \in Nat /\ t.wiped \in Nat /\ u.wiped \in Nat
    BY ViewFacts
  <1>2. u.lost >= s.lost /\ u.wiped >= s.wiped /\ (Ordered(s.sel) => Ordered(u.sel))
    BY <1>1 DEF GoesOn
  <1>3. ASSUME u.wiped = s.wiped
        PROVE  StillShown(s, u, u.lost - s.lost)
    <2> DEFINE k == t.lost - s.lost
               l == u.lost - t.lost
    <2>1. k \in Nat /\ l \in Nat /\ u.lost - s.lost = k + l
      BY <1>1 DEF GoesOn
    <2>2. StillShown(s, t, k) /\ StillShown(t, u, l)
      BY <1>1, <1>3 DEF GoesOn
    <2> HIDE DEF k, l
    <2>3. /\ s.scrollback \in Seq(Lines(cols)) /\ t.scrollback \in Seq(Lines(cols)) /\ u.scrollback \in Seq(Lines(cols))
          /\ s.sel \in Selections /\ t.sel \in Selections /\ u.sel \in Selections
          /\ Len(s.scrollback) \in Nat /\ Len(t.scrollback) \in Nat /\ Len(u.scrollback) \in Nat
          /\ s.viewOffset \in 0..Len(s.scrollback) /\ t.viewOffset \in 0..Len(t.scrollback)
          /\ u.viewOffset \in 0..Len(u.scrollback)
      BY ViewFacts
    <2>4. s.cols = cols /\ t.cols = cols /\ cols \in Nat
      BY CursorFacts
    <2>5. Followed(s.scrollback, u.scrollback, k + l)
      BY <2>1, <2>2, <2>3, FollowedOn DEF StillShown
    <2>6. Anchored(Len(s.scrollback), s.viewOffset, Len(u.scrollback), u.viewOffset, k + l)
      BY <2>1, <2>2, <2>3, AnchoredOn DEF StillShown
    <2>7. Shifted(s.sel, u.sel, Len(s.scrollback), k + l, cols)
      <3>1. Len(t.scrollback) >= Len(s.scrollback)
        BY <2>2 DEF StillShown, Followed
      <3>2. Shifted(s.sel, t.sel, Len(s.scrollback), k, cols) /\ Shifted(t.sel, u.sel, Len(t.scrollback), l, cols)
        BY <2>2, <2>4 DEF StillShown
      <3> QED
        BY <2>1, <2>3, <2>4, <3>1, <3>2, ShiftedOn
    <2> QED
      BY <2>1, <2>4, <2>5, <2>6, <2>7 DEF StillShown
  <1> QED
    BY <1>2, <1>3 DEF GoesOn

(* Most control functions do not touch the history, the view or the selection. *)
Untouched(s, t) ==
    /\ t.scrollback = s.scrollback /\ t.viewOffset = s.viewOffset /\ t.sel = s.sel
    /\ t.lost = s.lost /\ t.wiped = s.wiped

Seen == {"scrollback", "viewOffset", "sel", "lost", "wiped"}
LeftAlone(s, t) == Untouched(s, t) /\ Seen \subseteq DOMAIN t

LEMMA UntouchedGoesOn ==
    ASSUME NEW cols, NEW rows, NEW T, NEW B, Size(cols, rows, T, B),
           NEW s, Shape(s, cols, rows, T, B), NEW t, Untouched(s, t)
    PROVE  GoesOn(s, t)
  <1> DEFINE n == Len(s.scrollback)
  <1>1. s.lost \in Nat /\ s.wiped \in Nat /\ n \in Nat /\ s.viewOffset \in 0..n
        /\ s.sel.from \in Int /\ s.sel.to \in Int /\ s.cols \in Nat
    BY ViewFacts, CursorFacts
  <1>2. Followed(s.scrollback, s.scrollback, 0)
    BY <1>1 DEF Followed
  <1>3. Anchored(n, s.viewOffset, n, s.viewOffset, 0)
    <2> HIDE DEF n
    <2> QED
      BY <1>1 DEF Anchored, Most
  <1>4. Shifted(s.sel, s.sel, n, 0, s.cols)
    <2>1. 0 * s.cols = 0
      BY <1>1
    <2> QED
      BY <1>1, <2>1 DEF Shifted
  <1>5. t.lost - s.lost = 0
    BY <1>1 DEF Untouched
  <1> QED
    BY <1>1, <1>2, <1>3, <1>4, <1>5 DEF GoesOn, Untouched, StillShown, Ordered

(* The view goes back to the live screen.                                      *)
LEMMA TopGoesOn ==
    ASSUME NEW cols, NEW rows, NEW T, NEW B, Size(cols, rows, T, B),
           NEW s, Shape(s, cols, rows, T, B), NEW u, LeftAlone(s, u)
    PROVE  GoesOn(s, [u EXCEPT !.viewOffset = 0])
  <1> DEFINE n == Len(s.scrollback)
             t == [u EXCEPT !.viewOffset = 0]
  <1>2. Untouched(s, s)
    BY DEF Untouched
  <1>3. GoesOn(s, s)
    BY <1>2, UntouchedGoesOn
  <1>4. t.scrollback = s.scrollback /\ t.viewOffset = 0 /\ t.sel = s.sel /\ t.lost = s.lost /\ t.wiped = s.wiped
    BY DEF LeftAlone, Untouched, Seen
  <1>5. \A k, m : Anchored(n, s.viewOffset, m, 0, k)
    BY DEF Anchored
  <1> HIDE DEF t
  <1>6. t.lost >= s.lost /\ t.wiped >= s.wiped /\ (Ordered(s.sel) => Ordered(t.sel)) /\ StillShown(s, s, t.lost - s.lost)
    BY <1>3, <1>4 DEF GoesOn
  <1>7. StillShown(s, t, t.lost - s.lost)
    BY <1>4, <1>5, <1>6 DEF StillShown
  <1> QED
    BY <1>6, <1>7 DEF GoesOn, t

(* Erasing the history leaves nothing of it.                                   *)
LEMMA ClearScrollbackGoesOn ==
    ASSUME NEW cols, NEW rows, NEW T, NEW B, Size(cols, rows, T, B),
           NEW s, Shape(s, cols, rows, T, B)
    PROVE  GoesOn(s, clearScrollback(s))
  <1> DEFINE t == clearScrollback(s)
             k == IF s.scrollback = <<>> THEN s.wiped ELSE s.wiped + 1
  <1>1. s.lost \in Nat /\ s.wiped \in Nat /\ Len(s.scrollback) \in Nat /\ s.viewOffset \in 0..Len(s.scrollback)
        /\ s.sel.from \in Int /\ s.sel.to \in Int /\ s.cols \in Nat
    BY ViewFacts, CursorFacts
  <1>2. t = [s EXCEPT !.scrollback = <<>>, !.viewOffset = 0, !.wiped = k]
    BY DEF clearScrollback
  <1>3. t.scrollback = <<>> /\ t.viewOffset = 0 /\ t.sel = s.sel /\ t.lost = s.lost /\ t.wiped = k
    BY <1>2 DEF Shape, Screens, ScreensAt
  <1> HIDE DEF t
  <1>4. CASE s.scrollback = <<>>
    <2>1. s.viewOffset = 0
      BY <1>1, <1>4
    <2>2. Untouched(s, t)
      BY <1>3, <1>4, <2>1 DEF Untouched
    <2> QED
      BY <2>2, UntouchedGoesOn DEF t
  <1>5. CASE s.scrollback # <<>>
    BY <1>1, <1>3, <1>5 DEF t, GoesOn
  <1> QED
    BY <1>4, <1>5

(* Lines leave the screen: the view and the selection stay with theirs.        *)
Shifts(s, a, b, delta) ==
    LET Shift(v) == Bound(0, v + delta, MaxAbsIndex(s))
    IN  IF a.anchor < 0 \/ a.from < 0 \/ a.to < 0 THEN b = a
        ELSE b.anchor = Shift(a.anchor) /\ b.from = Shift(a.from) /\ b.to = Shift(a.to)

LEMMA ShiftOnly ==
    ASSUME NEW cols, NEW rows, NEW s \in Screens(cols, rows), NEW delta
    PROVE  LET t == shiftSelectionBy(s, delta)
           IN  /\ t.scrollback = s.scrollback /\ t.viewOffset = s.viewOffset /\ t.lost = s.lost
               /\ t.wiped = s.wiped /\ Shifts(s, s.sel, t.sel, delta)
  <1> DEFINE Shift(v) == Bound(0, v + delta, MaxAbsIndex(s))
             q == [anchor |-> Shift(s.sel.anchor), from |-> Shift(s.sel.from), to |-> Shift(s.sel.to)]
             t == shiftSelectionBy(s, delta)
  <1>1. t = IF s.sel.anchor < 0 \/ s.sel.from < 0 \/ s.sel.to < 0 THEN s ELSE [s EXCEPT !.sel = q]
    BY DEF shiftSelectionBy
  <1>2. q.anchor = Shift(s.sel.anchor) /\ q.from = Shift(s.sel.from) /\ q.to = Shift(s.sel.to)
    OBVIOUS
  <1>3. \A e : LET r == [s EXCEPT !.sel = e]
               IN  r.sel = e /\ r.scrollback = s.scrollback /\ r.viewOffset = s.viewOffset
                   /\ r.lost = s.lost /\ r.wiped = s.wiped
    BY DEF Screens, ScreensAt
  <1> HIDE DEF q
  <1>4. CASE s.sel.anchor < 0 \/ s.sel.from < 0 \/ s.sel.to < 0
    BY <1>1, <1>4 DEF Shifts
  <1>5. CASE ~(s.sel.anchor < 0 \/ s.sel.from < 0 \/ s.sel.to < 0)
    <2>1. t = [s EXCEPT !.sel = q]
      BY <1>1, <1>5
    <2> HIDE DEF t
    <2>2. t.sel = q
      BY <1>3, <2>1
    <2>3. Shifts(s, s.sel, t.sel, delta)
      BY <1>2, <1>5, <2>2 DEF Shifts
    <2> QED
      BY <1>3, <2>1, <2>3 DEF t
  <1> QED
    BY <1>4, <1>5

(* The selection is shifted by whole lines, and stays where there are some.    *)
LEMMA LinesShift ==
    ASSUME NEW s, NEW a \in Selections, NEW b \in Selections, NEW cols \in Nat, NEW old \in Nat, NEW n \in Nat,
           NEW k \in Nat, MaxAbsIndex(s) \in Nat, old * cols <= MaxAbsIndex(s) + 1, Shifts(s, a, b, -(k * cols))
    PROVE  Shifted(a, b, old, k, cols) /\ (Ordered(a) => Ordered(b))
  <1> DEFINE K == k * cols
             M == old * cols
             E == MaxAbsIndex(s)
  <1>1. K \in Nat /\ M \in Nat /\ E \in Nat /\ M <= E + 1
    OBVIOUS
  <1>2. \A x \in {a, b} : x.from \in Int /\ x.to \in Int /\ x.anchor \in Int
    BY DEF Selections
  <1>3. IF a.anchor < 0 \/ a.from < 0 \/ a.to < 0 THEN b = a
        ELSE b.anchor = Bound(0, a.anchor + (-K), E) /\ b.from = Bound(0, a.from + (-K), E)
             /\ b.to = Bound(0, a.to + (-K), E)
    BY DEF Shifts
  <1>4. SUFFICES /\ (a.anchor >= 0 /\ K <= a.from /\ a.from <= a.to /\ a.to < M)
                      => b.anchor >= 0 /\ b.from = a.from - K /\ b.to = a.to - K
                 /\ (a.from <= a.to => b.from <= b.to)
    BY DEF Shifted, Ordered
  <1> HIDE DEF K, M, E
  <1> QED
    BY <1>1, <1>2, <1>3 DEF Bound, Least, Most

(* The numbers of a history that n lines are pushed into, over of which are    *)
(* more than it keeps.                                                         *)
LEMMA ViewPushed ==
    ASSUME NEW old \in Nat, NEW max \in Nat, old <= max, NEW n \in Nat, NEW v \in 0..old, NEW new \in Nat,
           NEW w \in Nat, NEW k \in Nat,
           IF old + n <= max THEN k = 0 /\ new = old + n ELSE k = old + n - max /\ new = max,
           IF v = 0 THEN w = 0 ELSE w = Least(v + n, new)
    PROVE  Anchored(old, v, new, w, k)
  BY DEF Anchored, Most, Least

SeenTrimmed(s, q, u, cols, rows) ==
    /\ u.wiped = s.wiped /\ u.viewOffset = s.viewOffset
    /\ IF Len(q) <= ScrollbackMax
       THEN u.scrollback = q /\ u.lost = s.lost /\ u.sel = s.sel
       ELSE /\ u.scrollback = SubSeq(q, Len(q) - ScrollbackMax + 1, Len(q))
            /\ Len(u.scrollback) = ScrollbackMax
            /\ u.lost = s.lost + (Len(q) - ScrollbackMax)
            /\ \E w : /\ MaxAbsIndex(w) = (ScrollbackMax + rows) * cols - 1
                      /\ Shifts(w, s.sel, u.sel, -((Len(q) - ScrollbackMax) * cols))

LEMMA TrimSees ==
    ASSUME NEW cols, NEW rows, NEW T, NEW B, Size(cols, rows, T, B),
           NEW s, Shape(s, cols, rows, T, B), NEW q \in Seq(Lines(cols)), Len(q) >= Len(s.scrollback),
           NEW u, u = trimScrollback([s EXCEPT !.scrollback = q])
    PROVE  SeenTrimmed(s, q, u, cols, rows)
  <1> DEFINE over == Len(q) - ScrollbackMax
             p == SubSeq(q, over + 1, Len(q))
             o == Least(s.viewOffset, Len(p))
             l == s.lost + over
             w == [s EXCEPT !.scrollback = p, !.viewOffset = o, !.lost = l]
  <1>1. Len(q) \in Nat /\ over \in Int /\ ScrollbackMax \in Nat /\ ScrollbackMax > 0 /\ s.viewOffset \in 0..Len(s.scrollback)
        /\ Len(s.scrollback) \in Nat /\ Len(s.scrollback) <= ScrollbackMax /\ s.lost \in Nat
        /\ s.cols = cols /\ s.rows = rows
    BY ViewFacts, CursorFacts
  <1>2. u = IF over <= 0 THEN Lengthened(s, q) ELSE shiftSelectionBy(w, -(over * cols))
    <2>1. over = Len(q) - ScrollbackMax
      OBVIOUS
    <2>2. w = Shortened(s, q, over) /\ [s EXCEPT !.scrollback = q] = Lengthened(s, q)
      BY DEF Shortened, Lengthened
    <2>3. over \in Int /\ s.cols = cols
      BY <1>1
    <2> HIDE DEF over, w
    <2>4. trimScrollback(Lengthened(s, q)) = IF over <= 0 THEN Lengthened(s, q)
                                             ELSE shiftSelectionBy(Shortened(s, q, over), -(over * s.cols))
      BY <2>1, <2>3, TrimIs
    <2> QED
      BY <2>2, <2>3, <2>4
  <1>3. CASE Len(q) <= ScrollbackMax
    <2>1. u = [s EXCEPT !.scrollback = q]
      BY <1>1, <1>2, <1>3 DEF Lengthened
    <2> QED
      BY <1>3, <2>1 DEF Shape, Screens, ScreensAt, SeenTrimmed
  <1>4. CASE ~(Len(q) <= ScrollbackMax)
    <2>1. over \in Nat /\ over + 1 \in 1..Len(q) /\ ~(over <= 0)
      BY <1>1, <1>4
    <2>2. p \in Seq(Lines(cols)) /\ Len(p) = ScrollbackMax
      BY <1>1, <2>1, SubSeqProperties
    <2>3. o = s.viewOffset
      BY <1>1, <2>2 DEF Least
    <2>4. o \in Nat /\ l \in Nat
      BY <1>1, <2>1, <2>3
    <2> HIDE DEF p, o, l
    <2>5. w \in Screens(cols, rows)
      BY <2>2, <2>4, ZenonT(60) DEF Shape, Screens, ScreensAt
    <2>6. w.scrollback = p /\ w.viewOffset = o /\ w.lost = l /\ w.sel = s.sel /\ w.wiped = s.wiped
          /\ w.cols = cols /\ w.rows = rows
      BY <1>1 DEF Shape, Screens, ScreensAt
    <2> HIDE DEF w, over
    <2>7. u = shiftSelectionBy(w, -(over * cols))
      BY <1>2, <2>1
    <2>8. /\ u.scrollback = w.scrollback /\ u.viewOffset = w.viewOffset /\ u.lost = w.lost
          /\ u.wiped = w.wiped /\ Shifts(w, w.sel, u.sel, -(over * cols))
      BY <2>5, <2>7, ShiftOnly
    <2>9. MaxAbsIndex(w) = (ScrollbackMax + rows) * cols - 1
      BY <2>2, <2>6 DEF MaxAbsIndex
    <2>10. Shifts(w, s.sel, u.sel, -((Len(q) - ScrollbackMax) * cols))
      BY <2>6, <2>8 DEF over
    <2>11. u.scrollback = p /\ u.viewOffset = s.viewOffset /\ u.lost = l /\ u.wiped = s.wiped
      BY <2>3, <2>6, <2>8
    <2> QED
      BY <1>4, <2>2, <2>9, <2>10, <2>11 DEF p, l, over, SeenTrimmed
  <1> QED
    BY <1>3, <1>4

LEMMA PushGoesOn ==
    ASSUME NEW cols, NEW rows, NEW T, NEW B, Size(cols, rows, T, B),
           NEW s, Shape(s, cols, rows, T, B), NEW n \in 1..RegionHeight(s)
    PROVE  /\ GoesOn(s, pushScrollbackLines(s, n))
           /\ s.viewOffset > 0 => pushScrollbackLines(s, n).viewOffset > 0
  <1> DEFINE p == [i \in 1..n |-> s.cells[s.top + i - 1]]
             q == s.scrollback \o p
             u == trimScrollback([s EXCEPT !.scrollback = q])
             m == Least(u.viewOffset + n, MaxViewOffset(u))
             t == pushScrollbackLines(s, n)
             old == Len(s.scrollback)
             k == u.lost - s.lost
  <1>1. n \in Nat /\ n <= s.bottom - s.top + 1 /\ n >= 1
    BY CursorFacts DEF RegionHeight
  <1>2. p \in Seq(Lines(cols)) /\ Len(p) = n
    <2>1. \A i \in 1..n : s.cells[s.top + i - 1] \in Lines(cols)
      <3>1. \A i \in 1..n : s.top + i - 1 \in 0..rows - 1
        BY <1>1, CursorFacts
      <3> QED
        BY <3>1, CellFacts
    <2> QED
      BY <1>1, <2>1
  <1>3. /\ s.scrollback \in Seq(Lines(cols)) /\ old \in Nat /\ old <= ScrollbackMax /\ ScrollbackMax \in Nat
        /\ ScrollbackMax > 0 /\ s.viewOffset \in 0..old /\ s.lost \in Nat /\ s.wiped \in Nat /\ s.sel \in Selections
        /\ s.cols = cols /\ cols \in Nat /\ cols > 1 /\ rows \in Nat /\ rows > 1
    BY ViewFacts, CursorFacts
  <1> HIDE DEF p
  <1>4. q \in Seq(Lines(cols)) /\ Len(q) = old + n /\ \A i \in 1..old : q[i] = s.scrollback[i]
    <2>1. s.scrollback \in Seq(Lines(cols))
      BY <1>3
    <2>2. q \in Seq(Lines(cols)) /\ Len(q) = old + n
      BY <1>2, <2>1, ConcatProperties
    <2>3. \A i \in 1..old : q[i] = s.scrollback[i]
      BY <1>2, <2>1
    <2> QED
      BY <2>2, <2>3
  <1>5. t = IF u.viewOffset = 0 THEN u ELSE [u EXCEPT !.viewOffset = m]
    BY DEF pushScrollbackLines, p
  <1> HIDE DEF q, t
  <1>6. Shape(u, cols, rows, T, B)
    BY <1>1, <1>3, <1>4, TrimKeeps
  <1> HIDE DEF u
  <1>7. /\ u.wiped = s.wiped /\ u.viewOffset = s.viewOffset
        /\ IF Len(q) <= ScrollbackMax
           THEN u.scrollback = q /\ u.lost = s.lost /\ u.sel = s.sel
           ELSE /\ u.scrollback = SubSeq(q, Len(q) - ScrollbackMax + 1, Len(q))
                /\ Len(u.scrollback) = ScrollbackMax
                /\ u.lost = s.lost + (Len(q) - ScrollbackMax)
                /\ \E w : /\ MaxAbsIndex(w) = (ScrollbackMax + rows) * cols - 1
                          /\ Shifts(w, s.sel, u.sel, -((Len(q) - ScrollbackMax) * cols))
    <2>1. Len(q) >= Len(s.scrollback)
      BY <1>1, <1>3, <1>4
    <2>2. u = trimScrollback([s EXCEPT !.scrollback = q])
      BY DEF u
    <2>3. q \in Seq(Lines(cols))
      BY <1>4
    <2> HIDE DEF u, old
    <2>4. SeenTrimmed(s, q, u, cols, rows)
      BY <2>1, <2>2, <2>3, TrimSees
    <2> QED
      BY <2>4 DEF SeenTrimmed
  <1>8. /\ u.sel \in Selections /\ u.scrollback \in Seq(Lines(cols)) /\ u.lost \in Nat
        /\ Len(u.scrollback) \in Nat /\ MaxViewOffset(u) = Len(u.scrollback)
    BY <1>6, ViewFacts
  <1>9. /\ t.scrollback = u.scrollback /\ t.lost = u.lost /\ t.sel = u.sel /\ t.wiped = u.wiped
        /\ t.viewOffset = IF u.viewOffset = 0 THEN 0 ELSE m
    <2>1. [u EXCEPT !.viewOffset = m].viewOffset = m /\ [u EXCEPT !.viewOffset = m].scrollback = u.scrollback
          /\ [u EXCEPT !.viewOffset = m].lost = u.lost /\ [u EXCEPT !.viewOffset = m].sel = u.sel
          /\ [u EXCEPT !.viewOffset = m].wiped = u.wiped
      <3> HIDE DEF m
      <3> QED
        BY <1>6 DEF Shape, Screens, ScreensAt
    <2> HIDE DEF m
    <2> QED
      BY <1>5, <2>1
  <1>10. /\ IF old + n <= ScrollbackMax THEN k = 0 /\ Len(u.scrollback) = old + n
            ELSE k = old + n - ScrollbackMax /\ Len(u.scrollback) = ScrollbackMax
         /\ k \in Nat
    <2>1. CASE old + n <= ScrollbackMax
      <3>1. Len(q) <= ScrollbackMax
        BY <1>4, <2>1
      <3>2. u.lost = s.lost /\ Len(u.scrollback) = old + n
        BY <1>4, <1>7, <3>1
      <3>3. k = 0
        BY <1>3, <3>2
      <3> HIDE DEF k, old
      <3> QED
        BY <2>1, <3>2, <3>3
    <2>2. CASE ~(old + n <= ScrollbackMax)
      BY <1>1, <1>3, <1>4, <1>7, <2>2, SMTT(40)
    <2> QED
      BY <2>1, <2>2
  <1>11. Followed(s.scrollback, u.scrollback, k)
    <2>1. Len(u.scrollback) >= old
      BY <1>1, <1>3, <1>10
    <2>2. ASSUME NEW i \in k + 1..old
          PROVE  u.scrollback[i - k] = s.scrollback[i]
      <3>1. i \in 1..old /\ q[i] = s.scrollback[i] /\ i - k \in 1..Len(u.scrollback)
        BY <1>3, <1>4, <1>10, <2>1, SMTT(40)
      <3>2. CASE Len(q) <= ScrollbackMax
        BY <1>4, <1>7, <1>10, <3>1, <3>2
      <3>3. CASE ~(Len(q) <= ScrollbackMax)
        <4> DEFINE l == Len(q) - ScrollbackMax
                   j == i - k
        <4>1. /\ u.scrollback = SubSeq(q, l + 1, Len(q)) /\ Len(u.scrollback) = ScrollbackMax
              /\ u.lost = s.lost + l
          BY <1>7, <3>3
        <4>2. Len(q) \in Nat /\ l \in Nat /\ l + ScrollbackMax = Len(q)
          BY <1>1, <1>3, <1>4, <3>3
        <4> HIDE DEF l
        <4>3. k = l
          BY <1>3, <4>1, <4>2
        <4> HIDE DEF k, old
        <4>4. j \in 1..ScrollbackMax /\ (l + 1) + j - 1 = i /\ l + 1 \in 1..Len(q)
          BY <1>3, <1>10, <3>1, <4>1, <4>2, <4>3
        <4> HIDE DEF j
        <4>5. SubSeq(q, l + 1, Len(q))[j] = q[(l + 1) + j - 1]
          <5>1. j \in 1..(Len(q) - (l + 1) + 1)
            BY <1>3, <4>2, <4>4
          <5>2. l + 1 \in 1..Len(q) + 1 /\ Len(q) \in l..Len(q)
            BY <1>3, <4>2, <4>4
          <5> QED
            BY <1>4, <4>2, <5>1, <5>2, SubSeqProperties
        <4> QED
          BY <3>1, <4>1, <4>4, <4>5 DEF j
      <3> QED
        BY <3>2, <3>3
    <2> QED
      BY <2>1, <2>2 DEF Followed
  <1>12. Anchored(old, s.viewOffset, Len(u.scrollback), t.viewOffset, k) /\ (s.viewOffset > 0 => t.viewOffset > 0)
    <2>1. IF s.viewOffset = 0 THEN t.viewOffset = 0 ELSE t.viewOffset = Least(s.viewOffset + n, Len(u.scrollback))
      BY <1>7, <1>8, <1>9
    <2>2. t.viewOffset \in Nat /\ (s.viewOffset > 0 => t.viewOffset > 0)
      BY <1>1, <1>3, <1>8, <1>10, <2>1, SMTT(40) DEF Least
    <2> HIDE DEF k, old
    <2>3. Anchored(old, s.viewOffset, Len(u.scrollback), t.viewOffset, k)
      BY <1>1, <1>3, <1>8, <1>10, <2>1, <2>2, ViewPushed
    <2> QED
      BY <2>2, <2>3
  <1>13. Shifted(s.sel, u.sel, old, k, cols) /\ (Ordered(s.sel) => Ordered(u.sel))
    <2>1. CASE Len(q) <= ScrollbackMax
      <3>1. k = 0 /\ u.sel = s.sel /\ 0 * cols = 0
        BY <1>3, <1>4, <1>7, <1>10, <2>1
      <3>2. s.sel.from \in Int /\ s.sel.to \in Int
        BY <1>3 DEF Selections
      <3> HIDE DEF k
      <3> QED
        BY <3>1, <3>2 DEF Shifted
    <2>2. CASE ~(Len(q) <= ScrollbackMax)
      <3>1. k = Len(q) - ScrollbackMax
        BY <1>1, <1>3, <1>4, <1>7, <2>2, SMTT(40)
      <3>2. PICK w : /\ MaxAbsIndex(w) = (ScrollbackMax + rows) * cols - 1
                     /\ Shifts(w, s.sel, u.sel, -(k * cols))
        BY <1>7, <2>2, <3>1
      <3>3. MaxAbsIndex(w) \in Nat /\ old * cols <= MaxAbsIndex(w) + 1
        <4> DEFINE a == ScrollbackMax + rows
        <4>1. a \in Nat /\ a > 0 /\ old <= a
          BY <1>3
        <4>2. MaxAbsIndex(w) = a * cols - 1
          BY <3>2
        <4> HIDE DEF a, old
        <4>3. a * cols \in Nat /\ a * cols > 0 /\ old * cols <= a * cols /\ old * cols \in Nat
          BY <1>3, <4>1
        <4> QED
          BY <4>2, <4>3
      <3> HIDE DEF k, old
      <3> QED
        BY <1>1, <1>3, <1>8, <1>10, <3>2, <3>3, LinesShift
    <2> QED
      BY <2>1, <2>2
  <1>14. GoesOn(s, t)
    <2>1. t.lost - s.lost = k /\ t.lost >= s.lost /\ t.wiped = s.wiped
      BY <1>3, <1>7, <1>8, <1>9, <1>10, SMTT(40)
    <2> HIDE DEF k, old
    <2>2. StillShown(s, t, k)
      BY <1>3, <1>9, <1>11, <1>12, <1>13 DEF StillShown, old
    <2> QED
      BY <1>3, <1>9, <1>13, <2>1, <2>2 DEF GoesOn
  <1> QED
    BY <1>12, <1>14 DEF t

LEMMA SeenInScreen ==
    ASSUME NEW cols, NEW rows, NEW T, NEW B, NEW s, Shape(s, cols, rows, T, B)
    PROVE  Seen \subseteq DOMAIN s
  BY DEF Shape, Screens, ScreensAt, Seen

LEMMA LeftAloneAgain ==
    ASSUME NEW s, NEW t, NEW u, LeftAlone(s, t), LeftAlone(t, u)
    PROVE  LeftAlone(s, u)
  BY DEF LeftAlone, Untouched

LEMMA SameLeftAlone ==
    ASSUME NEW s, Seen \subseteq DOMAIN s
    PROVE  LeftAlone(s, s)
  BY DEF LeftAlone, Untouched

LEMMA CellsLeaveAlone ==
    ASSUME NEW s, Seen \subseteq DOMAIN s, NEW g
    PROVE  LeftAlone(s, [s EXCEPT !.cells = g])
  BY DEF LeftAlone, Untouched, Seen

LEMMA CursorLeavesAlone ==
    ASSUME NEW s, Seen \subseteq DOMAIN s, NEW n, NEW b
    PROVE  /\ LeftAlone(s, cursorUp(s, n)) /\ LeftAlone(s, cursorDown(s, n)) /\ LeftAlone(s, cursorRight(s, n))
           /\ LeftAlone(s, cursorLeft(s, n)) /\ LeftAlone(s, cursorColumn(s, n)) /\ LeftAlone(s, cursorRow(s, n))
           /\ LeftAlone(s, carriageReturn(s)) /\ LeftAlone(s, backspace(s)) /\ LeftAlone(s, tab(s))
           /\ LeftAlone(s, saveCursor(s)) /\ LeftAlone(s, decSaveCursor(s)) /\ LeftAlone(s, clampCursor(s))
           /\ LeftAlone(s, setOriginMode(s, b)) /\ LeftAlone(s, [s EXCEPT !.autoWrap = b])
           /\ LeftAlone(s, [s EXCEPT !.pendingWrap = FALSE]) /\ LeftAlone(s, [s EXCEPT !.cy = n])
  <1>1. ASSUME NEW x
        PROVE  /\ LeftAlone(s, [s EXCEPT !.pendingWrap = FALSE, !.cy = x])
               /\ LeftAlone(s, [s EXCEPT !.pendingWrap = FALSE, !.cx = x])
               /\ LeftAlone(s, [s EXCEPT !.saved = x]) /\ LeftAlone(s, [s EXCEPT !.decSaved = x])
               /\ LeftAlone(s, [s EXCEPT !.autoWrap = x]) /\ LeftAlone(s, [s EXCEPT !.pendingWrap = x])
               /\ LeftAlone(s, [s EXCEPT !.cy = x])
    BY DEF LeftAlone, Untouched, Seen
  <1>2. ASSUME NEW x, NEW y
        PROVE  LeftAlone(s, [s EXCEPT !.cx = x, !.cy = y])
    BY DEF LeftAlone, Untouched, Seen
  <1>3. ASSUME NEW x, NEW y
        PROVE  LeftAlone(s, [s EXCEPT !.origin = x, !.cx = 0, !.cy = y, !.pendingWrap = FALSE])
    BY DEF LeftAlone, Untouched, Seen
  <1>4. LeftAlone(s, cursorUp(s, n)) /\ LeftAlone(s, cursorDown(s, n)) /\ LeftAlone(s, cursorRow(s, n))
    BY <1>1 DEF cursorUp, cursorDown, cursorRow
  <1>5. LeftAlone(s, cursorRight(s, n)) /\ LeftAlone(s, cursorLeft(s, n)) /\ LeftAlone(s, cursorColumn(s, n))
    BY <1>1 DEF cursorRight, cursorLeft, cursorColumn
  <1>6. LeftAlone(s, carriageReturn(s)) /\ LeftAlone(s, backspace(s)) /\ LeftAlone(s, tab(s))
    BY <1>1 DEF carriageReturn, backspace, tab
  <1>7. LeftAlone(s, saveCursor(s)) /\ LeftAlone(s, decSaveCursor(s))
    BY <1>1 DEF saveCursor, decSaveCursor
  <1>8. LeftAlone(s, clampCursor(s))
    BY <1>2 DEF clampCursor
  <1>9. LeftAlone(s, setOriginMode(s, b))
    BY <1>3 DEF setOriginMode
  <1> QED
    BY <1>1, <1>4, <1>5, <1>6, <1>7, <1>8, <1>9

LEMMA RestoreLeavesAlone ==
    ASSUME NEW s, Seen \subseteq DOMAIN s
    PROVE  LeftAlone(s, restoreCursor(s)) /\ LeftAlone(s, decRestoreCursor(s))
  <1>1. ASSUME NEW x, NEW y
        PROVE  /\ LeftAlone(s, [s EXCEPT !.cx = x, !.cy = y])
               /\ LeftAlone(s, [s EXCEPT !.cx = x, !.cy = y, !.pendingWrap = FALSE])
    BY DEF LeftAlone, Untouched, Seen
  <1>2. ASSUME NEW t, LeftAlone(s, t)
        PROVE  LeftAlone(s, clampCursor(t))
    <2>1. LeftAlone(t, clampCursor(t))
      BY <1>2, CursorLeavesAlone DEF LeftAlone
    <2> QED
      BY <1>2, <2>1, LeftAloneAgain
  <1> QED
    BY <1>1, <1>2 DEF restoreCursor, decRestoreCursor

LEMMA RegionLeavesAlone ==
    ASSUME NEW s, Seen \subseteq DOMAIN s, NEW first, NEW last
    PROVE  LeftAlone(s, setScrollRegion(s, first, last))
  <1>1. ASSUME NEW a, NEW b, NEW y
        PROVE  LeftAlone(s, [s EXCEPT !.top = a, !.bottom = b, !.cx = 0, !.cy = y, !.pendingWrap = FALSE])
    BY DEF LeftAlone, Untouched, Seen
  <1> QED
    BY <1>1 DEF setScrollRegion

LEMMA ErasingLeavesAlone ==
    ASSUME NEW s, Seen \subseteq DOMAIN s, NEW n
    PROVE  /\ LeftAlone(s, Wiped(s)) /\ LeftAlone(s, eraseInLine(s, n)) /\ LeftAlone(s, eraseChars(s, n))
           /\ LeftAlone(s, insertChars(s, n)) /\ LeftAlone(s, deleteChars(s, n))
           /\ LeftAlone(s, eraseInDisplay(s, 0)) /\ LeftAlone(s, eraseInDisplay(s, 1))
           /\ LeftAlone(s, eraseInDisplay(s, 2))
  <1>1. LeftAlone(s, Wiped(s))
    BY CellsLeaveAlone DEF Wiped
  <1>2. LeftAlone(s, eraseInLine(s, n))
    BY CellsLeaveAlone DEF eraseInLine, EraseWhere
  <1>3. LeftAlone(s, eraseChars(s, n))
    BY CellsLeaveAlone DEF eraseChars, EraseWhere
  <1>4. LeftAlone(s, insertChars(s, n))
    <2>1. \E g : insertChars(s, n) = [s EXCEPT !.cells = g]
      BY DEF insertChars
    <2> QED
      BY <2>1, CellsLeaveAlone
  <1>5. LeftAlone(s, deleteChars(s, n))
    <2>1. \E g : deleteChars(s, n) = [s EXCEPT !.cells = g]
      BY DEF deleteChars
    <2> QED
      BY <2>1, CellsLeaveAlone
  <1>6. LeftAlone(s, eraseInDisplay(s, 0))
    BY CellsLeaveAlone DEF eraseInDisplay, EraseWhere
  <1>7. LeftAlone(s, eraseInDisplay(s, 1))
    BY CellsLeaveAlone DEF eraseInDisplay, EraseWhere
  <1>8. LeftAlone(s, eraseInDisplay(s, 2))
    BY <1>1 DEF eraseInDisplay
  <1> QED
    BY <1>1, <1>2, <1>3, <1>4, <1>5, <1>6, <1>7, <1>8

LEMMA MovingLeavesAlone ==
    ASSUME NEW s, Seen \subseteq DOMAIN s, NEW from, NEW n
    PROVE  /\ LeftAlone(s, RowsUp(s, from, n)) /\ LeftAlone(s, RowsDown(s, from, n))
           /\ LeftAlone(s, scrollDown(s, n)) /\ LeftAlone(s, insertLines(s, n)) /\ LeftAlone(s, deleteLines(s, n))
           /\ LeftAlone(s, reverseIndex(s))
  <1>1. \A t, a, b : Seen \subseteq DOMAIN t => LeftAlone(t, RowsUp(t, a, b)) /\ LeftAlone(t, RowsDown(t, a, b))
    BY CellsLeaveAlone DEF RowsUp, RowsDown
  <1>2. \A t, b : Seen \subseteq DOMAIN t => LeftAlone(t, scrollDown(t, b))
    BY <1>1 DEF scrollDown
  <1>3. LeftAlone(s, insertLines(s, n)) /\ LeftAlone(s, deleteLines(s, n))
    BY <1>1, SameLeftAlone DEF insertLines, deleteLines
  <1>4. LeftAlone(s, reverseIndex(s))
    <2> DEFINE t == [s EXCEPT !.pendingWrap = FALSE]
               u == [t EXCEPT !.cy = t.cy - 1]
    <2>1. LeftAlone(s, t)
      BY CursorLeavesAlone
    <2>2. reverseIndex(s) = IF s.cy = s.top THEN scrollDown(t, 1) ELSE IF s.cy > 0 THEN u ELSE t
      BY DEF reverseIndex
    <2> HIDE DEF t
    <2>3. LeftAlone(t, scrollDown(t, 1)) /\ LeftAlone(t, u)
      BY <1>2, <2>1, CursorLeavesAlone DEF LeftAlone
    <2> HIDE DEF u
    <2> QED
      BY <2>1, <2>2, <2>3, LeftAloneAgain
  <1> QED
    BY <1>1, <1>2, <1>3, <1>4

(* Plain output leaves a view where it was: it does not take it away.          *)
Scrolls(s, t) == GoesOn(s, t) /\ (s.viewOffset > 0 => t.viewOffset > 0)

LEMMA LeftAloneScrolls ==
    ASSUME NEW cols, NEW rows, NEW T, NEW B, Size(cols, rows, T, B),
           NEW s, Shape(s, cols, rows, T, B), NEW t, LeftAlone(s, t)
    PROVE  Scrolls(s, t)
  BY UntouchedGoesOn DEF Scrolls, LeftAlone, Untouched

LEMMA ScrollsAgain ==
    ASSUME NEW cols, NEW rows, NEW T, NEW B, Size(cols, rows, T, B),
           NEW s, Shape(s, cols, rows, T, B), NEW t, Shape(t, cols, rows, T, B),
           NEW u, Shape(u, cols, rows, T, B), Scrolls(s, t), Scrolls(t, u)
    PROVE  Scrolls(s, u)
  BY GoesOnAgain DEF Scrolls

LEMMA ScrollUpScrolls ==
    ASSUME NEW cols, NEW rows, NEW T, NEW B, Size(cols, rows, T, B),
           NEW s, Shape(s, cols, rows, T, B), NEW n \in Nat
    PROVE  Scrolls(s, scrollUp(s, n))
  <1> DEFINE count == Bound(1, n, RegionHeight(s))
             t == IF ~s.alt /\ s.top = 0 THEN pushScrollbackLines(s, count) ELSE s
  <1>1. count \in 1..RegionHeight(s)
    BY CursorFacts DEF Bound, Least, Most, RegionHeight
  <1>2. scrollUp(s, n) = RowsUp(t, s.top, count)
    BY DEF scrollUp
  <1> HIDE DEF count
  <1>3. Shape(t, cols, rows, T, B)
    BY <1>1, PushKeeps
  <1>4. Scrolls(s, t)
    <2>1. Scrolls(s, s)
      BY SeenInScreen, SameLeftAlone, LeftAloneScrolls
    <2>2. Scrolls(s, pushScrollbackLines(s, count))
      BY <1>1, PushGoesOn DEF Scrolls
    <2> QED
      BY <2>1, <2>2
  <1> HIDE DEF t
  <1>5. Scrolls(t, RowsUp(t, s.top, count))
    BY <1>3, SeenInScreen, MovingLeavesAlone, LeftAloneScrolls
  <1>6. Shape(RowsUp(t, s.top, count), cols, rows, T, B)
    BY <1>2, ScrollUpKeeps
  <1> QED
    BY <1>2, <1>3, <1>4, <1>5, <1>6, ScrollsAgain

LEMMA NewLineScrolls ==
    ASSUME NEW cols, NEW rows, NEW T, NEW B, Size(cols, rows, T, B),
           NEW s, Shape(s, cols, rows, T, B)
    PROVE  Scrolls(s, newLine(s))
  <1> DEFINE t == [s EXCEPT !.pendingWrap = FALSE]
             u == [t EXCEPT !.cy = t.cy + 1]
  <1>1. Shape(t, cols, rows, T, B) /\ LeftAlone(s, t) /\ t.cy = s.cy
    <2>1. t.cy = s.cy
      BY DEF Shape, Screens, ScreensAt
    <2>2. Shape(t, cols, rows, T, B)
      BY UnwrapKeeps
    <2>3. LeftAlone(s, t)
      BY SeenInScreen, CursorLeavesAlone
    <2> QED
      BY <2>1, <2>2, <2>3
  <1>2. newLine(s) = IF s.cy = s.bottom THEN scrollUp(t, 1) ELSE IF s.cy < s.rows - 1 THEN u ELSE t
    BY DEF newLine
  <1> HIDE DEF t
  <1>3. CASE s.cy = s.bottom
    <2>1. Scrolls(t, scrollUp(t, 1)) /\ Shape(scrollUp(t, 1), cols, rows, T, B)
      BY <1>1, ScrollUpScrolls, ScrollUpKeeps
    <2>2. Scrolls(s, t)
      BY <1>1, LeftAloneScrolls
    <2> QED
      BY <1>1, <1>2, <1>3, <2>1, <2>2, ScrollsAgain
  <1>4. CASE s.cy # s.bottom
    <2>1. LeftAlone(t, u)
      BY <1>1, CursorLeavesAlone DEF LeftAlone
    <2>2. LeftAlone(s, u)
      BY <1>1, <2>1, LeftAloneAgain
    <2> HIDE DEF u
    <2>3. Scrolls(s, u) /\ Scrolls(s, t)
      BY <1>1, <2>2, LeftAloneScrolls
    <2> QED
      BY <1>2, <1>4, <2>3
  <1> QED
    BY <1>3, <1>4

LEMMA NextLineScrolls ==
    ASSUME NEW cols, NEW rows, NEW T, NEW B, Size(cols, rows, T, B),
           NEW s, Shape(s, cols, rows, T, B)
    PROVE  Scrolls(s, NextLine(s))
  <1> DEFINE t == carriageReturn(s)
  <1>1. Shape(t, cols, rows, T, B) /\ Scrolls(s, t)
    BY CarriageReturnKeeps, SeenInScreen, CursorLeavesAlone, LeftAloneScrolls
  <1> HIDE DEF t
  <1>2. Shape(newLine(t), cols, rows, T, B) /\ Scrolls(t, newLine(t))
    BY <1>1, NewLineKeeps, NewLineScrolls
  <1>3. NextLine(s) = newLine(t)
    BY DEF NextLine, t
  <1> QED
    BY <1>1, <1>2, <1>3, ScrollsAgain

LEMMA PutCharScrolls ==
    ASSUME NEW cols, NEW rows, NEW T, NEW B, Size(cols, rows, T, B),
           NEW s, Shape(s, cols, rows, T, B), NEW ch \in Chars
    PROVE  Scrolls(s, putChar(s, ch))
  <1> DEFINE width == charDisplayWidth(ch)
             t == IF s.pendingWrap /\ s.autoWrap THEN NextLine(s) ELSE s
             u == IF width > 1 /\ t.cx + width > t.cols /\ t.autoWrap THEN NextLine(t) ELSE t
  <1>1. width \in 1..2
    BY DEF charDisplayWidth
  <1>2. putChar(s, ch) = PrintOne(u, ch, width)
    BY DEF putChar, PrintOne, Written
  <1> HIDE DEF width
  <1>3. \A v : Shape(v, cols, rows, T, B) =>
                 /\ Shape(NextLine(v), cols, rows, T, B) /\ Scrolls(v, NextLine(v)) /\ Scrolls(v, v)
    <2>1. ASSUME NEW v, Shape(v, cols, rows, T, B)
          PROVE  Shape(NextLine(v), cols, rows, T, B) /\ Scrolls(v, NextLine(v)) /\ Scrolls(v, v)
      BY <2>1, NextLineKeeps, NextLineScrolls, SeenInScreen, SameLeftAlone, LeftAloneScrolls
    <2> QED
      BY <2>1
  <1>4. Shape(t, cols, rows, T, B) /\ Scrolls(s, t)
    BY <1>3
  <1> HIDE DEF t
  <1>5. Shape(u, cols, rows, T, B) /\ Scrolls(t, u)
    BY <1>3, <1>4
  <1> HIDE DEF u
  <1>6. Scrolls(s, u)
    BY <1>4, <1>5, ScrollsAgain
  <1>7. Shape(PrintOne(u, ch, width), cols, rows, T, B)
    BY <1>1, <1>5, PrintKeeps
  <1>8. LeftAlone(u, PrintOne(u, ch, width))
    <2>1. ASSUME NEW g, NEW x, NEW w
          PROVE  LeftAlone(u, [u EXCEPT !.cells = g, !.lastChar = ch, !.cx = x, !.pendingWrap = w])
      BY <1>5, SeenInScreen DEF LeftAlone, Untouched, Seen
    <2> QED
      BY <2>1 DEF PrintOne
  <1>9. Scrolls(u, PrintOne(u, ch, width))
    BY <1>5, <1>8, LeftAloneScrolls
  <1> QED
    BY <1>2, <1>5, <1>6, <1>7, <1>9, ScrollsAgain

LEMMA RepeatScrolls ==
    ASSUME NEW cols, NEW rows, NEW T, NEW B, Size(cols, rows, T, B),
           NEW s, Shape(s, cols, rows, T, B), NEW n \in Nat
    PROVE  Scrolls(s, RepeatLast(s, n))
  <1> DEFINE S == {u \in Screens(cols, rows) : InOrder(u, cols, rows, T, B) /\ Scrolls(s, u)}
             k == Bound(1, n, s.cols * s.rows)
             ch == s.lastChar
  <1>1. ch \in Chars /\ k \in Nat
    <2>1. s.cols * s.rows \in Int
      BY CursorFacts
    <2>2. k \in Nat
      BY <2>1 DEF Bound, Least, Most
    <2> QED
      BY <2>2, ViewFacts
  <1>2. \A u : u \in S <=> Shape(u, cols, rows, T, B) /\ Scrolls(s, u)
    BY DEF Shape
  <1> HIDE DEF S
  <1>3. s \in S
    BY <1>2, SeenInScreen, SameLeftAlone, LeftAloneScrolls
  <1>4. RepeatLast(s, n) = Repeated(s, ch, k)
    BY DEF RepeatLast, Repeated
  <1> HIDE DEF k, ch
  <1>5. ASSUME NEW u \in S
        PROVE  putChar(u, ch) \in S
    <2>1. Shape(u, cols, rows, T, B) /\ Scrolls(s, u)
      BY <1>2
    <2>2. Shape(putChar(u, ch), cols, rows, T, B) /\ Scrolls(u, putChar(u, ch))
      BY <1>1, <2>1, PutCharKeeps, PutCharScrolls
    <2>3. Scrolls(s, putChar(u, ch))
      BY <2>1, <2>2, ScrollsAgain
    <2> QED
      BY <1>2, <2>2, <2>3
  <1>6. Repeated(s, ch, k) \in S
    BY <1>1, <1>3, <1>5, RepeatedStaysIn
  <1> QED
    BY <1>2, <1>4, <1>6

(* The alternate screen has no view, and a reset no history.                   *)
LEMMA EnterGoesOn ==
    ASSUME NEW cols, NEW rows, NEW T, NEW B, Size(cols, rows, T, B),
           NEW s, Shape(s, cols, rows, T, B)
    PROVE  GoesOn(s, enterAltScreen(s, FALSE)) /\ GoesOn(s, enterAltScreen(s, TRUE))
  <1> DEFINE g == IF s.altCells = NoGrid THEN BlankGrid(s.cols, s.rows) ELSE s.altCells
             t == IF s.alt THEN s ELSE Behind(s, g)
             u == [Wiped(t) EXCEPT !.cx = 0, !.cy = 0, !.top = 0, !.bottom = s.rows - 1, !.pendingWrap = FALSE]
  <1>1. Seen \subseteq DOMAIN s
    BY SeenInScreen
  <1>2. enterAltScreen(s, FALSE) = [t EXCEPT !.viewOffset = 0]
        /\ enterAltScreen(s, TRUE) = [u EXCEPT !.viewOffset = 0]
    BY DEF enterAltScreen, Behind
  <1> HIDE DEF g
  <1>3. LeftAlone(s, t)
    <2>1. LeftAlone(s, Behind(s, g))
      BY <1>1 DEF Behind, LeftAlone, Untouched, Seen
    <2> QED
      BY <1>1, <2>1, SameLeftAlone
  <1> HIDE DEF t
  <1>4. LeftAlone(s, u)
    <2>1. LeftAlone(s, Wiped(t))
      BY <1>3, ErasingLeavesAlone, LeftAloneAgain DEF LeftAlone
    <2> DEFINE w == Wiped(t)
    <2> HIDE DEF w
    <2>2. LeftAlone(s, w)
      BY <2>1 DEF w
    <2>3. LeftAlone(s, [w EXCEPT !.cx = 0, !.cy = 0, !.top = 0, !.bottom = s.rows - 1, !.pendingWrap = FALSE])
      BY <2>2 DEF LeftAlone, Untouched, Seen
    <2> QED
      BY <2>3 DEF w
  <1> HIDE DEF u
  <1>5. GoesOn(s, [t EXCEPT !.viewOffset = 0])
    BY <1>3, TopGoesOn
  <1>6. GoesOn(s, [u EXCEPT !.viewOffset = 0])
    BY <1>4, TopGoesOn
  <1> QED
    BY <1>2, <1>5, <1>6

LEMMA LeaveGoesOn ==
    ASSUME NEW cols, NEW rows, NEW T, NEW B, Size(cols, rows, T, B),
           NEW s, Shape(s, cols, rows, T, B)
    PROVE  GoesOn(s, leaveAltScreen(s, FALSE)) /\ GoesOn(s, leaveAltScreen(s, TRUE))
  <1> DEFINE v == [s EXCEPT !.altCells = s.cells, !.cells = s.mainCells,
                            !.cx = s.mainCx, !.cy = s.mainCy, !.top = s.mainTop,
                            !.bottom = Least(s.mainBottom, s.rows - 1),
                            !.alt = FALSE, !.pendingWrap = FALSE]
             t == IF ~s.alt THEN s ELSE clampCursor(v)
  <1>1. Seen \subseteq DOMAIN s
    BY SeenInScreen
  <1>2. leaveAltScreen(s, FALSE) = [t EXCEPT !.viewOffset = 0]
        /\ leaveAltScreen(s, TRUE) = [Wiped(t) EXCEPT !.viewOffset = 0]
    BY DEF leaveAltScreen
  <1>3. LeftAlone(s, v)
    BY <1>1 DEF LeftAlone, Untouched, Seen
  <1> HIDE DEF v
  <1>4. LeftAlone(s, clampCursor(v))
    BY <1>3, CursorLeavesAlone, LeftAloneAgain DEF LeftAlone
  <1>5. LeftAlone(s, t)
    BY <1>1, <1>4, SameLeftAlone
  <1> HIDE DEF t
  <1>6. LeftAlone(s, Wiped(t))
    BY <1>5, ErasingLeavesAlone, LeftAloneAgain DEF LeftAlone
  <1>7. GoesOn(s, [t EXCEPT !.viewOffset = 0])
    BY <1>5, TopGoesOn
  <1>8. GoesOn(s, [Wiped(t) EXCEPT !.viewOffset = 0])
    BY <1>6, TopGoesOn
  <1> QED
    BY <1>2, <1>7, <1>8

LEMMA ClearTerminalGoesOn ==
    ASSUME NEW cols, NEW rows, NEW T, NEW B, Size(cols, rows, T, B),
           NEW s, Shape(s, cols, rows, T, B)
    PROVE  /\ GoesOn(s, clearTerminal(s))
           /\ s.scrollback # <<>> => clearTerminal(s).wiped > s.wiped
  <1> DEFINE v == [s EXCEPT !.cx = 0, !.cy = 0, !.pendingWrap = FALSE, !.origin = FALSE,
                            !.autoWrap = TRUE, !.alt = FALSE, !.lastChar = Blank,
                            !.top = 0, !.bottom = s.rows - 1, !.sel = NoSelection]
             w == clearScrollback(v)
             t == Wiped(w)
             k == IF v.scrollback = <<>> THEN v.wiped ELSE v.wiped + 1
  <1>1. Seen \subseteq DOMAIN s /\ s.wiped \in Nat /\ s.lost \in Nat
    BY SeenInScreen, ViewFacts
  <1>2. clearTerminal(s) = t
    BY DEF clearTerminal
  <1>3. v.sel = NoSelection /\ v.scrollback = s.scrollback /\ v.wiped = s.wiped /\ v.lost = s.lost
        /\ Seen \subseteq DOMAIN v
    BY <1>1 DEF Seen
  <1> HIDE DEF v
  <1>4. w = [v EXCEPT !.scrollback = <<>>, !.viewOffset = 0, !.wiped = k]
    BY DEF clearScrollback
  <1>5. w.sel = NoSelection /\ w.scrollback = <<>> /\ w.viewOffset = 0 /\ w.wiped = k /\ w.lost = s.lost
        /\ Seen \subseteq DOMAIN w
    <2> HIDE DEF w, k
    <2> QED
      BY <1>3, <1>4 DEF Seen
  <1>6. k = IF s.scrollback = <<>> THEN s.wiped ELSE s.wiped + 1
    BY <1>3
  <1> HIDE DEF w, k
  <1>7. t.sel = NoSelection /\ t.scrollback = <<>> /\ t.viewOffset = 0 /\ t.wiped = k /\ t.lost = s.lost
    <2>1. LeftAlone(w, t)
      BY <1>5, ErasingLeavesAlone
    <2> HIDE DEF t
    <2> QED
      BY <1>5, <2>1 DEF LeftAlone, Untouched
  <1> HIDE DEF t
  <1>8. Ordered(NoSelection)
    BY DEF Ordered, NoSelection
  <1>9. ASSUME s.scrollback = <<>>
        PROVE  StillShown(s, t, t.lost - s.lost)
    <2>1. t.lost - s.lost = 0 /\ Len(<<>>) = 0 /\ s.cols \in Nat /\ s.sel.from \in Int /\ s.sel.to \in Int
      BY <1>1, <1>7, CursorFacts, ViewFacts
    <2>2. Followed(<<>>, <<>>, 0)
      BY <2>1 DEF Followed
    <2>3. Anchored(0, s.viewOffset, 0, 0, 0)
      BY DEF Anchored
    <2>4. Shifted(s.sel, NoSelection, 0, 0, s.cols)
      <3>1. 0 * s.cols = 0
        BY <2>1
      <3> QED
        BY <2>1, <3>1 DEF Shifted
    <2> QED
      BY <1>7, <1>9, <2>1, <2>2, <2>3, <2>4 DEF StillShown
  <1> QED
    BY <1>1, <1>2, <1>6, <1>7, <1>8, <1>9 DEF GoesOn

LEMMA ModeGoesOn ==
    ASSUME NEW cols, NEW rows, NEW T, NEW B, Size(cols, rows, T, B),
           NEW s, Shape(s, cols, rows, T, B), NEW mode \in Nat
    PROVE  GoesOn(s, SetMode(s, mode)) /\ GoesOn(s, ResetMode(s, mode))
  <1>1. ASSUME NEW t, LeftAlone(s, t)
        PROVE  GoesOn(s, t)
    BY <1>1, LeftAloneScrolls DEF Scrolls
  <1>2. Seen \subseteq DOMAIN s
    BY SeenInScreen
  <1>3. CASE mode = 6
    <2>1. SetMode(s, mode) = setOriginMode(s, TRUE) /\ ResetMode(s, mode) = setOriginMode(s, FALSE)
      BY <1>3 DEF SetMode, ResetMode
    <2> QED
      BY <1>1, <1>2, <2>1, CursorLeavesAlone
  <1>4. CASE mode = 7
    <2>1. SetMode(s, mode) = [s EXCEPT !.autoWrap = TRUE] /\ ResetMode(s, mode) = [s EXCEPT !.autoWrap = FALSE]
      BY <1>4 DEF SetMode, ResetMode
    <2> QED
      BY <1>1, <1>2, <2>1, CursorLeavesAlone
  <1>5. CASE mode \in {47, 1047}
    <2>0. (mode = 47 \/ mode = 1047) /\ (mode = 1047) \in BOOLEAN
      BY <1>5
    <2>1. SetMode(s, mode) = enterAltScreen(s, FALSE) /\ ResetMode(s, mode) = leaveAltScreen(s, mode = 1047)
      <3>1. CASE mode = 47
        BY <3>1 DEF SetMode, ResetMode
      <3>2. CASE mode = 1047
        BY <3>2 DEF SetMode, ResetMode
      <3> QED
        BY <2>0, <3>1, <3>2, ZenonT(60)
    <2>2. (mode = 1047) = TRUE \/ (mode = 1047) = FALSE
      BY <2>0
    <2>3. ResetMode(s, mode) = leaveAltScreen(s, TRUE) \/ ResetMode(s, mode) = leaveAltScreen(s, FALSE)
      BY <2>1, <2>2, ZenonT(60)
    <2> QED
      <3>1. GoesOn(s, leaveAltScreen(s, TRUE)) /\ GoesOn(s, leaveAltScreen(s, FALSE))
        BY LeaveGoesOn
      <3>2. GoesOn(s, enterAltScreen(s, FALSE))
        BY EnterGoesOn
      <3>3. SetMode(s, mode) = enterAltScreen(s, FALSE)
        BY <2>1
      <3>4. GoesOn(s, SetMode(s, mode))
        BY <3>2, <3>3
      <3>5. GoesOn(s, ResetMode(s, mode))
        BY <2>3, <3>1
      <3> QED
        BY <3>4, <3>5
  <1>6. CASE mode = 1048
    <2>1. SetMode(s, mode) = decSaveCursor(s) /\ ResetMode(s, mode) = decRestoreCursor(s)
      BY <1>6 DEF SetMode, ResetMode
    <2> QED
      BY <1>1, <1>2, <2>1, CursorLeavesAlone, RestoreLeavesAlone
  <1>7. CASE mode = 1049
    <2> DEFINE t == decSaveCursor(s)
               u == leaveAltScreen(s, TRUE)
    <2>1. SetMode(s, mode) = enterAltScreen(t, TRUE) /\ ResetMode(s, mode) = decRestoreCursor(u)
      BY <1>7 DEF SetMode, ResetMode
    <2>2. Shape(t, cols, rows, T, B) /\ GoesOn(s, t)
      BY <1>1, <1>2, DecSaveKeeps, CursorLeavesAlone
    <2>3. Shape(u, cols, rows, T, B) /\ GoesOn(s, u)
      BY LeaveKeeps, LeaveGoesOn
    <2> HIDE DEF t, u
    <2>4. Shape(enterAltScreen(t, TRUE), cols, rows, T, B) /\ GoesOn(t, enterAltScreen(t, TRUE))
      BY <2>2, EnterKeeps, EnterGoesOn
    <2>5. Shape(decRestoreCursor(u), cols, rows, T, B)
      BY <2>3, DecRestoreKeeps
    <2>6. GoesOn(u, decRestoreCursor(u))
      BY <2>3, SeenInScreen, RestoreLeavesAlone, LeftAloneScrolls DEF Scrolls
    <2>7. GoesOn(s, enterAltScreen(t, TRUE))
      BY <2>2, <2>4, GoesOnAgain
    <2>8. GoesOn(s, decRestoreCursor(u))
      BY <2>3, <2>5, <2>6, GoesOnAgain
    <2> QED
      BY <2>1, <2>7, <2>8
  <1>8. CASE mode \notin {6, 7, 47, 1047, 1048, 1049}
    <2>0. mode # 6 /\ mode # 7 /\ ~(mode \in {47, 1047}) /\ mode # 1048 /\ mode # 1049
      BY <1>8
    <2>1. SetMode(s, mode) = s /\ ResetMode(s, mode) = s
      BY <2>0, ZenonT(60) DEF SetMode, ResetMode
    <2> QED
      BY <1>1, <1>2, <2>1, SameLeftAlone
  <1> QED
    BY <1>3, <1>4, <1>5, <1>6, <1>7, <1>8

(* Every control function goes on from where the history was.                  *)
LEMMA FeedGoesOn ==
    ASSUME NEW cols, NEW rows, NEW T, NEW B, Size(cols, rows, T, B),
           NEW s, Shape(s, cols, rows, T, B), NEW f \in ControlFunctions
    PROVE  GoesOn(s, Feed(s, f))
  <1>1. ASSUME NEW t, LeftAlone(s, t)
        PROVE  GoesOn(s, t)
    BY <1>1, LeftAloneScrolls DEF Scrolls
  <1>2. Seen \subseteq DOMAIN s
    BY SeenInScreen
  <1>3. CASE f[1] = "print" /\ f[2] \in Chars
    <2>1. Feed(s, f) = putChar(s, f[2])
      BY <1>3 DEF Feed
    <2> QED
      BY <1>3, <2>1, PutCharScrolls DEF Scrolls
  <1>4. CASE f[1] \in Plain
    <2>1. CASE f[1] = "LF"
      <3>1. Feed(s, f) = newLine(s)
        BY <2>1 DEF Feed
      <3> QED
        BY <3>1, NewLineScrolls DEF Scrolls
    <2>2. CASE f[1] = "CR"
      <3>1. Feed(s, f) = carriageReturn(s)
        BY <2>2 DEF Feed
      <3> QED
        BY <1>1, <1>2, <3>1, CursorLeavesAlone
    <2>3. CASE f[1] = "NEL"
      <3>1. Feed(s, f) = NextLine(s)
        BY <2>3 DEF Feed
      <3> QED
        BY <3>1, NextLineScrolls DEF Scrolls
    <2>4. CASE f[1] = "BS"
      <3>1. Feed(s, f) = backspace(s)
        BY <2>4 DEF Feed
      <3> QED
        BY <1>1, <1>2, <3>1, CursorLeavesAlone
    <2>5. CASE f[1] = "HT"
      <3>1. Feed(s, f) = tab(s)
        BY <2>5 DEF Feed
      <3> QED
        BY <1>1, <1>2, <3>1, CursorLeavesAlone
    <2>6. CASE f[1] = "RI"
      <3>1. Feed(s, f) = reverseIndex(s)
        BY <2>6 DEF Feed
      <3> QED
        BY <1>1, <1>2, <3>1, MovingLeavesAlone
    <2>7. CASE f[1] = "SC"
      <3>1. Feed(s, f) = saveCursor(s)
        BY <2>7 DEF Feed
      <3> QED
        BY <1>1, <1>2, <3>1, CursorLeavesAlone
    <2>8. CASE f[1] = "RC"
      <3>1. Feed(s, f) = restoreCursor(s)
        BY <2>8 DEF Feed
      <3> QED
        BY <1>1, <1>2, <3>1, RestoreLeavesAlone
    <2>9. CASE f[1] = "RIS"
      <3>1. Feed(s, f) = clearTerminal(s)
        BY <2>9 DEF Feed
      <3> QED
        BY <3>1, ClearTerminalGoesOn
    <2> QED
      BY <1>4, <2>1, <2>2, <2>3, <2>4, <2>5, <2>6, <2>7, <2>8, <2>9 DEF Plain
  <1>5. CASE f[1] \in Counts /\ f[2] \in Nat
    <2>1. CASE f[1] = "REP"
      <3>1. Feed(s, f) = RepeatLast(s, f[2])
        BY <2>1 DEF Feed
      <3> QED
        BY <1>5, <3>1, RepeatScrolls DEF Scrolls
    <2>2. CASE f[1] = "CUU"
      <3>1. Feed(s, f) = cursorUp(s, f[2])
        BY <2>2 DEF Feed
      <3> QED
        BY <1>1, <1>2, <3>1, CursorLeavesAlone
    <2>3. CASE f[1] = "CUD"
      <3>1. Feed(s, f) = cursorDown(s, f[2])
        BY <2>3 DEF Feed
      <3> QED
        BY <1>1, <1>2, <3>1, CursorLeavesAlone
    <2>4. CASE f[1] = "CUF"
      <3>1. Feed(s, f) = cursorRight(s, f[2])
        BY <2>4 DEF Feed
      <3> QED
        BY <1>1, <1>2, <3>1, CursorLeavesAlone
    <2>5. CASE f[1] = "CUB"
      <3>1. Feed(s, f) = cursorLeft(s, f[2])
        BY <2>5 DEF Feed
      <3> QED
        BY <1>1, <1>2, <3>1, CursorLeavesAlone
    <2>6. CASE f[1] = "CHA"
      <3>1. Feed(s, f) = cursorColumn(s, f[2])
        BY <2>6 DEF Feed
      <3> QED
        BY <1>1, <1>2, <3>1, CursorLeavesAlone
    <2>7. CASE f[1] = "VPA"
      <3>1. Feed(s, f) = cursorRow(s, f[2])
        BY <2>7 DEF Feed
      <3> QED
        BY <1>1, <1>2, <3>1, CursorLeavesAlone
    <2>8. CASE f[1] = "ECH"
      <3>1. Feed(s, f) = eraseChars(s, f[2])
        BY <2>8 DEF Feed
      <3> QED
        BY <1>1, <1>2, <3>1, ErasingLeavesAlone
    <2>9. CASE f[1] = "ICH"
      <3>1. Feed(s, f) = insertChars(s, f[2])
        BY <2>9 DEF Feed
      <3> QED
        BY <1>1, <1>2, <3>1, ErasingLeavesAlone
    <2>10. CASE f[1] = "DCH"
      <3>1. Feed(s, f) = deleteChars(s, f[2])
        BY <2>10 DEF Feed
      <3> QED
        BY <1>1, <1>2, <3>1, ErasingLeavesAlone
    <2>11. CASE f[1] = "IL"
      <3>1. Feed(s, f) = insertLines(s, f[2])
        BY <2>11 DEF Feed
      <3> QED
        BY <1>1, <1>2, <3>1, MovingLeavesAlone
    <2>12. CASE f[1] = "DL"
      <3>1. Feed(s, f) = deleteLines(s, f[2])
        BY <2>12 DEF Feed
      <3> QED
        BY <1>1, <1>2, <3>1, MovingLeavesAlone
    <2>13. CASE f[1] = "SD"
      <3>1. Feed(s, f) = scrollDown(s, f[2])
        BY <2>13 DEF Feed
      <3> QED
        BY <1>1, <1>2, <3>1, MovingLeavesAlone
    <2>14. CASE f[1] = "SU"
      <3>1. Feed(s, f) = scrollUp(s, f[2])
        BY <2>14 DEF Feed
      <3> QED
        BY <1>5, <3>1, ScrollUpScrolls DEF Scrolls
    <2>15. CASE f[1] = "DECSET"
      <3>1. Feed(s, f) = SetMode(s, f[2])
        BY <2>15 DEF Feed
      <3> QED
        BY <1>5, <3>1, ModeGoesOn
    <2>16. CASE f[1] = "DECRST"
      <3>1. Feed(s, f) = ResetMode(s, f[2])
        BY <2>16 DEF Feed
      <3> QED
        BY <1>5, <3>1, ModeGoesOn
    <2> QED
      BY <1>5, <2>1, <2>2, <2>3, <2>4, <2>5, <2>6, <2>7, <2>8, <2>9, <2>10, <2>11, <2>12, <2>13, <2>14, <2>15, <2>16 DEF Counts
  <1>6. CASE f[1] \in {"CUP", "STBM"} /\ f[2] \in Nat /\ f[3] \in Nat
    <2>1. CASE f[1] = "CUP"
      <3>1. Feed(s, f) = cursorColumn(cursorRow(s, f[2]), f[3])
        BY <2>1 DEF Feed, cursorTo
      <3>2. LeftAlone(s, cursorRow(s, f[2]))
        BY <1>2, CursorLeavesAlone
      <3> QED
        <4> DEFINE t == cursorRow(s, f[2])
        <4>1. Seen \subseteq DOMAIN t
          BY <3>2 DEF LeftAlone
        <4> HIDE DEF t
        <4>2. LeftAlone(t, cursorColumn(t, f[3]))
          BY <4>1, CursorLeavesAlone
        <4>3. LeftAlone(s, cursorColumn(t, f[3]))
          BY <3>2, <4>2, LeftAloneAgain DEF t
        <4> QED
          BY <1>1, <3>1, <4>3 DEF t
    <2>2. CASE f[1] = "STBM"
      <3>1. Feed(s, f) = setScrollRegion(s, f[2], f[3])
        BY <2>2 DEF Feed
      <3> QED
        BY <1>1, <1>2, <3>1, RegionLeavesAlone
    <2> QED
      BY <1>6, <2>1, <2>2
  <1>7. CASE f[1] = "ED" /\ f[2] \in 0..3
    <2>1. Feed(s, f) = eraseInDisplay(s, f[2])
      BY <1>7 DEF Feed
    <2>2. CASE f[2] = 0
      BY <1>1, <1>2, <2>1, <2>2, ErasingLeavesAlone
    <2>3. CASE f[2] = 1
      BY <1>1, <1>2, <2>1, <2>3, ErasingLeavesAlone
    <2>4. CASE f[2] = 2
      BY <1>1, <1>2, <2>1, <2>4, ErasingLeavesAlone
    <2>5. CASE f[2] = 3
      <3> DEFINE t == Wiped(s)
      <3>1. Feed(s, f) = clearScrollback(t)
        BY <2>1, <2>5 DEF eraseInDisplay
      <3>2. Shape(t, cols, rows, T, B) /\ GoesOn(s, t)
        BY <1>1, <1>2, WipedKeeps, ErasingLeavesAlone
      <3> HIDE DEF t
      <3>3. Shape(clearScrollback(t), cols, rows, T, B) /\ GoesOn(t, clearScrollback(t))
        BY <3>2, ClearScrollbackKeeps, ClearScrollbackGoesOn
      <3> QED
        BY <3>1, <3>2, <3>3, GoesOnAgain
    <2> QED
      BY <1>7, <2>2, <2>3, <2>4, <2>5
  <1>8. CASE f[1] = "EL" /\ f[2] \in 0..2
    <2>1. Feed(s, f) = eraseInLine(s, f[2])
      BY <1>8 DEF Feed
    <2> QED
      BY <1>1, <1>2, <2>1, ErasingLeavesAlone
  <1> QED
    BY <1>3, <1>4, <1>5, <1>6, <1>7, <1>8, FunctionKinds

-----------------------------------------------------------------------------
(* What a chunk does to what the user looks at.                                *)
FedFrom(s, cols, rows) ==
    {t \in FedStates(cols, rows) :
        /\ GoesOn(s, t.screen)
        /\ (s.viewOffset > 0 /\ t.roll.plain /\ t.screen.wiped = s.wiped) => t.screen.viewOffset > 0}

(* Only characters, carriage returns and line feeds are plain.                 *)
LEMMA PlainScrolls ==
    ASSUME NEW cols, NEW rows, NEW T, NEW B, Size(cols, rows, T, B),
           NEW s, Shape(s, cols, rows, T, B), NEW p \in Rolls(cols), NEW f \in ControlFunctions, f[1] # "RIS",
           NEW q, q = (IF p.plain \/ f[1] = "RIS" THEN WritePaper(p, s.cols, f) ELSE p), q.plain
    PROVE  p.plain /\ Scrolls(s, Feed(s, f))
  <1>1. p.plain
    OBVIOUS
  <1>2. f[1] \in {"print", "CR", "LF"}
    <2> SUFFICES ASSUME f[1] \notin {"print", "CR", "LF"}
                 PROVE  FALSE
      OBVIOUS
    <2>1. q = [p EXCEPT !.plain = FALSE, !.lines = <<>>]
      BY <1>1 DEF WritePaper
    <2> QED
      BY <2>1 DEF Rolls
  <1>3. CASE f[1] = "print"
    <2>1. Feed(s, f) = putChar(s, f[2]) /\ f[2] \in Chars
      BY <1>3, FunctionKinds DEF Feed, Plain, Counts
    <2> QED
      BY <2>1, PutCharScrolls
  <1>4. CASE f[1] = "CR"
    <2>1. Feed(s, f) = carriageReturn(s)
      BY <1>4 DEF Feed
    <2> QED
      BY <2>1, SeenInScreen, CursorLeavesAlone, LeftAloneScrolls
  <1>5. CASE f[1] = "LF"
    <2>1. Feed(s, f) = newLine(s)
      BY <1>5 DEF Feed
    <2> QED
      BY <2>1, NewLineScrolls
  <1> QED
    BY <1>1, <1>2, <1>3, <1>4, <1>5

LEMMA FeedOneGoesOn ==
    ASSUME NEW cols, NEW rows, Size(cols, rows, 0..rows - 1, 0..rows - 1),
           NEW s, Shape(s, cols, rows, 0..rows - 1, 0..rows - 1),
           NEW t \in FedFrom(s, cols, rows), NEW f \in ControlFunctions
    PROVE  FeedOne(t, f) \in FedFrom(s, cols, rows)
  <1> DEFINE a == t.screen
             p == t.roll
             u == Feed(a, f)
             q == IF p.plain \/ f[1] = "RIS" THEN WritePaper(p, a.cols, f) ELSE p
             next == FeedOne(t, f)
  <1>1. next.screen = u /\ next.roll = q
    BY DEF FeedOne
  <1>2. t \in FedStates(cols, rows) /\ next \in FedStates(cols, rows)
    BY FeedOneStays DEF FedFrom
  <1>3. /\ Shape(a, cols, rows, 0..rows - 1, 0..rows - 1) /\ Shape(u, cols, rows, 0..rows - 1, 0..rows - 1)
        /\ p \in Rolls(cols)
    BY <1>1, <1>2 DEF FedStates, Fed
  <1>4. /\ GoesOn(s, a)
        /\ (s.viewOffset > 0 /\ p.plain /\ a.wiped = s.wiped) => a.viewOffset > 0
    BY DEF FedFrom
  <1> HIDE DEF a, p, next
  <1>5. GoesOn(a, u)
    BY <1>3, FeedGoesOn
  <1>6. GoesOn(s, u)
    BY <1>3, <1>4, <1>5, GoesOnAgain
  <1>7. ASSUME s.viewOffset > 0, q.plain, u.wiped = s.wiped
        PROVE  u.viewOffset > 0
    <2>1. s.wiped \in Nat /\ a.wiped \in Nat /\ u.wiped \in Nat /\ a.viewOffset \in Nat /\ u.viewOffset \in Nat
          /\ s.viewOffset \in 0..Len(s.scrollback) /\ Len(s.scrollback) \in Nat /\ Len(a.scrollback) \in Nat
          /\ a.scrollback \in Seq(Lines(cols))
      BY <1>3, ViewFacts
    <2>2. a.wiped = s.wiped
      BY <1>4, <1>5, <1>7, <2>1 DEF GoesOn
    <2>3. CASE f[1] = "RIS"
      <3>1. Len(a.scrollback) >= Len(s.scrollback)
        BY <1>4, <2>2 DEF GoesOn, StillShown, Followed
      <3>2. a.scrollback # <<>>
        BY <1>7, <2>1, <3>1
      <3>3. u = clearTerminal(a)
        BY <2>3 DEF Feed
      <3>4. u.wiped > a.wiped
        BY <1>3, <3>2, <3>3, ClearTerminalGoesOn
      <3> QED
        BY <1>7, <2>1, <2>2, <3>4
    <2>4. CASE f[1] # "RIS"
      <3>1. p.plain /\ Scrolls(a, u)
        <4> HIDE DEF q, u
        <4>1. q = IF p.plain \/ f[1] = "RIS" THEN WritePaper(p, a.cols, f) ELSE p
          BY DEF q
        <4> QED
          BY <1>3, <1>7, <2>4, <4>1, PlainScrolls DEF u
      <3> QED
        BY <1>4, <1>7, <2>2, <3>1 DEF Scrolls
    <2> QED
      BY <2>3, <2>4
  <1> HIDE DEF u, q
  <1> QED
    BY <1>1, <1>2, <1>6, <1>7 DEF FedFrom, next

LEMMA ChunkGoesOn ==
    ASSUME NEW cols, NEW rows, Size(cols, rows, 0..rows - 1, 0..rows - 1),
           NEW t \in FedStates(cols, rows), NEW chunk \in Seq(ControlFunctions)
    PROVE  FoldLeft(FeedOne, t, chunk) \in FedFrom(t.screen, cols, rows)
  <1> DEFINE s == t.screen
             S == FedFrom(s, cols, rows)
  <1>1. Shape(s, cols, rows, 0..rows - 1, 0..rows - 1)
    BY DEF FedStates, Fed
  <1>2. \A u \in S, k \in ControlFunctions : FeedOne(u, k) \in S
    <2> HIDE DEF s
    <2> QED
      BY <1>1, FeedOneGoesOn
  <1>3. t \in S
    <2>1. GoesOn(s, s)
      BY <1>1, SeenInScreen, SameLeftAlone, LeftAloneScrolls DEF Scrolls
    <2> QED
      BY <2>1 DEF FedFrom
  <1> HIDE DEF S
  <1>4. FoldLeft(FeedOne, t, chunk) \in S
    BY <1>2, <1>3, FedStaysIn
  <1> QED
    BY <1>4 DEF S

(* A chunk leaves the screen as FedFrom says, but for the view that goes back  *)
(* to the bottom if it was there.                                              *)
LEMMA OutputGoesOn ==
    ASSUME TerminalInv, NEW chunk \in Outputs, Output(chunk)
    PROVE  /\ GoesOn(screen, screen')
           /\ (screen.viewOffset > 0 /\ roll'.plain /\ screen'.wiped = screen.wiped) => screen'.viewOffset > 0
           /\ screen'.cols = screen.cols /\ screen'.rows = screen.rows
           /\ Shape(screen', screen.cols, screen.rows, 0..screen.rows - 1, 0..screen.rows - 1)
  <1> DEFINE cols == screen.cols
             rows == screen.rows
             t == [screen |-> screen, mouse |-> mouse, seen |-> gesture.seen, roll |-> roll, margins |-> margins]
             fed == FoldLeft(FeedOne, t, chunk)
  <1>1. screen' = Settled(screen, fed.screen) /\ roll' = fed.roll
    BY DEF Output
  <1>2. /\ Size(cols, rows, 0..rows - 1, 0..rows - 1) /\ Shape(screen, cols, rows, 0..rows - 1, 0..rows - 1)
        /\ (margins = FALSE => Shape(screen, cols, rows, {0}, {rows - 1}))
        /\ screen \in Screens(cols, rows) /\ margins \in BOOLEAN
    BY SoundFacts DEF TerminalInv, ScreenInv
  <1>3. t \in FedStates(cols, rows)
    <2>1. /\ mouse \in Mice /\ gesture.seen \in SUBSET Buttons /\ (gesture.excused \/ Holding(mouse, gesture.seen))
      BY DEF TerminalInv, MouseInv
    <2>2. roll \in Rolls(cols) /\ AsOnPaper(screen, roll)
      BY DEF TerminalInv, RollInv
    <2>3. ~margins => margins = FALSE
      BY <1>2
    <2>4. Fed(t, cols, rows)
      BY <1>2, <2>1, <2>2, <2>3 DEF Fed
    <2> HIDE DEF cols, rows
    <2> QED
      BY <1>2, <2>1, <2>2, <2>4 DEF FedStates
  <1>4. chunk \in Seq(ControlFunctions) /\ t.screen = screen
    BY TerminalAssumption
  <1> HIDE DEF t
  <1>5. fed \in FedFrom(screen, cols, rows)
    BY <1>2, <1>3, <1>4, ChunkGoesOn
  <1> HIDE DEF fed
  <1> DEFINE a == fed.screen
  <1>6. /\ GoesOn(screen, a) /\ Shape(a, cols, rows, 0..rows - 1, 0..rows - 1)
        /\ (screen.viewOffset > 0 /\ fed.roll.plain /\ a.wiped = screen.wiped) => a.viewOffset > 0
    BY <1>5 DEF FedFrom, FedStates, Fed
  <1> HIDE DEF a
  <1> DEFINE b == setViewOffset(a, 0)
  <1>7. /\ a.viewOffset \in Nat /\ screen.viewOffset \in Nat /\ a.cols = cols /\ a.rows = rows /\ Seen \subseteq DOMAIN a
        /\ a.sel \in Selections /\ Len(a.scrollback) \in Nat
    <2> HIDE DEF cols, rows
    <2>1. /\ a.viewOffset \in 0..Len(a.scrollback) /\ Len(a.scrollback) \in Nat
          /\ screen.viewOffset \in 0..Len(screen.scrollback) /\ Len(screen.scrollback) \in Nat
          /\ a.sel \in Selections
      BY <1>2, <1>6, ViewFacts
    <2> QED
      BY <1>2, <1>6, <2>1, CursorFacts, SeenInScreen
  <1>8. Shape(b, cols, rows, 0..rows - 1, 0..rows - 1) /\ b = [a EXCEPT !.viewOffset = 0]
    <2>1. Bound(0, 0, MaxViewOffset(a)) = 0
      BY <1>7 DEF Bound, Least, Most, MaxViewOffset
    <2> HIDE DEF cols, rows
    <2>2. Shape(setViewOffset(a, 0), cols, rows, 0..rows - 1, 0..rows - 1)
      BY <1>2, <1>6, ViewOffsetKeeps
    <2> QED
      BY <2>1, <2>2 DEF setViewOffset
  <1> HIDE DEF b
  <1>9. CASE screen' = a
    <2> HIDE DEF cols, rows
    <2>1. screen'.cols = cols /\ screen'.rows = rows
      BY <1>7, <1>9
    <2> QED
      BY <1>1, <1>6, <1>9, <2>1 DEF cols, rows
  <1>10. CASE screen' = b /\ (screen.viewOffset = 0 \/ a.viewOffset = 0)
    <2> HIDE DEF cols, rows
    <2>1. GoesOn(a, b)
      BY <1>2, <1>6, <1>7, <1>8, SameLeftAlone, TopGoesOn
    <2>2. GoesOn(screen, b)
      BY <1>2, <1>6, <1>8, <2>1, GoesOnAgain
    <2>3. b.wiped = a.wiped /\ b.viewOffset = 0
      BY <1>7, <1>8 DEF Seen
    <2>4. (screen.viewOffset > 0 /\ roll'.plain /\ b.wiped = screen.wiped) => b.viewOffset > 0
      BY <1>1, <1>6, <1>7, <1>10, <2>3
    <2>5. b.cols = cols /\ b.rows = rows
      <3>1. Size(cols, rows, 0..rows - 1, 0..rows - 1)
        BY <1>2
      <3>2. Shape(b, cols, rows, 0..rows - 1, 0..rows - 1)
        BY <1>8
      <3> QED
        BY <3>1, <3>2, CursorFacts
    <2> QED
      BY <1>8, <1>10, <2>2, <2>4, <2>5 DEF cols, rows
  <1>11. screen' = a \/ (screen' = b /\ (screen.viewOffset = 0 \/ a.viewOffset = 0))
    BY <1>1 DEF Settled, a, b
  <1> QED
    BY <1>9, <1>10, <1>11

-----------------------------------------------------------------------------
(* Only a chunk of output takes from the budget of outputs.                    *)
LEMMA OnlyOutput ==
    ASSUME TerminalInv, [Next]_vars, IsOutput
    PROVE  \E chunk \in Outputs : Output(chunk)
  <1>1. DOMAIN budget = {"output", "resize", "user", "piece"}
    BY DEF TerminalInv, BudgetInv
  <1>2. ASSUME NEW kind, kind # "output", Spend(kind)
        PROVE  FALSE
    BY <1>1, <1>2 DEF Spend, IsOutput
  <1>3. budget' # budget
    BY DEF IsOutput
  <1>4. ~Mouse
    <2> SUFFICES ASSUME Mouse
                 PROVE  FALSE
      OBVIOUS
    <2>1. /\ \A b, c, d, e : mousePressEvent(b, c, d, e) => Spend("user")
          /\ \A b, c : mouseMoveEvent(b, c) => Spend("user")
          /\ \A b, c : mouseReleaseEvent(b, c) => Spend("user")
          /\ \A b, c : mouseDoubleClickEvent(b, c) => Spend("user")
      BY Zenon DEF mousePressEvent, mouseMoveEvent, mouseReleaseEvent, mouseDoubleClickEvent
    <2>2. Spend("user")
      BY <2>1, Zenon DEF Mouse
    <2> QED
      BY <1>2, <2>2
  <1>5. \A size \in Sizes : ~syncPtySize(size)
    BY <1>2 DEF syncPtySize
  <1>6. \A piece \in Pieces : ~WriteBytes(piece)
    BY <1>2 DEF WriteBytes
  <1>7. \A lines \in {-1, 1} : ~ScrollView(lines)
    BY <1>2 DEF ScrollView
  <1>8. /\ ~TypeKey /\ ~ClearTerminal
        /\ \A b \in BOOLEAN : ~CopyOrPaste(b) /\ ~setInteractive(b)
    BY <1>2 DEF TypeKey, ClearTerminal, CopyOrPaste, setInteractive
  <1> QED
    BY <1>3, <1>4, <1>5, <1>6, <1>7, <1>8 DEF Next, vars

(* What a chunk that does not wipe the history leaves of it.                   *)
Goes(cols, rows) ==
    /\ GoesOn(screen, screen')
    /\ (screen.viewOffset > 0 /\ roll'.plain /\ screen'.wiped = screen.wiped) => screen'.viewOffset > 0
    /\ screen'.cols = cols /\ screen'.rows = rows
    /\ Size(cols, rows, 0..rows - 1, 0..rows - 1) /\ Shape(screen, cols, rows, 0..rows - 1, 0..rows - 1)
    /\ Shape(screen', cols, rows, 0..rows - 1, 0..rows - 1)

LEMMA OutputGoes ==
    ASSUME TerminalInv, NEW chunk \in Outputs, Output(chunk)
    PROVE  Goes(screen.cols, screen.rows)
  <1>1. /\ Size(screen.cols, screen.rows, 0..screen.rows - 1, 0..screen.rows - 1)
        /\ Shape(screen, screen.cols, screen.rows, 0..screen.rows - 1, 0..screen.rows - 1)
    BY SoundFacts DEF TerminalInv, ScreenInv
  <1> QED
    BY <1>1, OutputGoesOn DEF Goes

LEMMA KeepsGoes == TerminalInv /\ [Next]_vars /\ KeepsHistory => Goes(screen.cols, screen.rows)
  <1> SUFFICES ASSUME TerminalInv, [Next]_vars, KeepsHistory
               PROVE  Goes(screen.cols, screen.rows)
    OBVIOUS
  <1>1. \E chunk \in Outputs : Output(chunk)
    BY OnlyOutput DEF KeepsHistory
  <1> QED
    BY <1>1, OutputGoes

LEMMA GoesKeeps ==
    ASSUME NEW cols, NEW rows, Goes(cols, rows), KeepsHistory
    PROVE  Trimmed \in Nat /\ StillShown(screen, screen', Trimmed)
  <1> DEFINE t == screen'
  <1>1. /\ Size(cols, rows, 0..rows - 1, 0..rows - 1) /\ Shape(screen, cols, rows, 0..rows - 1, 0..rows - 1)
        /\ Shape(t, cols, rows, 0..rows - 1, 0..rows - 1) /\ GoesOn(screen, t) /\ t.wiped = screen.wiped
        /\ Trimmed = t.lost - screen.lost
    BY DEF Goes, KeepsHistory, Trimmed
  <1> HIDE DEF t
  <1>2. screen.lost \in Nat /\ t.lost \in Nat
    BY <1>1, ViewFacts
  <1>3. t.lost - screen.lost \in Nat /\ StillShown(screen, t, t.lost - screen.lost)
    BY <1>1, <1>2 DEF GoesOn
  <1> QED
    BY <1>1, <1>3 DEF t

(* The line at the top of a view that is away from the bottom.                 *)
LEMMA TopLineKept ==
    ASSUME NEW cols, NEW rows, NEW T, NEW B, Size(cols, rows, T, B),
           NEW s, Shape(s, cols, rows, T, B), NEW t, Shape(t, cols, rows, T, B), NEW k \in Nat, StillShown(s, t, k),
           s.viewOffset > 0, t.viewOffset > 0, Len(s.scrollback) - s.viewOffset >= k
    PROVE  DisplayLine(t, 0) = DisplayLine(s, 0)
  <1> DEFINE p == s.scrollback
             q == t.scrollback
             i == Len(p) - s.viewOffset + 1
             j == Len(q) - t.viewOffset + 1
  <1>1. /\ Len(p) \in Nat /\ Len(q) \in Nat /\ s.viewOffset \in 0..Len(p) /\ t.viewOffset \in 0..Len(q)
    BY ViewFacts
  <1>2. Followed(p, q, k) /\ Anchored(Len(p), s.viewOffset, Len(q), t.viewOffset, k)
    BY DEF StillShown
  <1>3. Len(q) - t.viewOffset = Len(p) - s.viewOffset - k
    BY <1>1, <1>2 DEF Anchored, Most
  <1>4. i \in k + 1..Len(p) /\ j = i - k
    BY <1>1, <1>3
  <1>5. q[j] = p[i]
    BY <1>2, <1>4 DEF Followed
  <1>6. DisplayLine(s, 0) = p[i]
    BY <1>1 DEF DisplayLine, AbsLine
  <1>7. DisplayLine(t, 0) = q[j]
    BY <1>1 DEF DisplayLine, AbsLine
  <1> QED
    BY <1>5, <1>6, <1>7

(* A user who has scrolled up goes on reading the same line while output       *)
(* arrives, until that line is trimmed, the history is wiped, or a program     *)
(* changes the screen; plain output never takes the view away                  *)
(* (TerminalWidget.cpp:1720-1735, 1752-1757).                                  *)
THEOREM ViewAnchored == Spec => ViewIsAnchored
  <1> DEFINE Stays == (KeepsHistory /\ screen.viewOffset > 0) =>
                        /\ roll'.plain => screen'.viewOffset > 0
                        /\ (screen'.viewOffset > 0 /\ Len(screen.scrollback) - screen.viewOffset >= Trimmed) =>
                             DisplayLine(screen', 0) = DisplayLine(screen, 0)
  <1>1. TerminalInv /\ [Next]_vars => Stays
    <2> SUFFICES ASSUME TerminalInv, [Next]_vars, KeepsHistory, screen.viewOffset > 0
                 PROVE  /\ roll'.plain => screen'.viewOffset > 0
                        /\ (screen'.viewOffset > 0 /\ Len(screen.scrollback) - screen.viewOffset >= Trimmed) =>
                             DisplayLine(screen', 0) = DisplayLine(screen, 0)
      OBVIOUS
    <2>1. Goes(screen.cols, screen.rows)
      BY KeepsGoes
    <2>2. Trimmed \in Nat /\ StillShown(screen, screen', Trimmed)
      BY <2>1, GoesKeeps
    <2>3. ASSUME screen'.viewOffset > 0, Len(screen.scrollback) - screen.viewOffset >= Trimmed
          PROVE  DisplayLine(screen', 0) = DisplayLine(screen, 0)
      <3> DEFINE t == screen'
                 k == Trimmed
                 cols == screen.cols
                 rows == screen.rows
      <3>1. /\ Size(cols, rows, 0..rows - 1, 0..rows - 1) /\ Shape(screen, cols, rows, 0..rows - 1, 0..rows - 1)
            /\ Shape(t, cols, rows, 0..rows - 1, 0..rows - 1)
        BY <2>1 DEF Goes
      <3>2. /\ k \in Nat /\ StillShown(screen, t, k) /\ screen.viewOffset > 0 /\ t.viewOffset > 0
            /\ Len(screen.scrollback) - screen.viewOffset >= k
        BY <2>2, <2>3
      <3> HIDE DEF t, k, cols, rows
      <3>3. DisplayLine(t, 0) = DisplayLine(screen, 0)
        BY <3>1, <3>2, TopLineKept
      <3> QED
        BY <3>3 DEF t
    <2>4. roll'.plain => screen'.viewOffset > 0
      BY <2>1 DEF Goes, KeepsHistory
    <2> QED
      BY <2>3, <2>4
  <1> QED
    BY <1>1, TerminalHolds, PTL DEF Spec, ViewIsAnchored

-----------------------------------------------------------------------------
(* A selection has its beginning before its end, whoever makes it.             *)
LEMMA RangeOrdered ==
    ASSUME NEW s, "sel" \in DOMAIN s, s.sel \in Selections, MaxAbsIndex(s) \in Int, Ordered(s.sel),
           NEW n \in Int, NEW i \in Int, NEW j \in Int
    PROVE  Ordered(setSelectionRange(s, n, i, j).sel)
  <1> DEFINE p == Bound(0, i, MaxAbsIndex(s))
             q == Bound(0, j, MaxAbsIndex(s))
             r == [anchor |-> n, from |-> Least(p, q), to |-> Most(p, q)]
             o == [s.sel EXCEPT !.anchor = n]
             u == [s EXCEPT !.sel = o]
  <1>1. p \in Int /\ q \in Int
    BY DEF Bound, Least, Most
  <1>2. [s EXCEPT !.sel.anchor = n] = u
    OBVIOUS
  <1>3. setSelectionRange(s, n, i, j) = IF i < 0 \/ j < 0 THEN clearSelection(u) ELSE [s EXCEPT !.sel = r]
    BY <1>2 DEF setSelectionRange
  <1> HIDE DEF p, q
  <1>4. Ordered(r)
    BY <1>1 DEF Ordered, Least, Most
  <1>5. Ordered(o)
    BY DEF Ordered, Selections
  <1> HIDE DEF r, o
  <1>6. [s EXCEPT !.sel = r].sel = r /\ u.sel = o /\ "sel" \in DOMAIN u
    OBVIOUS
  <1> HIDE DEF u
  <1>7. Ordered(clearSelection(u).sel)
    <2>1. Ordered(NoSelection)
      BY DEF Ordered, NoSelection
    <2>2. [u EXCEPT !.sel = NoSelection].sel = NoSelection
      BY <1>6
    <2> QED
      BY <1>5, <1>6, <2>1, <2>2 DEF clearSelection
  <1> QED
    BY <1>3, <1>4, <1>6, <1>7

LEMMA ClearOrdered ==
    ASSUME NEW s, "sel" \in DOMAIN s, Ordered(s.sel)
    PROVE  Ordered(clearSelection(s).sel)
  <1>1. Ordered(NoSelection)
    BY DEF Ordered, NoSelection
  <1>2. [s EXCEPT !.sel = NoSelection].sel = NoSelection
    OBVIOUS
  <1> QED
    BY <1>1, <1>2 DEF clearSelection

(* A screen that the user has made a selection on.                             *)
LEMMA SelectableScreen ==
    ASSUME ScreenInv
    PROVE  /\ Size(screen.cols, screen.rows, 0..screen.rows - 1, 0..screen.rows - 1)
           /\ Shape(screen, screen.cols, screen.rows, 0..screen.rows - 1, 0..screen.rows - 1)
           /\ Seen \subseteq DOMAIN screen /\ "sel" \in DOMAIN screen
           /\ screen.sel \in Selections /\ screen.sel.anchor \in Int
           /\ MaxAbsIndex(screen) \in Int
  <1>1. /\ Size(screen.cols, screen.rows, 0..screen.rows - 1, 0..screen.rows - 1)
        /\ Shape(screen, screen.cols, screen.rows, 0..screen.rows - 1, 0..screen.rows - 1)
    BY SoundFacts DEF ScreenInv
  <1>2. Seen \subseteq DOMAIN screen
    BY <1>1, SeenInScreen
  <1> QED
    BY <1>1, <1>2, ViewFacts DEF Seen

LEMMA UserOrders ==
    ASSUME TerminalInv, Ordered(screen.sel),
           (\E lines \in {-1, 1} : ScrollView(lines)) \/ TypeKey \/ (\E copies \in BOOLEAN : CopyOrPaste(copies))
    PROVE  Ordered(screen'.sel)
  <1>1. "sel" \in DOMAIN screen
    BY SelectableScreen DEF TerminalInv
  <1>2. \A n : setViewOffset(screen, n).sel = screen.sel
    BY <1>1 DEF setViewOffset
  <1>3. \/ \E n : screen' = setViewOffset(screen, n)
        \/ screen' = clearSelection(screen)
        \/ screen' = screen
    BY DEF ScrollView, TypeKey, CopyOrPaste, Pasted
  <1> QED
    BY <1>1, <1>2, <1>3, ClearOrdered

LEMMA SizeOrders ==
    ASSUME TerminalInv, Ordered(screen.sel), NEW size \in Sizes, syncPtySize(size)
    PROVE  Ordered(screen'.sel)
  <1> DEFINE u == resizeGrid(screen, size[1], size[2])
  <1>1. Seen \subseteq DOMAIN screen
    BY SelectableScreen DEF TerminalInv
  <1>2. u.sel = screen.sel /\ Seen \subseteq DOMAIN u
    BY <1>1 DEF resizeGrid, Seen
  <1>3. screen' = clampCursor(u)
    BY DEF syncPtySize
  <1> HIDE DEF u
  <1>4. LeftAlone(u, clampCursor(u))
    BY <1>2, CursorLeavesAlone
  <1> QED
    BY <1>2, <1>3, <1>4 DEF LeftAlone, Untouched

LEMMA ClearOrders ==
    ASSUME TerminalInv, Ordered(screen.sel), ClearTerminal
    PROVE  Ordered(screen'.sel)
  <1>1. GoesOn(screen, clearTerminal(screen))
    BY SelectableScreen, ClearTerminalGoesOn DEF TerminalInv
  <1> QED
    BY <1>1 DEF ClearTerminal, GoesOn

LEMMA PressOrders ==
    ASSUME TerminalInv, Ordered(screen.sel),
           NEW btn \in Buttons, NEW spot \in Spots, NEW shift \in BOOLEAN, NEW special \in BOOLEAN,
           mousePressEvent(btn, spot, shift, special)
    PROVE  Ordered(screen'.sel)
  <1> DEFINE row == Least(spot[1], screen.rows - 1)
             at == IndexAt(spot)
  <1>1. ScreenInv
    BY DEF TerminalInv
  <1>2. row \in Int /\ at \in Int
    <2>1. row \in 0..screen.rows - 1 /\ at \in Int
      BY <1>1, IndexIsInt
    <2> QED
      BY <2>1
  <1>3. \/ screen' = screen
        \/ screen' = clearSelection(screen)
        \/ screen' = selectLineAt(screen, row)
        \/ screen' = setSelectionRange(screen, at, at, at)
    BY DEF mousePressEvent, Pasted
  <1>4. \A col \in Int : absIndexFromView(screen, row, col) \in Int
    <2> DEFINE a == Len(screen.scrollback) - screen.viewOffset + row
               cols == screen.cols
    <2>1. Len(screen.scrollback) \in Nat /\ screen.viewOffset \in 0..Len(screen.scrollback) /\ cols \in Nat
      BY <1>1, SelectableScreen, ViewFacts, CursorFacts
    <2> HIDE DEF row, cols
    <2>2. a \in Int
      BY <1>2, <2>1
    <2> HIDE DEF a
    <2>3. \A col \in Int : a * cols + col \in Int
      BY <2>1, <2>2
    <2> QED
      BY <2>3 DEF absIndexFromView, a, cols, row
  <1>5. 0 \in Int /\ screen.cols - 1 \in Int
    BY <1>1, SelectableScreen, CursorFacts
  <1> HIDE DEF row, at
  <1>6. Ordered(setSelectionRange(screen, at, at, at).sel)
    BY <1>1, <1>2, SelectableScreen, RangeOrdered
  <1>7. Ordered(selectLineAt(screen, row).sel)
    <2> DEFINE i == absIndexFromView(screen, row, 0)
               j == absIndexFromView(screen, row, screen.cols - 1)
    <2>1. i \in Int /\ j \in Int
      BY <1>4, <1>5
    <2>2. selectLineAt(screen, row) = setSelectionRange(screen, i, i, j)
      BY DEF selectLineAt
    <2> HIDE DEF i, j
    <2> QED
      BY <1>1, <2>1, <2>2, SelectableScreen, RangeOrdered
  <1> QED
    BY <1>1, <1>3, <1>6, <1>7, SelectableScreen, ClearOrdered

LEMMA MoveOrders ==
    ASSUME TerminalInv, Ordered(screen.sel), NEW spot \in Spots, NEW shift \in BOOLEAN,
           mouseMoveEvent(spot, shift)
    PROVE  Ordered(screen'.sel)
  <1>1. ScreenInv /\ screen' = setSelectionRange(screen, screen.sel.anchor, screen.sel.anchor, IndexAt(spot))
    BY DEF mouseMoveEvent, TerminalInv
  <1>2. IndexAt(spot) \in Int
    BY <1>1, IndexIsInt
  <1> QED
    BY <1>1, <1>2, SelectableScreen, RangeOrdered

LEMMA ReleaseOrders ==
    ASSUME TerminalInv, Ordered(screen.sel), NEW btn \in Buttons, NEW spot \in Spots, mouseReleaseEvent(btn, spot)
    PROVE  Ordered(screen'.sel)
  <1> DEFINE s == setSelectionRange(screen, screen.sel.anchor, screen.sel.anchor, IndexAt(spot))
  <1>1. ScreenInv /\ (screen' = screen \/ screen' = s \/ screen' = clearSelection(s))
    BY DEF mouseReleaseEvent, TerminalInv
  <1>2. IndexAt(spot) \in Int
    BY <1>1, IndexIsInt
  <1>3. Ordered(s.sel)
    BY <1>1, <1>2, SelectableScreen, RangeOrdered
  <1>4. Shape(s, screen.cols, screen.rows, 0..screen.rows - 1, 0..screen.rows - 1)
    BY <1>1, <1>2, SelectableScreen, SelectionRangeKeeps
  <1> HIDE DEF s
  <1>5. "sel" \in DOMAIN s
    BY <1>4, SeenInScreen DEF Seen
  <1> QED
    BY <1>1, <1>3, <1>5, ClearOrdered

LEMMA DoubleClickOrders ==
    ASSUME TerminalInv, Ordered(screen.sel), NEW spot \in Spots, NEW shift \in BOOLEAN,
           mouseDoubleClickEvent(spot, shift)
    PROVE  Ordered(screen'.sel)
  <1> DEFINE row == Least(spot[1], screen.rows - 1)
             col == Least(spot[2], screen.cols - 1)
             u == selectWordAt(screen, row, col)
  <1>1. ScreenInv /\ (screen' = screen \/ screen' = u)
    BY DEF mouseDoubleClickEvent, TerminalInv
  <1>2. row \in 0..screen.rows - 1 /\ col \in 0..screen.cols - 1
    BY <1>1, IndexIsInt
  <1> HIDE DEF row, col
  <1>3. PICK n, i, j \in Int : u = setSelectionRange(screen, n, i, j)
    BY <1>1, <1>2, SelectableScreen, SelectWordIs
  <1>4. Ordered(u.sel)
    BY <1>1, <1>3, SelectableScreen, RangeOrdered
  <1> QED
    BY <1>1, <1>4

SelectionInv == TerminalInv /\ Ordered(screen.sel)

LEMMA SelectionKept == SelectionInv /\ [Next]_vars => SelectionInv'
  <1> SUFFICES ASSUME SelectionInv, [Next]_vars
               PROVE  Ordered(screen'.sel)
    BY NextKeeps DEF SelectionInv
  <1>0. TerminalInv /\ Ordered(screen.sel)
    BY DEF SelectionInv
  <1>1. ASSUME NEW chunk \in Outputs, Output(chunk)
        PROVE  Ordered(screen'.sel)
    <2>1. GoesOn(screen, screen')
      BY <1>0, <1>1, OutputGoesOn
    <2> QED
      BY <1>0, <2>1 DEF GoesOn
  <1>2. ASSUME NEW size \in Sizes, syncPtySize(size)
        PROVE  Ordered(screen'.sel)
    BY <1>0, <1>2, SizeOrders
  <1>3. CASE (\E lines \in {-1, 1} : ScrollView(lines)) \/ TypeKey \/ (\E copies \in BOOLEAN : CopyOrPaste(copies))
    BY <1>0, <1>3, UserOrders
  <1>4. CASE ClearTerminal
    BY <1>0, <1>4, ClearOrders
  <1>5. CASE Mouse
    BY <1>0, <1>5, PressOrders, MoveOrders, ReleaseOrders, DoubleClickOrders DEF Mouse
  <1>6. CASE (\E enabled \in BOOLEAN : setInteractive(enabled)) \/ \E piece \in Pieces : WriteBytes(piece)
    <2>1. screen' = screen
      BY <1>6 DEF setInteractive, WriteBytes
    <2> QED
      BY <1>0, <2>1
  <1>7. CASE UNCHANGED vars
    BY <1>0, <1>7 DEF vars
  <1> QED
    BY <1>1, <1>2, <1>3, <1>4, <1>5, <1>6, <1>7 DEF Next

LEMMA SelectionHolds == Spec => []SelectionInv
  <1>1. Init => SelectionInv
    <2> SUFFICES ASSUME Init
                 PROVE  Ordered(screen.sel)
      BY InitHolds DEF SelectionInv
    <2>1. screen.sel = NoSelection
      BY DEF Init, FreshScreen
    <2> QED
      BY <2>1 DEF Ordered, NoSelection
  <1> QED
    BY <1>1, SelectionKept, PTL DEF Spec

(* A character is on a line and in a column.                                   *)
LEMMA DivisionIs ==
    ASSUME NEW x \in Nat, NEW c \in Nat, c > 0
    PROVE  x \div c \in Nat /\ x % c \in 0..c - 1 /\ x = (x \div c) * c + (x % c)
  OBVIOUS

LEMMA DivisionIsOnly ==
    ASSUME NEW x \in Nat, NEW c \in Nat, c > 0, NEW q \in Int, NEW r \in 0..c - 1, x = q * c + r
    PROVE  x \div c = q /\ x % c = r
  <1> DEFINE a == x \div c
             b == x % c
  <1>1. a \in Nat /\ b \in 0..c - 1 /\ x = a * c + b
    BY DivisionIs
  <1> HIDE DEF a, b
  <1>2. a * c \in Int /\ q * c \in Int
    BY <1>1
  <1>3. CASE a > q
    <2>1. a * c >= (q + 1) * c /\ (q + 1) * c = q * c + c
      BY <1>1, <1>3
    <2> QED
      BY <1>1, <1>2, <2>1
  <1>4. CASE a < q
    <2>1. (a + 1) * c <= q * c /\ (a + 1) * c = a * c + c
      BY <1>1, <1>4
    <2> QED
      BY <1>1, <1>2, <2>1
  <1>5. CASE a = q
    BY <1>1, <1>2, <1>5 DEF a, b
  <1> QED
    BY <1>1, <1>3, <1>4, <1>5

LEMMA LineShifts ==
    ASSUME NEW x \in Nat, NEW c \in Nat, c > 0, NEW k \in Nat, NEW n \in Nat, k * c <= x, x < n * c
    PROVE  /\ x - k * c \in Nat /\ (x - k * c) \div c = x \div c - k /\ (x - k * c) % c = x % c
           /\ x \div c \in k..n - 1
  <1> DEFINE q == x \div c
             r == x % c
  <1>1. q \in Nat /\ r \in 0..c - 1 /\ x = q * c + r
    BY DivisionIs
  <1> HIDE DEF q, r
  <1>2. k * c \in Nat /\ q * c \in Nat /\ n * c \in Nat /\ (q - k) * c = q * c - k * c
    BY <1>1
  <1>3. q >= k
    <2> SUFFICES ASSUME q + 1 <= k
                 PROVE  FALSE
      BY <1>1
    <2>1. (q + 1) * c <= k * c /\ (q + 1) * c = q * c + c
      BY <1>1
    <2> QED
      BY <1>1, <1>2, <2>1
  <1>4. q < n
    <2> SUFFICES ASSUME n <= q
                 PROVE  FALSE
      BY <1>1
    <2>1. n * c <= q * c
      BY <1>1
    <2> QED
      BY <1>1, <1>2, <2>1
  <1>5. x - k * c = (q - k) * c + r /\ x - k * c \in Nat /\ q - k \in Int
    BY <1>1, <1>2
  <1>6. (x - k * c) \div c = q - k /\ (x - k * c) % c = r
    <2> DEFINE y == x - k * c
               m == q - k
    <2>1. y \in Nat /\ m \in Int /\ y = m * c + r
      BY <1>5
    <2> HIDE DEF y, m
    <2>2. y \div c = m /\ y % c = r
      BY <1>1, <2>1, DivisionIsOnly
    <2> QED
      BY <2>2 DEF y, m
  <1> QED
    BY <1>1, <1>3, <1>4, <1>5, <1>6 DEF q, r

(* A character of a line that is kept is where its line is now.                *)
LEMMA CharKept ==
    ASSUME NEW cols, NEW rows, NEW T, NEW B, Size(cols, rows, T, B),
           NEW s, Shape(s, cols, rows, T, B), NEW t, Shape(t, cols, rows, T, B), NEW k \in Nat,
           Followed(s.scrollback, t.scrollback, k), NEW x \in Nat, k * cols <= x, x < Len(s.scrollback) * cols
    PROVE  CharAt(t, x - k * cols) = CharAt(s, x)
  <1> DEFINE p == s.scrollback
             q == t.scrollback
             n == Len(p)
             y == x - k * cols
             l == x \div cols
  <1>1. n \in Nat /\ Len(q) \in Nat /\ cols \in Nat /\ cols > 0 /\ s.cols = cols /\ t.cols = cols
    BY ViewFacts, CursorFacts
  <1>2. y \div cols = l - k /\ y % cols = x % cols /\ l \in k..n - 1
    <2>1. k * cols <= x /\ x < n * cols
      OBVIOUS
    <2> HIDE DEF n
    <2> QED
      BY <1>1, <2>1, LineShifts
  <1> HIDE DEF y, l
  <1>3. l + 1 \in k + 1..n /\ l + 1 - k = (l - k) + 1 /\ l < n /\ l - k < Len(q)
    <2>1. Len(q) >= n
      BY DEF Followed
    <2> QED
      BY <1>1, <1>2, <2>1
  <1>4. q[(l - k) + 1] = p[l + 1]
    <2>1. \A i \in k + 1..n : q[i - k] = p[i]
      BY DEF Followed
    <2> HIDE DEF p, q, n
    <2>2. q[(l + 1) - k] = p[l + 1]
      BY <1>3, <2>1
    <2>3. (l + 1) - k = (l - k) + 1
      BY <1>1, <1>2
    <2> QED
      BY <2>2, <2>3
  <1>5. CharAt(s, x) = p[l + 1][x % cols]
    BY <1>1, <1>3 DEF CharAt, AbsLine, l
  <1>6. CharAt(t, y) = q[(l - k) + 1][x % cols]
    <2>1. CharAt(t, y) = AbsLine(t, l - k)[x % cols]
      BY <1>1, <1>2 DEF CharAt
    <2>2. AbsLine(t, l - k) = q[(l - k) + 1]
      BY <1>3 DEF AbsLine
    <2> QED
      BY <2>1, <2>2
  <1> QED
    BY <1>4, <1>5, <1>6 DEF y

LEMMA TextKept ==
    ASSUME NEW cols, NEW rows, NEW T, NEW B, Size(cols, rows, T, B),
           NEW s, Shape(s, cols, rows, T, B), NEW t, Shape(t, cols, rows, T, B), NEW k \in Nat, StillShown(s, t, k),
           Ordered(s.sel), s.sel.anchor >= 0, s.sel.from >= k * cols, s.sel.to < Len(s.scrollback) * cols
    PROVE  selectedText(t) = selectedText(s)
  <1> DEFINE K == k * cols
             a == s.sel.from
             b == s.sel.to
             c == t.sel.from
             d == t.sel.to
             N == Len(s.scrollback) * cols
  <1>1. cols \in Nat /\ s.cols = cols /\ t.cols = cols /\ Len(s.scrollback) \in Nat
        /\ a \in Int /\ b \in Int /\ s.sel.anchor \in Int
    BY ViewFacts, CursorFacts
  <1>2. K \in Nat /\ N \in Nat
    BY <1>1
  <1>3. /\ Followed(s.scrollback, t.scrollback, k) /\ Shifted(s.sel, t.sel, Len(s.scrollback), k, cols)
    BY <1>1 DEF StillShown
  <1>4. a >= K /\ a <= b /\ b < N
    BY DEF Ordered
  <1>5. c = a - K /\ d = b - K
    BY <1>3, <1>4 DEF Shifted
  <1>6. \A x \in Nat : K <= x /\ x < N => CharAt(t, x - K) = CharAt(s, x)
    BY <1>3, CharKept
  <1> DEFINE f == [i \in 1..b - a + 1 |-> CharAt(s, a + i - 1)]
             g == [i \in 1..d - c + 1 |-> CharAt(t, c + i - 1)]
  <1> HIDE DEF K, N, a, b, c, d
  <1>7. d - c + 1 = b - a + 1 /\ c >= 0 /\ a >= 0
    BY <1>1, <1>2, <1>4, <1>5
  <1>8. \A i \in 1..b - a + 1 : CharAt(t, c + i - 1) = CharAt(s, a + i - 1)
    <2> SUFFICES ASSUME NEW i \in 1..b - a + 1
                 PROVE  CharAt(t, c + i - 1) = CharAt(s, a + i - 1)
      OBVIOUS
    <2>1. a + i - 1 \in Nat /\ K <= a + i - 1 /\ a + i - 1 < N /\ (a + i - 1) - K = c + i - 1
      <3>1. i \in Int /\ 1 <= i /\ i <= b - a + 1 /\ a \in Int /\ b \in Int
        BY <1>1
      <3>2. K \in Int /\ N \in Int /\ 0 <= K
        BY <1>2
      <3> QED
        BY <1>4, <1>5, <3>1, <3>2
    <2>2. CharAt(t, (a + i - 1) - K) = CharAt(s, a + i - 1)
      BY <1>6, <2>1
    <2> QED
      BY <2>1, <2>2
  <1>9. f = g
    BY <1>7, <1>8
  <1>10. selectedText(s) = f
    <2>1. ~(a < 0)
      BY <1>1, <1>7
    <2> QED
      BY <2>1 DEF selectedText, a, b
  <1>11. selectedText(t) = g
    <2>1. ~(c < 0)
      BY <1>1, <1>2, <1>5, <1>7
    <2> QED
      BY <2>1 DEF selectedText, c, d
  <1> QED
    BY <1>9, <1>10, <1>11

(* Text selected in the history is the same text after output has scrolled,    *)
(* unless its lines were trimmed, or it was made by double clicking a blank    *)
(* (TerminalWidget.cpp:1760-1769, 1937-1956; TerminalWidget.h:147-148).        *)
THEOREM SelectionStable == Spec => SelectionIsStable
  <1> DEFINE Survives == (/\ KeepsHistory /\ screen.sel.anchor >= 0
                          /\ screen.sel.from >= Trimmed * screen.cols
                          /\ screen.sel.to < Len(screen.scrollback) * screen.cols
                          /\ screen'.sel # NoSelection)
                            => selectedText(screen') = selectedText(screen)
  <1>1. SelectionInv /\ [Next]_vars => Survives
    <2> SUFFICES ASSUME TerminalInv, Ordered(screen.sel), [Next]_vars, KeepsHistory, screen.sel.anchor >= 0,
                        screen.sel.from >= Trimmed * screen.cols,
                        screen.sel.to < Len(screen.scrollback) * screen.cols
                 PROVE  selectedText(screen') = selectedText(screen)
      BY DEF SelectionInv
    <2>1. Goes(screen.cols, screen.rows)
      BY KeepsGoes
    <2>2. Trimmed \in Nat /\ StillShown(screen, screen', Trimmed)
      BY <2>1, GoesKeeps
    <2> DEFINE t == screen'
               k == Trimmed
               cols == screen.cols
               rows == screen.rows
    <2>3. /\ Size(cols, rows, 0..rows - 1, 0..rows - 1) /\ Shape(screen, cols, rows, 0..rows - 1, 0..rows - 1)
          /\ Shape(t, cols, rows, 0..rows - 1, 0..rows - 1)
      BY <2>1 DEF Goes
    <2>4. /\ k \in Nat /\ StillShown(screen, t, k) /\ Ordered(screen.sel) /\ screen.sel.anchor >= 0
          /\ screen.sel.from >= k * cols /\ screen.sel.to < Len(screen.scrollback) * cols
      BY <2>2
    <2> HIDE DEF t, k, cols, rows
    <2>5. selectedText(t) = selectedText(screen)
      BY <2>3, <2>4, TextKept
    <2> QED
      BY <2>5 DEF t
  <1> QED
    BY <1>1, SelectionHolds, PTL DEF Spec, SelectionIsStable
===============================================================================
