--------------------------- MODULE MainWindow_proofs ---------------------------
(* The proofs about the workspace and the window around it, for any sessions   *)
(* and panes: the widgets stay a tree of splitters with two children each, in  *)
(* which every panel hangs, whatever is split, dropped, collapsed or closed;   *)
(* the panel in use is in front; every connection has its tab; and the tree    *)
(* implements WorkspaceTabs.                                                   *)
(*                                                                             *)
(* Three ideas carry them.  A tree is known by what is above a node, which is  *)
(* grounded, so the unit of a panel is the only function that follows the      *)
(* splitters up (UnitsAreUnique).  Splitters of two children are fewer than    *)
(* the panels by the number of units, so one is free whenever two units are    *)
(* made one (SplitterIsFree).  And an operation is described by what it does   *)
(* to the panels' units (Opens, Shows, Docks, ...), which is all that the      *)
(* groups of WorkspaceTabs are made of.                                        *)
EXTENDS MainWindow, FiniteSetTheorems, FunctionTheorems, SequenceTheorems, WellFoundedInduction, TLAPS

-----------------------------------------------------------------------------
(* The splitters around a widget.                                              *)

Used(w) == DOMAIN w.parent \cap Splitters

(* No splitter is around itself, however far up.                               *)
Grounded(w) ==
    \A N \in SUBSET Used(w) : N # {} => \E s \in N : w.parent[s] \notin N

(* The nodes hang in splitters that there are, and in no circle.               *)
Forest(w) ==
    /\ DOMAIN w.parent \subseteq Nodes
    /\ \A n \in DOMAIN w.parent : w.parent[n] \in Used(w) \cup {"host", "workspace"}
    /\ Grounded(w)

LEMMA Places ==
    /\ "host" # "workspace" /\ "host" \notin Splitters /\ "workspace" \notin Splitters
    /\ "host" \notin Nodes /\ "workspace" \notin Nodes
    /\ NoPanel \notin Nodes /\ Panels \cap Splitters = {}
  BY WorkspaceAssumption DEF Nodes

LEMMA AboveOutside ==
    ASSUME NEW w, NEW n, ~InSplitter(w, n)
    PROVE  Above(w, n) = {n}
  <1> DEFINE Closed(S) == \A m \in {n} \cup S : InSplitter(w, m) => w.parent[m] \in S
  <1>1. ASSUME NEW s \in Above(w, n), s # n
        PROVE  FALSE
    <2>1. \A S \in SUBSET Splitters : Closed(S) => s \in S
      BY <1>1 DEF Above
    <2>2. {} \in SUBSET Splitters /\ Closed({})
      OBVIOUS
    <2> HIDE DEF Closed
    <2> QED
      BY <2>1, <2>2
  <1>2. n \in Above(w, n)
    BY DEF Above
  <1> QED
    BY <1>1, <1>2

LEMMA AboveInside ==
    ASSUME NEW w, NEW n, InSplitter(w, n)
    PROVE  Above(w, n) = {n} \cup Above(w, w.parent[n])
  <1> DEFINE p == w.parent[n]
             Closed(m, S) == \A k \in {m} \cup S : InSplitter(w, k) => w.parent[k] \in S
  <1>0. p \in Splitters
    BY DEF InSplitter
  <1>1. \A m : Above(w, m) = {m} \cup {s \in Splitters : \A S \in SUBSET Splitters : Closed(m, S) => s \in S}
    BY DEF Above
  <1>2. \A S \in SUBSET Splitters : Closed(n, S) => p \in S /\ Closed(p, S)
    OBVIOUS
  <1>3. \A S \in SUBSET Splitters : Closed(p, S) => S \cup {p} \in SUBSET Splitters /\ Closed(n, S \cup {p})
    BY <1>0
  <1>4. p \in Above(w, n)
    BY <1>0, <1>1, <1>2
  <1>5. \A s \in Above(w, p) : s \in Above(w, n)
    BY <1>0, <1>1, <1>2, <1>4
  <1>6. \A s \in Above(w, n) : s # n => s \in Above(w, p)
    <2> SUFFICES ASSUME NEW s \in Above(w, n), s # n, s # p,
                        NEW S \in SUBSET Splitters, Closed(p, S)
                 PROVE  s \in S
      BY <1>1
    <2>1. \A T \in SUBSET Splitters : Closed(n, T) => s \in T
      BY <1>1
    <2>2. S \cup {p} \in SUBSET Splitters /\ Closed(n, S \cup {p})
      BY <1>3
    <2> HIDE DEF Closed, p
    <2>3. s \in S \cup {p}
      BY <2>1, <2>2
    <2> QED
      BY <2>3
  <1>7. n \in Above(w, n)
    BY DEF Above
  <1> QED
    BY <1>5, <1>6, <1>7

LEMMA OneOutermost ==
    ASSUME NEW w, Forest(w), NEW n \in DOMAIN w.parent
    PROVE  \E u \in Above(w, n) :
             /\ u \in DOMAIN w.parent /\ ~InSplitter(w, u)
             /\ \A v \in Above(w, n) : ~InSplitter(w, v) => v = u
  <1> DEFINE Top(m) == \E u \in Above(w, m) :
                         /\ u \in DOMAIN w.parent /\ ~InSplitter(w, u)
                         /\ \A v \in Above(w, m) : ~InSplitter(w, v) => v = u
             N == {s \in Used(w) : ~Top(s)}
  <1>1. ASSUME NEW m \in DOMAIN w.parent, ~InSplitter(w, m)
        PROVE  Top(m)
    BY <1>1, AboveOutside
  <1>2. ASSUME NEW m \in DOMAIN w.parent, InSplitter(w, m), Top(w.parent[m])
        PROVE  Top(m)
    BY <1>2, AboveInside
  <1>3. \A m \in DOMAIN w.parent : InSplitter(w, m) => w.parent[m] \in Used(w)
    BY Places DEF InSplitter, Forest
  <1>4. N = {}
    <2> SUFFICES ASSUME N # {}
                 PROVE  FALSE
      OBVIOUS
    <2>1. PICK s \in N : w.parent[s] \notin N
      <3>1. N \in SUBSET Used(w)
        OBVIOUS
      <3> QED
        BY <3>1 DEF Forest, Grounded
    <2>2. s \in DOMAIN w.parent /\ ~Top(s)
      BY DEF Used
    <2> HIDE DEF Top
    <2> QED
      BY <1>1, <1>2, <1>3, <2>1, <2>2
  <1>5. \A m \in DOMAIN w.parent : Top(m)
    <2> SUFFICES ASSUME NEW m \in DOMAIN w.parent
                 PROVE  Top(m)
      OBVIOUS
    <2> HIDE DEF Top
    <2> QED
      BY <1>1, <1>2, <1>3, <1>4
  <1> QED
    BY <1>5

(* The unit of a widget is that of the splitter it is in.                      *)
LEMMA UnitIsOutermost ==
    ASSUME NEW w, Forest(w), NEW n \in DOMAIN w.parent
    PROVE  /\ layoutUnitFor(w, n) \in DOMAIN w.parent
           /\ ~InSplitter(w, layoutUnitFor(w, n))
           /\ ~InSplitter(w, n) => layoutUnitFor(w, n) = n
           /\ InSplitter(w, n) => layoutUnitFor(w, n) = layoutUnitFor(w, w.parent[n])
           /\ \A u : ~InSplitter(w, u) => (u \in Above(w, n) <=> layoutUnitFor(w, n) = u)
  <1>1. ASSUME NEW m \in DOMAIN w.parent
        PROVE  /\ layoutUnitFor(w, m) \in Above(w, m)
               /\ layoutUnitFor(w, m) \in DOMAIN w.parent
               /\ ~InSplitter(w, layoutUnitFor(w, m))
               /\ \A v \in Above(w, m) : ~InSplitter(w, v) => v = layoutUnitFor(w, m)
    <2>1. PICK u \in Above(w, m) :
             /\ u \in DOMAIN w.parent /\ ~InSplitter(w, u)
             /\ \A v \in Above(w, m) : ~InSplitter(w, v) => v = u
      BY OneOutermost
    <2>2. layoutUnitFor(w, m) = u
      BY <2>1 DEF layoutUnitFor
    <2> QED
      BY <2>1, <2>2
  <1>2. ~InSplitter(w, n) => layoutUnitFor(w, n) = n
    BY <1>1, AboveOutside
  <1>3. InSplitter(w, n) => /\ w.parent[n] \in DOMAIN w.parent
                            /\ Above(w, n) = {n} \cup Above(w, w.parent[n])
    BY Places, AboveInside DEF InSplitter, Forest, Used
  <1>4. InSplitter(w, n) => layoutUnitFor(w, n) = layoutUnitFor(w, w.parent[n])
    BY <1>1, <1>3
  <1> QED
    BY <1>1, <1>2, <1>4

(* Nothing but the units can follow the splitters up.                          *)
LEMMA UnitsAreUnique ==
    ASSUME NEW w, Forest(w), NEW U,
           \A n \in DOMAIN w.parent : U[n] = IF InSplitter(w, n) THEN U[w.parent[n]] ELSE n
    PROVE  \A n \in DOMAIN w.parent : layoutUnitFor(w, n) = U[n]
  <1> DEFINE Same(m) == layoutUnitFor(w, m) = U[m]
             N == {s \in Used(w) : ~Same(s)}
  <1>1. \A m \in DOMAIN w.parent : ~InSplitter(w, m) => Same(m)
    BY UnitIsOutermost
  <1>2. \A m \in DOMAIN w.parent : InSplitter(w, m) /\ Same(w.parent[m]) => Same(m)
    BY UnitIsOutermost
  <1>3. \A m \in DOMAIN w.parent : InSplitter(w, m) => w.parent[m] \in Used(w)
    BY Places DEF InSplitter, Forest
  <1> HIDE DEF Same
  <1>4. N = {}
    <2> SUFFICES ASSUME N # {}
                 PROVE  FALSE
      OBVIOUS
    <2>1. PICK s \in N : w.parent[s] \notin N
      <3>1. N \in SUBSET Used(w)
        OBVIOUS
      <3> QED
        BY <3>1 DEF Forest, Grounded
    <2>2. s \in DOMAIN w.parent /\ ~Same(s)
      BY DEF Used
    <2> QED
      BY <1>1, <1>2, <1>3, <2>1, <2>2
  <1>5. \A m \in DOMAIN w.parent : Same(m)
    BY <1>1, <1>2, <1>3, <1>4
  <1> QED
    BY <1>5 DEF Same

-----------------------------------------------------------------------------
(* Splitters with two children each.                                           *)

(* A splitter has two children, at its two places.                             *)
Halves(w, s) ==
    \E a, b \in Children(w, s) :
      a # b /\ Children(w, s) = {a, b} /\ w.index[a] = 1 /\ w.index[b] = 2

(* The workspace as it is between two operations.  A unit is the root, or it   *)
(* waits, hidden, behind its tabs; nothing else is hidden.                     *)
Tree(w) ==
    /\ Forest(w)
    /\ w.panes \subseteq Panels /\ DOMAIN w.parent = w.panes \cup Used(w)
    /\ DOMAIN w.index = DOMAIN w.parent
    /\ \A s \in Used(w) : Halves(w, s)
    /\ w.root \in DOMAIN w.parent \cup {NoPanel}
    /\ \A n \in DOMAIN w.parent : w.parent[n] = "host" <=> n = w.root
    /\ w.hidden = {n \in DOMAIN w.parent : w.parent[n] = "workspace"}

LEMMA AboveGoesUp ==
    ASSUME NEW w, NEW n, NEW s \in Above(w, n), InSplitter(w, s)
    PROVE  w.parent[s] \in Above(w, n)
  <1> DEFINE Closed(S) == \A m \in {n} \cup S : InSplitter(w, m) => w.parent[m] \in S
  <1>1. Above(w, n) = {n} \cup {t \in Splitters : \A S \in SUBSET Splitters : Closed(S) => t \in S}
    BY DEF Above
  <1>2. ASSUME NEW S \in SUBSET Splitters, Closed(S)
        PROVE  w.parent[s] \in S
    <2>1. s = n \/ s \in S
      BY <1>1, <1>2
    <2> QED
      BY <1>2, <2>1
  <1>3. w.parent[s] \in Splitters
    BY DEF InSplitter
  <1> QED
    BY <1>1, <1>2, <1>3

LEMMA AboveInForest ==
    ASSUME NEW w, Forest(w), NEW n \in DOMAIN w.parent
    PROVE  Above(w, n) \subseteq {n} \cup Used(w)
  <1> DEFINE S == Used(w)
             Closed(T) == \A m \in {n} \cup T : InSplitter(w, m) => w.parent[m] \in T
  <1>1. S \in SUBSET Splitters
    BY DEF Used
  <1>2. Closed(S)
    BY Places DEF Forest, InSplitter, Used
  <1>3. \A t \in Above(w, n) : t = n \/ (\A T \in SUBSET Splitters : Closed(T) => t \in T)
    BY DEF Above
  <1> HIDE DEF S, Closed
  <1>4. \A t \in Above(w, n) : t = n \/ t \in S
    BY <1>1, <1>2, <1>3
  <1> QED
    BY <1>4 DEF S

(* No splitter is empty: there is a panel below every node.                    *)
LEMMA PanelBelow ==
    ASSUME NEW w, Tree(w), NEW n \in DOMAIN w.parent
    PROVE  \E p \in w.panes : n \in Above(w, p)
  <1> DEFINE Empty == {s \in Used(w) : \A p \in w.panes : s \notin Above(w, p)}
             Child(s, i) == CHOOSE c \in Children(w, s) : w.index[c] = i
             first == [s \in Empty |-> Child(s, 1)]
  <1>1. ASSUME NEW s \in Used(w), NEW i \in {1, 2}
        PROVE  Child(s, i) \in Children(w, s) /\ w.index[Child(s, i)] = i
    <2>1. \E c \in Children(w, s) : w.index[c] = i
      BY DEF Tree, Halves
    <2> QED
      BY <2>1
  <1>2. ASSUME NEW s \in Empty, NEW c \in Children(w, s)
        PROVE  c \in Empty
    <2>1. c \in DOMAIN w.parent /\ w.parent[c] = s /\ s \in Splitters
      BY DEF Children, Used
    <2>2. InSplitter(w, c)
      BY <2>1 DEF InSplitter
    <2>3. \A p \in w.panes : c \notin Above(w, p)
      BY <2>1, <2>2, AboveGoesUp
    <2>4. c \notin w.panes
      BY <2>3 DEF Above
    <2> QED
      BY <2>1, <2>3, <2>4 DEF Tree
  <1> HIDE DEF Child, Empty
  <1>3. \A s \in Empty : s \in Used(w)
    BY DEF Empty
  <1>4. \A s \in Empty : first[s] \in Children(w, s) /\ w.index[first[s]] = 1
    BY <1>1, <1>3
  <1>5. first \in Injection(Empty, Empty)
    <2>1. first \in [Empty -> Empty]
      BY <1>2, <1>4
    <2>2. \A s, t \in Empty : first[s] = first[t] => s = t
      <3>1. \A s \in Empty : w.parent[first[s]] = s
        BY <1>4 DEF Children
      <3> QED
        BY <3>1
    <2> QED
      BY <2>1, <2>2, Fun_IsInj
  <1>6. IsFiniteSet(Empty)
    <2>1. Empty \in SUBSET Splitters /\ IsFiniteSet(Splitters)
      BY WorkspaceAssumption DEF Empty, Used
    <2> QED
      BY <2>1, FS_Subset
  <1>7. first \in Surjection(Empty, Empty)
    BY <1>5, <1>6, FS_Injection
  <1>8. Empty = {}
    <2> SUFFICES ASSUME NEW s \in Empty
                 PROVE  FALSE
      OBVIOUS
    <2> DEFINE c == Child(s, 2)
    <2>1. c \in Children(w, s) /\ w.index[c] = 2
      BY <1>1, <1>3
    <2>2. c \in Empty
      BY <1>2, <2>1
    <2>3. PICK t \in Empty : first[t] = c
      BY <1>7, <2>2 DEF Surjection
    <2>4. t = s
      BY <1>4, <2>1, <2>3 DEF Children
    <2> QED
      BY <1>4, <2>1, <2>3, <2>4
  <1>9. CASE n \in w.panes
    BY <1>9 DEF Above
  <1>10. CASE n \in Used(w)
    BY <1>8, <1>10 DEF Empty
  <1> QED
    BY <1>9, <1>10 DEF Tree

(* There are fewer splitters than panels, by the number of units: one is free  *)
(* while two units can be made one.                                            *)
LEMMA SplitterIsFree ==
    ASSUME NEW w, Tree(w), Cardinality(w.panes) <= MaxPanels,
           NEW r \in DOMAIN w.parent, NEW q \in DOMAIN w.parent, r # q,
           ~InSplitter(w, r), ~InSplitter(w, q)
    PROVE  \E s \in Splitters : s \notin DOMAIN w.parent
  <1> DEFINE Held == DOMAIN w.parent \ {r, q}
             At(s, i) == CHOOSE c \in Children(w, s) : w.index[c] = i
             place == [x \in Used(w) \X {1, 2} |-> At(x[1], x[2])]
  <1>1. ASSUME NEW s \in Used(w), NEW i \in {1, 2}
        PROVE  At(s, i) \in Held /\ w.parent[At(s, i)] = s /\ w.index[At(s, i)] = i
    <2>1. \E c \in Children(w, s) : w.index[c] = i
      BY DEF Tree, Halves
    <2>2. At(s, i) \in Children(w, s) /\ w.index[At(s, i)] = i
      BY <2>1
    <2> HIDE DEF At
    <2>3. /\ At(s, i) \in DOMAIN w.parent /\ w.parent[At(s, i)] = s /\ s \in Splitters
      BY <2>2 DEF Children, Used
    <2> QED
      BY <2>2, <2>3 DEF InSplitter
  <1> HIDE DEF At, Held
  <1>2. place \in Injection(Used(w) \X {1, 2}, Held)
    <2> DEFINE A == Used(w) \X {1, 2}
    <2>1. \A x \in A : /\ place[x] \in Held
                       /\ w.parent[place[x]] = x[1] /\ w.index[place[x]] = x[2]
      BY <1>1
    <2>2. place \in [A -> Held]
      BY <2>1
    <2> HIDE DEF place
    <2>3. \A x, y \in A : place[x] = place[y] => x = y
      <3> SUFFICES ASSUME NEW x \in A, NEW y \in A, place[x] = place[y]
                   PROVE  x = y
        OBVIOUS
      <3>1. x[1] = y[1] /\ x[2] = y[2]
        BY <2>1
      <3> QED
        BY <3>1
    <2> QED
      BY <2>2, <2>3, Fun_IsInj
  <1> HIDE DEF place
  <1>3. /\ IsFiniteSet(Splitters) /\ IsFiniteSet(Panels)
        /\ Used(w) \in SUBSET Splitters /\ w.panes \in SUBSET Panels
    BY WorkspaceAssumption DEF Used, Tree
  <1>4. /\ IsFiniteSet(Used(w)) /\ IsFiniteSet(w.panes)
        /\ Cardinality(Used(w)) \in Nat /\ Cardinality(w.panes) \in Nat
        /\ Cardinality(Splitters) \in Nat
    BY <1>3, FS_Subset, FS_CardinalityType
  <1>5. Cardinality(DOMAIN w.parent) = Cardinality(w.panes) + Cardinality(Used(w))
        /\ IsFiniteSet(DOMAIN w.parent)
    <2>1. w.panes \cap Used(w) = {}
      BY Places DEF Tree, Used
    <2>2. /\ IsFiniteSet(w.panes \cup Used(w))
          /\ Cardinality(w.panes \cup Used(w))
             = Cardinality(w.panes) + Cardinality(Used(w)) - Cardinality(w.panes \cap Used(w))
      BY <1>4, FS_Union
    <2>3. Cardinality({}) = 0
      BY FS_EmptySet
    <2>4. Cardinality(w.panes \cap Used(w)) = 0
      BY <2>1, <2>3, Zenon
    <2>5. DOMAIN w.parent = w.panes \cup Used(w)
      BY DEF Tree
    <2>6. Cardinality(w.panes \cup Used(w)) = Cardinality(w.panes) + Cardinality(Used(w))
      BY <1>4, <2>2, <2>4
    <2> QED
      BY <2>2, <2>5, <2>6
  <1>6. Cardinality(Held) = Cardinality(w.panes) + Cardinality(Used(w)) - 2 /\ IsFiniteSet(Held)
    <2>1. /\ IsFiniteSet(DOMAIN w.parent \ {r})
          /\ Cardinality(DOMAIN w.parent \ {r}) = Cardinality(DOMAIN w.parent) - 1
      BY <1>5, FS_RemoveElement
    <2>2. /\ IsFiniteSet((DOMAIN w.parent \ {r}) \ {q})
          /\ Cardinality((DOMAIN w.parent \ {r}) \ {q}) = Cardinality(DOMAIN w.parent \ {r}) - 1
      BY <2>1, FS_RemoveElement
    <2>3. Held = (DOMAIN w.parent \ {r}) \ {q}
      BY DEF Held
    <2> QED
      BY <1>4, <1>5, <2>1, <2>2, <2>3
  <1>7. IsFiniteSet({1, 2}) /\ Cardinality({1, 2}) = 2
    <2>1. {1, 2} = 1..2
      OBVIOUS
    <2>2. 1 \in Int /\ 2 \in Int
      OBVIOUS
    <2>3. IsFiniteSet(1..2) /\ Cardinality(1..2) = IF 1 > 2 THEN 0 ELSE 2 - 1 + 1
      BY ONLY <2>2, FS_Interval
    <2> QED
      BY <2>1, <2>3
  <1>8. Cardinality(Used(w)) * 2 <= Cardinality(w.panes) + Cardinality(Used(w)) - 2
    <2>1. Cardinality(Used(w) \X {1, 2}) = Cardinality(Used(w)) * Cardinality({1, 2})
      BY <1>4, <1>7, FS_Product
    <2>2. Cardinality(Used(w) \X {1, 2}) <= Cardinality(Held)
      BY <1>2, <1>6, FS_Injection
    <2> QED
      BY <1>4, <1>6, <1>7, <2>1, <2>2
  <1>9. Cardinality(Used(w)) < Cardinality(Splitters)
    <2>1. MaxPanels \in Nat /\ MaxPanels <= Cardinality(Splitters) + 1
      BY WindowAssumption
    <2> QED
      BY <1>4, <1>8, <2>1
  <1>10. Used(w) # Splitters
    BY <1>4, <1>9
  <1> QED
    BY <1>3, <1>10 DEF Used

-----------------------------------------------------------------------------
(* What a layout is made of.                                                   *)

Holders == Splitters \cup {"host", "workspace"}
Layouts ==
    [panes : SUBSET Panels, tabOrder : Seq(Panels), active : Panels \cup {NoPanel},
     root : Nodes \cup {NoPanel},
     parent : UNION {[D -> Holders] : D \in SUBSET Nodes},
     index : UNION {[D -> Nat] : D \in SUBSET Nodes},
     hidden : SUBSET Nodes,
     pendingDock : {<<>>} \cup (Panels \X Edges \X Panels),
     pendingUnsplit : Panels \cup {NoPanel}]

(* What the operations on the tree leave alone.                                *)
Kept(w, v) ==
    /\ v.panes = w.panes /\ v.tabOrder = w.tabOrder
    /\ v.pendingDock = w.pendingDock /\ v.pendingUnsplit = w.pendingUnsplit

LEMMA MapPut ==
    ASSUME NEW D, NEW S, NEW f \in [D -> S], NEW d \in D, NEW e \in S
    PROVE  [f EXCEPT ![d] = e] \in [D -> S]
  OBVIOUS

LEMMA ParentMap ==
    ASSUME NEW w \in Layouts
    PROVE  /\ w.parent \in [DOMAIN w.parent -> Holders] /\ DOMAIN w.parent \subseteq Nodes
           /\ w.index \in [DOMAIN w.index -> Nat] /\ DOMAIN w.index \subseteq Nodes
           /\ \A D \in SUBSET Nodes : \A f \in [D -> Holders] :
                f \in UNION {[E -> Holders] : E \in SUBSET Nodes}
           /\ \A D \in SUBSET Nodes : \A f \in [D -> Nat] :
                f \in UNION {[E -> Nat] : E \in SUBSET Nodes}
  BY DEF Layouts

Maps == UNION {[D -> Holders] : D \in SUBSET Nodes}
Numbers == UNION {[D -> Nat] : D \in SUBSET Nodes}

(* A layout whose tree is another one.                                         *)
Regrown(w, v, r, P, I, H) == v = [w EXCEPT !.root = r, !.parent = P, !.index = I, !.hidden = H]

LEMMA TreePut ==
    ASSUME NEW w \in Layouts, NEW r \in Nodes \cup {NoPanel}, NEW P \in Maps, NEW I \in Numbers,
           NEW H \in SUBSET Nodes, NEW v, Regrown(w, v, r, P, I, H)
    PROVE  /\ v \in Layouts /\ Kept(w, v) /\ v.active = w.active
           /\ v.root = r /\ v.parent = P /\ v.index = I /\ v.hidden = H
  BY DEF Layouts, Kept, Maps, Numbers, Regrown

LEMMA ActivePut ==
    ASSUME NEW w \in Layouts, NEW H \in SUBSET Nodes, NEW a \in Panels \cup {NoPanel}, NEW v,
           v = [w EXCEPT !.active = a, !.hidden = H]
    PROVE  /\ v \in Layouts /\ Kept(w, v) /\ v.active = a
           /\ v.root = w.root /\ v.parent = w.parent /\ v.index = w.index /\ v.hidden = H
  BY DEF Layouts, Kept

LEMMA RootIsSet ==
    ASSUME NEW w \in Layouts, NEW n \in DOMAIN w.parent, DOMAIN w.index = DOMAIN w.parent, NEW v,
           v = setRootWidget(w, n)
    PROVE  /\ v \in Layouts /\ Kept(w, v) /\ v.active = w.active /\ v.root = n
           /\ v.parent = [w.parent EXCEPT ![n] = "host"]
           /\ v.index = [w.index EXCEPT ![n] = 1]
           /\ v.hidden = w.hidden \ {n}
  <1>1. n \in Nodes \cup {NoPanel} /\ n # NoPanel
    BY ParentMap, Places
  <1>2. v = [w EXCEPT !.root = n, !.parent[n] = "host", !.index[n] = 1, !.hidden = @ \ {n}]
    BY <1>1 DEF setRootWidget
  <1> DEFINE P == [w.parent EXCEPT ![n] = "host"]
             I == [w.index EXCEPT ![n] = 1]
             H == w.hidden \ {n}
  <1>3. Regrown(w, v, n, P, I, H)
    BY <1>2 DEF Layouts, Regrown
  <1>4. P \in Maps
    BY ParentMap DEF Holders, Maps
  <1>5. I \in Numbers
    BY ParentMap DEF Numbers
  <1>6. H \in SUBSET Nodes
    BY DEF Layouts
  <1> HIDE DEF P, I, H
  <1>7. /\ v \in Layouts /\ Kept(w, v) /\ v.active = w.active
        /\ v.root = n /\ v.parent = P /\ v.index = I /\ v.hidden = H
    <2>1. w \in Layouts /\ n \in Nodes \cup {NoPanel} /\ P \in Maps /\ I \in Numbers
          /\ H \in SUBSET Nodes /\ Regrown(w, v, n, P, I, H)
      BY <1>1, <1>3, <1>4, <1>5, <1>6
    <2> QED
      BY ONLY <2>1, TreePut
  <1> QED
    BY <1>7 DEF P, I, H

(* The same panels in the same splitters.                                      *)
SameSplits(w, v) ==
    /\ DOMAIN v.parent = DOMAIN w.parent /\ DOMAIN v.index = DOMAIN w.index
    /\ \A n \in DOMAIN w.parent :
         IF w.parent[n] \in Splitters
         THEN v.parent[n] = w.parent[n] /\ v.index[n] = w.index[n]
         ELSE v.parent[n] \in {"host", "workspace"}

LEMMA SplitsStay ==
    ASSUME NEW w, NEW v, Forest(w), SameSplits(w, v)
    PROVE  /\ Used(v) = Used(w) /\ Forest(v)
           /\ \A n : InSplitter(v, n) <=> InSplitter(w, n)
           /\ \A s \in Splitters : Children(v, s) = Children(w, s)
           /\ \A s \in Splitters : Halves(w, s) => Halves(v, s)
           /\ \A n : Above(v, n) = Above(w, n)
           /\ \A n : layoutUnitFor(v, n) = layoutUnitFor(w, n)
  <1>1. Used(v) = Used(w)
    BY DEF Used, SameSplits
  <1>2. \A n : InSplitter(v, n) <=> InSplitter(w, n)
    BY Places DEF InSplitter, SameSplits
  <1>3. \A n : InSplitter(w, n) => v.parent[n] = w.parent[n]
    BY DEF InSplitter, SameSplits
  <1>4. \A s \in Splitters : Children(v, s) = Children(w, s)
    BY Places DEF Children, SameSplits
  <1>5. ASSUME NEW s \in Splitters, Halves(w, s)
        PROVE  Halves(v, s)
    <2>1. \A n \in Children(w, s) : v.index[n] = w.index[n]
      BY DEF Children, SameSplits
    <2> QED
      BY <1>4, <1>5, <2>1 DEF Halves
  <1>6. Grounded(v)
    <2> SUFFICES ASSUME NEW N \in SUBSET Used(w), N # {}
                 PROVE  \E s \in N : v.parent[s] \notin N
      BY <1>1 DEF Grounded
    <2>1. PICK s \in N : w.parent[s] \notin N
      BY DEF Forest, Grounded
    <2>2. s \in DOMAIN w.parent /\ N \subseteq Splitters
      BY DEF Used
    <2>3. v.parent[s] = w.parent[s] \/ v.parent[s] \in {"host", "workspace"}
      BY <2>2 DEF SameSplits
    <2> QED
      BY <2>1, <2>2, <2>3, Places
  <1>7. Forest(v)
    <2>1. \A n \in DOMAIN w.parent : v.parent[n] = w.parent[n] \/ v.parent[n] \in {"host", "workspace"}
      BY DEF SameSplits
    <2>2. DOMAIN v.parent = DOMAIN w.parent
      BY DEF SameSplits
    <2> QED
      BY <1>1, <1>6, <2>1, <2>2 DEF Forest
  <1>8. ASSUME NEW n
        PROVE  Above(v, n) = Above(w, n)
    <2>1. \A S : (\A m \in {n} \cup S : InSplitter(v, m) => v.parent[m] \in S)
                 <=> (\A m \in {n} \cup S : InSplitter(w, m) => w.parent[m] \in S)
      BY <1>2, <1>3
    <2> QED
      BY <2>1 DEF Above
  <1>9. \A n : layoutUnitFor(v, n) = layoutUnitFor(w, n)
    BY <1>2, <1>8 DEF layoutUnitFor
  <1> QED
    BY <1>1, <1>2, <1>4, <1>5, <1>7, <1>8, <1>9

-----------------------------------------------------------------------------
(* Bringing a unit to the front.                                               *)

Behind(w, v, n, r) == v = [Park(w, n) EXCEPT !.root = r]

LEMMA IsParked ==
    ASSUME NEW w \in Layouts, NEW n \in DOMAIN w.parent, DOMAIN w.index = DOMAIN w.parent,
           NEW r \in Nodes \cup {NoPanel}, NEW v, Behind(w, v, n, r)
    PROVE  /\ v \in Layouts /\ Kept(w, v) /\ v.active = w.active /\ v.root = r
           /\ v.parent = [w.parent EXCEPT ![n] = "workspace"]
           /\ v.index = [w.index EXCEPT ![n] = 1]
           /\ v.hidden = w.hidden \cup {n}
  <1> DEFINE P == [w.parent EXCEPT ![n] = "workspace"]
             I == [w.index EXCEPT ![n] = 1]
             H == w.hidden \cup {n}
  <1>1. n \in Nodes
    BY ParentMap
  <1>2. Regrown(w, v, r, P, I, H)
    BY DEF Layouts, Regrown, Park, Behind
  <1>4. P \in Maps
    BY ParentMap DEF Holders, Maps
  <1>5. I \in Numbers
    BY ParentMap DEF Numbers
  <1>6. H \in SUBSET Nodes
    BY <1>1 DEF Layouts
  <1> HIDE DEF P, I, H
  <1>7. /\ v \in Layouts /\ Kept(w, v) /\ v.active = w.active
        /\ v.root = r /\ v.parent = P /\ v.index = I /\ v.hidden = H
    <2>1. w \in Layouts /\ r \in Nodes \cup {NoPanel} /\ P \in Maps /\ I \in Numbers
          /\ H \in SUBSET Nodes /\ Regrown(w, v, r, P, I, H)
      BY <1>2, <1>4, <1>5, <1>6
    <2> QED
      BY ONLY <2>1, TreePut
  <1> QED
    BY <1>7 DEF P, I, H

LEMMA IsFocused ==
    ASSUME NEW w \in Layouts, NEW f \in Panels, NEW v, v = focusPane(w, f)
    PROVE  /\ v \in Layouts /\ Kept(w, v) /\ v.active = f /\ v.root = w.root
           /\ v.parent = w.parent /\ v.index = w.index /\ v.hidden = w.hidden \ {f}
  <1>1. w.hidden \ {f} \in SUBSET Nodes
    BY DEF Layouts
  <1>2. v = [w EXCEPT !.active = f, !.hidden = w.hidden \ {f}]
    BY DEF focusPane, Layouts
  <1> QED
    BY <1>1, <1>2 DEF Layouts, Kept

LEMMA RootGoesBehind ==
    ASSUME NEW w \in Layouts, Tree(w), NEW v,
           v = IF w.root = NoPanel THEN w ELSE [Park(w, w.root) EXCEPT !.root = NoPanel]
    PROVE  v \in Layouts /\ Tree(v) /\ Kept(w, v) /\ v.root = NoPanel /\ SameSplits(w, v)
  <1>1. CASE w.root = NoPanel
    <2>1. v = w
      BY <1>1
    <2>2. SameSplits(w, w)
      BY DEF SameSplits, Tree, Forest, Used
    <2> QED
      BY <1>1, <2>1, <2>2 DEF Kept
  <1>2. CASE w.root # NoPanel
    <2> DEFINE r == w.root
    <2>1. r \in DOMAIN w.parent /\ DOMAIN w.index = DOMAIN w.parent /\ w.parent[r] = "host"
      BY <1>2 DEF Tree
    <2>2. /\ v \in Layouts /\ Kept(w, v) /\ v.root = NoPanel
          /\ v.parent = [w.parent EXCEPT ![r] = "workspace"]
          /\ v.index = [w.index EXCEPT ![r] = 1]
          /\ v.hidden = w.hidden \cup {r}
      <3>1. w \in Layouts /\ r \in DOMAIN w.parent /\ DOMAIN w.index = DOMAIN w.parent
            /\ NoPanel \in Nodes \cup {NoPanel} /\ Behind(w, v, r, NoPanel)
        BY <1>2, <2>1 DEF Behind
      <3> QED
        BY ONLY <3>1, IsParked
    <2>3. SameSplits(w, v)
      BY <2>1, <2>2, Places, ParentMap DEF SameSplits, Tree, Forest, Used
    <2>4. Used(v) = Used(w) /\ Forest(v) /\ \A s \in Used(v) : Halves(v, s)
      BY <2>3, SplitsStay, ZenonT(60) DEF Tree, Used
    <2>5. /\ v.panes = w.panes /\ DOMAIN v.parent = DOMAIN w.parent
          /\ DOMAIN v.index = DOMAIN w.index
      BY <2>2, ParentMap DEF Kept
    <2>6. \A n \in DOMAIN v.parent : v.parent[n] # "host"
      BY <2>1, <2>2, <2>5, Places, ParentMap DEF Tree
    <2>7. v.hidden = {n \in DOMAIN v.parent : v.parent[n] = "workspace"}
      BY <2>1, <2>2, <2>5, ParentMap DEF Tree
    <2>8. NoPanel \notin DOMAIN v.parent
      BY <2>4, Places DEF Forest
    <2> QED
      BY <2>2, <2>3, <2>4, <2>5, <2>6, <2>7, <2>8 DEF Tree
  <1> QED
    BY <1>1, <1>2

LEMMA UnitComesForward ==
    ASSUME NEW w \in Layouts, Tree(w), w.root = NoPanel, NEW u \in DOMAIN w.parent,
           w.parent[u] \notin Splitters, NEW v, v = setRootWidget(w, u)
    PROVE  v \in Layouts /\ Tree(v) /\ Kept(w, v) /\ v.root = u /\ SameSplits(w, v)
  <1>1. /\ v \in Layouts /\ Kept(w, v) /\ v.root = u
        /\ v.parent = [w.parent EXCEPT ![u] = "host"]
        /\ v.index = [w.index EXCEPT ![u] = 1]
        /\ v.hidden = w.hidden \ {u}
    BY RootIsSet DEF Tree
  <1>2. /\ v.panes = w.panes /\ DOMAIN v.parent = DOMAIN w.parent
        /\ DOMAIN v.index = DOMAIN w.index
    BY <1>1, ParentMap DEF Kept
  <1>3. SameSplits(w, v)
    BY <1>1, <1>2, Places, ParentMap DEF SameSplits, Tree, Forest, Used
  <1>4. Used(v) = Used(w) /\ Forest(v) /\ \A s \in Used(v) : Halves(v, s)
    BY <1>3, SplitsStay DEF Tree, Used
  <1>5. \A n \in DOMAIN w.parent : w.parent[n] # "host"
    BY Places DEF Tree, Forest
  <1>6. \A n \in DOMAIN v.parent : v.parent[n] = "host" <=> n = u
    BY <1>1, <1>2, <1>5, ParentMap
  <1>7. v.hidden = {n \in DOMAIN v.parent : v.parent[n] = "workspace"}
    BY <1>1, <1>2, Places, ParentMap DEF Tree
  <1> QED
    BY <1>1, <1>2, <1>3, <1>4, <1>6, <1>7 DEF Tree

LEMMA SplitsCompose ==
    ASSUME NEW w, NEW x, NEW v, SameSplits(w, x), SameSplits(x, v)
    PROVE  SameSplits(w, v)
  BY Places DEF SameSplits

LEMMA Activated ==
    ASSUME NEW w \in Layouts, Tree(w), NEW f \in w.panes, NEW v, v = activatePanel(w, f)
    PROVE  /\ v \in Layouts /\ Tree(v) /\ Kept(w, v) /\ SameSplits(w, v)
           /\ v.active = f /\ v.root = layoutUnitFor(w, f)
  <1> DEFINE unit   == layoutUnitFor(w, f)
             parked == IF w.root = NoPanel THEN w ELSE [Park(w, w.root) EXCEPT !.root = NoPanel]
             shown  == setRootWidget(parked, unit)
             opened == [shown EXCEPT !.hidden = @ \ ({unit} \cup Children(shown, unit))]
             front  == IF unit = w.root THEN w ELSE opened
  <1>1. f \in DOMAIN w.parent /\ f \in Panels /\ Forest(w)
    BY DEF Tree
  <1>2. unit \in DOMAIN w.parent /\ ~InSplitter(w, unit)
    BY <1>1, UnitIsOutermost
  <1>3. front \in Layouts /\ Tree(front) /\ Kept(w, front) /\ SameSplits(w, front) /\ front.root = unit
    <2>1. CASE unit = w.root
      <3>1. SameSplits(w, w)
        BY DEF SameSplits, Tree, Forest, Used
      <3> QED
        BY <2>1, <3>1 DEF Kept
    <2>2. CASE unit # w.root
      <3>1. /\ parked \in Layouts /\ Tree(parked) /\ Kept(w, parked) /\ parked.root = NoPanel
            /\ SameSplits(w, parked)
        BY RootGoesBehind
      <3>2. unit \in DOMAIN parked.parent /\ parked.parent[unit] \notin Splitters
        BY <1>2, <3>1, Places DEF InSplitter, SameSplits
      <3> HIDE DEF parked, unit
      <3>3. /\ shown \in Layouts /\ Tree(shown) /\ Kept(parked, shown) /\ shown.root = unit
            /\ SameSplits(parked, shown)
        BY <3>1, <3>2, UnitComesForward
      <3> HIDE DEF shown
      <3>4. shown.hidden \ ({unit} \cup Children(shown, unit)) = shown.hidden
        <4>1. unit \notin shown.hidden
          BY <3>3, Places DEF Tree
        <4>2. ASSUME NEW c \in Children(shown, unit), c \in shown.hidden
              PROVE  FALSE
          <5>1. shown.parent[c] = unit /\ c \in DOMAIN shown.parent
            BY <4>2 DEF Children
          <5>2. shown.parent[c] = "workspace"
            BY <3>3, <4>2 DEF Tree
          <5> QED
            BY <3>1, <3>2, <5>1, <5>2, Places DEF Tree, Forest
        <4> QED
          BY <4>1, <4>2
      <3>5. opened = shown
        <4>1. opened = [shown EXCEPT !.hidden = shown.hidden \ ({unit} \cup Children(shown, unit))]
          BY <3>3 DEF Layouts
        <4>2. opened = [shown EXCEPT !.hidden = shown.hidden]
          BY <3>4, <4>1
        <4> QED
          BY <3>3, <4>2 DEF Layouts
      <3>6. SameSplits(w, shown) /\ Kept(w, shown)
        BY <3>1, <3>3, SplitsCompose DEF Kept
      <3> HIDE DEF opened
      <3> QED
        BY <2>2, <3>3, <3>5, <3>6
    <2> QED
      BY <2>1, <2>2
  <1>4. v = focusPane(front, f)
    BY DEF activatePanel
  <1> HIDE DEF front, unit
  <1>5. /\ v \in Layouts /\ Kept(front, v) /\ v.active = f /\ v.root = front.root
        /\ v.parent = front.parent /\ v.index = front.index /\ v.hidden = front.hidden \ {f}
    BY <1>1, <1>3, <1>4, IsFocused
  <1>6. front.hidden \ {f} = front.hidden
    <2>1. layoutUnitFor(front, f) = unit
      BY <1>1, <1>3, SplitsStay DEF unit
    <2>2. f \in DOMAIN front.parent /\ Forest(front)
      BY <1>1, <1>3 DEF SameSplits, Tree
    <2>3. CASE InSplitter(front, f)
      BY <1>3, <2>3, Places DEF InSplitter, Tree
    <2>4. CASE ~InSplitter(front, f)
      <3>1. f = unit
        BY <2>1, <2>2, <2>4, UnitIsOutermost
      <3> QED
        BY <1>3, <3>1, Places DEF Tree
    <2> QED
      BY <2>3, <2>4
  <1>7. SameSplits(front, v)
    <2>1. SameSplits(front, front)
      BY <1>3 DEF SameSplits, Tree, Forest, Used
    <2> QED
      BY <1>5, <2>1 DEF SameSplits
  <1>8. Tree(v)
    <2>1. Used(v) = Used(front) /\ Forest(v) /\ \A s \in Used(v) : Halves(v, s)
      BY <1>3, <1>7, SplitsStay DEF Tree, Used
    <2>2. /\ v.panes = front.panes /\ v.parent = front.parent /\ v.index = front.index
          /\ v.root = front.root /\ v.hidden = front.hidden
      BY <1>5, <1>6 DEF Kept
    <2>3. /\ front.panes \subseteq Panels /\ DOMAIN front.parent = front.panes \cup Used(front)
          /\ DOMAIN front.index = DOMAIN front.parent
          /\ front.root \in DOMAIN front.parent \cup {NoPanel}
          /\ \A n \in DOMAIN front.parent : front.parent[n] = "host" <=> n = front.root
          /\ front.hidden = {n \in DOMAIN front.parent : front.parent[n] = "workspace"}
      BY <1>3 DEF Tree
    <2> QED
      BY <2>1, <2>2, <2>3 DEF Tree
  <1> QED
    BY <1>3, <1>5, <1>7, <1>8, SplitsCompose DEF Kept, unit

-----------------------------------------------------------------------------
(* Taking a panel out of its splitter.                                         *)

Sibling(w, f) == CHOOSE n \in Children(w, w.parent[f]) : n # f

(* The holder of every other node when f has been taken out of its splitter.   *)
HolderWithout(w, f, n) == IF n = Sibling(w, f) THEN w.parent[w.parent[f]] ELSE w.parent[n]

LEMMA SiblingIs ==
    ASSUME NEW w, Tree(w), NEW f \in DOMAIN w.parent, InSplitter(w, f)
    PROVE  /\ w.parent[f] \in Used(w) /\ w.parent[f] # f
           /\ Sibling(w, f) \in DOMAIN w.parent /\ Sibling(w, f) # f
           /\ Sibling(w, f) # w.parent[f] /\ w.parent[Sibling(w, f)] = w.parent[f]
           /\ Children(w, w.parent[f]) = {f, Sibling(w, f)}
           /\ {w.index[f], w.index[Sibling(w, f)]} = {1, 2}
  <1> DEFINE split == w.parent[f]
             sib == Sibling(w, f)
  <1>1. split \in Used(w)
    BY Places DEF Tree, Forest, InSplitter
  <1>2. Halves(w, split) /\ f \in Children(w, split)
    BY <1>1 DEF Tree, Children
  <1>3. PICK a \in Children(w, split), b \in Children(w, split) :
          a # b /\ Children(w, split) = {a, b} /\ w.index[a] = 1 /\ w.index[b] = 2
    BY <1>2 DEF Halves
  <1>4. \E n \in Children(w, split) : n # f
    BY <1>3
  <1>5. sib \in Children(w, split) /\ sib # f
    BY <1>4 DEF Sibling
  <1>6. Children(w, split) = {f, sib} /\ {w.index[f], w.index[sib]} = {1, 2}
    BY <1>2, <1>3, <1>5
  <1>7. sib \in DOMAIN w.parent /\ w.parent[sib] = split
    BY <1>5 DEF Children
  <1>8. w.parent[split] # split
    <2>1. {split} \in SUBSET Used(w)
      BY <1>1
    <2>2. \E s \in {split} : w.parent[s] \notin {split}
      BY <2>1 DEF Tree, Forest, Grounded
    <2> QED
      BY <2>2
  <1>9. split # f /\ sib # split
    BY <1>7, <1>8
  <1> QED
    BY <1>1, <1>5, <1>6, <1>7, <1>9

LEMMA JustParked ==
    ASSUME NEW w \in Layouts, NEW n \in DOMAIN w.parent, DOMAIN w.index = DOMAIN w.parent,
           NEW v, v = Park(w, n)
    PROVE  /\ v \in Layouts /\ Kept(w, v) /\ v.active = w.active /\ v.root = w.root
           /\ v.parent = [w.parent EXCEPT ![n] = "workspace"]
           /\ v.index = [w.index EXCEPT ![n] = 1]
           /\ v.hidden = w.hidden \cup {n}
  <1>1. n \in Nodes
    BY ParentMap
  <1>2. Behind(w, v, n, w.root)
    BY <1>1 DEF Park, Behind, Layouts
  <1>3. w.root \in Nodes \cup {NoPanel}
    BY DEF Layouts
  <1> QED
    BY <1>2, <1>3, IsParked

(* The splitter is gone from the tables.                                       *)
Without(w, s) ==
    [w EXCEPT !.parent = [n \in DOMAIN @ \ {s} |-> @[n]],
              !.index = [n \in DOMAIN @ \ {s} |-> @[n]],
              !.hidden = @ \ {s}]

CutOff(w, s, r) == [Without(w, s) EXCEPT !.root = r]

LEMMA IsWithout ==
    ASSUME NEW w \in Layouts, NEW s, NEW r \in Nodes \cup {NoPanel}, NEW v,
           v = CutOff(w, s, r)
    PROVE  /\ v \in Layouts /\ Kept(w, v) /\ v.active = w.active /\ v.root = r
           /\ v.parent = [n \in DOMAIN w.parent \ {s} |-> w.parent[n]]
           /\ v.index = [n \in DOMAIN w.index \ {s} |-> w.index[n]]
           /\ v.hidden = w.hidden \ {s}
  <1> DEFINE P == [n \in DOMAIN w.parent \ {s} |-> w.parent[n]]
             I == [n \in DOMAIN w.index \ {s} |-> w.index[n]]
             H == w.hidden \ {s}
  <1>1. Regrown(w, v, r, P, I, H)
    BY DEF Layouts, Regrown, Without, CutOff
  <1>2. P \in Maps
    <2>1. P \in [DOMAIN w.parent \ {s} -> Holders]
      BY ParentMap
    <2>2. DOMAIN w.parent \ {s} \in SUBSET Nodes
      BY ParentMap
    <2> HIDE DEF P
    <2> QED
      BY <2>1, <2>2 DEF Maps
  <1>3. I \in Numbers
    <2>1. I \in [DOMAIN w.index \ {s} -> Nat]
      BY ParentMap
    <2>2. DOMAIN w.index \ {s} \in SUBSET Nodes
      BY ParentMap
    <2> HIDE DEF I
    <2> QED
      BY <2>1, <2>2 DEF Numbers
  <1>4. H \in SUBSET Nodes
    BY DEF Layouts
  <1> HIDE DEF P, I, H
  <1>5. /\ v \in Layouts /\ Kept(w, v) /\ v.active = w.active
        /\ v.root = r /\ v.parent = P /\ v.index = I /\ v.hidden = H
    <2>1. w \in Layouts /\ r \in Nodes \cup {NoPanel} /\ P \in Maps /\ I \in Numbers
          /\ H \in SUBSET Nodes /\ Regrown(w, v, r, P, I, H)
      BY <1>1, <1>2, <1>3, <1>4
    <2> QED
      BY ONLY <2>1, TreePut
  <1> QED
    BY <1>5 DEF P, I, H

(* What is left of the tables when f is taken out of its splitter.             *)
TakenOut(w, v, f) ==
    LET split == w.parent[f]  sib == Sibling(w, f) IN
    /\ v.root = IF w.root = split THEN sib ELSE w.root
    /\ DOMAIN v.parent = DOMAIN w.parent \ {split}
    /\ DOMAIN v.index = DOMAIN w.index \ {split}
    /\ v.parent[f] = "workspace"
    /\ \A n \in DOMAIN w.parent \ {split, f} : v.parent[n] = HolderWithout(w, f, n)
    /\ \A n \in DOMAIN w.parent \ {split, f, sib} : v.index[n] = w.index[n]
    /\ w.parent[split] \in Splitters => v.index[sib] = w.index[split]
    /\ v.hidden = {n \in DOMAIN v.parent : v.parent[n] = "workspace"}

Collapsed(w, v, out, split, sib) ==
    /\ v \in Layouts /\ Kept(w, v) /\ v.active = w.active
    /\ v.root = IF w.root = split THEN sib ELSE w.root
    /\ DOMAIN v.parent = DOMAIN w.parent \ {split}
    /\ DOMAIN v.index = DOMAIN w.index \ {split}
    /\ v.parent[sib] = w.parent[split]
    /\ \A n \in DOMAIN w.parent \ {split, sib} :
         v.parent[n] = out.parent[n] /\ v.index[n] = out.index[n]
    /\ w.parent[split] \in Splitters => v.index[sib] = w.index[split]
    /\ v.hidden = IF w.parent[split] = "workspace" THEN (out.hidden \ {split}) \cup {sib}
                  ELSE (out.hidden \ {split}) \ {sib}

LEMMA SplitCollapses ==
    ASSUME NEW w \in Layouts, Tree(w), NEW f \in w.panes, InSplitter(w, f), NEW v,
           v = extractPane(w, f)
    PROVE  v \in Layouts /\ Kept(w, v) /\ v.active = w.active /\ TakenOut(w, v, f)
  <1> DEFINE split == w.parent[f]
             sib == Sibling(w, f)
             out == Park(w, f)
             up == w.parent[split]
  <1>1. /\ split \in Used(w) /\ split # f /\ sib \in DOMAIN w.parent /\ sib # f /\ sib # split
        /\ w.parent[sib] = split /\ split \in DOMAIN w.parent /\ split \in Splitters
        /\ f \in DOMAIN w.parent /\ DOMAIN w.index = DOMAIN w.parent
    BY SiblingIs DEF Tree, Used
  <1>2. v = collapseSplitter(out, split, sib)
    BY DEF extractPane, Sibling
  <1>3. /\ out \in Layouts /\ Kept(w, out) /\ out.active = w.active /\ out.root = w.root
        /\ out.parent = [w.parent EXCEPT ![f] = "workspace"]
        /\ out.index = [w.index EXCEPT ![f] = 1]
        /\ out.hidden = w.hidden \cup {f}
    BY <1>1, JustParked
  <1>4. /\ DOMAIN out.parent = DOMAIN w.parent /\ DOMAIN out.index = DOMAIN w.parent
        /\ out.parent[f] = "workspace" /\ out.parent[split] = up /\ out.index[split] = w.index[split]
        /\ \A n \in DOMAIN w.parent \ {f} : out.parent[n] = w.parent[n] /\ out.index[n] = w.index[n]
    BY <1>1, <1>3, ParentMap
  <1>5. /\ up \in Used(w) \cup {"host", "workspace"} /\ (up = "host" <=> split = w.root)
        /\ \A n \in DOMAIN w.parent : n \in w.hidden <=> w.parent[n] = "workspace"
        /\ w.hidden \subseteq DOMAIN w.parent
    BY <1>1 DEF Tree, Forest
  <1> DEFINE cut(r) == CutOff(out, split, r)
  <1>6. ASSUME NEW r \in Nodes \cup {NoPanel}
        PROVE  /\ cut(r) \in Layouts /\ Kept(w, cut(r)) /\ cut(r).active = w.active /\ cut(r).root = r
               /\ DOMAIN cut(r).parent = DOMAIN w.parent \ {split}
               /\ DOMAIN cut(r).index = DOMAIN w.parent \ {split}
               /\ \A n \in DOMAIN w.parent \ {split} :
                    cut(r).parent[n] = out.parent[n] /\ cut(r).index[n] = out.index[n]
               /\ cut(r).hidden = out.hidden \ {split}
    <2>1. out \in Layouts /\ r \in Nodes \cup {NoPanel} /\ cut(r) = CutOff(out, split, r)
      BY <1>3, <1>6
    <2> HIDE DEF cut, out, split
    <2>2. /\ cut(r) \in Layouts /\ Kept(out, cut(r)) /\ cut(r).active = out.active /\ cut(r).root = r
          /\ cut(r).parent = [n \in DOMAIN out.parent \ {split} |-> out.parent[n]]
          /\ cut(r).index = [n \in DOMAIN out.index \ {split} |-> out.index[n]]
          /\ cut(r).hidden = out.hidden \ {split}
      BY ONLY <2>1, IsWithout
    <2> QED
      BY <1>3, <1>4, <2>2 DEF Kept
  <1> DEFINE Off(r, d) == /\ d \in Layouts /\ Kept(w, d) /\ d.active = w.active /\ d.root = r
                          /\ DOMAIN d.parent = DOMAIN w.parent \ {split}
                          /\ DOMAIN d.index = DOMAIN w.parent \ {split}
                          /\ \A n \in DOMAIN w.parent \ {split} :
                               d.parent[n] = out.parent[n] /\ d.index[n] = out.index[n]
                          /\ d.hidden = out.hidden \ {split}
  <1>7. \A r \in Nodes \cup {NoPanel} : Off(r, cut(r))
    BY <1>6
  <1>8. v = IF split = w.root THEN setRootWidget(cut(NoPanel), sib)
            ELSE IF up \in Splitters
            THEN [cut(w.root) EXCEPT !.parent[sib] = up, !.index[sib] = w.index[split]]
            ELSE IF up = "workspace" THEN Park(cut(w.root), sib)
            ELSE setRootWidget(cut(w.root), sib)
    <2>1. CutOff(out, split, w.root) = Without(out, split)
      <3>1. Without(out, split) = CutOff(out, split, out.root)
        BY <1>3 DEF Without, CutOff, Layouts
      <3> QED
        BY <1>3, <3>1
    <2> HIDE DEF out
    <2> QED
      BY <1>2, <1>3, <1>4, <2>1 DEF collapseSplitter, Without, CutOff
  <1> HIDE DEF cut, out
  <1> DEFINE Done == Collapsed(w, v, out, split, sib)
  <1> HIDE DEF split, sib, up
  <1>9. ASSUME split = w.root
        PROVE  Done
    <2> DEFINE d == cut(NoPanel)
    <2>1. Off(NoPanel, d)
      BY <1>7
    <2>2. v = setRootWidget(d, sib)
      BY <1>8, <1>9
    <2> HIDE DEF d
    <2>3. /\ v \in Layouts /\ Kept(d, v) /\ v.active = d.active /\ v.root = sib
          /\ v.parent = [d.parent EXCEPT ![sib] = "host"]
          /\ v.index = [d.index EXCEPT ![sib] = 1]
          /\ v.hidden = d.hidden \ {sib}
      BY <1>1, <2>1, <2>2, RootIsSet
    <2>4. up = "host" /\ up \notin Splitters /\ up # "workspace"
      BY <1>5, <1>9, Places
    <2>5. /\ v.parent[sib] = "host" /\ DOMAIN v.parent = DOMAIN w.parent \ {split}
          /\ DOMAIN v.index = DOMAIN w.index \ {split}
          /\ \A n \in DOMAIN w.parent \ {split, sib} :
               v.parent[n] = out.parent[n] /\ v.index[n] = out.index[n]
      BY <1>1, <2>1, <2>3, ParentMap
    <2>6. v.hidden = (out.hidden \ {split}) \ {sib}
      BY <2>1, <2>3
    <2>7. v \in Layouts /\ Kept(w, v) /\ v.active = w.active /\ v.root = sib
      BY <2>1, <2>3 DEF Kept
    <2> QED
      BY <1>9, <2>4, <2>5, <2>6, <2>7 DEF Collapsed, up
  <1>10. ASSUME split # w.root
         PROVE  Done
    <2> DEFINE d == cut(w.root)
    <2>1. Off(w.root, d)
      BY <1>7 DEF Layouts
    <2>2. up # "host"
      BY <1>5, <1>10
    <2>3. CASE up \in Splitters
      <3> DEFINE P == [d.parent EXCEPT ![sib] = up]
                 I == [d.index EXCEPT ![sib] = w.index[split]]
                 H == d.hidden
      <3>1. v = [d EXCEPT !.parent[sib] = up, !.index[sib] = w.index[split]]
        BY <1>8, <1>10, <2>3
      <3> HIDE DEF d
      <3>2. Regrown(d, v, w.root, P, I, H)
        BY <2>1, <3>1, ZenonT(60) DEF Regrown, Layouts
      <3>3. P \in Maps
        <4>1. d.parent \in [DOMAIN d.parent -> Holders] /\ DOMAIN d.parent \in SUBSET Nodes
          BY <2>1, ParentMap
        <4>2. P \in [DOMAIN d.parent -> Holders]
          BY <2>3, <4>1 DEF Holders
        <4> HIDE DEF P
        <4> QED
          BY <4>1, <4>2 DEF Maps
      <3>4. I \in Numbers
        <4>1. d.index \in [DOMAIN d.index -> Nat] /\ DOMAIN d.index \in SUBSET Nodes
          BY <2>1, ParentMap
        <4>2. w.index[split] \in Nat
          BY <1>1, ParentMap
        <4>3. I \in [DOMAIN d.index -> Nat]
          BY <4>1, <4>2
        <4> HIDE DEF I
        <4> QED
          BY <4>1, <4>3 DEF Numbers
      <3>5. H \in SUBSET Nodes /\ w.root \in Nodes \cup {NoPanel} /\ d \in Layouts
        BY <2>1 DEF Layouts
      <3>6. /\ P[sib] = up /\ I[sib] = w.index[split]
            /\ DOMAIN P = DOMAIN d.parent /\ DOMAIN I = DOMAIN d.index
            /\ \A n \in DOMAIN w.parent \ {split, sib} : P[n] = d.parent[n] /\ I[n] = d.index[n]
        BY <1>1, <2>1, ParentMap
      <3> HIDE DEF P, I, H
      <3>7. /\ v \in Layouts /\ Kept(d, v) /\ v.active = d.active
            /\ v.root = w.root /\ v.parent = P /\ v.index = I /\ v.hidden = H
        <4>1. d \in Layouts /\ w.root \in Nodes \cup {NoPanel} /\ P \in Maps /\ I \in Numbers
              /\ H \in SUBSET Nodes /\ Regrown(d, v, w.root, P, I, H)
          BY <3>2, <3>3, <3>4, <3>5
        <4> QED
          BY ONLY <4>1, TreePut
      <3>8. up # "workspace" /\ sib \notin out.hidden
        BY <1>1, <1>3, <1>5, <2>3, Places
      <3>9. v.hidden = (out.hidden \ {split}) \ {sib}
        BY <2>1, <3>7, <3>8 DEF H
      <3>10. v \in Layouts /\ Kept(w, v) /\ v.active = w.active /\ v.root = w.root
        BY <2>1, <3>7 DEF Kept
      <3>11. /\ v.parent[sib] = up /\ v.index[sib] = w.index[split]
             /\ DOMAIN v.parent = DOMAIN w.parent \ {split}
             /\ DOMAIN v.index = DOMAIN w.index \ {split}
        BY <1>1, <2>1, <3>6, <3>7
      <3>12. \A n \in DOMAIN w.parent \ {split, sib} :
               v.parent[n] = out.parent[n] /\ v.index[n] = out.index[n]
        BY <2>1, <3>6, <3>7
      <3> QED
        BY <1>10, <3>8, <3>9, <3>10, <3>11, <3>12 DEF Collapsed, up
    <2>4. CASE up \notin Splitters
      <3>1. up = "workspace"
        BY <1>5, <2>2, <2>4 DEF Used
      <3>2. v = Park(d, sib)
        BY <1>8, <1>10, <2>4, <3>1
      <3> HIDE DEF d
      <3>3. /\ v \in Layouts /\ Kept(d, v) /\ v.active = d.active /\ v.root = d.root
            /\ v.parent = [d.parent EXCEPT ![sib] = "workspace"]
            /\ v.index = [d.index EXCEPT ![sib] = 1]
            /\ v.hidden = d.hidden \cup {sib}
        BY <1>1, <2>1, <3>2, JustParked
      <3>4. /\ v.parent[sib] = "workspace" /\ DOMAIN v.parent = DOMAIN w.parent \ {split}
            /\ DOMAIN v.index = DOMAIN w.index \ {split}
            /\ \A n \in DOMAIN w.parent \ {split, sib} :
                 v.parent[n] = out.parent[n] /\ v.index[n] = out.index[n]
        BY <1>1, <2>1, <3>3, ParentMap
      <3>5. v.hidden = (out.hidden \ {split}) \cup {sib}
        BY <2>1, <3>3
      <3>6. v \in Layouts /\ Kept(w, v) /\ v.active = w.active /\ v.root = w.root
        BY <2>1, <3>3 DEF Kept
      <3> QED
        BY <1>10, <2>4, <3>1, <3>4, <3>5, <3>6 DEF Collapsed, up
    <2> QED
      BY <2>3, <2>4
  <1>11. Done
    BY <1>9, <1>10
  <1>12. v.hidden = {n \in DOMAIN v.parent : v.parent[n] = "workspace"}
    <2>1. v.hidden \subseteq DOMAIN v.parent
      BY <1>1, <1>3, <1>5, <1>11 DEF Collapsed, up
    <2>2. ASSUME NEW n \in DOMAIN v.parent
          PROVE  n \in v.hidden <=> v.parent[n] = "workspace"
      <3>1. n \in DOMAIN w.parent /\ n # split
        BY <1>11 DEF Collapsed, up
      <3>2. CASE n = sib
        BY <1>4, <1>11, <3>1, <3>2 DEF Collapsed, up
      <3>3. CASE n # sib
        <4>1. v.parent[n] = out.parent[n] /\ (n \in v.hidden <=> n \in out.hidden)
          BY <1>11, <3>1, <3>3 DEF Collapsed, up
        <4>2. CASE n = f
          BY <1>3, <1>4, <4>1, <4>2
        <4>3. CASE n # f
          BY <1>3, <1>4, <1>5, <3>1, <4>1, <4>3
        <4> QED
          BY <4>2, <4>3
      <3> QED
        BY <3>2, <3>3
    <2> QED
      BY <2>1, <2>2
  <1>13. \A n \in DOMAIN w.parent \ {split, f} : v.parent[n] = HolderWithout(w, f, n)
    BY <1>1, <1>4, <1>11 DEF HolderWithout, Collapsed, split, sib, up
  <1>14. v.parent[f] = "workspace"
    BY <1>1, <1>4, <1>11 DEF Collapsed, up
  <1>15. \A n \in DOMAIN w.parent \ {split, f, sib} : v.index[n] = w.index[n]
    BY <1>4, <1>11 DEF Collapsed, up
  <1>16. /\ v \in Layouts /\ Kept(w, v) /\ v.active = w.active
         /\ v.root = IF w.root = split THEN sib ELSE w.root
         /\ DOMAIN v.parent = DOMAIN w.parent \ {split}
         /\ DOMAIN v.index = DOMAIN w.index \ {split}
         /\ up \in Splitters => v.index[sib] = w.index[split]
    BY <1>11 DEF Collapsed, up
  <1> QED
    BY <1>12, <1>13, <1>14, <1>15, <1>16 DEF TakenOut, split, sib, up

(* The unit that is left of unit u when f is taken out.                        *)
Heir(w, f, u) == IF InSplitter(w, f) /\ u = w.parent[f] THEN Sibling(w, f) ELSE u

LEMMA TakenOutForest ==
    ASSUME NEW w, Tree(w), NEW f \in w.panes, InSplitter(w, f), NEW v, TakenOut(w, v, f)
    PROVE  Used(v) = Used(w) \ {w.parent[f]} /\ Forest(v)
  <1> DEFINE split == w.parent[f]
             sib == Sibling(w, f)
             up == w.parent[split]
  <1>1. /\ split \in Used(w) /\ split # f /\ sib \in DOMAIN w.parent /\ sib # f /\ sib # split
        /\ w.parent[sib] = split /\ split \in DOMAIN w.parent /\ split \in Splitters
        /\ f \in DOMAIN w.parent /\ f \notin Splitters
        /\ \A n \in DOMAIN w.parent : w.parent[n] = split => n \in {f, sib}
    BY SiblingIs, Places DEF Tree, Used, Children
  <1>2. up # split /\ up \in Used(w) \cup {"host", "workspace"}
    BY <1>1 DEF Tree, Forest
  <1>3. /\ DOMAIN v.parent = DOMAIN w.parent \ {split} /\ v.parent[f] = "workspace"
        /\ v.parent[sib] = up
        /\ \A n \in DOMAIN w.parent \ {split, f, sib} : v.parent[n] = w.parent[n]
    BY <1>1 DEF TakenOut, HolderWithout
  <1>4. Used(v) = Used(w) \ {split}
    BY <1>3 DEF Used
  <1>5. ASSUME NEW n \in DOMAIN v.parent
        PROVE  v.parent[n] \in Used(v) \cup {"host", "workspace"}
    <2>1. n \in DOMAIN w.parent /\ n # split
      BY <1>3
    <2>2. CASE n = f
      BY <1>3, <2>2
    <2>3. CASE n = sib
      BY <1>2, <1>3, <1>4, <2>3
    <2>4. CASE n # f /\ n # sib
      <3>1. v.parent[n] = w.parent[n] /\ w.parent[n] # split
        BY <1>1, <1>3, <2>1, <2>4
      <3> QED
        BY <1>4, <2>1, <3>1 DEF Tree, Forest
    <2> QED
      BY <2>2, <2>3, <2>4
  <1>6. Grounded(v)
    <2> SUFFICES ASSUME NEW N \in SUBSET Used(v), N # {}
                 PROVE  \E s \in N : v.parent[s] \notin N
      BY DEF Grounded
    <2>1. N \in SUBSET Used(w) /\ N \cup {split} \in SUBSET Used(w) /\ split \notin N
      BY <1>1, <1>4
    <2>2. Grounded(w)
      BY DEF Tree, Forest
    <2>3. PICK s \in N : w.parent[s] \notin N
      BY <2>1, <2>2 DEF Grounded
    <2>4. \A t \in N : t # f /\ t # split /\ t \in DOMAIN w.parent
      BY <1>1, <2>1 DEF Used
    <2>5. CASE s # sib
      BY <1>3, <2>3, <2>4, <2>5
    <2>6. CASE s = sib
      <3>1. PICK t \in N \cup {split} : w.parent[t] \notin N \cup {split}
        BY <2>1, <2>2 DEF Grounded
      <3>2. t # sib
        BY <1>1, <3>1
      <3>3. CASE t = split
        BY <1>3, <2>6, <3>1, <3>3
      <3>4. CASE t # split
        BY <1>3, <2>4, <3>1, <3>2, <3>4
      <3> QED
        BY <3>3, <3>4
    <2> QED
      BY <2>5, <2>6
  <1>7. DOMAIN v.parent \subseteq Nodes
    BY <1>3 DEF Tree, Forest
  <1> QED
    BY <1>4, <1>5, <1>6, <1>7 DEF Forest

LEMMA TakenOutTree ==
    ASSUME NEW w, Tree(w), NEW f \in w.panes, InSplitter(w, f), NEW v, TakenOut(w, v, f),
           v.panes = w.panes
    PROVE  /\ Tree(v) /\ v.parent[f] = "workspace" /\ v.root = Heir(w, f, w.root) /\ w.root # f
           /\ layoutUnitFor(v, f) = f
           /\ \A n \in DOMAIN v.parent \ {f} :
                layoutUnitFor(v, n) = Heir(w, f, layoutUnitFor(w, n))
  <1> DEFINE split == w.parent[f]
             sib == Sibling(w, f)
             up == w.parent[split]
  <1>1. /\ split \in Used(w) /\ split # f /\ sib \in DOMAIN w.parent /\ sib # f /\ sib # split
        /\ w.parent[sib] = split /\ split \in DOMAIN w.parent /\ split \in Splitters
        /\ f \in DOMAIN w.parent /\ f \notin Splitters
        /\ \A n \in DOMAIN w.parent : w.parent[n] = split => n \in {f, sib}
    BY SiblingIs, Places DEF Tree, Used, Children
  <1>2. up # split /\ up \in Used(w) \cup {"host", "workspace"}
    BY <1>1 DEF Tree, Forest
  <1>3. /\ DOMAIN v.parent = DOMAIN w.parent \ {split} /\ v.parent[f] = "workspace"
        /\ v.parent[sib] = up
        /\ \A n \in DOMAIN w.parent \ {split, f, sib} : v.parent[n] = w.parent[n] /\ v.index[n] = w.index[n]
        /\ up \in Splitters => v.index[sib] = w.index[split]
        /\ v.root = IF w.root = split THEN sib ELSE w.root
        /\ DOMAIN v.index = DOMAIN w.index \ {split}
        /\ v.hidden = {n \in DOMAIN v.parent : v.parent[n] = "workspace"}
    BY <1>1 DEF TakenOut, HolderWithout
  <1>4. Used(v) = Used(w) \ {split} /\ Forest(v) /\ Forest(w)
    BY TakenOutForest DEF Tree
  <1>5. ASSUME NEW s \in Used(v)
        PROVE  Halves(v, s)
    <2>1. s \in Used(w) /\ s # split /\ s \in Splitters /\ Halves(w, s)
      BY <1>4 DEF Used, Tree
    <2>2. PICK a \in Children(w, s), b \in Children(w, s) :
            a # b /\ Children(w, s) = {a, b} /\ w.index[a] = 1 /\ w.index[b] = 2
      BY <2>1 DEF Halves
    <2> DEFINE New(n) == IF n = split THEN sib ELSE n
    <2>3. ASSUME NEW n \in Children(w, s)
          PROVE  New(n) \in Children(v, s) /\ v.index[New(n)] = w.index[n]
      <3>1. n \in DOMAIN w.parent /\ w.parent[n] = s /\ n # sib /\ n # f
        BY <1>1, <2>1 DEF Children
      <3>2. CASE n = split
        BY <1>1, <1>3, <2>1, <3>1, <3>2 DEF Children
      <3>3. CASE n # split
        BY <1>3, <3>1, <3>3 DEF Children
      <3> QED
        BY <3>2, <3>3
    <2>4. ASSUME NEW m \in Children(v, s)
          PROVE  \E n \in Children(w, s) : m = New(n)
      <3>1. m \in DOMAIN w.parent /\ m # split /\ v.parent[m] = s
        BY <1>3 DEF Children
      <3>2. m # f
        BY <1>3, <2>1, <3>1, Places
      <3>3. CASE m = sib
        <4>1. split \in Children(w, s)
          BY <1>1, <1>3, <3>1, <3>3 DEF Children
        <4> QED
          BY <3>3, <4>1
      <3>4. CASE m # sib
        <4>1. m \in Children(w, s)
          BY <1>3, <3>1, <3>2, <3>4 DEF Children
        <4> QED
          BY <3>1, <4>1
      <3> QED
        BY <3>3, <3>4
    <2>5. sib \notin Children(w, s)
      BY <1>1, <2>1 DEF Children
    <2>6. New(a) # New(b)
      BY <2>2, <2>5
    <2>7. Children(v, s) = {New(a), New(b)}
      BY <2>2, <2>3, <2>4
    <2>8. v.index[New(a)] = 1 /\ v.index[New(b)] = 2
      BY <2>2, <2>3
    <2> HIDE DEF New
    <2> QED
      BY <2>6, <2>7, <2>8 DEF Halves
  <1>6. /\ w.root \in DOMAIN w.parent \cup {NoPanel}
        /\ \A n \in DOMAIN w.parent : w.parent[n] = "host" <=> n = w.root
    BY DEF Tree
  <1>7. w.root # f /\ w.root # sib
    BY <1>1, <1>6, Places
  <1>8. v.root = Heir(w, f, w.root)
    BY <1>3 DEF Heir
  <1>9. ASSUME NEW n \in DOMAIN v.parent
        PROVE  v.parent[n] = "host" <=> n = v.root
    <2>1. n \in DOMAIN w.parent /\ n # split
      BY <1>3
    <2>2. CASE n = f
      BY <1>1, <1>3, <1>7, <2>2, Places
    <2>3. CASE n = sib
      <3>1. up = "host" <=> split = w.root
        BY <1>1, <1>6
      <3> QED
        BY <1>3, <1>7, <2>3, <3>1
    <2>4. CASE n # f /\ n # sib
      <3>1. v.parent[n] = "host" <=> n = w.root
        BY <1>3, <1>6, <2>1, <2>4
      <3> QED
        BY <1>3, <2>1, <2>4, <3>1
    <2> QED
      BY <2>2, <2>3, <2>4
  <1>10. v.root \in DOMAIN v.parent \cup {NoPanel}
    BY <1>1, <1>3, <1>6
  <1>11. DOMAIN v.parent = v.panes \cup Used(v) /\ v.panes \subseteq Panels
    <2>1. DOMAIN w.parent = w.panes \cup Used(w) /\ split \notin w.panes /\ w.panes \subseteq Panels
      BY <1>1, Places DEF Tree
    <2> QED
      BY <1>3, <1>4, <2>1
  <1>12. DOMAIN v.index = DOMAIN v.parent
    BY <1>3 DEF Tree
  <1>13. Tree(v)
    BY <1>3, <1>4, <1>5, <1>9, <1>10, <1>11, <1>12 DEF Tree
  <1> DEFINE U == [n \in DOMAIN v.parent |-> IF n = f THEN f ELSE Heir(w, f, layoutUnitFor(w, n))]
  <1>14. ASSUME NEW n \in DOMAIN v.parent
         PROVE  U[n] = IF InSplitter(v, n) THEN U[v.parent[n]] ELSE n
    <2>1. n \in DOMAIN w.parent /\ n # split
      BY <1>3
    <2>2. CASE n = f
      <3>1. ~InSplitter(v, n)
        BY <1>3, <2>2, Places DEF InSplitter
      <3> QED
        BY <2>2, <3>1
    <2>3. CASE n = sib
      <3>1. layoutUnitFor(w, sib) = layoutUnitFor(w, split) /\ v.parent[n] = up
        BY <1>1, <1>3, <1>4, <2>3, UnitIsOutermost DEF InSplitter
      <3>2. CASE InSplitter(v, n)
        <4>1. InSplitter(w, split) /\ up \in DOMAIN v.parent /\ up # f
          BY <1>1, <1>2, <1>3, <1>4, <3>1, <3>2, Places DEF InSplitter, Used
        <4>2. layoutUnitFor(w, split) = layoutUnitFor(w, up)
          BY <1>1, <1>4, <4>1, UnitIsOutermost
        <4> QED
          BY <1>1, <2>3, <3>1, <3>2, <4>1, <4>2
      <3>3. CASE ~InSplitter(v, n)
        <4>1. ~InSplitter(w, split)
          BY <3>1, <3>3 DEF InSplitter
        <4>2. layoutUnitFor(w, split) = split
          BY <1>1, <1>4, <4>1, UnitIsOutermost
        <4> QED
          BY <1>1, <2>3, <3>1, <3>3, <4>2 DEF Heir
      <3> QED
        BY <3>2, <3>3
    <2>4. CASE n # f /\ n # sib
      <3>1. v.parent[n] = w.parent[n] /\ (InSplitter(v, n) <=> InSplitter(w, n))
        BY <1>3, <2>1, <2>4 DEF InSplitter
      <3>2. CASE InSplitter(v, n)
        <4>1. v.parent[n] \in DOMAIN v.parent /\ v.parent[n] # f
          BY <1>1, <1>4, <3>2, Places DEF InSplitter, Forest, Used
        <4>2. layoutUnitFor(w, n) = layoutUnitFor(w, v.parent[n])
          BY <1>4, <2>1, <3>1, <3>2, UnitIsOutermost
        <4> QED
          BY <2>4, <3>2, <4>1, <4>2
      <3>3. CASE ~InSplitter(v, n)
        <4>1. layoutUnitFor(w, n) = n
          BY <1>4, <2>1, <3>1, <3>3, UnitIsOutermost
        <4> QED
          BY <2>1, <2>4, <3>3, <4>1 DEF Heir
      <3> QED
        BY <3>2, <3>3
    <2> QED
      BY <2>2, <2>3, <2>4
  <1> HIDE DEF U
  <1>15. \A n \in DOMAIN v.parent : layoutUnitFor(v, n) = U[n]
    BY <1>4, <1>14, UnitsAreUnique
  <1>16. f \in DOMAIN v.parent
    BY <1>1, <1>3
  <1> QED
    BY <1>3, <1>7, <1>8, <1>13, <1>15, <1>16 DEF U

(* A panel that is taken out waits alone; the others stay as they are.         *)
LEMMA Extracted ==
    ASSUME NEW w \in Layouts, Tree(w), NEW f \in w.panes, NEW v, v = extractPane(w, f)
    PROVE  /\ v \in Layouts /\ Tree(v) /\ Kept(w, v) /\ v.active = w.active
           /\ v.parent[f] = "workspace" /\ layoutUnitFor(v, f) = f
           /\ v.root = IF w.root = f THEN NoPanel ELSE Heir(w, f, w.root)
           /\ \A n \in DOMAIN v.parent \ {f} :
                n \in DOMAIN w.parent /\ layoutUnitFor(v, n) = Heir(w, f, layoutUnitFor(w, n))
  <1>1. f \in DOMAIN w.parent /\ DOMAIN w.index = DOMAIN w.parent /\ Forest(w)
    BY DEF Tree
  <1>2. CASE InSplitter(w, f)
    <2>1. v \in Layouts /\ Kept(w, v) /\ v.active = w.active /\ TakenOut(w, v, f)
      BY <1>2, SplitCollapses
    <2>2. v.panes = w.panes /\ DOMAIN v.parent \subseteq DOMAIN w.parent
      BY <2>1 DEF Kept, TakenOut
    <2>3. /\ Tree(v) /\ v.parent[f] = "workspace" /\ v.root = Heir(w, f, w.root) /\ w.root # f
          /\ layoutUnitFor(v, f) = f
          /\ \A n \in DOMAIN v.parent \ {f} :
               layoutUnitFor(v, n) = Heir(w, f, layoutUnitFor(w, n))
      BY <1>2, <2>1, <2>2, TakenOutTree
    <2> QED
      BY <2>1, <2>2, <2>3
  <1>3. CASE ~InSplitter(w, f)
    <2> DEFINE r == IF w.root = f THEN NoPanel ELSE w.root
    <2>1. v = [Park(w, f) EXCEPT !.root = IF @ = f THEN NoPanel ELSE @]
      BY <1>3 DEF extractPane
    <2>2. Park(w, f).root = w.root
      BY <1>1, JustParked, ZenonT(60)
    <2>3. Behind(w, v, f, r)
      BY <1>1, <2>1, <2>2, JustParked DEF Behind, Layouts
    <2>4. r \in Nodes \cup {NoPanel}
      BY DEF Layouts
    <2> HIDE DEF r
    <2>5. /\ v \in Layouts /\ Kept(w, v) /\ v.active = w.active /\ v.root = r
          /\ v.parent = [w.parent EXCEPT ![f] = "workspace"]
          /\ v.index = [w.index EXCEPT ![f] = 1]
          /\ v.hidden = w.hidden \cup {f}
      <3>1. w \in Layouts /\ f \in DOMAIN w.parent /\ DOMAIN w.index = DOMAIN w.parent
            /\ r \in Nodes \cup {NoPanel} /\ Behind(w, v, f, r)
        BY <1>1, <2>3, <2>4
      <3> QED
        BY ONLY <3>1, IsParked
    <2>6. w.parent[f] \notin Splitters
      BY <1>1, <1>3 DEF InSplitter
    <2>7. /\ v.panes = w.panes /\ DOMAIN v.parent = DOMAIN w.parent
          /\ DOMAIN v.index = DOMAIN w.index /\ v.parent[f] = "workspace"
          /\ \A n \in DOMAIN w.parent \ {f} : v.parent[n] = w.parent[n] /\ v.index[n] = w.index[n]
      BY <1>1, <2>5, ParentMap DEF Kept
    <2>8. SameSplits(w, v)
      BY <2>6, <2>7, Places DEF SameSplits, Tree, Forest, Used
    <2>9. Used(v) = Used(w) /\ Forest(v) /\ \A s \in Used(v) : Halves(v, s)
      BY <2>8, SplitsStay DEF Tree, Used
    <2>10. \A n \in DOMAIN v.parent : v.parent[n] = "host" <=> n = r
      <3>1. \A n \in DOMAIN w.parent : w.parent[n] = "host" <=> n = w.root
        BY DEF Tree
      <3>2. NoPanel \notin DOMAIN w.parent
        BY <1>1, Places DEF Forest
      <3> QED
        BY <2>7, <3>1, <3>2, Places DEF r
    <2>11. v.hidden = {n \in DOMAIN v.parent : v.parent[n] = "workspace"}
      BY <1>1, <2>5, <2>7 DEF Tree
    <2>12. Tree(v)
      BY <2>5, <2>7, <2>9, <2>10, <2>11 DEF Tree, r
    <2>13. \A n : layoutUnitFor(v, n) = layoutUnitFor(w, n)
      BY <1>1, <2>8, SplitsStay
    <2>14. layoutUnitFor(w, f) = f
      BY <1>1, <1>3, UnitIsOutermost
    <2> QED
      BY <1>3, <2>5, <2>7, <2>12, <2>13, <2>14 DEF Heir, r
  <1> QED
    BY <1>2, <1>3

-----------------------------------------------------------------------------
(* Putting a panel beside another.                                             *)

(* The tables after a new splitter took target's place: p is target's holder.  *)
Joined(w, v, split, moving, target, r) ==
    /\ v.root = r
    /\ DOMAIN v.parent = DOMAIN w.parent \cup {split} /\ DOMAIN v.index = DOMAIN v.parent
    /\ v.parent[moving] = split /\ v.parent[target] = split
    /\ v.parent[split] = w.parent[target]
    /\ {v.index[moving], v.index[target]} = {1, 2}
    /\ w.parent[target] \in Splitters => v.index[split] = w.index[target]
    /\ \A n \in DOMAIN w.parent \ {moving, target} :
         v.parent[n] = w.parent[n] /\ v.index[n] = w.index[n]
    /\ v.hidden = w.hidden \ {moving, target}

(* Two units of w are one now, under the new splitter if target was alone.     *)
LEMMA JoinedTree ==
    ASSUME NEW w, Tree(w), NEW moving \in w.panes, NEW target \in w.panes, moving # target,
           w.parent[moving] = "workspace", layoutUnitFor(w, target) = w.root,
           NEW split \in Splitters, split \notin DOMAIN w.parent, NEW v, v.panes = w.panes,
           Joined(w, v, split, moving, target, IF w.root = target THEN split ELSE w.root)
    PROVE  /\ Tree(v) /\ layoutUnitFor(v, moving) = v.root
           /\ \A n \in DOMAIN w.parent \ {moving} :
                /\ n \in DOMAIN v.parent
                /\ layoutUnitFor(v, n) = IF layoutUnitFor(w, n) = w.root THEN v.root
                                         ELSE layoutUnitFor(w, n)
  <1>1. /\ moving \in DOMAIN w.parent /\ target \in DOMAIN w.parent /\ Forest(w)
        /\ moving \notin Splitters /\ target \notin Splitters
    BY Places DEF Tree
  <1>2. /\ DOMAIN v.parent = DOMAIN w.parent \cup {split} /\ DOMAIN v.index = DOMAIN v.parent
        /\ v.parent[moving] = split /\ v.parent[target] = split
        /\ v.parent[split] = w.parent[target]
        /\ {v.index[moving], v.index[target]} = {1, 2}
        /\ w.parent[target] \in Splitters => v.index[split] = w.index[target]
        /\ \A n \in DOMAIN w.parent \ {moving, target} :
             v.parent[n] = w.parent[n] /\ v.index[n] = w.index[n]
        /\ v.hidden = w.hidden \ {moving, target}
        /\ v.root = IF w.root = target THEN split ELSE w.root
    BY DEF Joined
  <1>3. Used(v) = Used(w) \cup {split} /\ split \notin Used(w)
    BY <1>2 DEF Used
  <1>4. /\ w.root \in DOMAIN w.parent \cup {NoPanel}
        /\ \A n \in DOMAIN w.parent : w.parent[n] = "host" <=> n = w.root
        /\ \A n \in DOMAIN w.parent : w.parent[n] \in Used(w) \cup {"host", "workspace"}
    BY DEF Tree, Forest
  <1>5. w.parent[target] \in Used(w) \cup {"host"} /\ w.root # moving /\ w.root \in DOMAIN w.parent
    <2>1. w.root \in DOMAIN w.parent
      BY <1>1, UnitIsOutermost
    <2>2. w.root # moving
      BY <1>1, <1>4, Places
    <2>3. InSplitter(w, target) \/ target = w.root
      BY <1>1, UnitIsOutermost
    <2>4. w.parent[target] \in Splitters \/ w.parent[target] = "host"
      BY <1>1, <1>4, <2>3 DEF InSplitter
    <2> QED
      BY <1>1, <1>4, <2>1, <2>2, <2>4, Places
  <1>6. Forest(v)
    <2>1. DOMAIN v.parent \subseteq Nodes
      BY <1>1, <1>2 DEF Forest, Nodes
    <2>2. ASSUME NEW n \in DOMAIN v.parent
          PROVE  v.parent[n] \in Used(v) \cup {"host", "workspace"}
      <3>1. CASE n \in {moving, target}
        BY <1>2, <1>3, <3>1
      <3>2. CASE n = split
        BY <1>2, <1>3, <1>5, <3>2
      <3>3. CASE n \notin {moving, target, split}
        BY <1>2, <1>3, <1>4, <3>3
      <3> QED
        BY <3>1, <3>2, <3>3
    <2>3. Grounded(v)
      <3> SUFFICES ASSUME NEW N \in SUBSET Used(v), N # {}
                   PROVE  \E s \in N : v.parent[s] \notin N
        BY DEF Grounded
      <3> DEFINE M == N \ {split}
      <3>1. M \in SUBSET Used(w)
        BY <1>3
      <3>2. \A s \in M : s \in DOMAIN w.parent /\ v.parent[s] = w.parent[s] /\ w.parent[s] # split
        <4>1. \A s \in M : s \in DOMAIN w.parent /\ s \in Splitters
          BY <3>1 DEF Used
        <4>2. split \notin {"host", "workspace"}
          BY Places
        <4> QED
          BY <1>1, <1>2, <1>3, <1>4, <4>1, <4>2
      <3>3. CASE M = {}
        <4>1. N = {split}
          BY <3>3
        <4>2. v.parent[split] # split
          BY <1>2, <1>3, <1>5, Places
        <4> QED
          BY <4>1, <4>2
      <3>4. CASE M # {}
        <4>1. PICK s \in M : w.parent[s] \notin M
          BY <1>1, <3>1, <3>4 DEF Forest, Grounded
        <4> QED
          BY <3>2, <4>1
      <3> QED
        BY <3>3, <3>4
    <2> QED
      BY <2>1, <2>2, <2>3 DEF Forest
  <1>7. ASSUME NEW s \in Used(v)
        PROVE  Halves(v, s)
    <2>1. CASE s = split
      <3>1. Children(v, s) = {moving, target}
        <4>1. \A n \in DOMAIN w.parent : w.parent[n] # split
          BY <1>3, <1>4, Places
        <4>2. v.parent[split] # split
          BY <1>2, <1>3, <1>5, Places
        <4> QED
          BY <1>1, <1>2, <2>1, <4>1, <4>2 DEF Children
      <3> QED
        BY <1>2, <3>1 DEF Halves
    <2>2. CASE s # split
      <3>1. s \in Used(w) /\ Halves(w, s) /\ s \in Splitters
        BY <1>3, <2>2 DEF Used, Tree
      <3>2. PICK a \in Children(w, s), b \in Children(w, s) :
              a # b /\ Children(w, s) = {a, b} /\ w.index[a] = 1 /\ w.index[b] = 2
        BY <3>1 DEF Halves
      <3> DEFINE New(n) == IF n = target THEN split ELSE n
      <3>3. ASSUME NEW n \in Children(w, s)
            PROVE  New(n) \in Children(v, s) /\ v.index[New(n)] = w.index[n]
        <4>1. n \in DOMAIN w.parent /\ w.parent[n] = s /\ n # moving
          BY <3>1, Places DEF Children
        <4>2. CASE n = target
          BY <1>2, <3>1, <4>1, <4>2 DEF Children
        <4>3. CASE n # target
          BY <1>2, <4>1, <4>3 DEF Children
        <4> QED
          BY <4>2, <4>3
      <3>4. ASSUME NEW m \in Children(v, s)
            PROVE  \E n \in Children(w, s) : m = New(n)
        <4>1. m \in DOMAIN v.parent /\ v.parent[m] = s /\ m # moving /\ m # target
          BY <1>2, <2>2 DEF Children
        <4>2. CASE m = split
          <5>1. target \in Children(w, s)
            BY <1>1, <1>2, <4>1, <4>2 DEF Children
          <5> QED
            BY <4>2, <5>1
        <4>3. CASE m # split
          <5>1. m \in Children(w, s)
            BY <1>2, <4>1, <4>3 DEF Children
          <5> QED
            BY <4>1, <5>1
        <4> QED
          BY <4>2, <4>3
      <3>5. split \notin Children(w, s)
        BY DEF Children
      <3>6. New(a) # New(b)
        BY <3>2, <3>5
      <3>7. Children(v, s) = {New(a), New(b)}
        BY <3>2, <3>3, <3>4
      <3>8. v.index[New(a)] = 1 /\ v.index[New(b)] = 2
        BY <3>2, <3>3
      <3> HIDE DEF New
      <3> QED
        BY <3>6, <3>7, <3>8 DEF Halves
    <2> QED
      BY <2>1, <2>2
  <1>8. ASSUME NEW n \in DOMAIN v.parent
        PROVE  v.parent[n] = "host" <=> n = v.root
    <2>1. CASE n \in {moving, target}
      BY <1>1, <1>2, <1>5, <2>1, Places
    <2>2. CASE n = split
      BY <1>1, <1>2, <1>4, <1>5, <2>2
    <2>3. CASE n \notin {moving, target, split}
      BY <1>2, <1>4, <2>3
    <2> QED
      BY <2>1, <2>2, <2>3
  <1>9. v.root \in DOMAIN v.parent
    BY <1>2, <1>5
  <1>10. v.hidden = {n \in DOMAIN v.parent : v.parent[n] = "workspace"}
    <2>1. w.hidden = {n \in DOMAIN w.parent : w.parent[n] = "workspace"}
      BY DEF Tree
    <2>2. v.parent[split] # "workspace" /\ split # "workspace"
      BY <1>2, <1>5, Places DEF Used
    <2> QED
      BY <1>2, <2>1, <2>2
  <1>11. DOMAIN v.parent = v.panes \cup Used(v) /\ v.panes \subseteq Panels
    BY <1>2, <1>3 DEF Tree
  <1>12. Tree(v)
    BY <1>2, <1>6, <1>7, <1>8, <1>9, <1>10, <1>11 DEF Tree
  <1> DEFINE U == [n \in DOMAIN v.parent |->
                     IF n \in {split, moving} THEN v.root
                     ELSE IF layoutUnitFor(w, n) = w.root THEN v.root
                     ELSE layoutUnitFor(w, n)]
  <1>13. ASSUME NEW n \in DOMAIN v.parent
         PROVE  U[n] = IF InSplitter(v, n) THEN U[v.parent[n]] ELSE n
    <2>1. CASE n \in {moving, target}
      BY <1>1, <1>2, <2>1 DEF InSplitter
    <2>2. CASE n = split
      <3>1. CASE InSplitter(w, target)
        <4>1. /\ InSplitter(v, n) /\ v.parent[n] = w.parent[target]
              /\ w.parent[target] \in DOMAIN w.parent
              /\ layoutUnitFor(w, w.parent[target]) = w.root
          BY <1>1, <1>2, <1>4, <2>2, <3>1, UnitIsOutermost, Places DEF InSplitter, Used
        <4> QED
          BY <1>2, <2>2, <4>1
      <3>2. CASE ~InSplitter(w, target)
        <4>1. w.root = target /\ ~InSplitter(v, n)
          BY <1>1, <1>2, <2>2, <3>2, UnitIsOutermost DEF InSplitter
        <4> QED
          BY <1>2, <2>2, <4>1
      <3> QED
        BY <3>1, <3>2
    <2>3. CASE n \notin {moving, target, split}
      <3>1. n \in DOMAIN w.parent /\ v.parent[n] = w.parent[n] /\ (InSplitter(v, n) <=> InSplitter(w, n))
        BY <1>2, <2>3 DEF InSplitter
      <3>2. CASE InSplitter(v, n)
        <4>1. /\ w.parent[n] \in DOMAIN w.parent /\ w.parent[n] \notin {moving, split}
              /\ layoutUnitFor(w, n) = layoutUnitFor(w, w.parent[n])
          BY <1>1, <1>4, <3>1, <3>2, UnitIsOutermost, Places DEF InSplitter, Used
        <4> QED
          BY <1>2, <2>3, <3>1, <3>2, <4>1
      <3>3. CASE ~InSplitter(v, n)
        <4>1. layoutUnitFor(w, n) = n
          BY <1>1, <3>1, <3>3, UnitIsOutermost
        <4>2. n = w.root => v.root = n
          BY <1>2, <2>3
        <4> QED
          BY <2>3, <3>3, <4>1, <4>2
      <3> QED
        BY <3>2, <3>3
    <2> QED
      BY <2>1, <2>2, <2>3
  <1> HIDE DEF U
  <1>14. \A n \in DOMAIN v.parent : layoutUnitFor(v, n) = U[n]
    BY <1>6, <1>13, UnitsAreUnique
  <1> QED
    BY <1>1, <1>2, <1>12, <1>14 DEF U

Beside(out, split, moving, target) ==
    [Entered(out.parent, split, "workspace") EXCEPT ![moving] = split, ![target] = split]
Seats(out, split, moving, target, first) ==
    [Entered(out.index, split, 1) EXCEPT ![moving] = IF first THEN 1 ELSE 2,
                                         ![target] = IF first THEN 2 ELSE 1]

Seated(out, split, moving, target, P, I) ==
    /\ P \in [DOMAIN out.parent \cup {split} -> Holders]
    /\ I \in [DOMAIN out.parent \cup {split} -> Nat]
    /\ P[split] = "workspace" /\ P[moving] = split /\ P[target] = split
    /\ {I[moving], I[target]} = {1, 2}
    /\ \A n \in DOMAIN out.parent \ {moving, target} :
         P[n] = out.parent[n] /\ I[n] = out.index[n]

LEMMA JoinIs ==
    ASSUME NEW out \in Layouts, NEW split \in Splitters, split \notin DOMAIN out.parent,
           DOMAIN out.index = DOMAIN out.parent, NEW first \in BOOLEAN,
           NEW moving \in DOMAIN out.parent, NEW target \in DOMAIN out.parent, moving # target,
           NEW j, j = Join(out, split, moving, target, first)
    PROVE  /\ j \in Layouts /\ Kept(out, j) /\ j.active = out.active /\ j.root = out.root
           /\ j.hidden = out.hidden /\ Seated(out, split, moving, target, j.parent, j.index)
  <1> DEFINE P == Beside(out, split, moving, target)
             I == Seats(out, split, moving, target, first)
             D == DOMAIN out.parent \cup {split}
  <1>1. split # moving /\ split # target
    OBVIOUS
  <1>2. /\ out.parent \in [DOMAIN out.parent -> Holders] /\ out.index \in [DOMAIN out.parent -> Nat]
        /\ split \in Holders /\ "workspace" \in Holders
    BY ParentMap DEF Holders
  <1>3. /\ P \in [D -> Holders] /\ P[split] = "workspace" /\ P[moving] = split /\ P[target] = split
        /\ \A n \in DOMAIN out.parent \ {moving, target} : P[n] = out.parent[n]
    BY <1>1, <1>2 DEF Beside, Entered
  <1>4. /\ I \in [D -> Nat] /\ {I[moving], I[target]} = {1, 2}
        /\ \A n \in DOMAIN out.parent \ {moving, target} : I[n] = out.index[n]
    BY <1>1, <1>2 DEF Seats, Entered
  <1>5. Seated(out, split, moving, target, P, I)
    BY <1>3, <1>4 DEF Seated
  <1>6. D \in SUBSET Nodes
    BY ParentMap DEF Nodes
  <1>7. Regrown(out, j, out.root, P, I, out.hidden)
    BY DEF Join, Beside, Seats, Layouts, Regrown
  <1> HIDE DEF P, I, D
  <1>8. P \in Maps /\ I \in Numbers
    BY <1>3, <1>4, <1>6 DEF Maps, Numbers
  <1>9. /\ j \in Layouts /\ Kept(out, j) /\ j.active = out.active
        /\ j.root = out.root /\ j.parent = P /\ j.index = I /\ j.hidden = out.hidden
    <2>1. out \in Layouts /\ out.root \in Nodes \cup {NoPanel} /\ P \in Maps /\ I \in Numbers
          /\ out.hidden \in SUBSET Nodes /\ Regrown(out, j, out.root, P, I, out.hidden)
      BY <1>7, <1>8 DEF Layouts
    <2> QED
      BY ONLY <2>1, TreePut
  <1> QED
    BY <1>5, <1>9

LEMMA HidesTwo ==
    ASSUME NEW w \in Layouts, NEW m \in Panels, NEW t \in Panels, NEW v,
           v = focusPane([w EXCEPT !.hidden = @ \ {m, t}], m)
    PROVE  /\ v \in Layouts /\ Kept(w, v) /\ v.active = m /\ v.root = w.root
           /\ v.parent = w.parent /\ v.index = w.index /\ v.hidden = w.hidden \ {m, t}
  <1> DEFINE x == [w EXCEPT !.hidden = w.hidden \ {m, t}]
  <1>1. w.hidden \ {m, t} \in SUBSET Nodes
    BY DEF Layouts
  <1>2. /\ x \in Layouts /\ Kept(w, x) /\ x.active = w.active /\ x.root = w.root
        /\ x.parent = w.parent /\ x.index = w.index /\ x.hidden = w.hidden \ {m, t}
    BY <1>1 DEF Layouts, Kept
  <1>3. v = focusPane(x, m)
    BY DEF Layouts
  <1> HIDE DEF x
  <1>4. /\ v \in Layouts /\ Kept(x, v) /\ v.active = m /\ v.root = x.root
        /\ v.parent = x.parent /\ v.index = x.index /\ v.hidden = x.hidden \ {m}
    <2>1. x \in Layouts /\ m \in Panels /\ v = focusPane(x, m)
      BY <1>2, <1>3
    <2> QED
      BY ONLY <2>1, IsFocused
  <1>5. x.hidden \ {m} = w.hidden \ {m, t}
    BY <1>2
  <1> QED
    BY <1>2, <1>4, <1>5 DEF Kept

LEMMA DockJoins ==
    ASSUME NEW w \in Layouts, Tree(w), NEW moving \in w.panes, NEW target \in w.panes,
           moving # target, NEW edge \in {"First", "Second"},
           w.root # NoPanel, layoutUnitFor(w, target) = w.root,
           NEW out, out = extractPane(w, moving),
           \E s \in Splitters : s \notin DOMAIN out.parent,
           NEW v, v = dockInto(w, moving, edge, target)
    PROVE  /\ v \in Layouts /\ Kept(w, v) /\ v.active = moving
           /\ out.root # NoPanel /\ layoutUnitFor(out, target) = out.root
           /\ \E split \in Splitters :
                /\ split \notin DOMAIN out.parent
                /\ Joined(out, v, split, moving, target,
                          IF out.root = target THEN split ELSE out.root)
  <1> DEFINE holder == out.parent[target]
             split  == CHOOSE s \in Splitters : s \notin DOMAIN out.parent
             first  == edgeIsFirst(edge)
             joined == Join(out, split, moving, target, first)
             Placed(j) == IF target \in {w.root, out.root} \/ holder \notin Splitters
                          THEN setRootWidget([j EXCEPT !.root = NoPanel], split)
                          ELSE [j EXCEPT !.parent[split] = holder, !.index[split] = out.index[target]]
  <1>1. split \in Splitters /\ split \notin DOMAIN out.parent
    OBVIOUS
  <1>2. /\ out \in Layouts /\ Tree(out) /\ Kept(w, out) /\ out.active = w.active
        /\ out.parent[moving] = "workspace" /\ layoutUnitFor(out, moving) = moving
        /\ out.root = IF w.root = moving THEN NoPanel ELSE Heir(w, moving, w.root)
        /\ \A n \in DOMAIN out.parent \ {moving} :
             layoutUnitFor(out, n) = Heir(w, moving, layoutUnitFor(w, n))
    BY Extracted
  <1>3. /\ moving \in DOMAIN w.parent /\ target \in DOMAIN w.parent /\ Forest(w) /\ Forest(out)
        /\ moving \in DOMAIN out.parent /\ target \in DOMAIN out.parent
        /\ moving \notin Splitters /\ target \notin Splitters /\ moving \in Panels /\ target \in Panels
    BY <1>2, Places DEF Tree, Kept
  <1>4. w.root # moving
    <2>1. layoutUnitFor(w, target) = target \/ layoutUnitFor(w, target) \in Splitters
      <3>1. Above(w, target) \subseteq {target} \cup Used(w)
        BY <1>3, AboveInForest
      <3>2. layoutUnitFor(w, target) \in Above(w, target)
        BY <1>3, UnitIsOutermost
      <3> QED
        BY <3>1, <3>2 DEF Used
    <2> QED
      BY <1>3, <2>1
  <1>5. out.root # NoPanel /\ layoutUnitFor(out, target) = out.root
    <2>1. layoutUnitFor(out, target) = out.root
      BY <1>2, <1>3, <1>4
    <2>2. out.root \in DOMAIN out.parent
      BY <1>3, <2>1, UnitIsOutermost
    <2> QED
      BY <1>3, <2>1, <2>2, Places DEF Forest
  <1>6. (target \in {w.root, out.root} \/ holder \notin Splitters) <=> out.root = target
    <2>1. holder \notin Splitters <=> out.root = target
      <3>1. holder \notin Splitters => out.root = target
        BY <1>3, <1>5, UnitIsOutermost DEF InSplitter
      <3>2. out.root = target => holder = "host"
        BY <1>2, <1>3 DEF Tree
      <3> QED
        BY <3>1, <3>2, Places
    <2>2. target = w.root => out.root = target
      <3>1. InSplitter(w, moving) => w.parent[moving] \in Splitters
        BY DEF InSplitter
      <3> QED
        BY <1>2, <1>3, <1>4, <3>1 DEF Heir
    <2> QED
      BY <2>1, <2>2
  <1>7. v = focusPane([Placed(joined) EXCEPT !.hidden = @ \ {moving, target}], moving)
    <2>1. moving # target /\ isSplitEdge(edge)
      BY DEF isSplitEdge
    <2> QED
      BY <2>1 DEF dockInto
  <1> HIDE DEF split
  <1>8. /\ joined \in Layouts /\ Kept(out, joined) /\ joined.active = out.active
        /\ joined.root = out.root /\ joined.hidden = out.hidden
        /\ Seated(out, split, moving, target, joined.parent, joined.index)
    <2>1. first \in BOOLEAN /\ DOMAIN out.index = DOMAIN out.parent
      BY <1>2 DEF edgeIsFirst, Tree
    <2>2. /\ out \in Layouts /\ split \in Splitters /\ split \notin DOMAIN out.parent
          /\ DOMAIN out.index = DOMAIN out.parent /\ first \in BOOLEAN
          /\ moving \in DOMAIN out.parent /\ target \in DOMAIN out.parent /\ moving # target
          /\ joined = Join(out, split, moving, target, first)
      BY <1>1, <1>2, <1>3, <2>1
    <2> HIDE DEF first, joined
    <2> QED
      BY ONLY <2>2, JoinIs
  <1>9. out.hidden = {n \in DOMAIN out.parent : out.parent[n] = "workspace"} /\ split \notin out.hidden
    BY <1>1, <1>2 DEF Tree
  <1> DEFINE placed == Placed(joined)
  <1>10. /\ DOMAIN joined.parent = DOMAIN out.parent \cup {split}
         /\ DOMAIN joined.index = DOMAIN joined.parent
         /\ joined.parent[moving] = split /\ joined.parent[target] = split
         /\ {joined.index[moving], joined.index[target]} = {1, 2}
         /\ \A n \in DOMAIN out.parent \ {moving, target} :
              joined.parent[n] = out.parent[n] /\ joined.index[n] = out.index[n]
         /\ split \in Nodes
    <2>1. joined.parent \in [DOMAIN out.parent \cup {split} -> Holders]
          /\ joined.index \in [DOMAIN out.parent \cup {split} -> Nat]
      BY ONLY <1>8 DEF Seated
    <2> HIDE DEF joined
    <2> QED
      BY <1>1, <1>8, <2>1 DEF Seated, Nodes
  <1> HIDE DEF joined
  <1>11. /\ placed \in Layouts /\ Kept(joined, placed) /\ placed.active = joined.active
         /\ placed.root = (IF out.root = target THEN split ELSE out.root)
         /\ DOMAIN placed.parent = DOMAIN joined.parent /\ DOMAIN placed.index = DOMAIN joined.index
         /\ placed.parent[split] = holder
         /\ holder \in Splitters => placed.index[split] = out.index[target]
         /\ \A n \in DOMAIN out.parent :
              placed.parent[n] = joined.parent[n] /\ placed.index[n] = joined.index[n]
         /\ placed.hidden = joined.hidden
    <2>1. CASE out.root = target
      <3> DEFINE bare == [joined EXCEPT !.root = NoPanel]
      <3>1. /\ bare \in Layouts /\ Kept(joined, bare) /\ bare.active = joined.active
            /\ bare.parent = joined.parent /\ bare.index = joined.index /\ bare.hidden = joined.hidden
        BY <1>8 DEF Layouts, Kept
      <3>2. placed = setRootWidget(bare, split)
        BY <1>6, <2>1
      <3> HIDE DEF placed, bare
      <3>3. /\ placed \in Layouts /\ Kept(bare, placed) /\ placed.active = bare.active
            /\ placed.root = split
            /\ placed.parent = [bare.parent EXCEPT ![split] = "host"]
            /\ placed.index = [bare.index EXCEPT ![split] = 1]
            /\ placed.hidden = bare.hidden \ {split}
        <4>1. /\ bare \in Layouts /\ split \in DOMAIN bare.parent
              /\ DOMAIN bare.index = DOMAIN bare.parent /\ placed = setRootWidget(bare, split)
          BY <1>10, <3>1, <3>2
        <4> QED
          BY ONLY <4>1, RootIsSet
      <3>4. holder = "host" /\ holder \notin Splitters
        BY <1>2, <1>3, <2>1, Places DEF Tree
      <3>5. Kept(joined, placed)
        BY <3>1, <3>3 DEF Kept
      <3>6. placed.parent[split] = "host"
        BY <1>10, <3>1, <3>3, ParentMap
      <3> QED
        BY <1>1, <1>8, <1>9, <1>10, <2>1, <3>1, <3>3, <3>4, <3>5, <3>6
    <2>2. CASE out.root # target
      <3> DEFINE P == [joined.parent EXCEPT ![split] = holder]
                 I == [joined.index EXCEPT ![split] = out.index[target]]
      <3>1. placed = [joined EXCEPT !.parent[split] = holder, !.index[split] = out.index[target]]
        BY <1>6, <2>2
      <3>2. holder \in Holders /\ out.index[target] \in Nat
        BY <1>2, <1>3, ParentMap DEF Tree
      <3>3. /\ P \in [DOMAIN joined.parent -> Holders] /\ I \in [DOMAIN joined.index -> Nat]
            /\ DOMAIN joined.parent \subseteq Nodes
        BY <1>8, <3>2, ParentMap
      <3>4. P \in Maps /\ I \in Numbers
        BY <1>10, <3>3 DEF Maps, Numbers
      <3>5. Regrown(joined, placed, joined.root, P, I, joined.hidden)
        BY <1>8, <3>1 DEF Regrown, Layouts
      <3>6. DOMAIN P = DOMAIN joined.parent /\ DOMAIN I = DOMAIN joined.index
            /\ P[split] = holder /\ I[split] = out.index[target]
            /\ \A n \in DOMAIN out.parent : P[n] = joined.parent[n] /\ I[n] = joined.index[n]
        BY <1>1, <1>10
      <3> HIDE DEF P, I, placed
      <3>7. /\ placed \in Layouts /\ Kept(joined, placed) /\ placed.active = joined.active
            /\ placed.root = joined.root /\ placed.parent = P /\ placed.index = I
            /\ placed.hidden = joined.hidden
        <4>1. /\ joined \in Layouts /\ joined.root \in Nodes \cup {NoPanel}
              /\ joined.hidden \in SUBSET Nodes /\ P \in Maps /\ I \in Numbers
              /\ Regrown(joined, placed, joined.root, P, I, joined.hidden)
          BY <1>8, <3>4, <3>5 DEF Layouts
        <4> QED
          BY ONLY <4>1, TreePut
      <3> QED
        BY <1>8, <2>2, <3>6, <3>7
    <2> QED
      BY <2>1, <2>2
  <1>12. v = focusPane([placed EXCEPT !.hidden = @ \ {moving, target}], moving)
    BY <1>7
  <1> HIDE DEF placed
  <1>13. /\ v \in Layouts /\ Kept(placed, v) /\ v.active = moving /\ v.root = placed.root
         /\ v.parent = placed.parent /\ v.index = placed.index
         /\ v.hidden = placed.hidden \ {moving, target}
    <2>1. placed \in Layouts /\ moving \in Panels /\ target \in Panels
          /\ v = focusPane([placed EXCEPT !.hidden = @ \ {moving, target}], moving)
      BY <1>3, <1>11, <1>12
    <2> QED
      BY ONLY <2>1, HidesTwo
  <1>14. Kept(w, v)
    BY ONLY <1>2, <1>8, <1>11, <1>13 DEF Kept
  <1>15. Joined(out, v, split, moving, target, IF out.root = target THEN split ELSE out.root)
    <2>1. /\ DOMAIN v.parent = DOMAIN out.parent \cup {split} /\ DOMAIN v.index = DOMAIN v.parent
          /\ v.root = (IF out.root = target THEN split ELSE out.root)
      BY <1>10, <1>11, <1>13
    <2>2. v.parent[moving] = split /\ v.parent[target] = split
      BY <1>3, <1>10, <1>11, <1>13
    <2>3. {v.index[moving], v.index[target]} = {1, 2}
      BY <1>3, <1>10, <1>11, <1>13
    <2>4. v.parent[split] = out.parent[target]
          /\ (out.parent[target] \in Splitters => v.index[split] = out.index[target])
      BY <1>11, <1>13
    <2>5. \A n \in DOMAIN out.parent \ {moving, target} :
            v.parent[n] = out.parent[n] /\ v.index[n] = out.index[n]
      BY <1>10, <1>11, <1>13
    <2>6. v.hidden = out.hidden \ {moving, target}
      BY <1>8, <1>11, <1>13
    <2> QED
      BY <2>1, <2>2, <2>3, <2>4, <2>5, <2>6 DEF Joined
  <1> QED
    BY <1>1, <1>5, <1>13, <1>14, <1>15

(* The panels of S are together in v where they were together in w.            *)
Alike(w, v, S) ==
    \A p, q \in S : layoutUnitFor(v, p) = layoutUnitFor(v, q)
                    <=> layoutUnitFor(w, p) = layoutUnitFor(w, q)

(* Two units do not have the same heir.                                        *)
LEMMA HeirsDiffer ==
    ASSUME NEW w, Tree(w), NEW f \in w.panes
    PROVE  /\ \A u, x \in DOMAIN w.parent : ~InSplitter(w, u) /\ ~InSplitter(w, x)
                => (Heir(w, f, u) = Heir(w, f, x) <=> u = x)
           /\ \A u \in DOMAIN w.parent : u # f => Heir(w, f, u) # f
           /\ Heir(w, f, NoPanel) = NoPanel
  <1>1. CASE InSplitter(w, f)
    <2>1. /\ InSplitter(w, Sibling(w, f)) /\ Sibling(w, f) # f
      BY <1>1, SiblingIs, Places DEF Tree, InSplitter, Children, Used, Forest
    <2>2. w.parent[f] # NoPanel
      BY <1>1, Places DEF InSplitter, Nodes
    <2> QED
      BY <1>1, <2>1, <2>2 DEF Heir
  <1>2. CASE ~InSplitter(w, f)
    BY <1>2 DEF Heir
  <1> QED
    BY <1>1, <1>2

LEMMA ExtractedApart ==
    ASSUME NEW w \in Layouts, Tree(w), NEW f \in w.panes, NEW v, v = extractPane(w, f)
    PROVE  /\ Alike(w, v, w.panes \ {f})
           /\ \A p \in w.panes \ {f} : layoutUnitFor(v, p) # f
           /\ \A p \in w.panes \ {f} : layoutUnitFor(v, p) = v.root <=> layoutUnitFor(w, p) = w.root
           /\ v.root # f
           /\ v.root # NoPanel => \E p \in w.panes \ {f} : layoutUnitFor(v, p) = v.root
  <1>1. /\ v \in Layouts /\ Tree(v) /\ Kept(w, v)
        /\ v.parent[f] = "workspace" /\ layoutUnitFor(v, f) = f
        /\ v.root = IF w.root = f THEN NoPanel ELSE Heir(w, f, w.root)
        /\ \A n \in DOMAIN v.parent \ {f} :
             n \in DOMAIN w.parent /\ layoutUnitFor(v, n) = Heir(w, f, layoutUnitFor(w, n))
    BY Extracted
  <1>2. /\ Forest(w) /\ Forest(v) /\ w.panes \subseteq DOMAIN w.parent
        /\ w.panes \subseteq DOMAIN v.parent /\ v.panes = w.panes
    BY <1>1 DEF Tree, Kept
  <1>3. \A p \in w.panes : /\ layoutUnitFor(w, p) \in DOMAIN w.parent
                           /\ ~InSplitter(w, layoutUnitFor(w, p))
    BY <1>2, UnitIsOutermost
  <1>4. Alike(w, v, w.panes \ {f})
    BY <1>1, <1>2, <1>3, HeirsDiffer DEF Alike
  <1>5. f \notin Splitters /\ f # NoPanel /\ NoPanel \notin DOMAIN w.parent
    BY Places DEF Tree, Nodes, Forest
  <1>6. \A p \in w.panes \ {f} : layoutUnitFor(w, p) # f
    <2> SUFFICES ASSUME NEW p \in w.panes \ {f}
                 PROVE  layoutUnitFor(w, p) # f
      OBVIOUS
    <2>1. Above(w, p) \subseteq {p} \cup Used(w)
      BY <1>2, AboveInForest
    <2>2. layoutUnitFor(w, p) \in Above(w, p)
      BY <1>2, UnitIsOutermost
    <2> QED
      BY <1>5, <2>1, <2>2 DEF Used
  <1>7. \A p \in w.panes \ {f} : layoutUnitFor(v, p) # f
    BY <1>1, <1>2, <1>3, <1>6, HeirsDiffer
  <1>8. w.root # NoPanel => w.root \in DOMAIN w.parent /\ ~InSplitter(w, w.root)
    BY Places DEF Tree, InSplitter
  <1>9. v.root # f
    BY <1>1, <1>5, <1>8, HeirsDiffer DEF Tree
  <1>10. \A p \in w.panes \ {f} : layoutUnitFor(v, p) = v.root <=> layoutUnitFor(w, p) = w.root
    <2> SUFFICES ASSUME NEW p \in w.panes \ {f}
                 PROVE  layoutUnitFor(v, p) = v.root <=> layoutUnitFor(w, p) = w.root
      OBVIOUS
    <2>1. layoutUnitFor(v, p) \in DOMAIN v.parent /\ NoPanel \notin DOMAIN v.parent
      BY <1>2, Places, UnitIsOutermost DEF Forest
    <2>2. CASE w.root = f
      BY <1>1, <1>6, <2>1, <2>2
    <2>3. CASE w.root = NoPanel
      BY <1>1, <1>3, <1>5, <2>1, <2>3, HeirsDiffer
    <2>4. CASE w.root # f /\ w.root # NoPanel
      BY <1>1, <1>2, <1>3, <1>8, <2>4, HeirsDiffer
    <2> QED
      BY <2>2, <2>3, <2>4
  <1>11. v.root # NoPanel => \E p \in w.panes \ {f} : layoutUnitFor(v, p) = v.root
    <2> SUFFICES ASSUME v.root # NoPanel
                 PROVE  \E p \in w.panes \ {f} : layoutUnitFor(v, p) = v.root
      OBVIOUS
    <2>1. v.root \in DOMAIN v.parent /\ ~InSplitter(v, v.root)
      BY <1>1, Places DEF Tree, InSplitter
    <2>2. PICK p \in v.panes : v.root \in Above(v, p)
      BY <1>1, <2>1, PanelBelow
    <2>3. layoutUnitFor(v, p) = v.root
      BY <1>2, <2>1, <2>2, UnitIsOutermost
    <2> QED
      BY <1>1, <1>2, <1>9, <2>2, <2>3
  <1> QED
    BY <1>4, <1>7, <1>9, <1>10, <1>11

(* A panel docked beside one of the visible unit is in that unit, and nothing  *)
(* else changes its company.                                                   *)
InCompany(w, v, moving) ==
    /\ v \in Layouts /\ Tree(v) /\ Kept(w, v) /\ v.active = moving
    /\ v.root # NoPanel /\ layoutUnitFor(v, moving) = v.root
    /\ Alike(w, v, w.panes \ {moving})
    /\ \A p \in w.panes \ {moving} :
         layoutUnitFor(v, p) = v.root <=> layoutUnitFor(w, p) = w.root

LEMMA Docked ==
    ASSUME NEW w \in Layouts, Tree(w), Cardinality(w.panes) <= MaxPanels,
           NEW moving \in w.panes, NEW target \in w.panes,
           moving # target, NEW edge \in {"First", "Second"},
           w.root # NoPanel, layoutUnitFor(w, target) = w.root,
           NEW v, v = dockInto(w, moving, edge, target)
    PROVE  InCompany(w, v, moving)
  <1> DEFINE out == extractPane(w, moving)
  <1>1. /\ out \in Layouts /\ Tree(out) /\ Kept(w, out)
        /\ out.parent[moving] = "workspace" /\ layoutUnitFor(out, moving) = moving
    BY Extracted
  <1>2. /\ Alike(w, out, w.panes \ {moving})
        /\ \A p \in w.panes \ {moving} :
             layoutUnitFor(out, p) = out.root <=> layoutUnitFor(w, p) = w.root
        /\ out.root # moving
    <2>1. w \in Layouts /\ Tree(w) /\ moving \in w.panes /\ out = extractPane(w, moving)
      OBVIOUS
    <2> HIDE DEF out
    <2> QED
      BY ONLY <2>1, ExtractedApart, SMTT(40)
  <1> HIDE DEF out
  <1>3. /\ out.panes = w.panes /\ moving \in DOMAIN out.parent /\ target \in DOMAIN out.parent
        /\ Forest(out) /\ NoPanel \notin DOMAIN out.parent
    BY <1>1, Places DEF Tree, Kept, Forest
  <1>4. layoutUnitFor(out, target) = out.root
    BY <1>2
  <1>5. /\ out.root \in DOMAIN out.parent /\ ~InSplitter(out, out.root)
        /\ ~InSplitter(out, moving)
    BY <1>1, <1>3, <1>4, Places, UnitIsOutermost DEF InSplitter
  <1>6. \E s \in Splitters : s \notin DOMAIN out.parent
    <2>1. Cardinality(out.panes) <= MaxPanels
      BY <1>3
    <2> QED
      BY <1>1, <1>2, <1>3, <1>5, <2>1, SplitterIsFree
  <1>7. /\ v \in Layouts /\ Kept(w, v) /\ v.active = moving
        /\ \E split \in Splitters :
             /\ split \notin DOMAIN out.parent
             /\ Joined(out, v, split, moving, target,
                       IF out.root = target THEN split ELSE out.root)
    BY <1>6, DockJoins DEF out
  <1>8. PICK split \in Splitters :
             /\ split \notin DOMAIN out.parent
             /\ Joined(out, v, split, moving, target,
                       IF out.root = target THEN split ELSE out.root)
    BY <1>7
  <1>9. /\ Tree(v) /\ layoutUnitFor(v, moving) = v.root
        /\ \A n \in DOMAIN out.parent \ {moving} :
             /\ n \in DOMAIN v.parent
             /\ layoutUnitFor(v, n) = IF layoutUnitFor(out, n) = out.root THEN v.root
                                      ELSE layoutUnitFor(out, n)
    <2>1. moving \in out.panes /\ target \in out.panes /\ v.panes = out.panes
      BY <1>3, <1>7 DEF Kept
    <2> QED
      BY <1>1, <1>4, <1>8, <2>1, JoinedTree
  <1>10. v.root # NoPanel
    BY <1>3, <1>5, <1>8, Places DEF Joined, Nodes
  <1>11. \A n \in w.panes \ {moving} :
           n \in DOMAIN out.parent
           /\ (layoutUnitFor(out, n) # out.root => layoutUnitFor(out, n) # v.root)
    <2>1. v.root = IF out.root = target THEN split ELSE out.root
      BY <1>8 DEF Joined
    <2>2. \A n \in w.panes : n \in DOMAIN out.parent /\ layoutUnitFor(out, n) \in DOMAIN out.parent
      BY <1>1, <1>3, UnitIsOutermost DEF Tree
    <2> QED
      BY <1>8, <2>1, <2>2
  <1>12. Alike(w, v, w.panes \ {moving})
    BY <1>2, <1>9, <1>11 DEF Alike
  <1> QED
    BY <1>2, <1>7, <1>9, <1>10, <1>11, <1>12 DEF InCompany

-----------------------------------------------------------------------------
(* The lists of tabs and sessions hold each member once.                       *)

LEMMA PlaceInList ==
    ASSUME NEW S, NEW q \in Seq(S), IsInjective(q), NEW k \in 1..Len(q)
    PROVE  RemoveFirst(q, q[k]) = RemoveAt(q, k)
  <1> DEFINE I == {i \in 1..Len(q) : q[i] = q[k]}
  <1>1. I = {k}
    BY DEF IsInjective
  <1>2. Min({k}) = k
    BY DEF Min
  <1>3. SelectInSeq(q, LAMBDA v : v = q[k]) = k
    BY <1>1, <1>2 DEF SelectInSeq
  <1> QED
    BY <1>3 DEF RemoveFirst

LEMMA ListWithoutPlace ==
    ASSUME NEW S, NEW q \in Seq(S), NEW k \in 1..Len(q)
    PROVE  /\ RemoveAt(q, k) \in Seq(S) /\ Len(RemoveAt(q, k)) = Len(q) - 1
           /\ \A i \in 1..Len(q) - 1 : RemoveAt(q, k)[i] = IF i < k THEN q[i] ELSE q[i + 1]
  <1> DEFINE before == SubSeq(q, 1, k - 1)
             behind == SubSeq(q, k + 1, Len(q))
  <1>1. /\ before \in Seq(S) /\ Len(before) = k - 1
        /\ \A i \in 1..k - 1 : before[i] = q[i]
    OBVIOUS
  <1>2. /\ behind \in Seq(S) /\ Len(behind) = Len(q) - k
        /\ \A i \in 1..Len(q) - k : behind[i] = q[k + i]
    OBVIOUS
  <1> HIDE DEF before, behind
  <1>3. before \o behind \in Seq(S) /\ Len(before \o behind) = Len(q) - 1
    <2>1. /\ before \o behind \in Seq(S)
          /\ Len(before \o behind) = Len(before) + Len(behind)
      BY <1>1, <1>2, ConcatProperties
    <2> QED
      BY <1>1, <1>2, <2>1
  <1>4. ASSUME NEW i \in 1..Len(q) - 1
        PROVE  (before \o behind)[i] = IF i < k THEN q[i] ELSE q[i + 1]
    <2>1. CASE i < k
      BY <1>1, <1>2, <2>1
    <2>2. CASE ~(i < k)
      <3>1. (before \o behind)[i] = behind[i - (k - 1)]
        BY <1>1, <1>2, <2>2
      <3>2. i - (k - 1) \in 1..Len(q) - k /\ k + (i - (k - 1)) = i + 1
        BY <2>2
      <3> QED
        BY <1>2, <2>2, <3>1, <3>2
    <2> QED
      BY <2>1, <2>2
  <1> QED
    BY <1>3, <1>4 DEF RemoveAt, before, behind

LEMMA ListWithout ==
    ASSUME NEW S, NEW q \in Seq(S), IsInjective(q), NEW e \in ToSet(q)
    PROVE  /\ RemoveFirst(q, e) \in Seq(S) /\ IsInjective(RemoveFirst(q, e))
           /\ ToSet(RemoveFirst(q, e)) = ToSet(q) \ {e}
  <1>1. PICK k \in 1..Len(q) : q[k] = e
    BY DEF ToSet
  <1> DEFINE r == RemoveAt(q, k)
  <1>2. /\ r \in Seq(S) /\ Len(r) = Len(q) - 1
        /\ \A i \in 1..Len(q) - 1 : r[i] = IF i < k THEN q[i] ELSE q[i + 1]
    BY ListWithoutPlace
  <1>3. RemoveFirst(q, e) = r
    BY <1>1, PlaceInList
  <1> HIDE DEF r
  <1>4. DOMAIN r = 1..Len(q) - 1 /\ DOMAIN q = 1..Len(q) /\ Len(q) \in Nat
    BY <1>2
  <1>5. ASSUME NEW a \in 1..Len(q) - 1, NEW b \in 1..Len(q) - 1, r[a] = r[b]
        PROVE  a = b
    <2>1. \A i, j \in 1..Len(q) : q[i] = q[j] => i = j
      BY <1>4 DEF IsInjective
    <2>2. (IF a < k THEN a ELSE a + 1) = (IF b < k THEN b ELSE b + 1)
      BY <1>2, <1>5, <2>1
    <2> QED
      BY <2>2
  <1>6. ToSet(r) \subseteq ToSet(q) \ {e}
    BY <1>1, <1>2, <1>4, SMTT(40) DEF IsInjective, ToSet
  <1>7. ASSUME NEW j \in 1..Len(q), q[j] # e
        PROVE  q[j] \in ToSet(r)
    <2>1. CASE j < k
      BY <1>2, <1>4, <2>1 DEF ToSet
    <2>2. CASE j > k
      <3>1. j - 1 \in 1..Len(q) - 1 /\ r[j - 1] = q[j]
        BY <1>2, <1>4, <2>2
      <3> QED
        BY <1>4, <3>1 DEF ToSet
    <2> QED
      BY <1>1, <1>7, <2>1, <2>2
  <1>8. ToSet(q) \ {e} \subseteq ToSet(r)
    BY <1>4, <1>7 DEF ToSet
  <1> QED
    BY <1>2, <1>3, <1>4, <1>5, <1>6, <1>8 DEF IsInjective

LEMMA ListWith ==
    ASSUME NEW S, NEW q \in Seq(S), IsInjective(q), NEW e \in S \ ToSet(q)
    PROVE  /\ Append(q, e) \in Seq(S) /\ IsInjective(Append(q, e))
           /\ ToSet(Append(q, e)) = ToSet(q) \cup {e}
  <1> DEFINE r == Append(q, e)
  <1>1. /\ r \in Seq(S) /\ Len(r) = Len(q) + 1 /\ Len(q) \in Nat
        /\ \A i \in 1..Len(q) : r[i] = q[i]
        /\ r[Len(q) + 1] = e
    OBVIOUS
  <1> HIDE DEF r
  <1>2. DOMAIN r = 1..Len(q) + 1 /\ DOMAIN q = 1..Len(q)
    BY <1>1
  <1>3. \A i \in 1..Len(q) : q[i] # e
    BY DEF ToSet
  <1>4. IsInjective(r)
    BY <1>1, <1>2, <1>3 DEF IsInjective
  <1>5. ToSet(r) = ToSet(q) \cup {e}
    BY <1>1, <1>2 DEF ToSet
  <1> QED
    BY <1>1, <1>4, <1>5 DEF r

LEMMA ListPut ==
    ASSUME NEW S, NEW q \in Seq(S), IsInjective(q), NEW e \in S \ ToSet(q), NEW k \in 1..Len(q)
    PROVE  /\ InsertAt(q, k, e) \in Seq(S) /\ IsInjective(InsertAt(q, k, e))
           /\ ToSet(InsertAt(q, k, e)) = ToSet(q) \cup {e}
  <1> DEFINE before == SubSeq(q, 1, k - 1)
             behind == SubSeq(q, k, Len(q))
             r == (before \o <<e>>) \o behind
             From(j) == IF j < k THEN j ELSE j - 1
  <1>1. /\ before \in Seq(S) /\ Len(before) = k - 1
        /\ \A i \in 1..k - 1 : before[i] = q[i]
    OBVIOUS
  <1>2. /\ behind \in Seq(S) /\ Len(behind) = Len(q) - k + 1
        /\ \A i \in 1..Len(q) - k + 1 : behind[i] = q[k + i - 1]
    OBVIOUS
  <1>3. /\ <<e>> \in Seq(S) /\ Len(<<e>>) = 1 /\ <<e>>[1] = e
    OBVIOUS
  <1> DEFINE upto == before \o <<e>>
  <1> HIDE DEF before, behind
  <1>4. /\ upto \in Seq(S) /\ Len(upto) = k
        /\ \A i \in 1..k : upto[i] = IF i < k THEN q[i] ELSE e
    <2>1. /\ upto \in Seq(S) /\ Len(upto) = Len(before) + Len(<<e>>)
          /\ \A i \in 1..Len(before) + Len(<<e>>) :
               upto[i] = IF i <= Len(before) THEN before[i] ELSE <<e>>[i - Len(before)]
      BY <1>1, <1>3, ConcatProperties
    <2> HIDE DEF upto
    <2> QED
      BY <1>1, <1>3, <2>1
  <1>5. r = upto \o behind
    OBVIOUS
  <1> HIDE DEF upto, r
  <1>6. /\ r \in Seq(S) /\ Len(r) = Len(q) + 1
        /\ \A i \in 1..Len(q) + 1 : r[i] = IF i = k THEN e ELSE q[From(i)]
    <2>1. /\ r \in Seq(S) /\ Len(r) = Len(upto) + Len(behind)
          /\ \A i \in 1..Len(upto) + Len(behind) :
               r[i] = IF i <= Len(upto) THEN upto[i] ELSE behind[i - Len(upto)]
      BY <1>2, <1>4, <1>5, ConcatProperties
    <2> QED
      BY <1>2, <1>4, <2>1
  <1>7. DOMAIN r = 1..Len(q) + 1 /\ DOMAIN q = 1..Len(q) /\ Len(q) \in Nat
    BY <1>6
  <1>8. \A i \in 1..Len(q) + 1 : i # k => From(i) \in 1..Len(q)
    BY <1>7
  <1>9. \A i \in 1..Len(q) : q[i] # e
    BY <1>7 DEF ToSet
  <1>10. ASSUME NEW a \in 1..Len(q) + 1, NEW b \in 1..Len(q) + 1, r[a] = r[b]
         PROVE  a = b
    <2>1. \A i, j \in 1..Len(q) : q[i] = q[j] => i = j
      BY <1>7 DEF IsInjective
    <2>2. CASE a # k /\ b # k
      <3>1. From(a) = From(b)
        BY <1>6, <1>8, <1>10, <2>1, <2>2
      <3> QED
        BY <2>2, <3>1
    <2> QED
      BY <1>6, <1>8, <1>9, <1>10, <2>2
  <1>11. ToSet(r) \subseteq ToSet(q) \cup {e}
    <2>1. \A i \in 1..Len(q) + 1 : r[i] \in ToSet(q) \cup {e}
      BY <1>6, <1>7, <1>8 DEF ToSet
    <2> QED
      BY <1>7, <2>1 DEF ToSet
  <1>12. ToSet(q) \cup {e} \subseteq ToSet(r)
    <2>1. \A j \in 1..Len(q) : \E i \in 1..Len(q) + 1 : r[i] = q[j]
      <3> SUFFICES ASSUME NEW j \in 1..Len(q)
                   PROVE  \E i \in 1..Len(q) + 1 : r[i] = q[j]
        OBVIOUS
      <3>1. CASE j < k
        BY <1>6, <1>7, <3>1
      <3>2. CASE ~(j < k)
        <4>1. j + 1 \in 1..Len(q) + 1 /\ j + 1 # k /\ From(j + 1) = j
          BY <1>7, <3>2
        <4> QED
          BY <1>6, <4>1
      <3> QED
        BY <3>1, <3>2
    <2>2. r[k] = e /\ k \in 1..Len(q) + 1
      BY <1>6, <1>7
    <2> QED
      BY <1>7, <2>1, <2>2 DEF ToSet
  <1>13. InsertAt(q, k, e) = r
    BY DEF InsertAt, r, before, behind
  <1> QED
    BY <1>6, <1>7, <1>10, <1>11, <1>12, <1>13 DEF IsInjective

LEMMA ListEnd ==
    ASSUME NEW S, NEW q \in Seq(S), q # <<>>
    PROVE  Last(q) \in ToSet(q)
  BY DEF Last, ToSet

LEMMA LeastExists ==
    ASSUME NEW N \in SUBSET Nat, N # {}
    PROVE  Min(N) \in N /\ \A y \in N : Min(N) <= y
  <1>1. \E x \in N : \A y \in N : ~(<<y, x>> \in OpToRel(<, Nat))
    BY NatLessThanWellFounded, WFMin
  <1>2. ASSUME NEW x \in Nat, NEW y \in Nat, y < x
        PROVE  <<y, x>> \in OpToRel(<, Nat)
    BY <1>2, Zenon DEF OpToRel
  <1>3. \E x \in N : \A y \in N : x <= y
    <2>1. PICK x \in N : \A y \in N : ~(<<y, x>> \in OpToRel(<, Nat))
      BY <1>1
    <2>2. \A y \in N : ~(y < x)
      BY <1>2, <2>1
    <2> QED
      BY <2>2
  <1> QED
    BY <1>3 DEF Min

(* Every tab has its chip when every terminal has its session.                 *)
LEMMA StripIsWhole ==
    ASSUME NEW w, w.tabOrder \in Seq(Panels), NEW live,
           \A p \in ToSet(w.tabOrder) : p \in Terminals => p \in ToSet(live)
    PROVE  Strip(w, live) = w.tabOrder
  <1> DEFINE tabs == w.tabOrder
             I == 0..Len(tabs)
             Def(b, i) == IF i = 0 THEN <<>>
                          ELSE IF tabs[i] \in Terminals => tabs[i] \in ToSet(live)
                               THEN Append(b[i - 1], tabs[i]) ELSE b[i - 1]
             built == CHOOSE b : b = [i \in I |-> Def(b, i)]
             g == [i \in I |-> SubSeq(tabs, 1, i)]
  <1>1. tabs \in Seq(Panels) /\ Len(tabs) \in Nat
    OBVIOUS
  <1>2. \A i \in I : i # 0 => (tabs[i] \in Terminals => tabs[i] \in ToSet(live))
    <2>1. \A i \in I : i # 0 => tabs[i] \in ToSet(tabs)
      BY <1>1 DEF ToSet
    <2> QED
      BY <2>1
  <1>3. Strip(w, live) = built[Len(tabs)]
    BY DEF Strip
  <1> HIDE DEF tabs
  <1>4. /\ SubSeq(tabs, 1, 0) = <<>> /\ SubSeq(tabs, 1, Len(tabs)) = tabs
        /\ \A i \in I : i # 0 => SubSeq(tabs, 1, i) = Append(SubSeq(tabs, 1, i - 1), tabs[i])
    <2>1. SubSeq(tabs, 1, 0) = <<>>
      BY SubSeqEmpty
    <2>2. SubSeq(tabs, 1, Len(tabs)) = tabs
      BY <1>1, SubSeqFull
    <2>3. ASSUME NEW i \in I, i # 0
          PROVE  SubSeq(tabs, 1, i) = Append(SubSeq(tabs, 1, i - 1), tabs[i])
      <3>1. 1 \in 1..Len(tabs) /\ i \in 1..Len(tabs)
        BY <1>1, <2>3
      <3>2. SubSeq(tabs, 1, i) = SubSeq(tabs, 1, i - 1) \o <<tabs[i]>>
        BY <1>1, <3>1, SubSeqRecursiveSecond
      <3>3. SubSeq(tabs, 1, i - 1) \in Seq(Panels) /\ tabs[i] \in Panels
        BY <1>1, <3>1
      <3> QED
        BY <3>2, <3>3, AppendIsConcat
    <2> QED
      BY <2>1, <2>2, <2>3
  <1>5. g = [i \in I |-> Def(g, i)]
    <2>1. ASSUME NEW i \in I
          PROVE  SubSeq(tabs, 1, i) = Def(g, i)
      <3>1. CASE i = 0
        BY <1>4, <3>1
      <3>2. CASE i # 0
        <4>1. i - 1 \in I
          BY <1>1, <3>2
        <4>2. g[i - 1] = SubSeq(tabs, 1, i - 1)
          BY <4>1
        <4> HIDE DEF g
        <4>3. Def(g, i) = Append(SubSeq(tabs, 1, i - 1), tabs[i])
          BY <1>2, <3>2, <4>2
        <4> QED
          BY <1>4, <3>2, <4>3
      <3> QED
        BY <3>1, <3>2
    <2> DEFINE Part(i) == SubSeq(tabs, 1, i)
               Next1(i) == Def(g, i)
    <2>2. \A i \in I : Part(i) = Next1(i)
      BY <2>1
    <2>3. [i \in I |-> Part(i)] = [i \in I |-> Next1(i)]
      <3> HIDE DEF Part, Next1
      <3> QED
        BY <2>2
    <2> QED
      BY <2>3
  <1>6. built = [i \in I |-> Def(built, i)]
    <2> HIDE DEF Def, g
    <2> QED
      BY <1>5
  <1>7. \A i \in I : built[i] = Def(built, i)
    <2> HIDE DEF Def, built
    <2> QED
      BY <1>6
  <1> HIDE DEF built
  <1> DEFINE N == {i \in I : built[i] # SubSeq(tabs, 1, i)}
  <1>8. N = {}
    <2> SUFFICES ASSUME N # {}
                 PROVE  FALSE
      OBVIOUS
    <2>0. N \in SUBSET Nat
      BY <1>1
    <2> DEFINE m == Min(N)
    <2>1. m \in N /\ \A y \in N : m <= y
      <3> HIDE DEF N
      <3> QED
        BY <2>0, LeastExists
    <2> HIDE DEF m
    <2>2. m # 0
      BY <1>1, <1>4, <1>7, <2>1
    <2>3. m - 1 \in I /\ m - 1 \notin N
      BY <1>1, <2>1, <2>2
    <2> QED
      BY <1>1, <1>2, <1>4, <1>7, <2>1, <2>2, <2>3
  <1> QED
    BY <1>1, <1>3, <1>4, <1>8, SMTT(40) DEF tabs

-----------------------------------------------------------------------------
(* Panels come and go.                                                         *)

(* The strip of tabs lists each open panel once.                               *)
Listed(w) == IsInjective(w.tabOrder) /\ ToSet(w.tabOrder) = w.panes

(* A layout with other panels in it.                                           *)
Refilled(w, v, ps, tabs, P, I, H) ==
    v = [w EXCEPT !.panes = ps, !.tabOrder = tabs, !.parent = P, !.index = I, !.hidden = H]

LEMMA PanesPut ==
    ASSUME NEW w \in Layouts, NEW ps \in SUBSET Panels, NEW tabs \in Seq(Panels), NEW P \in Maps,
           NEW I \in Numbers, NEW H \in SUBSET Nodes, NEW v, Refilled(w, v, ps, tabs, P, I, H)
    PROVE  /\ v \in Layouts /\ v.active = w.active /\ v.root = w.root
           /\ v.pendingDock = w.pendingDock /\ v.pendingUnsplit = w.pendingUnsplit
           /\ v.panes = ps /\ v.tabOrder = tabs /\ v.parent = P /\ v.index = I /\ v.hidden = H
  BY DEF Layouts, Maps, Numbers, Refilled

(* A new panel is a unit of its own, behind its tab.                           *)
LEMMA PaneEnters ==
    ASSUME NEW w \in Layouts, Tree(w), Listed(w), NEW p \in Panels, p \notin w.panes,
           NEW v, v = ensurePane(w, p)
    PROVE  /\ v \in Layouts /\ Tree(v) /\ Listed(v) /\ v.panes = w.panes \cup {p}
           /\ v.active = w.active /\ v.root = w.root /\ v.root # p
           /\ v.pendingDock = w.pendingDock /\ v.pendingUnsplit = w.pendingUnsplit
           /\ ~InSplitter(v, p) /\ layoutUnitFor(v, p) = p
           /\ \A n \in DOMAIN w.parent : layoutUnitFor(v, n) = layoutUnitFor(w, n)
  <1> DEFINE P == Entered(w.parent, p, "workspace")
             I == Entered(w.index, p, 1)
             D == DOMAIN w.parent \cup {p}
             H == w.hidden \cup {p}
  <1>1. /\ p \in Nodes /\ p \notin Splitters /\ p \notin DOMAIN w.parent
        /\ DOMAIN w.index = DOMAIN w.parent /\ Forest(w)
        /\ p # "host" /\ p # "workspace" /\ p # NoPanel
    BY Places DEF Tree, Used, Nodes
  <1>2. /\ P \in [D -> Holders] /\ P[p] = "workspace"
        /\ \A n \in DOMAIN w.parent : P[n] = w.parent[n]
    BY <1>1, ParentMap DEF Entered, Holders
  <1>3. /\ I \in [D -> Nat] /\ \A n \in DOMAIN w.parent : I[n] = w.index[n]
    BY <1>1, ParentMap DEF Entered
  <1>4. D \in SUBSET Nodes
    BY <1>1 DEF Tree, Forest
  <1>5. /\ Append(w.tabOrder, p) \in Seq(Panels) /\ IsInjective(Append(w.tabOrder, p))
        /\ ToSet(Append(w.tabOrder, p)) = w.panes \cup {p}
    <2>1. w.tabOrder \in Seq(Panels) /\ p \in Panels \ ToSet(w.tabOrder) /\ IsInjective(w.tabOrder)
      BY DEF Listed, Layouts
    <2>2. ToSet(w.tabOrder) = w.panes
      BY DEF Listed
    <2> QED
      BY <2>1, <2>2, ListWith
  <1>6. Refilled(w, v, w.panes \cup {p}, Append(w.tabOrder, p), P, I, H)
    <2>1. p \notin ToSet(w.tabOrder)
      BY DEF Listed
    <2> QED
      BY <2>1 DEF ensurePane, Refilled, Layouts
  <1>7. P \in Maps /\ I \in Numbers
    BY <1>2, <1>3, <1>4 DEF Maps, Numbers
  <1>8. DOMAIN P = D /\ DOMAIN I = D
    BY <1>2, <1>3
  <1> HIDE DEF P, I
  <1>9. /\ v \in Layouts /\ v.active = w.active /\ v.root = w.root
        /\ v.pendingDock = w.pendingDock /\ v.pendingUnsplit = w.pendingUnsplit
        /\ v.panes = w.panes \cup {p} /\ v.tabOrder = Append(w.tabOrder, p)
        /\ v.parent = P /\ v.index = I /\ v.hidden = H
    <2>1. /\ w \in Layouts /\ w.panes \cup {p} \in SUBSET Panels /\ H \in SUBSET Nodes
          /\ Append(w.tabOrder, p) \in Seq(Panels) /\ P \in Maps /\ I \in Numbers
          /\ Refilled(w, v, w.panes \cup {p}, Append(w.tabOrder, p), P, I, H)
      BY <1>1, <1>5, <1>6, <1>7 DEF Layouts
    <2> DEFINE ps == w.panes \cup {p}
               tabs == Append(w.tabOrder, p)
    <2>2. /\ w \in Layouts /\ ps \in SUBSET Panels /\ H \in SUBSET Nodes
          /\ tabs \in Seq(Panels) /\ P \in Maps /\ I \in Numbers
          /\ Refilled(w, v, ps, tabs, P, I, H)
      BY ONLY <2>1
    <2> HIDE DEF H, ps, tabs
    <2>3. /\ v \in Layouts /\ v.active = w.active /\ v.root = w.root
          /\ v.pendingDock = w.pendingDock /\ v.pendingUnsplit = w.pendingUnsplit
          /\ v.panes = ps /\ v.tabOrder = tabs /\ v.parent = P /\ v.index = I /\ v.hidden = H
      BY ONLY <2>2, PanesPut
    <2> QED
      BY <2>3 DEF ps, tabs
  <1>10. Used(v) = Used(w)
    BY <1>1, <1>8, <1>9 DEF Used
  <1>11. \A n \in DOMAIN w.parent : w.parent[n] \in Used(w) \cup {"host", "workspace"}
    BY <1>1 DEF Forest
  <1>12. Forest(v)
    <2>1. \A n \in DOMAIN v.parent : v.parent[n] \in Used(v) \cup {"host", "workspace"}
      BY <1>2, <1>8, <1>9, <1>10, <1>11
    <2>2. Grounded(v)
      <3> SUFFICES ASSUME NEW N \in SUBSET Used(v), N # {}
                   PROVE  \E s \in N : v.parent[s] \notin N
        BY DEF Grounded
      <3>1. \E s \in N : w.parent[s] \notin N
        BY <1>1, <1>10 DEF Forest, Grounded
      <3>2. \A s \in N : v.parent[s] = w.parent[s]
        BY <1>2, <1>9, <1>10 DEF Used
      <3> QED
        BY <3>1, <3>2
    <2> QED
      BY <1>4, <1>8, <1>9, <2>1, <2>2 DEF Forest
  <1>13. \A s \in Used(v) : Halves(v, s)
    <2> SUFFICES ASSUME NEW s \in Used(w)
                 PROVE  Halves(v, s)
      BY <1>10
    <2>1. Children(v, s) = Children(w, s)
      <3>1. s # "workspace"
        BY Places DEF Used
      <3> QED
        BY <1>2, <1>8, <1>9, <3>1 DEF Children
    <2>2. \A n \in Children(w, s) : v.index[n] = w.index[n]
      BY <1>3, <1>9 DEF Children
    <2>3. Halves(w, s)
      BY DEF Tree
    <2> QED
      BY <2>1, <2>2, <2>3 DEF Halves
  <1>14. /\ v.root \in DOMAIN v.parent \cup {NoPanel} /\ v.root # p
         /\ \A n \in DOMAIN v.parent : v.parent[n] = "host" <=> n = v.root
    <2>1. /\ w.root \in DOMAIN w.parent \cup {NoPanel}
          /\ \A n \in DOMAIN w.parent : w.parent[n] = "host" <=> n = w.root
      BY DEF Tree
    <2>2. w.root # p
      BY <1>1, <2>1
    <2> QED
      <3>1. v.parent[p] = "workspace" /\ DOMAIN v.parent = DOMAIN w.parent \cup {p}
            /\ \A n \in DOMAIN w.parent : v.parent[n] = w.parent[n]
        BY <1>2, <1>8, <1>9
      <3>2. "workspace" # "host"
        BY Places
      <3> QED
        BY <1>9, <2>1, <2>2, <3>1, <3>2
  <1>15. v.hidden = {n \in DOMAIN v.parent : v.parent[n] = "workspace"}
    <2>1. w.hidden = {n \in DOMAIN w.parent : w.parent[n] = "workspace"}
      BY DEF Tree
    <2> QED
      BY <1>2, <1>8, <1>9, <2>1
  <1>16. v.panes \subseteq Panels /\ DOMAIN v.parent = v.panes \cup Used(v)
         /\ DOMAIN v.index = DOMAIN v.parent
    BY <1>8, <1>9, <1>10 DEF Tree
  <1>17. Tree(v)
    BY <1>12, <1>13, <1>14, <1>15, <1>16 DEF Tree
  <1>18. ~InSplitter(v, p) /\ layoutUnitFor(v, p) = p
    BY <1>2, <1>8, <1>9, <1>12, Places, UnitIsOutermost DEF InSplitter
  <1>19. \A n \in DOMAIN w.parent : layoutUnitFor(v, n) = layoutUnitFor(w, n)
    <2> DEFINE U == [n \in DOMAIN w.parent |-> layoutUnitFor(v, n)]
    <2>1. ASSUME NEW n \in DOMAIN w.parent
          PROVE  U[n] = IF InSplitter(w, n) THEN U[w.parent[n]] ELSE n
      <3>1. n \in DOMAIN v.parent /\ v.parent[n] = w.parent[n]
        BY <1>2, <1>8, <1>9
      <3>2. InSplitter(w, n) <=> InSplitter(v, n)
        BY <3>1 DEF InSplitter
      <3>3. InSplitter(w, n) => w.parent[n] \in DOMAIN w.parent
        BY <1>11, Places DEF InSplitter, Used
      <3> QED
        BY <1>12, <3>1, <3>2, <3>3, UnitIsOutermost
    <2> HIDE DEF U
    <2>2. \A n \in DOMAIN w.parent : layoutUnitFor(w, n) = U[n]
      BY <1>1, <2>1, UnitsAreUnique
    <2> QED
      BY <2>2 DEF U
  <1> QED
    BY <1>5, <1>9, <1>14, <1>17, <1>18, <1>19 DEF Listed

(* A unit of one panel can go without any other noticing.                      *)
LEMMA PaneLeaves ==
    ASSUME NEW w \in Layouts, Tree(w), Listed(w), NEW p \in w.panes,
           w.parent[p] = "workspace", NEW v, v = Forget(w, p)
    PROVE  /\ v \in Layouts /\ Tree(v) /\ Listed(v) /\ v.panes = w.panes \ {p}
           /\ v.active = w.active /\ v.root = w.root
           /\ v.pendingDock = w.pendingDock /\ v.pendingUnsplit = w.pendingUnsplit
           /\ DOMAIN v.parent = DOMAIN w.parent \ {p}
           /\ \A n \in DOMAIN v.parent : layoutUnitFor(v, n) = layoutUnitFor(w, n)
  <1> DEFINE D == DOMAIN w.parent \ {p}
             P == [n \in D |-> w.parent[n]]
             I == [n \in D |-> w.index[n]]
             H == w.hidden \ {p}
             tabs == RemoveFirst(w.tabOrder, p)
  <1>1. /\ p \in Panels /\ p \notin Splitters /\ p \in DOMAIN w.parent
        /\ DOMAIN w.index = DOMAIN w.parent /\ Forest(w)
        /\ p # "host" /\ p # "workspace" /\ p # NoPanel
    BY Places DEF Tree, Used, Nodes
  <1>2. P \in [D -> Holders] /\ I \in [D -> Nat] /\ D \in SUBSET Nodes
    BY <1>1, ParentMap
  <1>3. P \in Maps /\ I \in Numbers
    BY <1>2 DEF Maps, Numbers
  <1>4. /\ tabs \in Seq(Panels) /\ IsInjective(tabs) /\ ToSet(tabs) = w.panes \ {p}
    <2>1. w.tabOrder \in Seq(Panels) /\ p \in ToSet(w.tabOrder) /\ IsInjective(w.tabOrder)
      BY DEF Listed, Layouts
    <2>2. ToSet(w.tabOrder) = w.panes
      BY DEF Listed
    <2> QED
      BY <2>1, <2>2, ListWithout
  <1>5. Refilled(w, v, w.panes \ {p}, tabs, P, I, H)
    BY <1>1 DEF Forget, Refilled, Layouts
  <1>6. /\ DOMAIN P = D /\ DOMAIN I = D /\ \A n \in D : P[n] = w.parent[n] /\ I[n] = w.index[n]
    OBVIOUS
  <1> HIDE DEF P, I, tabs
  <1>7. /\ v \in Layouts /\ v.active = w.active /\ v.root = w.root
        /\ v.pendingDock = w.pendingDock /\ v.pendingUnsplit = w.pendingUnsplit
        /\ v.panes = w.panes \ {p} /\ v.tabOrder = tabs
        /\ v.parent = P /\ v.index = I /\ v.hidden = H
    <2>1. /\ w \in Layouts /\ w.panes \ {p} \in SUBSET Panels /\ H \in SUBSET Nodes
          /\ tabs \in Seq(Panels) /\ P \in Maps /\ I \in Numbers
          /\ Refilled(w, v, w.panes \ {p}, tabs, P, I, H)
      BY <1>3, <1>4, <1>5 DEF Layouts
    <2> HIDE DEF H
    <2> QED
      BY ONLY <2>1, PanesPut
  <1>8. Used(v) = Used(w)
    BY <1>1, <1>6, <1>7 DEF Used
  <1>9. \A n \in DOMAIN w.parent : w.parent[n] \in Used(w) \cup {"host", "workspace"}
    BY <1>1 DEF Forest
  <1>10. Forest(v)
    <2>1. \A n \in DOMAIN v.parent : v.parent[n] \in Used(v) \cup {"host", "workspace"}
      BY <1>6, <1>7, <1>8, <1>9
    <2>2. Grounded(v)
      <3> SUFFICES ASSUME NEW N \in SUBSET Used(v), N # {}
                   PROVE  \E s \in N : v.parent[s] \notin N
        BY DEF Grounded
      <3>1. \E s \in N : w.parent[s] \notin N
        BY <1>1, <1>8 DEF Forest, Grounded
      <3>2. \A s \in N : v.parent[s] = w.parent[s]
        BY <1>6, <1>7 DEF Used
      <3> QED
        BY <3>1, <3>2
    <2> QED
      BY <1>2, <1>6, <1>7, <2>1, <2>2 DEF Forest
  <1>11. \A s \in Used(v) : Halves(v, s)
    <2> SUFFICES ASSUME NEW s \in Used(w)
                 PROVE  Halves(v, s)
      BY <1>8
    <2>1. Children(v, s) = Children(w, s)
      <3>1. s # "workspace"
        BY Places DEF Used
      <3> QED
        BY <1>6, <1>7, <3>1 DEF Children
    <2>2. \A n \in Children(w, s) : v.index[n] = w.index[n]
      BY <1>6, <1>7, <2>1 DEF Children
    <2>3. Halves(w, s)
      BY DEF Tree
    <2> QED
      BY <2>1, <2>2, <2>3 DEF Halves
  <1>12. /\ v.root \in DOMAIN v.parent \cup {NoPanel}
         /\ \A n \in DOMAIN v.parent : v.parent[n] = "host" <=> n = v.root
    <2>1. /\ w.root \in DOMAIN w.parent \cup {NoPanel}
          /\ \A n \in DOMAIN w.parent : w.parent[n] = "host" <=> n = w.root
      BY DEF Tree
    <2>2. w.root # p
      BY <1>1, <2>1, Places
    <2> QED
      BY <1>6, <1>7, <2>1, <2>2
  <1>13. v.hidden = {n \in DOMAIN v.parent : v.parent[n] = "workspace"}
    <2>1. w.hidden = {n \in DOMAIN w.parent : w.parent[n] = "workspace"}
      BY DEF Tree
    <2> QED
      BY <1>6, <1>7, <2>1
  <1>14. v.panes \subseteq Panels /\ DOMAIN v.parent = v.panes \cup Used(v)
         /\ DOMAIN v.index = DOMAIN v.parent
    <2>1. w.panes \subseteq Panels /\ DOMAIN w.parent = w.panes \cup Used(w) /\ p \notin Used(w)
      BY <1>1 DEF Tree, Used
    <2> QED
      BY <1>6, <1>7, <1>8, <2>1
  <1>15. Tree(v)
    BY <1>10, <1>11, <1>12, <1>13, <1>14 DEF Tree
  <1>16. \A n \in DOMAIN v.parent : layoutUnitFor(v, n) = layoutUnitFor(w, n)
    <2> DEFINE U == [n \in DOMAIN v.parent |-> layoutUnitFor(w, n)]
    <2>1. ASSUME NEW n \in DOMAIN v.parent
          PROVE  U[n] = IF InSplitter(v, n) THEN U[v.parent[n]] ELSE n
      <3>1. n \in DOMAIN w.parent /\ v.parent[n] = w.parent[n]
        BY <1>6, <1>7
      <3>2. InSplitter(w, n) <=> InSplitter(v, n)
        BY <3>1 DEF InSplitter
      <3>3. InSplitter(v, n) => v.parent[n] \in DOMAIN v.parent
        BY <1>10, Places DEF Forest, InSplitter, Used
      <3> QED
        BY <1>1, <3>1, <3>2, <3>3, UnitIsOutermost
    <2> HIDE DEF U
    <2>2. \A n \in DOMAIN v.parent : layoutUnitFor(v, n) = U[n]
      BY <1>10, <2>1, UnitsAreUnique
    <2> QED
      BY <2>2 DEF U
  <1> QED
    BY <1>4, <1>6, <1>7, <1>15, <1>16 DEF Listed

-----------------------------------------------------------------------------
(* The operations, by what they do to the panels.                              *)

(* A layout as it is when no slot runs: nothing is queued, and the panel in    *)
(* use is in the visible unit.                                                 *)
Sound(w) ==
    /\ w \in Layouts /\ Tree(w) /\ Listed(w)
    /\ w.pendingDock = <<>> /\ w.pendingUnsplit = NoPanel
    /\ w.active = NoPanel \/ (w.active \in w.panes /\ layoutUnitFor(w, w.active) = w.root)

InFront(w, p) == p \in w.panes /\ w.active = p /\ w.root = layoutUnitFor(w, p)

Shows(w, v, p) == v.panes = w.panes /\ Alike(w, v, w.panes) /\ InFront(v, p)

Opens(w, v, p) ==
    /\ p \notin w.panes /\ v.panes = w.panes \cup {p} /\ Alike(w, v, w.panes) /\ InFront(v, p)
    /\ \A q \in w.panes : layoutUnitFor(v, q) # layoutUnitFor(v, p)

(* p goes, and what is in front stays there.                                   *)
Leaves(w, v, p) ==
    /\ v.panes = w.panes \ {p} /\ Alike(w, v, v.panes)
    /\ v.active = IF w.active = p THEN NoPanel ELSE w.active
    /\ \A q \in v.panes : layoutUnitFor(v, q) = v.root <=> layoutUnitFor(w, q) = w.root

(* p goes, and q is shown.                                                     *)
GivesWay(w, v, p, q) == v.panes = w.panes \ {p} /\ Alike(w, v, v.panes) /\ InFront(v, q)

Docks(w, v, p, q) ==
    /\ v.panes = w.panes /\ Alike(w, v, w.panes \ {p}) /\ InFront(v, p)
    /\ \A x \in w.panes \ {p} :
         layoutUnitFor(v, x) = layoutUnitFor(v, p) <=> layoutUnitFor(w, x) = layoutUnitFor(w, q)

SplitsOff(w, v, p) ==
    /\ v.panes = w.panes /\ Alike(w, v, w.panes \ {p}) /\ InFront(v, p)
    /\ \A x \in w.panes \ {p} : layoutUnitFor(v, x) # layoutUnitFor(v, p)

(* What is true of every node is true of every panel.                          *)
LEMMA PanesHang ==
    ASSUME NEW w, Tree(w)
    PROVE  /\ w.panes \subseteq DOMAIN w.parent /\ w.panes \subseteq Panels /\ Forest(w)
           /\ NoPanel \notin DOMAIN w.parent /\ NoPanel \notin w.panes
           /\ \A p \in w.panes : layoutUnitFor(w, p) \in DOMAIN w.parent
  BY Places, UnitIsOutermost DEF Tree, Forest

LEMMA PanelIsShown ==
    ASSUME NEW w, w \in Layouts, Tree(w), Listed(w),
           w.pendingDock = <<>>, w.pendingUnsplit = NoPanel,
           NEW p \in w.panes, NEW v, v = activatePanel(w, p)
    PROVE  Sound(v) /\ Shows(w, v, p) /\ v.tabOrder = w.tabOrder
  <1>1. /\ v \in Layouts /\ Tree(v) /\ Kept(w, v) /\ SameSplits(w, v)
        /\ v.active = p /\ v.root = layoutUnitFor(w, p)
    BY Activated
  <1>2. Forest(w)
    BY DEF Tree
  <1>3. \A n : layoutUnitFor(v, n) = layoutUnitFor(w, n)
    BY <1>1, <1>2, SplitsStay
  <1>4. /\ v.panes = w.panes /\ v.tabOrder = w.tabOrder
        /\ v.pendingDock = w.pendingDock /\ v.pendingUnsplit = w.pendingUnsplit
    BY <1>1 DEF Kept
  <1>5. Listed(v)
    BY <1>4 DEF Listed
  <1>6. Sound(v)
    BY <1>1, <1>3, <1>4, <1>5 DEF Sound
  <1>7. Shows(w, v, p)
    BY <1>1, <1>3, <1>4 DEF Shows, Alike, InFront
  <1> QED
    BY <1>4, <1>6, <1>7

LEMMA PanelIsOpened ==
    ASSUME NEW w, Sound(w), NEW p \in Panels, p \notin w.panes,
           NEW v, v = activatePanel(ensurePane(w, p), p)
    PROVE  Sound(v) /\ Opens(w, v, p)
  <1> DEFINE x == ensurePane(w, p)
  <1>1. /\ x \in Layouts /\ Tree(x) /\ Listed(x) /\ x.panes = w.panes \cup {p}
        /\ x.pendingDock = <<>> /\ x.pendingUnsplit = NoPanel
        /\ layoutUnitFor(x, p) = p
        /\ \A n \in DOMAIN w.parent : layoutUnitFor(x, n) = layoutUnitFor(w, n)
    BY PaneEnters DEF Sound
  <1>2. p \in x.panes /\ v = activatePanel(x, p)
    BY <1>1
  <1> HIDE DEF x
  <1>3. Sound(v) /\ Shows(x, v, p)
    BY <1>1, <1>2, PanelIsShown
  <1>4. \A q \in w.panes : q \in DOMAIN w.parent /\ layoutUnitFor(w, q) # p
    <2> SUFFICES ASSUME NEW q \in w.panes
                 PROVE  q \in DOMAIN w.parent /\ layoutUnitFor(w, q) # p
      OBVIOUS
    <2>1. Tree(w)
      BY DEF Sound
    <2>2. layoutUnitFor(w, q) \in DOMAIN w.parent /\ q \in DOMAIN w.parent
      BY <2>1, PanesHang
    <2>3. p \notin DOMAIN w.parent
      BY <2>1, Places DEF Tree, Used
    <2> QED
      BY <2>2, <2>3
  <1> QED
    BY <1>1, <1>3, <1>4 DEF Opens, Shows, Alike

(* A layout with another panel in use.                                         *)
Chosen(w, v, a) == v = [w EXCEPT !.active = a]

LEMMA ActiveIsChosen ==
    ASSUME NEW w \in Layouts, NEW a \in Panels \cup {NoPanel}, NEW v, Chosen(w, v, a)
    PROVE  /\ v \in Layouts /\ Kept(w, v) /\ v.active = a
           /\ v.root = w.root /\ v.parent = w.parent /\ v.index = w.index /\ v.hidden = w.hidden
  BY DEF Layouts, Kept, Chosen

LEMMA PanelIsTaken ==
    ASSUME NEW w, Sound(w), NEW p \in w.panes, NEW v, v = TakePanel(w, p)
    PROVE  Sound(v) /\ Leaves(w, v, p)
  <1> DEFINE out == extractPane(w, p)
             x == Forget(out, p)
             a == IF w.active = p THEN NoPanel ELSE w.active
  <1>1. w \in Layouts /\ Tree(w) /\ Listed(w)
    BY DEF Sound
  <1>2. /\ out \in Layouts /\ Tree(out) /\ Kept(w, out) /\ out.active = w.active
        /\ out.parent[p] = "workspace"
    BY <1>1, Extracted
  <1>3. /\ Alike(w, out, w.panes \ {p})
        /\ \A q \in w.panes \ {p} : layoutUnitFor(out, q) = out.root <=> layoutUnitFor(w, q) = w.root
    <2>1. w \in Layouts /\ Tree(w) /\ p \in w.panes /\ out = extractPane(w, p)
      BY <1>1
    <2> HIDE DEF out
    <2> QED
      BY ONLY <2>1, ExtractedApart
  <1>4. v = [x EXCEPT !.active = IF @ = p THEN NoPanel ELSE @]
    BY DEF TakePanel
  <1>5. out.panes = w.panes /\ Listed(out) /\ p \in out.panes
    BY <1>1, <1>2 DEF Kept, Listed
  <1> HIDE DEF out
  <1>6. /\ x \in Layouts /\ Tree(x) /\ Listed(x) /\ x.panes = out.panes \ {p}
        /\ x.active = out.active /\ x.root = out.root
        /\ x.pendingDock = out.pendingDock /\ x.pendingUnsplit = out.pendingUnsplit
        /\ DOMAIN x.parent = DOMAIN out.parent \ {p}
        /\ \A n \in DOMAIN x.parent : layoutUnitFor(x, n) = layoutUnitFor(out, n)
    BY <1>2, <1>5, PaneLeaves
  <1> HIDE DEF x
  <1>7. /\ v \in Layouts /\ Kept(x, v) /\ v.active = a
        /\ v.root = x.root /\ v.parent = x.parent /\ v.index = x.index /\ v.hidden = x.hidden
    <2>1. x.active = w.active /\ a \in Panels \cup {NoPanel}
      BY <1>1, <1>2, <1>6 DEF Layouts
    <2>2. Chosen(x, v, a)
      BY <1>4, <1>6, <2>1 DEF Layouts, Chosen
    <2> HIDE DEF a
    <2> QED
      BY <1>6, <2>1, <2>2, ActiveIsChosen
  <1>8. SameSplits(x, v) /\ Forest(x)
    BY <1>6, <1>7, Places DEF SameSplits, Tree, Forest, Used
  <1>9. /\ Used(v) = Used(x) /\ Forest(v)
        /\ \A s \in Splitters : Halves(x, s) => Halves(v, s)
        /\ \A n : layoutUnitFor(v, n) = layoutUnitFor(x, n)
    BY <1>8, SplitsStay
  <1>10. v.panes = x.panes /\ v.tabOrder = x.tabOrder
         /\ v.pendingDock = x.pendingDock /\ v.pendingUnsplit = x.pendingUnsplit
    BY <1>7 DEF Kept
  <1>11. Tree(v)
    BY <1>6, <1>7, <1>9, <1>10, SMTT(40) DEF Tree, Used
  <1>12. Listed(v)
    BY <1>6, <1>10 DEF Listed
  <1>13. v.panes = w.panes \ {p} /\ \A q \in v.panes : q \in w.panes \ {p} /\ q \in DOMAIN x.parent
    BY <1>5, <1>6, <1>10, PanesHang
  <1>14. \A q \in v.panes : layoutUnitFor(v, q) = layoutUnitFor(out, q)
    BY <1>6, <1>9, <1>13
  <1>15. Leaves(w, v, p)
    <2>1. Alike(w, v, v.panes)
      BY <1>3, <1>13, <1>14 DEF Alike
    <2>2. \A q \in v.panes : layoutUnitFor(v, q) = v.root <=> layoutUnitFor(w, q) = w.root
      BY <1>3, <1>6, <1>7, <1>13, <1>14
    <2> QED
      BY <1>7, <1>13, <2>1, <2>2 DEF Leaves
  <1>16. v.active = NoPanel \/ (v.active \in v.panes /\ layoutUnitFor(v, v.active) = v.root)
    BY <1>13, <1>15 DEF Leaves, Sound
  <1>17. v.pendingDock = <<>> /\ v.pendingUnsplit = NoPanel
    BY <1>2, <1>6, <1>10 DEF Kept, Sound
  <1> QED
    BY <1>7, <1>11, <1>12, <1>15, <1>16, <1>17 DEF Sound

LEMMA PanelStaysShown ==
    ASSUME NEW w, NEW x, NEW v, NEW p, NEW q, Shows(x, v, p)
    PROVE  /\ Docks(w, x, p, q) => Docks(w, v, p, q)
           /\ SplitsOff(w, x, p) => SplitsOff(w, v, p)
           /\ Opens(w, x, p) => Opens(w, v, p)
           /\ Leaves(w, x, q) => GivesWay(w, v, q, p)
           /\ Shows(w, x, q) => Shows(w, v, p)
  <1>1. v.panes = x.panes /\ Alike(x, v, x.panes) /\ InFront(v, p) /\ p \in x.panes
    BY DEF Shows, InFront
  <1>2. Docks(w, x, p, q) => Docks(w, v, p, q)
    BY <1>1 DEF Docks, Alike
  <1>3. SplitsOff(w, x, p) => SplitsOff(w, v, p)
    BY <1>1 DEF SplitsOff, Alike
  <1>4. Opens(w, x, p) => Opens(w, v, p)
    BY <1>1 DEF Opens, Alike
  <1>5. Leaves(w, x, q) => GivesWay(w, v, q, p)
    BY <1>1 DEF Leaves, GivesWay, Alike
  <1>6. Shows(w, x, q) => Shows(w, v, p)
    BY <1>1 DEF Shows, Alike
  <1> QED
    BY <1>2, <1>3, <1>4, <1>5, <1>6

LEMMA PanelIsUnsplit ==
    ASSUME NEW w, Sound(w), NEW p \in w.panes, NEW v, v = unsplitPanel(w, p)
    PROVE  Sound(v) /\ SplitsOff(w, v, p)
  <1>1. w \in Layouts /\ Tree(w) /\ Listed(w) /\ w.pendingDock = <<>> /\ w.pendingUnsplit = NoPanel
    BY DEF Sound
  <1>2. CASE InSplitter(w, p)
    <2> DEFINE x == extractPane(w, p)
    <2>1. x \in Layouts /\ Tree(x) /\ Kept(w, x) /\ layoutUnitFor(x, p) = p
      BY <1>1, Extracted
    <2>2. /\ Alike(w, x, w.panes \ {p})
          /\ \A q \in w.panes \ {p} : layoutUnitFor(x, q) # p
      <3>1. w \in Layouts /\ Tree(w) /\ p \in w.panes /\ x = extractPane(w, p)
        BY <1>1
      <3> HIDE DEF x
      <3> QED
        BY ONLY <3>1, ExtractedApart
    <2>3. v = activatePanel(x, p)
      BY <1>2 DEF unsplitPanel
    <2> HIDE DEF x
    <2>4. /\ x.panes = w.panes /\ Listed(x) /\ p \in x.panes
          /\ x.pendingDock = <<>> /\ x.pendingUnsplit = NoPanel
      BY <1>1, <2>1 DEF Kept, Listed
    <2>5. Sound(v) /\ Shows(x, v, p)
      BY <2>1, <2>3, <2>4, PanelIsShown
    <2> QED
      BY <2>1, <2>2, <2>4, <2>5 DEF SplitsOff, Shows, Alike
  <1>3. CASE ~InSplitter(w, p)
    <2>1. v = activatePanel(w, p)
      BY <1>3 DEF unsplitPanel
    <2>2. Sound(v) /\ Shows(w, v, p)
      BY <1>1, <2>1, PanelIsShown
    <2>3. ASSUME NEW q \in w.panes \ {p}
          PROVE  layoutUnitFor(w, q) # layoutUnitFor(w, p)
      <3>1. /\ Forest(w) /\ p \in DOMAIN w.parent /\ q \in DOMAIN w.parent
            /\ p \notin Splitters
        BY <1>1, Places, PanesHang
      <3>2. layoutUnitFor(w, p) = p
        BY <1>3, <3>1, UnitIsOutermost
      <3>3. layoutUnitFor(w, q) \in {q} \cup Used(w)
        BY <3>1, UnitIsOutermost, AboveInForest
      <3> QED
        BY <3>1, <3>2, <3>3 DEF Used
    <2> QED
      BY <2>2, <2>3 DEF SplitsOff, Shows, Alike
  <1> QED
    BY <1>2, <1>3

LEMMA PanelIsDocked ==
    ASSUME NEW w, Sound(w), Cardinality(w.panes) <= MaxPanels,
           NEW p \in w.panes, NEW q \in w.panes, p # q, NEW edge \in {"First", "Second"},
           NEW v, v = applyDock(w, p, edge, q)
    PROVE  Sound(v) /\ Docks(w, v, p, q)
  <1> DEFINE x == IF widgetInTree(w, q, w.root) THEN w ELSE showPanel(w, q)
  <1>1. w \in Layouts /\ Tree(w) /\ Listed(w) /\ w.pendingDock = <<>> /\ w.pendingUnsplit = NoPanel
    BY DEF Sound
  <1>2. v = dockInto(x, p, edge, q)
    BY DEF applyDock
  <1>3. Sound(x) /\ x.panes = w.panes /\ Alike(w, x, w.panes) /\ x.root = layoutUnitFor(x, q)
    <2>1. CASE widgetInTree(w, q, w.root)
      <3>1. x = w
        BY <2>1
      <3> HIDE DEF x
      <3>2. w.root # NoPanel /\ w.root \in Above(w, q)
        BY <2>1 DEF widgetInTree
      <3>3. ~InSplitter(w, w.root)
        BY <1>1, <3>2, Places DEF Tree, InSplitter
      <3>4. layoutUnitFor(w, q) = w.root
        BY <1>1, <3>2, <3>3, PanesHang, UnitIsOutermost
      <3> QED
        BY <3>1, <3>4 DEF Alike
    <2>2. CASE ~widgetInTree(w, q, w.root)
      <3>1. x = activatePanel(w, q)
        BY <2>2 DEF showPanel
      <3> HIDE DEF x
      <3> QED
        BY <1>1, <3>1, PanelIsShown DEF Shows, InFront
    <2> QED
      BY <2>1, <2>2
  <1> HIDE DEF x
  <1>4. /\ x \in Layouts /\ Tree(x) /\ Listed(x) /\ x.pendingDock = <<>> /\ x.pendingUnsplit = NoPanel
        /\ Cardinality(x.panes) <= MaxPanels /\ p \in x.panes /\ q \in x.panes
    BY <1>3 DEF Sound
  <1>5. x.root # NoPanel
    BY <1>3, <1>4, PanesHang
  <1>6. /\ v \in Layouts /\ Tree(v) /\ Kept(x, v) /\ v.active = p
        /\ v.root # NoPanel /\ layoutUnitFor(v, p) = v.root
        /\ Alike(x, v, x.panes \ {p})
        /\ \A y \in x.panes \ {p} : layoutUnitFor(v, y) = v.root <=> layoutUnitFor(x, y) = x.root
    <2>1. /\ x \in Layouts /\ Tree(x) /\ Cardinality(x.panes) <= MaxPanels /\ p \in x.panes
          /\ q \in x.panes /\ p # q /\ edge \in {"First", "Second"} /\ x.root # NoPanel
          /\ layoutUnitFor(x, q) = x.root /\ v = dockInto(x, p, edge, q)
      BY <1>2, <1>3, <1>4, <1>5
    <2>2. InCompany(x, v, p)
      BY ONLY <2>1, Docked
    <2> QED
      BY <2>2 DEF InCompany
  <1>7. /\ v.panes = w.panes /\ Listed(v) /\ v.pendingDock = <<>> /\ v.pendingUnsplit = NoPanel
    BY <1>3, <1>4, <1>6 DEF Kept, Listed
  <1>8. Sound(v)
    BY <1>6, <1>7 DEF Sound
  <1>9. Docks(w, v, p, q)
    BY <1>3, <1>6, <1>7 DEF Docks, Alike, InFront
  <1> QED
    BY <1>8, <1>9

(* Splitting with the context menu finds a panel to dock beside.               *)
LEMMA TargetIsAnother ==
    ASSUME NEW w, Sound(w), NEW p \in w.panes, Cardinality(w.panes) > 1
    PROVE  SplitTarget(w, p) \in w.panes \ {p}
  <1> DEFINE others == RemoveFirst(w.tabOrder, p)
             visible == {i \in DOMAIN others : widgetInTree(w, others[i], w.root)}
  <1>1. others \in Seq(Panels) /\ ToSet(others) = w.panes \ {p}
    <2>1. w.tabOrder \in Seq(Panels) /\ p \in ToSet(w.tabOrder) /\ IsInjective(w.tabOrder)
          /\ ToSet(w.tabOrder) = w.panes
      BY DEF Sound, Listed, Layouts
    <2> QED
      BY <2>1, ListWithout
  <1>2. SplitTarget(w, p) = IF w.active \in w.panes /\ w.active # p THEN w.active
                            ELSE IF visible # {} THEN others[Min(visible)] ELSE Last(others)
    BY DEF SplitTarget
  <1> HIDE DEF others
  <1>3. others # <<>>
    <2> SUFFICES ASSUME others = <<>>
                 PROVE  FALSE
      OBVIOUS
    <2>1. w.panes \ {p} = {}
      BY <1>1 DEF ToSet
    <2>2. w.panes = {p}
      BY <2>1
    <2>3. Cardinality({p}) = 1
      BY FS_Singleton
    <2>4. Cardinality(w.panes) = 1
      BY <2>2, <2>3, Zenon
    <2> QED
      BY <2>4
  <1>4. Last(others) \in w.panes \ {p}
    BY <1>1, <1>3, ListEnd
  <1>5. visible # {} => others[Min(visible)] \in w.panes \ {p}
    <2>1. visible \in SUBSET Nat /\ visible \subseteq DOMAIN others
      BY <1>1
    <2> HIDE DEF visible
    <2>2. visible # {} => Min(visible) \in DOMAIN others
      BY <2>1, LeastExists
    <2> QED
      BY <1>1, <2>2 DEF ToSet
  <1> QED
    BY <1>2, <1>4, <1>5

(* A queue is emptied as it is acted on.                                       *)
LEMMA QueueEmptied ==
    ASSUME NEW w, Sound(w), NEW a, NEW b
    PROVE  /\ [[w EXCEPT !.pendingDock = a, !.pendingUnsplit = NoPanel]
                 EXCEPT !.pendingDock = <<>>, !.pendingUnsplit = NoPanel] = w
           /\ [[w EXCEPT !.pendingDock = <<>>, !.pendingUnsplit = b]
                 EXCEPT !.pendingUnsplit = NoPanel] = w
  BY DEF Sound, Layouts

LEMMA TabsReordered ==
    ASSUME NEW w, Sound(w), NEW a, NEW b, NEW v, v = reorderAttached(w, a, b)
    PROVE  /\ Sound(v) /\ v.panes = w.panes /\ v.active = w.active /\ v.root = w.root
           /\ v.parent = w.parent
  <1>1. CASE ~(a \in ToSet(w.tabOrder) /\ b \in ToSet(w.tabOrder) /\ a # b)
    BY <1>1 DEF reorderAttached
  <1>2. CASE a \in ToSet(w.tabOrder) /\ b \in ToSet(w.tabOrder) /\ a # b
    <2> DEFINE rest == RemoveFirst(w.tabOrder, a)
               at == CHOOSE i \in DOMAIN rest : rest[i] = b
               tabs == InsertAt(rest, at, a)
    <2>1. w.tabOrder \in Seq(Panels) /\ IsInjective(w.tabOrder) /\ ToSet(w.tabOrder) = w.panes
      BY DEF Sound, Listed, Layouts
    <2>2. v = [w EXCEPT !.tabOrder = tabs]
      BY <1>2 DEF reorderAttached
    <2>3. rest \in Seq(Panels) /\ IsInjective(rest) /\ ToSet(rest) = w.panes \ {a}
      BY <1>2, <2>1, ListWithout
    <2> HIDE DEF rest
    <2>4. at \in 1..Len(rest) /\ a \in Panels \ ToSet(rest)
      <3>1. \E i \in DOMAIN rest : rest[i] = b
        BY <1>2, <2>1, <2>3, ZenonT(60) DEF ToSet
      <3>2. at \in DOMAIN rest
        BY <3>1
      <3>3. a \in Panels
        BY <1>2, <2>1 DEF ToSet
      <3> QED
        BY <2>3, <3>2, <3>3
    <2> HIDE DEF at
    <2>5. tabs \in Seq(Panels) /\ IsInjective(tabs) /\ ToSet(tabs) = w.panes
      <3>1. ToSet(rest) \cup {a} = w.panes
        BY <1>2, <2>1, <2>3
      <3>2. rest \in Seq(Panels) /\ IsInjective(rest) /\ a \in Panels \ ToSet(rest)
            /\ at \in 1..Len(rest)
        BY <2>3, <2>4
      <3>3. tabs \in Seq(Panels) /\ IsInjective(tabs) /\ ToSet(tabs) = ToSet(rest) \cup {a}
        BY ONLY <3>2, ListPut
      <3> QED
        BY <3>1, <3>3
    <2> HIDE DEF tabs
    <2>6. w \in Layouts
      BY DEF Sound
    <2>7. /\ v \in Layouts /\ v.panes = w.panes /\ v.tabOrder = tabs /\ v.active = w.active
          /\ v.root = w.root /\ v.parent = w.parent /\ v.index = w.index /\ v.hidden = w.hidden
          /\ v.pendingDock = w.pendingDock /\ v.pendingUnsplit = w.pendingUnsplit
      BY <2>2, <2>5, <2>6 DEF Layouts
    <2>8. Forest(w) /\ Tree(w)
      BY DEF Sound, Tree
    <2>9. SameSplits(w, v)
      BY <2>7, <2>8, Places DEF SameSplits, Tree, Forest, Used
    <2>10. /\ Used(v) = Used(w) /\ Forest(v)
           /\ \A s \in Splitters : Halves(w, s) => Halves(v, s)
           /\ \A n : layoutUnitFor(v, n) = layoutUnitFor(w, n)
      BY <2>8, <2>9, SplitsStay
    <2>11. Tree(v)
      BY <2>7, <2>8, <2>10 DEF Tree, Used
    <2>12. Listed(v)
      BY <2>5, <2>7 DEF Listed
    <2> QED
      BY <2>7, <2>10, <2>11, <2>12 DEF Sound
  <1> QED
    BY <1>1, <1>2

-----------------------------------------------------------------------------
(* The window between two actions.                                             *)

(* Sessions and panes have the tabs there are, and every RDP pane is shown or  *)
(* replaced.                                                                   *)
Accounts ==
    /\ order \in Seq(Terminals) /\ IsInjective(order) /\ sftpPanes \subseteq Sftps
    /\ rdpPanes \in [DOMAIN rdpPanes -> Widgets] /\ DOMAIN rdpPanes \subseteq Rdps
    /\ \A r, q \in DOMAIN rdpPanes : rdpPanes[r] = rdpPanes[q] => r = q
    /\ replaced \subseteq Widgets /\ \A r \in DOMAIN rdpPanes : rdpPanes[r] \notin replaced
    /\ rdpAlive = {rdpPanes[r] : r \in DOMAIN rdpPanes} \cup replaced /\ rdpShown = rdpPanes
    /\ layout.panes = ToSet(order) \cup sftpPanes \cup DOMAIN rdpPanes

Drags == [kind : {"none", "chip", "header", "lost"}, ref : Panels \cup {NoPanel}, doomed : BOOLEAN]

Hands ==
    /\ activeId \in Terminals \cup {NoPanel} /\ page \in {"dashboard", "workspace"}
    /\ previewed \in BOOLEAN /\ ActiveTerminalIsSession
    /\ drag \in Drags /\ (Dragging => drag.ref \in layout.panes)

WindowInv ==
    /\ Sound(layout) /\ Cardinality(layout.panes) <= MaxPanels
    /\ Accounts /\ Hands /\ chips = layout.tabOrder

LEMMA KindsApart ==
    ASSUME Accounts
    PROVE  /\ ToSet(order) \subseteq Terminals /\ layout.panes \subseteq Panels
           /\ ToSet(order) = layout.panes \cap Terminals
           /\ sftpPanes = layout.panes \cap Sftps
           /\ DOMAIN rdpPanes = layout.panes \cap Rdps
           /\ Panels = Terminals \cup Sftps \cup Rdps
           /\ Terminals \cap Sftps = {} /\ Terminals \cap Rdps = {} /\ Sftps \cap Rdps = {}
           /\ NoPanel \notin Panels
  <1>1. ToSet(order) \subseteq Terminals
    BY DEF Accounts, ToSet
  <1>2. /\ Panels = Terminals \cup Sftps \cup Rdps /\ NoPanel \notin Panels
        /\ Terminals \cap Sftps = {} /\ Terminals \cap Rdps = {} /\ Sftps \cap Rdps = {}
    BY WindowAssumption, WorkspaceAssumption
  <1>3. /\ layout.panes = ToSet(order) \cup sftpPanes \cup DOMAIN rdpPanes
        /\ sftpPanes \subseteq Sftps /\ DOMAIN rdpPanes \subseteq Rdps
    BY DEF Accounts
  <1> QED
    BY <1>1, <1>2, <1>3

(* The strip of a window in order.                                             *)
LEMMA StripIsTabs ==
    ASSUME NEW w, Sound(w), NEW live, w.panes \cap Terminals \subseteq ToSet(live)
    PROVE  Strip(w, live) = w.tabOrder
  <1>1. w.tabOrder \in Seq(Panels) /\ ToSet(w.tabOrder) = w.panes
    BY DEF Sound, Layouts, Listed
  <1> QED
    BY <1>1, StripIsWhole

LEMMA PanelsCounted ==
    ASSUME NEW w, Sound(w)
    PROVE  /\ IsFiniteSet(w.panes) /\ Cardinality(w.panes) \in Nat
           /\ \A v : v = w.panes => Cardinality(v) = Cardinality(w.panes)
           /\ \A p \in w.panes : Cardinality(w.panes \ {p}) = Cardinality(w.panes) - 1
           /\ \A p : p \notin w.panes => Cardinality(w.panes \cup {p}) = Cardinality(w.panes) + 1
  <1>1. w.panes \in SUBSET Panels /\ IsFiniteSet(Panels)
    BY WorkspaceAssumption DEF Sound, Layouts
  <1>2. IsFiniteSet(w.panes)
    BY <1>1, FS_Subset
  <1> QED
    BY <1>2, FS_CardinalityType, FS_AddElement, FS_RemoveElement

(* A panel that is open is selected, whatever was done to the layout before.   *)
LEMMA PanelIsFocused ==
    ASSUME WindowInv, NEW w, Sound(w), w.panes = layout.panes, NEW p, p \in w.panes,
           openOrFocusPanel(w, p), chips' = Strip(layout', order),
           drag' \in Drags, Dragging' => drag'.ref \in layout.panes
    PROVE  WindowInv' /\ Shows(w, layout', p)
  <1>1. layout' = activatePanel(w, p)
    BY DEF openOrFocusPanel, showPanel
  <1>2. Sound(layout') /\ Shows(w, layout', p)
    BY <1>1, PanelIsShown DEF Sound
  <1>3. layout'.panes = layout.panes /\ layout'.active = p
    BY <1>2 DEF Shows, InFront
  <1>4. /\ order' = order /\ sftpPanes' = sftpPanes /\ rdpAlive' = rdpAlive
        /\ replaced' = replaced /\ rdpPanes' = rdpPanes /\ rdpShown' = rdpShown
        /\ previewed' = FALSE
        /\ activeId' = IF p \in Terminals /\ p \in ToSet(order) THEN p ELSE activeId
        /\ page' = IF hasAttachedSessions(layout') THEN "workspace" ELSE "dashboard"
    BY DEF openOrFocusPanel, tables, desktops, showWorkspace
  <1>5. Accounts'
    BY <1>3, <1>4 DEF WindowInv, Accounts
  <1>6. p \in Terminals => p \in ToSet(order)
    BY KindsApart DEF WindowInv
  <1>7. Hands'
    <2>1. activeId' \in Terminals \cup {NoPanel} /\ page' \in {"dashboard", "workspace"}
          /\ previewed' \in BOOLEAN
      BY <1>4 DEF WindowInv, Hands
    <2>2. ActiveTerminalIsSession'
      BY <1>3, <1>4, <1>6 DEF ActiveTerminalIsSession
    <2> QED
      BY <1>3, <2>1, <2>2 DEF Hands
  <1>8. chips' = layout'.tabOrder
    <2>1. layout'.panes \cap Terminals \subseteq ToSet(order)
      BY <1>3, KindsApart DEF WindowInv
    <2> QED
      BY <1>2, <2>1, StripIsTabs
  <1>9. Cardinality(layout'.panes) <= MaxPanels
    BY <1>3 DEF WindowInv
  <1> QED
    BY <1>2, <1>5, <1>7, <1>8, <1>9 DEF WindowInv

LEMMA Refreshed ==
    ASSUME WindowInv, refresh, Sound(layout'), layout'.panes \cap Terminals \subseteq ToSet(order')
    PROVE  /\ chips' = layout'.tabOrder /\ drag' \in Drags
           /\ drag'.kind = drag.kind /\ drag'.ref = drag.ref
  <1>1. chips' = layout'.tabOrder
    BY StripIsTabs DEF refresh
  <1>2. drag' = [drag EXCEPT !.doomed = drag.doomed \/ drag.kind = "chip"] /\ drag \in Drags
    BY DEF refresh, WindowInv, Hands
  <1> QED
    BY <1>1, <1>2 DEF Drags

(* What a step makes of the panels.                                            *)
Untouched(w, v) ==
    v.panes = w.panes /\ v.active = w.active /\ v.root = w.root /\ v.parent = w.parent

Moves(w, v) ==
    \/ Untouched(w, v)
    \/ \E p \in Panels : Opens(w, v, p)
    \/ \E p \in w.panes : Shows(w, v, p) \/ Leaves(w, v, p) \/ SplitsOff(w, v, p)
    \/ \E p, q \in w.panes : p # q /\ (Docks(w, v, p, q) \/ GivesWay(w, v, p, q))

LEMMA OpenKeepsOrder ==
    ASSUME WindowInv, NEW p \in Panels, p \notin layout.panes, RoomFor(p),
           layout' = activatePanel(ensurePane(layout, p), p)
    PROVE  /\ Sound(layout') /\ Opens(layout, layout', p) /\ layout'.panes = layout.panes \cup {p}
           /\ layout'.active = p /\ Cardinality(layout'.panes) <= MaxPanels
  <1>1. Sound(layout)
    BY DEF WindowInv
  <1>2. Sound(layout') /\ Opens(layout, layout', p)
    BY <1>1, PanelIsOpened
  <1>3. Cardinality(layout.panes \cup {p}) = Cardinality(layout.panes) + 1
        /\ Cardinality(layout.panes) \in Nat
    BY <1>1, PanelsCounted
  <1>4. Cardinality(layout.panes) < MaxPanels /\ MaxPanels \in Nat
    BY WindowAssumption DEF RoomFor
  <1>5. layout'.panes = layout.panes \cup {p} /\ layout'.active = p
    BY <1>2 DEF Opens, InFront
  <1>6. Cardinality(layout'.panes) = Cardinality(layout.panes \cup {p})
    BY <1>5
  <1> QED
    BY <1>2, <1>3, <1>4, <1>5, <1>6

LEMMA TerminalOpens ==
    ASSUME WindowInv, NEW t \in Terminals, beginTerminalSession(t)
    PROVE  WindowInv' /\ Moves(layout, layout')
  <1>1. t \in Panels /\ t \notin layout.panes
    BY KindsApart DEF WindowInv, beginTerminalSession
  <1>2. /\ Sound(layout') /\ Opens(layout, layout', t) /\ layout'.panes = layout.panes \cup {t}
        /\ layout'.active = t /\ Cardinality(layout'.panes) <= MaxPanels
    <2>1. RoomFor(t) /\ layout' = activatePanel(ensurePane(layout, t), t)
      BY DEF beginTerminalSession, addTerminal
    <2> QED
      BY <1>1, <2>1, OpenKeepsOrder
  <1>3. /\ order' = Append(order, t) /\ activeId' = t /\ previewed' = FALSE
        /\ sftpPanes' = sftpPanes /\ rdpAlive' = rdpAlive
        /\ replaced' = replaced /\ rdpPanes' = rdpPanes /\ rdpShown' = rdpShown
        /\ page' = IF hasAttachedSessions(layout') THEN "workspace" ELSE "dashboard"
        /\ refresh /\ drag = NoDrag
    BY DEF beginTerminalSession, tables, desktops, showWorkspace, Free
  <1>4. order' \in Seq(Terminals) /\ IsInjective(order') /\ ToSet(order') = ToSet(order) \cup {t}
    <2>1. order \in Seq(Terminals) /\ IsInjective(order) /\ t \in Terminals \ ToSet(order)
      BY DEF WindowInv, Accounts, beginTerminalSession
    <2> QED
      BY <1>3, <2>1, ListWith
  <1>5. layout'.panes \cap Terminals \subseteq ToSet(order')
    BY <1>2, <1>4, KindsApart DEF WindowInv
  <1>6. /\ chips' = layout'.tabOrder /\ drag' \in Drags
        /\ drag'.kind = drag.kind /\ drag'.ref = drag.ref
    BY <1>2, <1>3, <1>5, Refreshed
  <1>7. Accounts'
    <2>1. layout'.panes = ToSet(order') \cup sftpPanes' \cup DOMAIN rdpPanes'
      BY <1>2, <1>3, <1>4 DEF WindowInv, Accounts
    <2> QED
      BY <1>3, <1>4, <2>1 DEF WindowInv, Accounts
  <1>8. Hands'
    BY <1>2, <1>3, <1>6 DEF WindowInv, Hands, ActiveTerminalIsSession, Dragging, NoDrag
  <1> QED
    BY <1>1, <1>2, <1>6, <1>7, <1>8 DEF WindowInv, Moves

LEMMA SftpOpens ==
    ASSUME WindowInv, NEW s \in Sftps, openStandaloneSftp(s)
    PROVE  WindowInv' /\ Moves(layout, layout')
  <1>1. s \in Panels /\ s \notin layout.panes /\ s \notin Terminals
    BY KindsApart DEF WindowInv, openStandaloneSftp
  <1>2. /\ Sound(layout') /\ Opens(layout, layout', s) /\ layout'.panes = layout.panes \cup {s}
        /\ layout'.active = s /\ Cardinality(layout'.panes) <= MaxPanels
    <2> DEFINE x == ensurePane(layout, s)
    <2>1. x.root # s /\ ~InSplitter(x, s)
      BY <1>1, PaneEnters DEF WindowInv, Sound
    <2>2. ~widgetInTree(x, s, x.root)
      BY <2>1, AboveOutside DEF widgetInTree
    <2>3. RoomFor(s) /\ layout' = activatePanel(x, s)
      BY <2>2 DEF openStandaloneSftp, addSftp
    <2> QED
      BY <1>1, <2>3, OpenKeepsOrder
  <1>3. /\ order' = order /\ activeId' = activeId /\ previewed' = FALSE
        /\ sftpPanes' = sftpPanes \cup {s} /\ rdpAlive' = rdpAlive
        /\ replaced' = replaced /\ rdpPanes' = rdpPanes /\ rdpShown' = rdpShown
        /\ page' = IF hasAttachedSessions(layout') THEN "workspace" ELSE "dashboard"
        /\ refresh /\ drag = NoDrag
    BY DEF openStandaloneSftp, sessions, desktops, showWorkspace, Free
  <1>4. layout'.panes \cap Terminals \subseteq ToSet(order')
    BY <1>1, <1>2, <1>3, KindsApart DEF WindowInv
  <1>5. /\ chips' = layout'.tabOrder /\ drag' \in Drags
        /\ drag'.kind = drag.kind /\ drag'.ref = drag.ref
    BY <1>2, <1>3, <1>4, Refreshed
  <1>6. Accounts'
    <2>1. layout'.panes = ToSet(order') \cup sftpPanes' \cup DOMAIN rdpPanes'
      BY <1>2, <1>3 DEF WindowInv, Accounts
    <2> QED
      BY <1>3, <2>1 DEF WindowInv, Accounts
  <1>7. Hands'
    BY <1>1, <1>2, <1>3, <1>5 DEF WindowInv, Hands, ActiveTerminalIsSession, Dragging, NoDrag
  <1> QED
    BY <1>1, <1>2, <1>5, <1>6, <1>7 DEF WindowInv, Moves

LEMMA RdpOpens ==
    ASSUME WindowInv, NEW r \in Rdps, openRdpSession(r)
    PROVE  WindowInv' /\ Moves(layout, layout')
  <1>1. r \in Panels /\ r \notin Terminals /\ (r \in layout.panes <=> r \in DOMAIN rdpPanes)
    BY KindsApart DEF WindowInv
  <1>2. /\ Sound(layout') /\ layout'.panes = layout.panes \cup {r}
        /\ layout'.active = r /\ Cardinality(layout'.panes) <= MaxPanels
        /\ Moves(layout, layout')
    <2>1. RoomFor(r) /\ layout' = activatePanel(ensurePane(layout, r), r)
      BY DEF openRdpSession, addRdp
    <2>2. CASE r \notin layout.panes
      BY <1>1, <2>1, <2>2, OpenKeepsOrder DEF Moves
    <2>3. CASE r \in layout.panes
      <3>1. layout' = activatePanel(layout, r)
        BY <2>1, <2>3 DEF ensurePane
      <3>2. Sound(layout') /\ Shows(layout, layout', r)
        BY <2>3, <3>1, PanelIsShown DEF WindowInv, Sound
      <3>3. layout'.panes = layout.panes /\ layout'.active = r
        BY <3>2 DEF Shows, InFront
      <3>4. Cardinality(layout'.panes) <= MaxPanels
        BY <3>3 DEF WindowInv
      <3> QED
        BY <2>3, <3>2, <3>3, <3>4 DEF Moves
    <2> QED
      BY <2>2, <2>3
  <1>3. PICK w \in Widgets \ rdpAlive :
          /\ rdpAlive' = rdpAlive \cup {w}
          /\ rdpPanes' = Entered(rdpPanes, r, w)
          /\ rdpShown' = Entered(rdpShown, r, w)
    BY DEF openRdpSession
  <1>4. /\ order' = order /\ activeId' = activeId /\ previewed' = FALSE
        /\ sftpPanes' = sftpPanes
        /\ replaced' = replaced \cup {rdpPanes[q] : q \in {r} \cap DOMAIN rdpPanes}
        /\ page' = IF hasAttachedSessions(layout') THEN "workspace" ELSE "dashboard"
        /\ refresh /\ drag = NoDrag
    BY DEF openRdpSession, sessions, showWorkspace, Free
  <1>5. layout'.panes \cap Terminals \subseteq ToSet(order')
    BY <1>1, <1>2, <1>4, KindsApart DEF WindowInv
  <1>6. /\ chips' = layout'.tabOrder /\ drag' \in Drags
        /\ drag'.kind = drag.kind /\ drag'.ref = drag.ref
    BY <1>2, <1>4, <1>5, Refreshed
  <1>7. Accounts'
    <2>1. Accounts
      BY DEF WindowInv
    <2>2. layout'.panes = ToSet(order') \cup sftpPanes' \cup DOMAIN rdpPanes'
      BY <1>2, <1>3, <1>4, <2>1 DEF Accounts, Entered
    <2>3. /\ rdpPanes' \in [DOMAIN rdpPanes' -> Widgets] /\ DOMAIN rdpPanes' \subseteq Rdps
          /\ rdpShown' = rdpPanes'
      BY <1>3, <2>1 DEF Accounts, Entered
    <2>4. DOMAIN rdpPanes' = DOMAIN rdpPanes \cup {r} /\ rdpPanes'[r] = w
          /\ \A q \in DOMAIN rdpPanes \ {r} : rdpPanes'[q] = rdpPanes[q]
      BY <1>3 DEF Entered
    <2>5. /\ w \in Widgets /\ w \notin replaced
          /\ \A q \in DOMAIN rdpPanes : rdpPanes[q] # w /\ rdpPanes[q] \in Widgets
      BY <2>1 DEF Accounts
    <2>6. \A q, s \in DOMAIN rdpPanes' : rdpPanes'[q] = rdpPanes'[s] => q = s
      BY <2>1, <2>4, <2>5 DEF Accounts
    <2>7. /\ replaced' \subseteq Widgets /\ \A q \in DOMAIN rdpPanes' : rdpPanes'[q] \notin replaced'
      BY <1>4, <2>1, <2>4, <2>5 DEF Accounts
    <2>8. rdpAlive' = {rdpPanes'[q] : q \in DOMAIN rdpPanes'} \cup replaced'
      <3>1. rdpAlive = {rdpPanes[q] : q \in DOMAIN rdpPanes} \cup replaced
        BY <2>1 DEF Accounts
      <3> QED
        BY <1>3, <1>4, <2>4, <3>1
    <2>9. order' \in Seq(Terminals) /\ IsInjective(order') /\ sftpPanes' \subseteq Sftps
      BY <1>4, <2>1 DEF Accounts
    <2> QED
      BY <2>2, <2>3, <2>6, <2>7, <2>8, <2>9 DEF Accounts
  <1>8. Hands'
    BY <1>1, <1>2, <1>4, <1>6 DEF WindowInv, Hands, ActiveTerminalIsSession, Dragging, NoDrag
  <1> QED
    BY <1>2, <1>6, <1>7, <1>8 DEF WindowInv

(* What closing leaves of the layout is smaller.                               *)
LEMMA TakenKeepsOrder ==
    ASSUME WindowInv, NEW p \in layout.panes, NEW v, v = TakePanel(layout, p)
    PROVE  /\ Sound(v) /\ Leaves(layout, v, p) /\ v.panes = layout.panes \ {p}
           /\ v.active = (IF layout.active = p THEN NoPanel ELSE layout.active)
           /\ Cardinality(v.panes) <= MaxPanels
  <1>1. Sound(layout)
    BY DEF WindowInv
  <1>2. Sound(v) /\ Leaves(layout, v, p)
    BY <1>1, PanelIsTaken
  <1>3. /\ Cardinality(layout.panes) \in Nat
        /\ Cardinality(layout.panes \ {p}) = Cardinality(layout.panes) - 1
    BY <1>1, PanelsCounted
  <1>4. Cardinality(layout.panes) <= MaxPanels /\ MaxPanels \in Nat
    BY WindowAssumption DEF WindowInv
  <1>5. v.panes = layout.panes \ {p}
        /\ v.active = (IF layout.active = p THEN NoPanel ELSE layout.active)
    BY <1>2 DEF Leaves
  <1>6. Cardinality(v.panes) = Cardinality(layout.panes \ {p})
    BY <1>5
  <1> QED
    BY <1>2, <1>3, <1>4, <1>5, <1>6

LEMMA SessionCloses ==
    ASSUME WindowInv, NEW t \in layout.panes, Free, closeLiveSession(t), refresh
    PROVE  WindowInv' /\ Moves(layout, layout')
  <1> DEFINE taken == TakePanel(layout, t)
             rest  == RemoveFirst(order, t)
             next  == IF activeId # t THEN activeId
                      ELSE IF rest = <<>> THEN NoPanel ELSE Last(rest)
             shown == IF next = activeId THEN taken ELSE showPanel(taken, next)
  <1>1. /\ t \in ToSet(order) /\ order' = rest /\ activeId' = next
        /\ layout' = removePanel(shown, t)
        /\ page' = IF hasAttachedSessions(layout') THEN "workspace" ELSE "dashboard"
        /\ previewed' = (previewed /\ next = activeId) /\ sftpPanes' = sftpPanes
        /\ rdpAlive' = rdpAlive /\ replaced' = replaced /\ rdpPanes' = rdpPanes
        /\ rdpShown' = rdpShown /\ refresh /\ drag = NoDrag
    BY DEF closeLiveSession, sessionClosed, removeSessionPanels, showWorkspace, tables, desktops, Free
  <1>2. /\ Sound(taken) /\ Leaves(layout, taken, t) /\ taken.panes = layout.panes \ {t}
        /\ taken.active = (IF layout.active = t THEN NoPanel ELSE layout.active)
        /\ Cardinality(taken.panes) <= MaxPanels
    BY TakenKeepsOrder
  <1>3. rest \in Seq(Terminals) /\ IsInjective(rest) /\ ToSet(rest) = ToSet(order) \ {t}
    <2>1. order \in Seq(Terminals) /\ IsInjective(order)
      BY DEF WindowInv, Accounts
    <2> QED
      BY <1>1, <2>1, ListWithout
  <1> HIDE DEF taken, rest
  <1>4. next \in Terminals \cup {NoPanel} /\ t \in Terminals /\ NoPanel \notin Terminals
    <2>1. rest # <<>> => Last(rest) \in ToSet(rest)
      BY <1>3, ListEnd
    <2>2. t \in Terminals /\ ToSet(rest) \subseteq Terminals /\ NoPanel \notin Terminals
      BY <1>1, <1>3, KindsApart DEF WindowInv
    <2> QED
      BY <2>1, <2>2 DEF WindowInv, Hands
  <1>5. /\ next # activeId /\ next # NoPanel => next \in ToSet(rest) /\ next \in taken.panes
        /\ next # activeId /\ next = NoPanel => ToSet(rest) = {}
    <2>1. rest # <<>> => Last(rest) \in ToSet(rest)
      BY <1>3, ListEnd
    <2>2. ToSet(rest) \subseteq taken.panes
      BY <1>2, <1>3, KindsApart DEF WindowInv
    <2>3. ToSet(<<>>) = {}
      BY DEF ToSet
    <2>4. CASE activeId # t
      BY <2>4
    <2>5. CASE activeId = t /\ rest = <<>>
      <3>1. next = NoPanel
        BY <2>5
      <3>2. ToSet(rest) = {}
        BY <2>3, <2>5
      <3> QED
        BY <3>1, <3>2
    <2>6. CASE activeId = t /\ rest # <<>>
      <3>1. next = Last(rest)
        BY <2>6
      <3>2. next \in ToSet(rest) /\ next \in Terminals
        BY <1>3, <1>4, <2>1, <2>6, <3>1, KindsApart DEF WindowInv
      <3> QED
        BY <1>4, <2>2, <3>2
    <2> QED
      BY <2>4, <2>5, <2>6
  <1>6. NoPanel \notin taken.panes /\ t \notin taken.panes /\ taken.panes \subseteq Panels
    BY <1>2, KindsApart DEF WindowInv
  <1> HIDE DEF next
  <1>7. CASE next = activeId \/ next = NoPanel
    <2>1. shown = taken
      BY <1>6, <1>7 DEF showPanel
    <2>2. layout' = taken
      BY <1>1, <1>6, <2>1 DEF removePanel
    <2>3. layout'.panes \cap Terminals \subseteq ToSet(order')
      BY <1>1, <1>2, <1>3, <2>2, KindsApart DEF WindowInv
    <2>4. /\ chips' = layout'.tabOrder /\ drag' \in Drags
          /\ drag'.kind = drag.kind /\ drag'.ref = drag.ref
      BY <1>1, <1>2, <2>2, <2>3, Refreshed
    <2>5. Accounts'
      <3>1. layout'.panes = ToSet(order') \cup sftpPanes' \cup DOMAIN rdpPanes'
        BY <1>1, <1>2, <1>3, <2>2, KindsApart DEF WindowInv
      <3> QED
        BY <1>1, <1>3, <3>1 DEF WindowInv, Accounts
    <2>6. ActiveTerminalIsSession'
      <3>1. CASE next = activeId
        <4>1. previewed' <=> previewed
          BY <1>1, <3>1, Zenon
        <4>2. activeId' = activeId /\ (layout'.active \in Terminals => layout'.active = layout.active)
          BY <1>1, <1>2, <1>4, <2>2, <3>1
        <4>3. ActiveTerminalIsSession
          BY DEF WindowInv, Hands
        <4> QED
          BY <4>1, <4>2, <4>3 DEF ActiveTerminalIsSession
      <3>2. CASE next # activeId
        <4>1. layout'.active \in Terminals => layout'.active \in layout'.panes
          BY <1>2, <1>4, <2>2 DEF Sound
        <4>2. ToSet(order') = {}
          BY <1>1, <1>5, <1>7, <3>2
        <4> QED
          BY <2>3, <4>1, <4>2 DEF ActiveTerminalIsSession
      <3> QED
        BY <3>1, <3>2
    <2>7. Hands'
      BY <1>1, <1>4, <2>4, <2>6 DEF WindowInv, Hands, Dragging, NoDrag
    <2> QED
      BY <1>2, <2>2, <2>4, <2>5, <2>7 DEF WindowInv, Moves
  <1>8. CASE next # activeId /\ next # NoPanel
    <2>1. shown = activatePanel(taken, next) /\ next \in taken.panes
      BY <1>5, <1>8 DEF showPanel
    <2> HIDE DEF shown
    <2>2. Sound(shown) /\ Shows(taken, shown, next)
      BY <1>2, <2>1, PanelIsShown DEF Sound
    <2>3. shown.panes = taken.panes /\ shown.active = next
      BY <2>2 DEF Shows, InFront
    <2>4. layout' = shown
      BY <1>1, <1>6, <2>3 DEF removePanel
    <2>5. layout'.panes \cap Terminals \subseteq ToSet(order')
      BY <1>1, <1>2, <1>3, <2>3, <2>4, KindsApart DEF WindowInv
    <2>6. /\ chips' = layout'.tabOrder /\ drag' \in Drags
          /\ drag'.kind = drag.kind /\ drag'.ref = drag.ref
      BY <1>1, <2>2, <2>4, <2>5, Refreshed
    <2>7. Accounts'
      <3>1. layout'.panes = ToSet(order') \cup sftpPanes' \cup DOMAIN rdpPanes'
        BY <1>1, <1>2, <1>3, <2>3, <2>4, KindsApart DEF WindowInv
      <3> QED
        BY <1>1, <1>3, <3>1 DEF WindowInv, Accounts
    <2>8. Hands'
      BY <1>1, <1>4, <2>3, <2>4, <2>6 DEF WindowInv, Hands, ActiveTerminalIsSession, Dragging, NoDrag
    <2>9. GivesWay(layout, layout', t, next)
      BY <1>2, <2>2, <2>4, PanelStaysShown
    <2>10. t # next /\ next \in layout.panes
      BY <1>2, <2>1
    <2>11. Cardinality(layout'.panes) <= MaxPanels
      BY <1>2, <2>3, <2>4
    <2> QED
      BY <2>2, <2>4, <2>6, <2>7, <2>8, <2>9, <2>10, <2>11 DEF WindowInv, Moves
  <1> QED
    BY <1>7, <1>8

(* An SFTP or RDP pane closes.                                                 *)
LEMMA PaneCloses ==
    ASSUME WindowInv, NEW p \in layout.panes, Free, refresh, layout' = TakePanel(layout, p),
           p \notin Terminals, UNCHANGED <<sessions, previewed>>, showDashboardIfEmpty, Accounts'
    PROVE  WindowInv' /\ Moves(layout, layout')
  <1>1. /\ Sound(layout') /\ Leaves(layout, layout', p) /\ layout'.panes = layout.panes \ {p}
        /\ layout'.active = (IF layout.active = p THEN NoPanel ELSE layout.active)
        /\ Cardinality(layout'.panes) <= MaxPanels
    BY TakenKeepsOrder
  <1>2. layout'.panes \cap Terminals \subseteq ToSet(order')
    BY <1>1, KindsApart DEF WindowInv, sessions
  <1>3. /\ chips' = layout'.tabOrder /\ drag' \in Drags
        /\ drag'.kind = drag.kind /\ drag'.ref = drag.ref
    BY <1>1, <1>2, Refreshed
  <1>4. NoPanel \notin Terminals
    BY KindsApart DEF WindowInv
  <1>5. Hands'
    <2>1. ActiveTerminalIsSession'
      BY <1>1, <1>4 DEF WindowInv, Hands, ActiveTerminalIsSession, sessions
    <2> QED
      BY <1>3, <2>1 DEF WindowInv, Hands, sessions, showDashboardIfEmpty, Free, Dragging, NoDrag
  <1> QED
    BY <1>1, <1>3, <1>5 DEF WindowInv, Moves

LEMMA PanelCloses ==
    ASSUME WindowInv, NEW p \in layout.panes, closePanel(p)
    PROVE  WindowInv' /\ Moves(layout, layout')
  <1>1. Accounts /\ Free /\ refresh
    BY DEF WindowInv, closePanel
  <1>2. CASE closeLiveSession(p)
    BY <1>1, <1>2, SessionCloses
  <1>3. CASE closeFilePanel(p)
    <2>1. layout'.panes = layout.panes \ {p}
      BY <1>3, TakenKeepsOrder DEF closeFilePanel
    <2>2. p \notin ToSet(order) /\ p \notin DOMAIN rdpPanes /\ p \notin Terminals
      BY <1>1, <1>3, KindsApart DEF closeFilePanel
    <2>3. /\ sftpPanes' = sftpPanes \ {p} /\ order' = order /\ rdpAlive' = rdpAlive
          /\ replaced' = replaced /\ rdpPanes' = rdpPanes /\ rdpShown' = rdpShown
      BY <1>3 DEF closeFilePanel, sessions, desktops
    <2>4. Accounts'
      BY <1>1, <2>1, <2>2, <2>3 DEF Accounts
    <2> QED
      BY <1>1, <1>3, <2>2, <2>4, PaneCloses DEF closeFilePanel
  <1>4. CASE closeDesktopPanel(p)
    <2>1. layout'.panes = layout.panes \ {p}
      BY <1>4, TakenKeepsOrder DEF closeDesktopPanel
    <2>2. p \notin ToSet(order) /\ p \notin sftpPanes /\ p \notin Terminals /\ p \in DOMAIN rdpPanes
      BY <1>1, <1>4, KindsApart DEF closeDesktopPanel
    <2>3. /\ rdpAlive' = rdpAlive \ {rdpPanes[p]}
          /\ rdpPanes' = [r \in DOMAIN rdpPanes \ {p} |-> rdpPanes[r]]
          /\ rdpShown' = [r \in DOMAIN rdpShown \ {p} |-> rdpShown[r]]
          /\ order' = order /\ sftpPanes' = sftpPanes /\ replaced' = replaced
      BY <1>4 DEF closeDesktopPanel, sessions
    <2>4. Accounts'
      <3>1. /\ rdpPanes \in [DOMAIN rdpPanes -> Widgets] /\ DOMAIN rdpPanes \subseteq Rdps
            /\ rdpShown = rdpPanes /\ replaced \subseteq Widgets
            /\ \A r, q \in DOMAIN rdpPanes : rdpPanes[r] = rdpPanes[q] => r = q
            /\ \A r \in DOMAIN rdpPanes : rdpPanes[r] \notin replaced
            /\ rdpAlive = {rdpPanes[r] : r \in DOMAIN rdpPanes} \cup replaced
        BY <1>1 DEF Accounts
      <3>2. /\ DOMAIN rdpPanes' = DOMAIN rdpPanes \ {p} /\ rdpShown' = rdpPanes'
            /\ \A r \in DOMAIN rdpPanes' : rdpPanes'[r] = rdpPanes[r]
        BY <2>3, <3>1
      <3>3. rdpPanes' \in [DOMAIN rdpPanes' -> Widgets]
        BY <2>3, <3>1, <3>2
      <3>4. rdpAlive' = {rdpPanes'[r] : r \in DOMAIN rdpPanes'} \cup replaced'
        BY <2>2, <2>3, <3>1, <3>2
      <3>5. layout'.panes = ToSet(order') \cup sftpPanes' \cup DOMAIN rdpPanes'
        BY <1>1, <2>1, <2>2, <2>3, <3>2 DEF Accounts
      <3> QED
        BY <1>1, <2>3, <3>1, <3>2, <3>3, <3>4, <3>5 DEF Accounts
    <2> QED
      BY <1>1, <1>4, <2>2, <2>4, PaneCloses DEF closeDesktopPanel
  <1> QED
    BY <1>2, <1>3, <1>4 DEF closePanel

LEMMA PanelSelected ==
    ASSUME WindowInv, NEW p \in layout.panes, SelectPanel(p)
    PROVE  WindowInv' /\ Moves(layout, layout')
  <1>1. /\ openOrFocusPanel(layout, p) /\ refresh /\ drag = NoDrag /\ order' = order
        /\ Sound(layout)
    BY DEF SelectPanel, Free, openOrFocusPanel, WindowInv
  <1>2. chips' = Strip(layout', order) /\ drag' \in Drags /\ drag'.kind = "none"
    BY <1>1 DEF refresh, NoDrag, Drags, WindowInv, Hands
  <1>3. WindowInv' /\ Shows(layout, layout', p)
    BY <1>1, <1>2, PanelIsFocused DEF Dragging
  <1> QED
    BY <1>3 DEF Moves

(* A slot that rearranges the layout first, and then selects the panel.        *)
LEMMA PanelRearranged ==
    ASSUME WindowInv, NEW p \in layout.panes, NEW w, Sound(w), w.panes = layout.panes,
           \/ SplitsOff(layout, w, p) \/ Shows(layout, w, p)
           \/ \E q \in layout.panes \ {p} : Docks(layout, w, p, q),
           openOrFocusPanel(w, p), chips' = Strip(layout', order),
           drag' \in Drags, Dragging' => drag'.ref \in layout.panes
    PROVE  WindowInv' /\ Moves(layout, layout')
  <1>1. WindowInv' /\ Shows(w, layout', p)
    BY PanelIsFocused
  <1>2. CASE SplitsOff(layout, w, p)
    BY <1>1, <1>2, PanelStaysShown DEF Moves
  <1>3. CASE \E q \in layout.panes \ {p} : Docks(layout, w, p, q)
    <2>1. PICK q \in layout.panes \ {p} : Docks(layout, w, p, q)
      BY <1>3
    <2>2. Docks(layout, layout', p, q)
      BY <1>1, <2>1, PanelStaysShown
    <2> QED
      BY <1>1, <2>2 DEF Moves
  <1>4. CASE Shows(layout, w, p)
    <2>1. Shows(layout, layout', p)
      BY <1>1, <1>4, PanelStaysShown
    <2> QED
      BY <1>1, <2>1 DEF Moves
  <1> QED
    BY <1>2, <1>3, <1>4

LEMMA NothingDragged ==
    ASSUME Free, refresh, order' = order
    PROVE  chips' = Strip(layout', order) /\ drag' \in Drags /\ ~Dragging'
  BY DEF refresh, NoDrag, Drags, Dragging, Free

LEMMA PaneSplitsOff ==
    ASSUME WindowInv, NEW p \in layout.panes, PaneClose(p)
    PROVE  WindowInv' /\ Moves(layout, layout')
  <1> DEFINE w == unsplitPanel(layout, p)
  <1>1. openOrFocusPanel(w, p) /\ refresh /\ Free /\ order' = order
    BY DEF PaneClose, openOrFocusPanel
  <1>2. Sound(w) /\ SplitsOff(layout, w, p)
    BY PanelIsUnsplit DEF WindowInv
  <1>3. w.panes = layout.panes
    BY <1>2 DEF SplitsOff
  <1> HIDE DEF w
  <1> QED
    BY <1>1, <1>2, <1>3, NothingDragged, PanelRearranged

LEMMA PaneSplits ==
    ASSUME WindowInv, NEW p \in layout.panes, NEW edge \in Edges, SplitScreen(p, edge)
    PROVE  WindowInv' /\ Moves(layout, layout')
  <1> DEFINE w == splitPanel(layout, p, edge)
             q == SplitTarget(layout, p)
  <1>1. openOrFocusPanel(w, p) /\ refresh /\ Free /\ order' = order
    BY DEF SplitScreen, openOrFocusPanel
  <1>2. Sound(layout) /\ Cardinality(layout.panes) <= MaxPanels
    BY DEF WindowInv
  <1>3. edge \in {"First", "Second"} /\ Cardinality(layout.panes) > 1
        /\ w = applyDock(layout, p, edge, q)
    BY DEF SplitScreen, isSplitEdge, Edges, canSplitPanel, splitPanel
  <1>4. q \in layout.panes \ {p}
    BY <1>2, <1>3, TargetIsAnother
  <1> HIDE DEF w, q
  <1>5. Sound(w) /\ Docks(layout, w, p, q)
    BY <1>2, <1>3, <1>4, PanelIsDocked
  <1>6. w.panes = layout.panes
    BY <1>5 DEF Docks
  <1> QED
    BY <1>1, <1>4, <1>5, <1>6, NothingDragged, PanelRearranged

LEMMA LayoutStays ==
    ASSUME WindowInv, UNCHANGED <<layout, sessions, tables, chips, previewed>>,
           page' \in {"dashboard", "workspace"}, drag' \in Drags,
           Dragging' => drag'.ref \in layout.panes
    PROVE  WindowInv' /\ Moves(layout, layout')
  <1>1. Accounts'
    BY DEF WindowInv, Accounts, sessions, tables, desktops
  <1>2. Hands'
    BY DEF WindowInv, Hands, ActiveTerminalIsSession, sessions
  <1>3. Moves(layout, layout')
    BY DEF Moves, Untouched
  <1> QED
    BY <1>1, <1>2, <1>3 DEF WindowInv

LEMMA DashboardToggled ==
    ASSUME WindowInv, toggleDashboard
    PROVE  WindowInv' /\ Moves(layout, layout')
  <1>1. CASE openOrFocusPanel(layout, layout.active) /\ refresh /\ layout.active # NoPanel
    <2>1. layout.active \in layout.panes /\ SelectPanel(layout.active)
      BY <1>1 DEF WindowInv, Sound, SelectPanel, toggleDashboard
    <2> QED
      BY <2>1, PanelSelected
  <1>2. CASE /\ page' \in {"dashboard", "workspace"}
             /\ UNCHANGED <<layout, sessions, tables, chips, drag, previewed>>
    <2>1. drag' \in Drags /\ ~Dragging'
      BY <1>2 DEF WindowInv, Hands, toggleDashboard, Free, Dragging, NoDrag
    <2> QED
      BY <1>2, <2>1, LayoutStays
  <1> QED
    BY <1>1, <1>2 DEF toggleDashboard

LEMMA DragStarts ==
    ASSUME WindowInv, NEW p \in layout.panes, StartChipDrag(p) \/ StartHeaderDrag(p)
    PROVE  WindowInv' /\ Moves(layout, layout')
  <1>1. p \in Panels /\ Sound(layout)
    BY DEF WindowInv, Sound, Layouts
  <1>2. CASE StartChipDrag(p)
    <2>1. drag' \in Drags /\ drag'.ref = p
      BY <1>1, <1>2 DEF StartChipDrag, Drags
    <2> QED
      BY <1>2, <2>1, LayoutStays DEF StartChipDrag, WindowInv, Hands
  <1>3. CASE StartHeaderDrag(p)
    <2>1. drag' \in Drags /\ drag'.ref = p
      BY <1>1, <1>3 DEF StartHeaderDrag, Drags
    <2>2. WindowInv' /\ Shows(layout, layout', p)
      BY <1>1, <1>3, <2>1, PanelIsFocused DEF StartHeaderDrag
    <2> QED
      BY <2>2 DEF Moves
  <1> QED
    BY <1>2, <1>3

LEMMA PanelPreviewed ==
    ASSUME WindowInv, NEW p \in layout.panes, previewPanel(p)
    PROVE  WindowInv' /\ Moves(layout, layout')
  <1>1. layout' = activatePanel(layout, p)
    BY DEF previewPanel, showPanel
  <1>2. Sound(layout') /\ Shows(layout, layout', p) /\ layout'.tabOrder = layout.tabOrder
    BY <1>1, PanelIsShown DEF WindowInv, Sound
  <1>3. layout'.panes = layout.panes
    BY <1>2 DEF Shows
  <1>4. /\ order' = order /\ activeId' = activeId /\ previewed' = TRUE
        /\ sftpPanes' = sftpPanes /\ rdpAlive' = rdpAlive
        /\ replaced' = replaced /\ rdpPanes' = rdpPanes /\ rdpShown' = rdpShown
        /\ page' = IF hasAttachedSessions(layout') THEN "workspace" ELSE "dashboard"
        /\ chips' = chips /\ drag' = drag
    BY DEF previewPanel, sessions, tables, desktops, showWorkspace
  <1>5. Accounts'
    BY <1>3, <1>4 DEF WindowInv, Accounts
  <1>6. Hands'
    BY <1>3, <1>4 DEF WindowInv, Hands, ActiveTerminalIsSession, Dragging
  <1> QED
    BY <1>2, <1>3, <1>4, <1>5, <1>6 DEF WindowInv, Moves

(* A drop is acted on when QDrag::exec has returned.                           *)
LEMMA DragEnds ==
    ASSUME WindowInv, Dragging,
           \/ \E p \in layout.panes, edge \in Edges : DropOnPane(p, edge)
           \/ DropOnStrip \/ GiveUpDrag
    PROVE  WindowInv' /\ Moves(layout, layout')
  <1> DEFINE m == drag.ref
  <1>1. m \in layout.panes /\ m # NoPanel
    BY KindsApart DEF WindowInv, Hands
  <1>2. /\ Sound(layout) /\ layout.pendingDock = <<>> /\ layout.pendingUnsplit = NoPanel
        /\ Cardinality(layout.panes) <= MaxPanels /\ NoDrag \in Drags /\ NoDrag.kind = "none"
        /\ layout \in Layouts
    BY DEF WindowInv, Sound, NoDrag, Drags
  <1> HIDE DEF m
  <1>3. ASSUME NEW q \in layout.panes, NEW edge \in Edges, DropOnPane(q, edge)
        PROVE  WindowInv' /\ Moves(layout, layout')
    <2> DEFINE w == [layout EXCEPT !.pendingDock = <<m, edge, q>>, !.pendingUnsplit = NoPanel]
               x == applyDock(layout, m, edge, q)
    <2>1. q # m /\ edge # "None" /\ DragReturns(splitDrop(layout, m, edge, q))
      BY <1>3 DEF DropOnPane, m, isSplitEdge
    <2>2. splitDrop(layout, m, edge, q) = w
      BY <1>1, <2>1 DEF splitDrop
    <2>3. w.pendingDock = <<m, edge, q>> /\ w.pendingUnsplit = NoPanel
      BY <1>2 DEF Layouts
    <2>4. [w EXCEPT !.pendingDock = <<>>, !.pendingUnsplit = NoPanel] = layout
      BY <1>2, QueueEmptied
    <2> HIDE DEF w
    <2>5. PendingPanel(w) = m
      BY <2>3 DEF PendingPanel
    <2>6. flushPendingDock(w) = x
      BY <2>3, <2>4 DEF flushPendingDock
    <2>7. edge \in {"First", "Second"}
      BY <2>1 DEF Edges
    <2> HIDE DEF x
    <2>8. Sound(x) /\ Docks(layout, x, m, q)
      BY <1>1, <1>2, <2>1, <2>7, PanelIsDocked DEF x
    <2>9. x.panes = layout.panes
      BY <2>8 DEF Docks
    <2>10. /\ openOrFocusPanel(x, m) /\ chips' = Strip(layout', order) /\ drag' = NoDrag
      BY <1>1, <2>1, <2>2, <2>5, <2>6 DEF DragReturns
    <2>11. drag' \in Drags /\ ~Dragging'
      BY <1>2, <2>10 DEF Dragging
    <2> QED
      BY <1>1, <2>1, <2>8, <2>9, <2>10, <2>11, PanelRearranged
  <1>4. CASE DropOnStrip
    <2> DEFINE w == [layout EXCEPT !.pendingDock = <<>>, !.pendingUnsplit = m]
               x == unsplitPanel(layout, m)
    <2>1. DragReturns(w)
      BY <1>1, <1>4 DEF DropOnStrip, unsplitDrop, m
    <2>2. w.pendingUnsplit = m
      BY <1>2 DEF Layouts
    <2>3. [w EXCEPT !.pendingUnsplit = NoPanel] = layout
      BY <1>2, QueueEmptied
    <2> HIDE DEF w
    <2>4. PendingPanel(w) = m
      BY <1>1, <2>2 DEF PendingPanel
    <2>5. flushPendingDock(w) = x
      BY <1>1, <2>2, <2>3 DEF flushPendingDock
    <2> HIDE DEF x
    <2>6. Sound(x) /\ SplitsOff(layout, x, m)
      BY <1>1, <1>2, PanelIsUnsplit DEF x
    <2>7. x.panes = layout.panes
      BY <2>6 DEF SplitsOff
    <2>8. /\ openOrFocusPanel(x, m) /\ chips' = Strip(layout', order) /\ drag' = NoDrag
      BY <1>1, <2>1, <2>4, <2>5 DEF DragReturns
    <2>9. drag' \in Drags /\ ~Dragging'
      BY <1>2, <2>8 DEF Dragging
    <2> QED
      BY <1>1, <2>6, <2>7, <2>8, <2>9, PanelRearranged
  <1>5. CASE GiveUpDrag
    <2>1. PendingPanel(layout) = NoPanel
      BY <1>2 DEF PendingPanel
    <2>2. /\ layout' = layout /\ drag' = NoDrag
          /\ UNCHANGED <<sessions, page, tables, chips, previewed>>
      BY <1>5, <2>1 DEF GiveUpDrag, DragReturns
    <2>3. drag' \in Drags /\ ~Dragging'
      BY <1>2, <2>2 DEF Dragging
    <2>4. page' \in {"dashboard", "workspace"}
      BY <2>2 DEF WindowInv, Hands
    <2> QED
      BY <2>2, <2>3, <2>4, LayoutStays
  <1>6. CASE \E p \in layout.panes, edge \in Edges : DropOnPane(p, edge)
    <2>1. PICK p \in layout.panes, edge \in Edges : DropOnPane(p, edge)
      BY <1>6
    <2> QED
      BY <1>3, <2>1
  <1> QED
    BY <1>4, <1>5, <1>6

LEMMA DragIsGone ==
    ASSUME ReturnsOrLost
    PROVE  drag' \in Drags /\ ~Dragging'
  <1>1. drag' \in {NoDrag, Lost}
    BY DEF ReturnsOrLost
  <1>2. NoDrag \in Drags /\ Lost \in Drags
    BY DEF NoDrag, Lost, Drags
  <1>3. NoDrag.kind = "none" /\ Lost.kind = "lost"
    BY DEF NoDrag, Lost
  <1>4. drag'.kind \in {"none", "lost"}
    BY <1>1, <1>3
  <1>5. drag'.kind \notin {"chip", "header"}
    BY <1>4
  <1> QED
    BY <1>1, <1>2, <1>5 DEF Dragging

LEMMA DragEndsOnChip ==
    ASSUME WindowInv, NEW before \in layout.panes, DropOnChip(before)
    PROVE  WindowInv' /\ Moves(layout, layout')
  <1>1. Sound(layout)
    BY DEF WindowInv
  <1>2. Sound(layout') /\ Untouched(layout, layout')
    <2>1. CASE layout' = layout
      BY <1>1, <2>1 DEF Untouched
    <2>2. CASE layout' = reorderAttached(layout, drag.ref, before)
      BY <1>1, <2>2, TabsReordered DEF Untouched
    <2> QED
      BY <2>1, <2>2 DEF DropOnChip
  <1>3. layout'.panes = layout.panes /\ layout'.active = layout.active
    BY <1>2 DEF Untouched
  <1>4. /\ order' = order /\ activeId' = activeId /\ previewed' = previewed
        /\ sftpPanes' = sftpPanes /\ rdpAlive' = rdpAlive
        /\ replaced' = replaced /\ rdpPanes' = rdpPanes /\ rdpShown' = rdpShown
        /\ page' = page /\ chips' = Strip(layout', order) /\ ReturnsOrLost
    BY DEF DropOnChip, sessions, tables, desktops
  <1>5. chips' = layout'.tabOrder
    <2>1. layout'.panes \cap Terminals \subseteq ToSet(order)
      BY <1>3, KindsApart DEF WindowInv
    <2> QED
      BY <1>2, <1>4, <2>1, StripIsTabs
  <1>6. Accounts'
    BY <1>3, <1>4 DEF WindowInv, Accounts
  <1>7. drag' \in Drags /\ ~Dragging'
    BY <1>4, DragIsGone
  <1>8. Hands'
    BY <1>3, <1>4, <1>7 DEF WindowInv, Hands, ActiveTerminalIsSession
  <1> QED
    BY <1>2, <1>3, <1>5, <1>6, <1>8 DEF WindowInv, Moves

LEMMA DragEndsAtHome ==
    ASSUME WindowInv, DropOnWorkspace
    PROVE  WindowInv' /\ Moves(layout, layout')
  <1> DEFINE p == drag.ref
             w == activatePanel(layout, p)
  <1>1. p \in layout.panes /\ Sound(layout)
    BY DEF WindowInv, Hands, DropOnWorkspace
  <1>2. openOrFocusPanel(w, p) /\ chips' = Strip(layout', order) /\ ReturnsOrLost
    BY <1>1 DEF DropOnWorkspace, showPanel
  <1>3. Sound(w) /\ Shows(layout, w, p)
    BY <1>1, PanelIsShown DEF Sound
  <1>4. w.panes = layout.panes
    BY <1>3 DEF Shows
  <1>5. drag' \in Drags /\ ~Dragging'
    BY <1>2, DragIsGone
  <1> HIDE DEF p, w
  <1> QED
    BY <1>1, <1>2, <1>3, <1>4, <1>5, PanelRearranged

LEMMA StripIsRebuilt ==
    ASSUME WindowInv, StripRebuilt
    PROVE  WindowInv' /\ Moves(layout, layout')
  <1>1. layout' = layout /\ order' = order /\ Sound(layout)
        /\ UNCHANGED <<sessions, tables, previewed, page>> /\ refresh
    BY DEF StripRebuilt, sessions, WindowInv
  <1>2. layout'.panes \cap Terminals \subseteq ToSet(order')
    BY <1>1, KindsApart DEF WindowInv
  <1>3. /\ chips' = layout'.tabOrder /\ drag' \in Drags
        /\ drag'.kind = drag.kind /\ drag'.ref = drag.ref
    BY <1>1, <1>2, Refreshed
  <1>4. chips' = chips /\ (Dragging' => drag'.ref \in layout.panes)
        /\ page' \in {"dashboard", "workspace"}
    BY <1>1, <1>3 DEF WindowInv, Hands, Dragging
  <1> QED
    BY <1>1, <1>3, <1>4, LayoutStays

LEMMA DragSourceGoes ==
    ASSUME WindowInv, DragSourceDeleted
    PROVE  WindowInv' /\ Moves(layout, layout')
  <1>1. drag' \in Drags /\ ~Dragging' /\ page' \in {"dashboard", "workspace"}
    BY DEF DragSourceDeleted, Lost, Drags, Dragging, WindowInv, Hands
  <1> QED
    BY <1>1, LayoutStays DEF DragSourceDeleted

LEMMA WindowStep ==
    ASSUME WindowInv, [Next]_vars
    PROVE  WindowInv' /\ Moves(layout, layout')
  <1>1. CASE \E t \in Terminals : beginTerminalSession(t)
    BY <1>1, TerminalOpens
  <1>2. CASE \E s \in Sftps : openStandaloneSftp(s)
    BY <1>2, SftpOpens
  <1>3. CASE \E r \in Rdps : openRdpSession(r)
    BY <1>3, RdpOpens
  <1>4. ASSUME NEW p \in layout.panes,
               \/ closePanel(p) \/ SelectPanel(p) \/ PaneClose(p)
               \/ StartChipDrag(p) \/ StartHeaderDrag(p) \/ previewPanel(p) \/ DropOnChip(p)
               \/ \E edge \in Edges : SplitScreen(p, edge) \/ DropOnPane(p, edge)
        PROVE  WindowInv' /\ Moves(layout, layout')
    <2>1. ASSUME NEW edge \in Edges, DropOnPane(p, edge)
          PROVE  WindowInv' /\ Moves(layout, layout')
      BY <2>1, DragEnds DEF DropOnPane
    <2> QED
      BY <1>4, <2>1, PanelCloses, PanelSelected, PaneSplitsOff, DragStarts, PanelPreviewed,
         DragEndsOnChip, PaneSplits
  <1>5. CASE DropOnStrip \/ GiveUpDrag
    BY <1>5, DragEnds DEF DropOnStrip, GiveUpDrag
  <1>6. CASE toggleDashboard \/ DropOnWorkspace \/ StripRebuilt \/ DragSourceDeleted
    BY <1>6, DashboardToggled, DragEndsAtHome, StripIsRebuilt, DragSourceGoes
  <1>7. CASE UNCHANGED vars
    BY <1>7, LayoutStays DEF vars, sessions, tables, desktops, WindowInv, Hands, Dragging
  <1> QED
    BY <1>1, <1>2, <1>3, <1>4, <1>5, <1>6, <1>7 DEF Next

-----------------------------------------------------------------------------
(* What the user sees of it.                                                   *)

LEMMA EmptyIsSound ==
    /\ Sound(EmptyLayout) /\ EmptyLayout.panes = {} /\ EmptyLayout.tabOrder = <<>>
    /\ EmptyLayout.active = NoPanel /\ EmptyLayout.root = NoPanel
    /\ DOMAIN EmptyLayout.parent = {}
  <1> DEFINE w == EmptyLayout
             P == [n \in {} |-> "workspace"]
             I == [n \in {} |-> 1]
  <1>1. P \in [{} -> Holders] /\ I \in [{} -> Nat]
    OBVIOUS
  <1>2. P \in Maps /\ I \in Numbers
    <2>1. {} \in SUBSET Nodes
      OBVIOUS
    <2> HIDE DEF P, I
    <2> QED
      BY <1>1, <2>1 DEF Maps, Numbers
  <1>3. DOMAIN P = {} /\ DOMAIN I = {}
    OBVIOUS
  <1>4. /\ w.panes = {} /\ w.tabOrder = <<>> /\ w.active = NoPanel /\ w.root = NoPanel
        /\ w.parent = P /\ w.index = I /\ w.hidden = {} /\ w.pendingDock = <<>>
        /\ w.pendingUnsplit = NoPanel
    BY DEF EmptyLayout
  <1>5. w \in Layouts
    <2>1. <<>> \in Seq(Panels)
      OBVIOUS
    <2>2. w = [panes |-> {}, tabOrder |-> <<>>, active |-> NoPanel, root |-> NoPanel,
               parent |-> P, index |-> I, hidden |-> {}, pendingDock |-> <<>>,
               pendingUnsplit |-> NoPanel]
      BY DEF EmptyLayout
    <2> HIDE DEF P, I, w
    <2> QED
      BY <1>2, <2>1, <2>2 DEF Layouts, Maps, Numbers
  <1> HIDE DEF P, I, w
  <1>6. Used(w) = {}
    BY <1>3, <1>4 DEF Used
  <1>7. Forest(w)
    BY <1>3, <1>4, <1>6 DEF Forest, Grounded
  <1>8. Tree(w)
    BY <1>3, <1>4, <1>6, <1>7 DEF Tree
  <1>9. Listed(w)
    BY <1>4 DEF Listed, IsInjective, ToSet
  <1> QED
    BY <1>3, <1>4, <1>5, <1>8, <1>9 DEF Sound, w

LEMMA InitWindow == Init => WindowInv
  <1> SUFFICES ASSUME Init
               PROVE  WindowInv
    OBVIOUS
  <1>1. /\ Sound(layout) /\ layout.panes = {} /\ layout.tabOrder = <<>> /\ layout.active = NoPanel
    BY EmptyIsSound DEF Init
  <1>2. Cardinality(layout.panes) <= MaxPanels
    <2>1. Cardinality({}) = 0 /\ MaxPanels \in Nat
      BY WindowAssumption, FS_EmptySet
    <2>2. Cardinality(layout.panes) = 0
      BY <1>1, <2>1, Zenon
    <2> QED
      BY <2>1, <2>2
  <1>3. Accounts
    <2>1. order = <<>> /\ ToSet(order) = {} /\ IsInjective(order) /\ order \in Seq(Terminals)
      BY DEF Init, ToSet, IsInjective
    <2>2. rdpPanes = [r \in {} |-> 0] /\ rdpShown = rdpPanes /\ DOMAIN rdpPanes = {}
          /\ sftpPanes = {} /\ replaced = {} /\ rdpAlive = {}
      BY DEF Init
    <2> QED
      BY <1>1, <2>1, <2>2 DEF Accounts
  <1>4. Hands
    <2>1. NoPanel \notin Terminals
      BY WindowAssumption, WorkspaceAssumption
    <2>2. drag = NoDrag /\ drag \in Drags /\ drag.kind = "none"
      BY DEF Init, NoDrag, Drags
    <2> QED
      BY <1>1, <2>1, <2>2 DEF Init, Hands, ActiveTerminalIsSession, Dragging
  <1> QED
    BY <1>1, <1>2, <1>3, <1>4 DEF Init, WindowInv

LEMMA WindowIsInOrder == Spec => []WindowInv
  <1>1. WindowInv /\ [Next]_vars => WindowInv'
    BY WindowStep
  <1> QED
    BY InitWindow, <1>1, PTL DEF Spec

(* Every open panel is in one unit, in a tree of splitters with two children   *)
(* each, and has one tab: through every split, drop, collapse and close        *)
(* (SessionWorkspace's dockInto, extractPane and collapseSplitter).            *)
THEOREM WorkspaceIsWellFormed == Spec => []LayoutWellFormed
  <1>1. WindowInv => LayoutWellFormed
    <2> SUFFICES ASSUME WindowInv
                 PROVE  LayoutWellFormed
      OBVIOUS
    <2>1. /\ Sound(layout) /\ Tree(layout) /\ Listed(layout) /\ Forest(layout) /\ layout \in Layouts
      BY DEF WindowInv, Sound, Tree
    <2>2. TypeOK
      <3>1. ToSet(order) \subseteq Terminals
        BY KindsApart DEF WindowInv
      <3>2. rdpAlive \subseteq Widgets /\ replaced \subseteq rdpAlive /\ sftpPanes \subseteq Sftps
        BY DEF WindowInv, Accounts
      <3>3. drag.kind \in {"none", "chip", "header", "lost"} /\ drag.ref \in Panels \cup {NoPanel}
        BY DEF WindowInv, Hands, Drags
      <3> QED
        BY <3>1, <3>2, <3>3 DEF TypeOK, WindowInv, Hands
    <2>3. /\ layout.panes \subseteq DOMAIN layout.parent
          /\ DOMAIN layout.parent \subseteq layout.panes \cup Splitters
      BY <2>1 DEF Tree, Used
    <2>4. ASSUME NEW s \in DOMAIN layout.parent \cap Splitters
          PROVE  \E a, b \in Children(layout, s) :
                   /\ a # b /\ Children(layout, s) = {a, b}
                   /\ {layout.index[a], layout.index[b]} = {1, 2}
      <3>1. Halves(layout, s)
        BY <2>1 DEF Tree, Used
      <3> QED
        BY <3>1 DEF Halves
    <2>5. ASSUME NEW n \in DOMAIN layout.parent
          PROVE  /\ layout.parent[layoutUnitFor(layout, n)] \in {"host", "workspace"}
                 /\ (layout.parent[layoutUnitFor(layout, n)] = "host")
                      <=> (layoutUnitFor(layout, n) = layout.root)
      <3>1. /\ layoutUnitFor(layout, n) \in DOMAIN layout.parent
            /\ ~InSplitter(layout, layoutUnitFor(layout, n))
        BY <2>1, UnitIsOutermost
      <3> QED
        BY <2>1, <3>1 DEF Tree, Forest, InSplitter, Used
    <2>6. ToSet(layout.tabOrder) = layout.panes /\ IsInjective(layout.tabOrder)
      BY <2>1 DEF Listed
    <2> QED
      BY <2>2, <2>3, <2>4, <2>5, <2>6 DEF LayoutWellFormed
  <1> QED
    BY <1>1, WindowIsInOrder, PTL

(* The panel in use is in front of the user, none of what is around it hidden, *)
(* and if it is a terminal, its session is the one in use (the two notions of  *)
(* "active" that SessionWorkspace and SessionManager keep).                    *)
THEOREM ActivePanelIsInUse == Spec => []ActiveIsInUse
  <1>1. WindowInv => ActiveIsInUse
    <2> SUFFICES ASSUME WindowInv
                 PROVE  ActiveIsInUse
      OBVIOUS
    <2>1. Sound(layout) /\ Tree(layout) /\ Forest(layout)
      BY DEF WindowInv, Sound, Tree
    <2>2. layout.active # NoPanel => widgetInTree(layout, layout.active, layout.root)
      <3> SUFFICES ASSUME layout.active # NoPanel
                   PROVE  widgetInTree(layout, layout.active, layout.root)
        OBVIOUS
      <3>1. layout.active \in layout.panes /\ layoutUnitFor(layout, layout.active) = layout.root
        BY <2>1 DEF Sound
      <3>2. layout.active \in DOMAIN layout.parent /\ layout.root \in DOMAIN layout.parent
            /\ layout.root # NoPanel
        BY <2>1, <3>1, PanesHang
      <3>3. ~InSplitter(layout, layout.root)
        BY <2>1, <3>1, <3>2, UnitIsOutermost
      <3> QED
        BY <2>1, <3>1, <3>2, <3>3, UnitIsOutermost DEF widgetInTree
    <2>3. layout.hidden = {n \in DOMAIN layout.parent : layout.parent[n] = "workspace"}
      BY <2>1 DEF Tree
    <2> QED
      BY <2>2, <2>3 DEF ActiveIsInUse, ActiveIsShown, WindowInv, Hands
  <1> QED
    BY <1>1, WindowIsInOrder, PTL

(* Every session and pane has its tab, every tab its session or pane, every    *)
(* RDP connection a pane that is shown or was replaced (MainWindow's tables,   *)
(* SessionManager's order, the workspace and the strip agree).                 *)
THEOREM EveryConnectionHasTab == Spec => []ConnectionsHaveTabs
  <1>1. WindowInv => ConnectionsHaveTabs
    BY DEF WindowInv, Accounts, ConnectionsHaveTabs
  <1> QED
    BY <1>1, WindowIsInOrder, PTL

-----------------------------------------------------------------------------
(* The groups of panels.                                                       *)

Groups(w) == {PanelsOf(w, u) : u \in {n \in DOMAIN w.parent : ~InSplitter(w, n)}}
FrontGroup(w) == IF w.root = NoPanel THEN {} ELSE PanelsOf(w, w.root)
Mates(w, p) == {q \in w.panes : layoutUnitFor(w, q) = layoutUnitFor(w, p)}

(* The groups without p, and the group of p.                                   *)
Thinned(G, p) == {g \ {p} : g \in G} \ {{}}
GroupIn(G, p) == CHOOSE g \in G : p \in g

LEMMA GroupsAreMates ==
    ASSUME NEW w, Tree(w)
    PROVE  /\ Groups(w) = {Mates(w, p) : p \in w.panes}
           /\ FrontGroup(w) = {q \in w.panes : layoutUnitFor(w, q) = w.root}
           /\ \A p \in w.panes : /\ p \in Mates(w, p) /\ Mates(w, p) \in Groups(w)
                                 /\ \A g \in Groups(w) : p \in g => g = Mates(w, p)
  <1>1. /\ Forest(w) /\ w.panes \subseteq DOMAIN w.parent /\ NoPanel \notin DOMAIN w.parent
        /\ \A p \in w.panes : /\ layoutUnitFor(w, p) \in DOMAIN w.parent
                              /\ ~InSplitter(w, layoutUnitFor(w, p))
    BY PanesHang, UnitIsOutermost
  <1>2. ASSUME NEW u \in DOMAIN w.parent, ~InSplitter(w, u)
        PROVE  \E p \in w.panes : PanelsOf(w, u) = Mates(w, p)
    <2>1. PICK p \in w.panes : u \in Above(w, p)
      BY PanelBelow
    <2>2. layoutUnitFor(w, p) = u
      BY <1>1, <1>2, <2>1, UnitIsOutermost
    <2>3. PanelsOf(w, u) = Mates(w, p)
      BY <2>2 DEF PanelsOf, Mates
    <2> QED
      BY <2>3
  <1>3. \A p \in w.panes : Mates(w, p) = PanelsOf(w, layoutUnitFor(w, p))
    BY DEF Mates, PanelsOf
  <1>4. Groups(w) = {Mates(w, p) : p \in w.panes}
    <2> DEFINE U == {n \in DOMAIN w.parent : ~InSplitter(w, n)}
    <2>1. \A u \in U : \E p \in w.panes : PanelsOf(w, u) = Mates(w, p)
      BY <1>2
    <2>2. \A p \in w.panes : \E u \in U : PanelsOf(w, u) = Mates(w, p)
      BY <1>1, <1>3
    <2> QED
      BY <2>1, <2>2 DEF Groups
  <1>5. FrontGroup(w) = {q \in w.panes : layoutUnitFor(w, q) = w.root}
    BY <1>1 DEF FrontGroup, PanelsOf
  <1>6. \A p \in w.panes : p \in Mates(w, p) /\ Mates(w, p) \in Groups(w)
    BY <1>4 DEF Mates
  <1>7. ASSUME NEW p \in w.panes, NEW g \in Groups(w), p \in g
        PROVE  g = Mates(w, p)
    <2>1. PICK q \in w.panes : g = Mates(w, q)
      BY <1>4
    <2> QED
      BY <1>7, <2>1 DEF Mates
  <1> QED
    BY <1>4, <1>5, <1>6, <1>7

LEMMA GroupIsMates ==
    ASSUME NEW w, Tree(w), NEW p \in w.panes
    PROVE  GroupIn(Groups(w), p) = Mates(w, p)
  <1>1. Mates(w, p) \in Groups(w) /\ p \in Mates(w, p) /\ \A g \in Groups(w) : p \in g => g = Mates(w, p)
    BY GroupsAreMates
  <1> HIDE DEF Mates
  <1> QED
    BY <1>1 DEF GroupIn

LEMMA ThinnedAreMates ==
    ASSUME NEW w, Tree(w), NEW p
    PROVE  Thinned(Groups(w), p) = {Mates(w, x) \ {p} : x \in w.panes \ {p}}
  <1>1. Groups(w) = {Mates(w, x) : x \in w.panes}
    BY GroupsAreMates
  <1>2. Thinned(Groups(w), p) = {Mates(w, x) \ {p} : x \in w.panes} \ {{}}
    BY <1>1 DEF Thinned
  <1>3. ASSUME NEW x \in w.panes, Mates(w, x) \ {p} # {}
        PROVE  \E y \in w.panes \ {p} : Mates(w, x) \ {p} = Mates(w, y) \ {p}
    <2>1. PICK y \in Mates(w, x) \ {p} : TRUE
      BY <1>3
    <2>2. y \in w.panes \ {p} /\ Mates(w, y) = Mates(w, x)
      BY <2>1 DEF Mates
    <2> QED
      BY <2>2
  <1>4. \A x \in w.panes \ {p} : Mates(w, x) \ {p} # {}
    BY DEF Mates
  <1> QED
    BY <1>2, <1>3, <1>4

LEMMA GroupsOpen ==
    ASSUME NEW w, NEW v, Tree(w), Tree(v), NEW p, Opens(w, v, p)
    PROVE  /\ p \notin w.panes /\ v.panes = w.panes \cup {p} /\ v.active = p
           /\ Groups(v) = Groups(w) \cup {{p}} /\ FrontGroup(v) = {p}
  <1>1. /\ p \notin w.panes /\ v.panes = w.panes \cup {p} /\ v.active = p
        /\ v.root = layoutUnitFor(v, p) /\ Alike(w, v, w.panes)
        /\ \A q \in w.panes : layoutUnitFor(v, q) # layoutUnitFor(v, p)
    BY DEF Opens, InFront
  <1>2. Mates(v, p) = {p}
    BY <1>1 DEF Mates
  <1>3. \A x \in w.panes : Mates(v, x) = Mates(w, x)
    BY <1>1 DEF Mates, Alike
  <1>4. /\ Groups(w) = {Mates(w, x) : x \in w.panes} /\ Groups(v) = {Mates(v, x) : x \in v.panes}
        /\ FrontGroup(v) = Mates(v, p)
    BY <1>1, GroupsAreMates DEF Mates
  <1>5. Groups(v) = Groups(w) \cup {{p}}
    <2>1. {Mates(v, x) : x \in v.panes} = {Mates(v, x) : x \in w.panes} \cup {Mates(v, p)}
      BY <1>1
    <2>2. {Mates(v, x) : x \in w.panes} = {Mates(w, x) : x \in w.panes}
      BY <1>3
    <2> QED
      BY <1>2, <1>4, <2>1, <2>2
  <1> QED
    BY <1>1, <1>2, <1>4, <1>5

LEMMA GroupsShown ==
    ASSUME NEW w, NEW v, Tree(w), Tree(v), NEW p, Shows(w, v, p)
    PROVE  /\ p \in w.panes /\ v.panes = w.panes /\ v.active = p
           /\ Groups(v) = Groups(w) /\ FrontGroup(v) = GroupIn(Groups(w), p)
  <1>1. /\ p \in w.panes /\ v.panes = w.panes /\ v.active = p
        /\ v.root = layoutUnitFor(v, p) /\ Alike(w, v, w.panes)
    BY DEF Shows, InFront
  <1>2. \A x \in w.panes : Mates(v, x) = Mates(w, x)
    BY <1>1 DEF Mates, Alike
  <1>3. /\ Groups(w) = {Mates(w, x) : x \in w.panes} /\ Groups(v) = {Mates(v, x) : x \in v.panes}
        /\ FrontGroup(v) = Mates(v, p) /\ GroupIn(Groups(w), p) = Mates(w, p)
    BY <1>1, GroupsAreMates, GroupIsMates DEF Mates
  <1>4. {Mates(v, x) : x \in v.panes} = {Mates(w, x) : x \in w.panes}
    BY <1>1, <1>2
  <1> QED
    BY <1>1, <1>2, <1>3, <1>4

LEMMA GroupsThin ==
    ASSUME NEW w, NEW v, Tree(w), Tree(v), NEW p, v.panes = w.panes \ {p}, Alike(w, v, v.panes)
    PROVE  /\ \A x \in v.panes : Mates(v, x) = Mates(w, x) \ {p}
           /\ Groups(v) = Thinned(Groups(w), p)
  <1>1. \A x \in v.panes : Mates(v, x) = Mates(w, x) \ {p}
    BY DEF Mates, Alike
  <1>2. /\ Groups(v) = {Mates(v, x) : x \in v.panes}
        /\ Thinned(Groups(w), p) = {Mates(w, x) \ {p} : x \in w.panes \ {p}}
    BY GroupsAreMates, ThinnedAreMates
  <1>3. {Mates(v, x) : x \in v.panes} = {Mates(w, x) \ {p} : x \in w.panes \ {p}}
    BY <1>1
  <1> QED
    BY <1>1, <1>2, <1>3

LEMMA GroupsLeft ==
    ASSUME NEW w, NEW v, Tree(w), Tree(v), NEW p, Leaves(w, v, p)
    PROVE  /\ v.panes = w.panes \ {p} /\ Groups(v) = Thinned(Groups(w), p)
           /\ FrontGroup(v) = FrontGroup(w) \ {p} /\ v.active = IF w.active = p THEN NoPanel ELSE w.active
  <1>1. /\ v.panes = w.panes \ {p} /\ Alike(w, v, v.panes)
        /\ v.active = IF w.active = p THEN NoPanel ELSE w.active
        /\ \A q \in v.panes : layoutUnitFor(v, q) = v.root <=> layoutUnitFor(w, q) = w.root
    BY DEF Leaves
  <1>2. Groups(v) = Thinned(Groups(w), p)
    BY <1>1, GroupsThin
  <1>3. FrontGroup(v) = FrontGroup(w) \ {p}
    BY <1>1, GroupsAreMates
  <1> QED
    BY <1>1, <1>2, <1>3

LEMMA GroupsGiveWay ==
    ASSUME NEW w, NEW v, Tree(w), Tree(v), NEW p, NEW q, GivesWay(w, v, p, q)
    PROVE  /\ v.panes = w.panes \ {p} /\ Groups(v) = Thinned(Groups(w), p)
           /\ q \in v.panes /\ v.active = q
           /\ FrontGroup(v) \in Groups(v) /\ q \in FrontGroup(v)
  <1>1. /\ v.panes = w.panes \ {p} /\ Alike(w, v, v.panes)
        /\ q \in v.panes /\ v.active = q /\ v.root = layoutUnitFor(v, q)
    BY DEF GivesWay, InFront
  <1>2. Groups(v) = Thinned(Groups(w), p)
    BY <1>1, GroupsThin
  <1>3. FrontGroup(v) = Mates(v, q)
    BY <1>1, GroupsAreMates DEF Mates
  <1> QED
    BY <1>1, <1>2, <1>3, GroupsAreMates

LEMMA GroupsSplit ==
    ASSUME NEW w, NEW v, Tree(w), Tree(v), NEW p, SplitsOff(w, v, p)
    PROVE  /\ p \in w.panes /\ v.panes = w.panes /\ v.active = p
           /\ Groups(v) = Thinned(Groups(w), p) \cup {{p}} /\ FrontGroup(v) = {p}
  <1>1. /\ p \in w.panes /\ v.panes = w.panes /\ v.active = p
        /\ v.root = layoutUnitFor(v, p) /\ Alike(w, v, w.panes \ {p})
        /\ \A x \in w.panes \ {p} : layoutUnitFor(v, x) # layoutUnitFor(v, p)
    BY DEF SplitsOff, InFront
  <1>2. Mates(v, p) = {p}
    BY <1>1 DEF Mates
  <1>3. \A x \in w.panes \ {p} : Mates(v, x) = Mates(w, x) \ {p}
    BY <1>1 DEF Mates, Alike
  <1>4. /\ Groups(v) = {Mates(v, x) : x \in v.panes} /\ FrontGroup(v) = Mates(v, p)
        /\ Thinned(Groups(w), p) = {Mates(w, x) \ {p} : x \in w.panes \ {p}}
    BY <1>1, GroupsAreMates, ThinnedAreMates DEF Mates
  <1>5. {Mates(v, x) : x \in v.panes} = {Mates(v, x) : x \in w.panes \ {p}} \cup {Mates(v, p)}
    BY <1>1
  <1>6. {Mates(v, x) : x \in w.panes \ {p}} = {Mates(w, x) \ {p} : x \in w.panes \ {p}}
    BY <1>3
  <1> QED
    BY <1>1, <1>2, <1>4, <1>5, <1>6

LEMMA GroupsDock ==
    ASSUME NEW w, NEW v, Tree(w), Tree(v), NEW p, NEW q \in w.panes, p # q, Docks(w, v, p, q)
    PROVE  LET g == GroupIn(Thinned(Groups(w), p), q)
           IN /\ p \in w.panes /\ v.panes = w.panes /\ v.active = p
              /\ Groups(v) = (Thinned(Groups(w), p) \ {g}) \cup {g \cup {p}}
              /\ FrontGroup(v) = g \cup {p}
  <1> DEFINE T == Thinned(Groups(w), p)
             g == GroupIn(T, q)
             M(x) == Mates(w, x) \ {p}
  <1>1. /\ p \in w.panes /\ v.panes = w.panes /\ v.active = p
        /\ v.root = layoutUnitFor(v, p) /\ Alike(w, v, w.panes \ {p})
        /\ \A x \in w.panes \ {p} : layoutUnitFor(v, x) = layoutUnitFor(v, p)
                                    <=> layoutUnitFor(w, x) = layoutUnitFor(w, q)
    BY DEF Docks, InFront
  <1>2. T = {M(x) : x \in w.panes \ {p}}
    BY ThinnedAreMates
  <1>3. \A x, y \in w.panes \ {p} : x \in M(x) /\ (y \in M(x) <=> M(y) = M(x))
                                    /\ (y \in M(x) <=> layoutUnitFor(w, y) = layoutUnitFor(w, x))
    BY DEF Mates
  <1> HIDE DEF T
  <1>4. g = M(q)
    <2>1. q \in w.panes \ {p}
      OBVIOUS
    <2>2. M(q) \in T /\ q \in M(q) /\ \A h \in T : q \in h => h = M(q)
      BY <1>2, <1>3, <2>1
    <2> HIDE DEF M
    <2> QED
      BY <2>2 DEF GroupIn
  <1> HIDE DEF g
  <1>5. Mates(v, p) = M(q) \cup {p}
    BY <1>1 DEF Mates
  <1>6. \A x \in w.panes \ {p} : Mates(v, x) = IF M(x) = M(q) THEN M(q) \cup {p} ELSE M(x)
    <2> SUFFICES ASSUME NEW x \in w.panes \ {p}
                 PROVE  Mates(v, x) = IF M(x) = M(q) THEN M(q) \cup {p} ELSE M(x)
      OBVIOUS
    <2>1. M(x) = M(q) <=> layoutUnitFor(w, x) = layoutUnitFor(w, q)
      BY <1>3
    <2>2. CASE layoutUnitFor(w, x) = layoutUnitFor(w, q)
      <3>1. layoutUnitFor(v, x) = layoutUnitFor(v, p)
        BY <1>1, <2>2
      <3>2. Mates(v, x) = Mates(v, p)
        BY <3>1 DEF Mates
      <3> QED
        BY <1>5, <2>1, <2>2, <3>2
    <2>3. CASE layoutUnitFor(w, x) # layoutUnitFor(w, q)
      <3>1. layoutUnitFor(v, x) # layoutUnitFor(v, p)
        BY <1>1, <2>3
      <3>2. Mates(v, x) = M(x)
        BY <1>1, <3>1 DEF Mates, Alike
      <3> QED
        BY <2>1, <2>3, <3>2
    <2> QED
      BY <2>2, <2>3
  <1>7. Groups(v) = {Mates(v, x) : x \in v.panes} /\ FrontGroup(v) = Mates(v, p)
    BY <1>1, GroupsAreMates DEF Mates
  <1> HIDE DEF M
  <1>8. {Mates(v, x) : x \in v.panes} = (T \ {M(q)}) \cup {M(q) \cup {p}}
    <2>1. ASSUME NEW x \in v.panes
          PROVE  Mates(v, x) \in (T \ {M(q)}) \cup {M(q) \cup {p}}
      BY <1>1, <1>2, <1>5, <1>6
    <2>2. ASSUME NEW h \in T, h # M(q)
          PROVE  \E x \in v.panes : h = Mates(v, x)
      BY <1>1, <1>2, <1>6, <2>2
    <2>3. \E x \in v.panes : M(q) \cup {p} = Mates(v, x)
      BY <1>1, <1>5
    <2> QED
      BY <2>1, <2>2, <2>3
  <1> QED
    BY <1>1, <1>4, <1>5, <1>7, <1>8 DEF g, T

LEMMA GroupsStay ==
    ASSUME NEW w, NEW v, Tree(w), Tree(v), Untouched(w, v)
    PROVE  /\ v.panes = w.panes /\ v.active = w.active
           /\ Groups(v) = Groups(w) /\ FrontGroup(v) = FrontGroup(w)
  <1>1. v.panes = w.panes /\ v.active = w.active /\ v.root = w.root /\ v.parent = w.parent
    BY DEF Untouched
  <1>2. \A n \in DOMAIN w.parent : layoutUnitFor(v, n) = layoutUnitFor(w, n)
    <2> DEFINE U == [n \in DOMAIN v.parent |-> layoutUnitFor(w, n)]
    <2>1. ASSUME NEW n \in DOMAIN v.parent
          PROVE  U[n] = IF InSplitter(v, n) THEN U[v.parent[n]] ELSE n
      <3>1. InSplitter(v, n) => v.parent[n] \in DOMAIN v.parent
        BY Places DEF Tree, Forest, InSplitter, Used
      <3>2. InSplitter(w, n) <=> InSplitter(v, n)
        BY <1>1 DEF InSplitter
      <3> QED
        BY <1>1, <3>1, <3>2, UnitIsOutermost DEF Tree
    <2> HIDE DEF U
    <2>2. \A n \in DOMAIN v.parent : layoutUnitFor(v, n) = U[n]
      BY <2>1, UnitsAreUnique DEF Tree
    <2> QED
      BY <1>1, <2>2 DEF U
  <1>3. \A p \in w.panes : p \in DOMAIN w.parent
    BY PanesHang
  <1>4. \A x \in w.panes : Mates(v, x) = Mates(w, x)
    BY <1>1, <1>2, <1>3 DEF Mates
  <1>5. Groups(v) = {Mates(v, x) : x \in v.panes} /\ Groups(w) = {Mates(w, x) : x \in w.panes}
    BY GroupsAreMates
  <1>6. /\ FrontGroup(v) = {q \in v.panes : layoutUnitFor(v, q) = v.root}
        /\ FrontGroup(w) = {q \in w.panes : layoutUnitFor(w, q) = w.root}
    BY GroupsAreMates
  <1>7. FrontGroup(v) = FrontGroup(w)
    BY <1>1, <1>2, <1>3, <1>6
  <1> QED
    BY <1>1, <1>4, <1>5, <1>7

-----------------------------------------------------------------------------
(* The workspace is what the abstract specification promises.                  *)

(* What Tabs puts in the place of its variables, now and after a step.         *)
LEMMA WhatTabsSees ==
    /\ Tabs!vars = <<layout.panes, Groups(layout), FrontGroup(layout), layout.active>>
    /\ (Tabs!vars)' = <<layout'.panes, Groups(layout'), FrontGroup(layout'), layout'.active>>
  BY DEF Tabs!vars, Groups, FrontGroup

LEMMA OpensIsOpen ==
    ASSUME NEW p, p \notin layout.panes, layout'.panes = layout.panes \cup {p}, layout'.active = p,
           Groups(layout') = Groups(layout) \cup {{p}}, FrontGroup(layout') = {p}
    PROVE  Tabs!Open(p)
  BY DEF Tabs!Open, Groups, FrontGroup

LEMMA ShowsIsShow ==
    ASSUME NEW p, p \in layout.panes, layout'.panes = layout.panes, layout'.active = p,
           Groups(layout') = Groups(layout), FrontGroup(layout') = GroupIn(Groups(layout), p)
    PROVE  Tabs!Show(p)
  BY DEF Tabs!Show, Tabs!GroupOf, Groups, FrontGroup, GroupIn

LEMMA LeavesIsClose ==
    ASSUME NEW p, p \in layout.panes, layout'.panes = layout.panes \ {p},
           Groups(layout') = Thinned(Groups(layout), p),
           \/ /\ FrontGroup(layout') = FrontGroup(layout) \ {p}
              /\ layout'.active = IF layout.active = p THEN NoPanel ELSE layout.active
           \/ \E q \in layout'.panes : \E g \in Groups(layout') :
                q \in g /\ FrontGroup(layout') = g /\ layout'.active = q
    PROVE  Tabs!Close(p)
  BY DEF Tabs!Close, Tabs!Without, Groups, FrontGroup, Thinned

LEMMA SplitsIsSplitOff ==
    ASSUME NEW p, p \in layout.panes, layout'.panes = layout.panes, layout'.active = p,
           Groups(layout') = Thinned(Groups(layout), p) \cup {{p}}, FrontGroup(layout') = {p}
    PROVE  Tabs!SplitOff(p)
  BY DEF Tabs!SplitOff, Tabs!Without, Groups, FrontGroup, Thinned

LEMMA DocksIsDock ==
    ASSUME NEW p, NEW q, p \in layout.panes, q \in layout.panes, p # q,
           layout'.panes = layout.panes, layout'.active = p,
           LET g == GroupIn(Thinned(Groups(layout), p), q)
           IN /\ Groups(layout') = (Thinned(Groups(layout), p) \ {g}) \cup {g \cup {p}}
              /\ FrontGroup(layout') = g \cup {p}
    PROVE  Tabs!Dock(p, q)
  BY DEF Tabs!Dock, Tabs!Without, Groups, FrontGroup, Thinned, GroupIn

LEMMA MoveIsTabsStep ==
    ASSUME Sound(layout), Sound(layout'), Moves(layout, layout')
    PROVE  [Tabs!Next]_(Tabs!vars)
  <1>1. Tree(layout) /\ Tree(layout')
    BY DEF Sound
  <1>2. layout.panes \subseteq Panels
    BY <1>1, PanesHang
  <1>3. CASE Untouched(layout, layout')
    <2>1. UNCHANGED Tabs!vars
      BY <1>1, <1>3, GroupsStay, WhatTabsSees
    <2> QED
      BY <2>1
  <1>4. ASSUME NEW p \in Panels, Opens(layout, layout', p)
        PROVE  Tabs!Next
    <2>1. Tabs!Open(p)
      BY <1>1, <1>4, GroupsOpen, OpensIsOpen
    <2> QED
      BY <2>1 DEF Tabs!Next
  <1>5. ASSUME NEW p \in layout.panes, Shows(layout, layout', p)
        PROVE  Tabs!Next
    <2>1. Tabs!Show(p)
      BY <1>1, <1>5, GroupsShown, ShowsIsShow
    <2> QED
      BY <1>2, <2>1 DEF Tabs!Next
  <1>6. ASSUME NEW p \in layout.panes, Leaves(layout, layout', p)
        PROVE  Tabs!Next
    <2>1. Tabs!Close(p)
      BY <1>1, <1>6, GroupsLeft, LeavesIsClose
    <2> QED
      BY <1>2, <2>1 DEF Tabs!Next
  <1>7. ASSUME NEW p \in layout.panes, SplitsOff(layout, layout', p)
        PROVE  Tabs!Next
    <2>1. Tabs!SplitOff(p)
      BY <1>1, <1>7, GroupsSplit, SplitsIsSplitOff
    <2> QED
      BY <1>2, <2>1 DEF Tabs!Next
  <1>8. ASSUME NEW p \in layout.panes, NEW q \in layout.panes, p # q, Docks(layout, layout', p, q)
        PROVE  Tabs!Next
    <2>1. Tabs!Dock(p, q)
      BY <1>1, <1>8, GroupsDock, DocksIsDock
    <2> QED
      BY <1>2, <2>1 DEF Tabs!Next
  <1>9. ASSUME NEW p \in layout.panes, NEW q \in layout.panes, GivesWay(layout, layout', p, q)
        PROVE  Tabs!Next
    <2>1. Tabs!Close(p)
      BY <1>1, <1>9, GroupsGiveWay, LeavesIsClose
    <2> QED
      BY <1>2, <2>1 DEF Tabs!Next
  <1> QED
    BY <1>3, <1>4, <1>5, <1>6, <1>7, <1>8, <1>9 DEF Moves

LEMMA TabsStartEmpty == Init => Tabs!Init
  <1> SUFFICES ASSUME Init
               PROVE  Tabs!Init
    OBVIOUS
  <1>1. /\ layout.panes = {} /\ layout.active = NoPanel /\ layout.root = NoPanel
        /\ DOMAIN layout.parent = {}
    BY EmptyIsSound DEF Init
  <1> QED
    BY <1>1 DEF Tabs!Init

(* Whatever the user does to tabs, splits and panels, only the panel that is   *)
(* moved changes its group, and a panel taken out of a split stays open: the   *)
(* widget tree of SessionWorkspace implements the groups of WorkspaceTabs.     *)
THEOREM WindowImplementsTabs == Spec => ImplementsTabs
  <1>1. WindowInv /\ [Next]_vars => [Tabs!Next]_(Tabs!vars)
    <2> SUFFICES ASSUME WindowInv, [Next]_vars
                 PROVE  [Tabs!Next]_(Tabs!vars)
      OBVIOUS
    <2>1. Sound(layout) /\ Sound(layout') /\ Moves(layout, layout')
      BY WindowStep DEF WindowInv
    <2> QED
      BY <2>1, MoveIsTabsStep
  <1> QED
    BY <1>1, TabsStartEmpty, WindowIsInOrder, PTL DEF Spec, ImplementsTabs, Tabs!Spec

-----------------------------------------------------------------------------
(* What the groups are, whatever was done to them.                             *)

(* Every open panel is in one group and no group is empty; the group in front  *)
(* is one of them and holds the panel in use.                                  *)
Partition(w) ==
    /\ UNION Groups(w) = w.panes
    /\ {} \notin Groups(w)
    /\ \A g, h \in Groups(w) : g # h => g \cap h = {}
    /\ FrontGroup(w) # {} => FrontGroup(w) \in Groups(w)
    /\ w.active # NoPanel => w.active \in FrontGroup(w)

LEMMA SoundIsPartition ==
    ASSUME NEW w, Sound(w)
    PROVE  Partition(w)
  <1>1. /\ Groups(w) = {Mates(w, p) : p \in w.panes}
        /\ FrontGroup(w) = {q \in w.panes : layoutUnitFor(w, q) = w.root}
        /\ \A p \in w.panes : /\ p \in Mates(w, p) /\ Mates(w, p) \in Groups(w)
                              /\ \A g \in Groups(w) : p \in g => g = Mates(w, p)
    BY GroupsAreMates DEF Sound
  <1>2. \A p \in w.panes : Mates(w, p) \subseteq w.panes
    BY DEF Mates
  <1>3. UNION Groups(w) = w.panes /\ {} \notin Groups(w)
    BY <1>1, <1>2
  <1>4. \A g, h \in Groups(w) : g # h => g \cap h = {}
    BY <1>1, <1>3
  <1>5. ASSUME FrontGroup(w) # {}
        PROVE  FrontGroup(w) \in Groups(w)
    <2>1. PICK p \in w.panes : layoutUnitFor(w, p) = w.root
      BY <1>1, <1>5
    <2>2. FrontGroup(w) = Mates(w, p)
      BY <1>1, <2>1 DEF Mates
    <2> QED
      BY <1>1, <2>2
  <1>6. w.active # NoPanel => w.active \in FrontGroup(w)
    BY <1>1 DEF Sound
  <1> QED
    BY <1>3, <1>4, <1>5, <1>6 DEF Partition

(* Whatever is opened, docked, split off and closed, every open panel is in    *)
(* exactly one group of panels that are seen together, and the panel in use is *)
(* in the group in front (SessionWorkspace's layout units and activatePanel):  *)
(* what WorkspaceTabs says of its steps is said of a partition.                *)
THEOREM TabsArePartition == Spec => []Partition(layout)
  <1>1. WindowInv => Partition(layout)
    BY SoundIsPartition DEF WindowInv
  <1> QED
    BY <1>1, WindowIsInOrder, PTL
=============================================================================
