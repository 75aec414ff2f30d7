----------------------------- MODULE WorkspaceTabs -----------------------------
(***************************************************************************)
(* What the user is promised of the workspace, without widgets: the open   *)
(* panels form groups, one group is in front, and a panel changes its      *)
(* group only when it is the one that is moved.  The README's "undo a      *)
(* split without disconnecting" is SplitOff: the panel stays open and the  *)
(* others stay together.                                                   *)
(***************************************************************************)
EXTENDS FiniteSets

CONSTANTS Panels, NoPanel

VARIABLES open,     \* the open panels
          groups,   \* their partition into groups that are seen together
          front,    \* the group in front, or {} if none is
          active    \* the panel in use, or NoPanel

vars == <<open, groups, front, active>>

Init == open = {} /\ groups = {} /\ front = {} /\ active = NoPanel

\* The groups without p.
Without(p) == {g \ {p} : g \in groups} \ {{}}

GroupOf(p) == CHOOSE g \in groups : p \in g

Open(p) ==
  /\ p \notin open
  /\ open' = open \cup {p}
  /\ groups' = groups \cup {{p}}
  /\ front' = {p} /\ active' = p

Show(p) ==
  /\ p \in open
  /\ front' = GroupOf(p) /\ active' = p
  /\ UNCHANGED <<open, groups>>

\* Another panel may come to the front when one closes, but nothing else moves.
Close(p) ==
  /\ p \in open
  /\ open' = open \ {p}
  /\ groups' = Without(p)
  /\ \/ /\ front' = front \ {p}
        /\ active' = IF active = p THEN NoPanel ELSE active
     \/ \E q \in open' : \E g \in groups' : q \in g /\ front' = g /\ active' = q

Dock(p, q) ==
  /\ {p, q} \subseteq open /\ p # q
  /\ open' = open
  /\ LET g == CHOOSE h \in Without(p) : q \in h
     IN /\ groups' = (Without(p) \ {g}) \cup {g \cup {p}}
        /\ front' = g \cup {p}
  /\ active' = p

SplitOff(p) ==
  /\ p \in open
  /\ open' = open
  /\ groups' = Without(p) \cup {{p}}
  /\ front' = {p} /\ active' = p

Next == \/ \E p \in Panels : Open(p) \/ Show(p) \/ Close(p) \/ SplitOff(p)
        \/ \E p, q \in Panels : Dock(p, q)

Spec == Init /\ [][Next]_vars
=============================================================================
