--------------------------- MODULE SessionWorkspace ---------------------------
(***************************************************************************)
(* The split workspace of the main window (SessionWorkspace.cpp): frames   *)
(* (one per open panel) and splitters form units; one unit is the visible  *)
(* root, the others are parked, hidden, behind their tabs.                 *)
(*                                                                         *)
(* The widgets are nodes.  parent[n] is the splitter that holds n, "host"  *)
(* for a child of m_rootHost, "workspace" for a parked unit; index[n] is   *)
(* the position of n in its splitter.  hidden is the set of the nodes on   *)
(* which hide() was called and show() was not called since: Qt shows such  *)
(* a widget only when it is told to, while the others appear with their    *)
(* parent.  The operations of the class are operators from layout to       *)
(* layout, because the slots of the main window run several of them in one *)
(* go.  The direction of a splitter (left/right or top/bottom) does not    *)
(* matter to anything stated here, the order of its children does.         *)
(***************************************************************************)
EXTENDS Naturals, SequencesExt

CONSTANTS Panels,      \* the references of panels (PanelRef): terminal, sftp, rdp
          Splitters,   \* identities for the splitters alive at one time
          NoPanel      \* the invalid reference and the null widget

ASSUME WorkspaceAssumption == /\ IsFiniteSet(Panels)
                              /\ IsFiniteSet(Splitters)
                              /\ Panels \cap Splitters = {}
                              /\ NoPanel \notin Panels \cup Splitters
                              /\ {"host", "workspace"} \cap (Panels \cup Splitters) = {}

Nodes == Panels \cup Splitters
Edges == {"First", "Second", "None"}  \* Left/Top, Right/Bottom, no edge

isSplitEdge(edge) == edge # "None"
edgeIsFirst(edge) == edge = "First"

\* A workspace without panels, and nothing queued by a drag.
EmptyLayout ==
  [panes |-> {}, tabOrder |-> <<>>, active |-> NoPanel, root |-> NoPanel,
   parent |-> [n \in {} |-> "workspace"], index |-> [n \in {} |-> 1],
   hidden |-> {}, pendingDock |-> <<>>, pendingUnsplit |-> NoPanel]

\* The table f with an entry for k.
Entered(f, k, v) == [n \in DOMAIN f \cup {k} |-> IF n = k THEN v ELSE f[n]]

(***************************************************************************)
(* The tree of widgets.                                                    *)
(***************************************************************************)
InSplitter(w, n) == n \in DOMAIN w.parent /\ w.parent[n] \in Splitters

Children(w, s) == {n \in DOMAIN w.parent : w.parent[n] = s}

\* n and the splitters around it: what a walk up from n passes before it
\* leaves the splitters.
Above(w, n) ==
  {n} \cup {s \in Splitters :
              \A S \in SUBSET Splitters :
                (\A m \in {n} \cup S : InSplitter(w, m) => w.parent[m] \in S) => s \in S}

layoutUnitFor(w, f) == CHOOSE u \in Above(w, f) : ~InSplitter(w, u)

widgetInTree(w, n, top) == top # NoPanel /\ top \in Above(w, n)

\* The panels of the unit whose outermost widget is u.
PanelsOf(w, u) == {p \in w.panes : layoutUnitFor(w, p) = u}

setRootWidget(w, n) ==
  IF n = NoPanel THEN [w EXCEPT !.root = NoPanel]
  ELSE [w EXCEPT !.root = n, !.parent[n] = "host", !.index[n] = 1, !.hidden = @ \ {n}]

\* setParent(this) and hide(): the widget waits behind its tab.
Park(w, n) ==
  [w EXCEPT !.parent[n] = "workspace", !.index[n] = 1, !.hidden = @ \cup {n}]

focusPane(w, f) == [w EXCEPT !.active = f, !.hidden = @ \ {f}]

ensurePane(w, p) ==
  IF p \in w.panes THEN w
  ELSE [w EXCEPT !.panes = @ \cup {p},
                 !.tabOrder = IF p \in ToSet(@) THEN @ ELSE Append(@, p),
                 !.parent = Entered(@, p, "workspace"),
                 !.index = Entered(@, p, 1),
                 !.hidden = @ \cup {p}]

\* An activatePanel that parks the frame instead of its whole unit.
ActivateTearsUnit(w, f) ==
  LET parked == IF w.root = NoPanel THEN w
                ELSE [Park(w, w.root) EXCEPT !.root = NoPanel]
  IN focusPane(IF f = w.root THEN w ELSE setRootWidget(parked, f), f)

\* Brings the unit of a panel to the front: the visible unit is parked whole.
activatePanel(w, f) ==
  LET unit   == layoutUnitFor(w, f)
      parked == IF w.root = NoPanel THEN w
                ELSE [Park(w, w.root) EXCEPT !.root = NoPanel]
      shown  == setRootWidget(parked, unit)
      opened == [shown EXCEPT !.hidden = @ \ ({unit} \cup Children(shown, unit))]
  IN focusPane(IF unit = w.root THEN w ELSE opened, f)

showPanel(w, p) == IF p \in w.panes THEN activatePanel(w, p) ELSE w

\* The collapse without splitWasParked: every sibling is shown.
CollapseStealsRoot(w, split, remaining) ==
  LET up  == w.parent[split]
      rest == [w EXCEPT !.parent = [n \in DOMAIN @ \ {split} |-> @[n]],
                        !.index = [n \in DOMAIN @ \ {split} |-> @[n]],
                        !.hidden = @ \ {split}]
  IN IF up \in Splitters
     THEN [rest EXCEPT !.parent[remaining] = up, !.index[remaining] = w.index[split]]
     ELSE setRootWidget([rest EXCEPT !.root = NoPanel], remaining)

\* A splitter with one child left goes; the child takes its place.
collapseSplitter(w, split, remaining) ==
  LET up  == w.parent[split]
      rest == [w EXCEPT !.parent = [n \in DOMAIN @ \ {split} |-> @[n]],
                        !.index = [n \in DOMAIN @ \ {split} |-> @[n]],
                        !.hidden = @ \ {split}]
  IN IF split = w.root
     THEN setRootWidget([rest EXCEPT !.root = NoPanel], remaining)
     ELSE IF up \in Splitters
     THEN [rest EXCEPT !.parent[remaining] = up, !.index[remaining] = w.index[split]]
     ELSE IF up = "workspace"
     THEN Park(rest, remaining)
     ELSE setRootWidget(rest, remaining)

\* Takes a frame out of wherever it is.  A splitter always has two children
\* (LayoutWellFormed), so the branches for a missing sibling are never taken.
extractPane(w, f) ==
  IF ~InSplitter(w, f)
  THEN [Park(w, f) EXCEPT !.root = IF @ = f THEN NoPanel ELSE @]
  ELSE LET split   == w.parent[f]
           sibling == CHOOSE n \in Children(w, split) : n # f
       IN collapseSplitter(Park(w, f), split, sibling)

\* The new splitter has both panels, and is not in its place yet.
Join(w, split, moving, target, first) ==
  [w EXCEPT
     !.parent = [Entered(@, split, "workspace") EXCEPT ![moving] = split, ![target] = split],
     !.index = [Entered(@, split, 1) EXCEPT ![moving] = IF first THEN 1 ELSE 2,
                                            ![target] = IF first THEN 2 ELSE 1]]

\* A dockInto that trusts what it read before extractPane.
DockTrustsSnapshot(w, moving, edge, target) ==
  LET out    == extractPane(w, moving)
      holder == w.parent[target]
      split  == CHOOSE s \in Splitters : s \notin DOMAIN w.parent
      joined == Join(out, split, moving, target, edgeIsFirst(edge))
      placed ==
        IF target = w.root \/ holder \notin Splitters
        THEN setRootWidget([joined EXCEPT !.root = NoPanel], split)
        ELSE [joined EXCEPT !.parent[split] = holder, !.index[split] = w.index[target]]
  IN IF moving = target \/ ~isSplitEdge(edge) THEN w
     ELSE focusPane([placed EXCEPT !.hidden = @ \ {moving, target}], moving)

\* Puts moving beside target, in a new splitter that takes target's place.
\* Extracting moving may collapse a splitter onto target: where target is
\* must be read again afterwards.
dockInto(w, moving, edge, target) ==
  LET out    == extractPane(w, moving)
      holder == out.parent[target]
      split  == CHOOSE s \in Splitters : s \notin DOMAIN out.parent
      joined == Join(out, split, moving, target, edgeIsFirst(edge))
      placed ==
        IF target \in {w.root, out.root} \/ holder \notin Splitters
        THEN setRootWidget([joined EXCEPT !.root = NoPanel], split)
        ELSE [joined EXCEPT !.parent[split] = holder, !.index[split] = out.index[target]]
  IN IF moving = target \/ ~isSplitEdge(edge) THEN w
     ELSE focusPane([placed EXCEPT !.hidden = @ \ {moving, target}], moving)

(***************************************************************************)
(* The operations.  addTerminal and addRdp always open a tab of their own. *)
(* addSftp is called with a fresh identity, so it does too: the terminal   *)
(* of the same session it would dock beside does not exist.                *)
(***************************************************************************)
addTerminal(w, p) == activatePanel(ensurePane(w, p), p)

addRdp(w, p) == activatePanel(ensurePane(w, p), p)

addSftp(w, p) ==
  LET ensured == ensurePane(w, p)
  IN IF widgetInTree(ensured, p, ensured.root)
     THEN focusPane(ensured, p)
     ELSE activatePanel(ensured, p)

\* The frame is gone: out of m_panes, out of the tab order.
Forget(w, p) ==
  [w EXCEPT !.panes = @ \ {p}, !.tabOrder = RemoveFirst(@, p),
            !.parent = [n \in DOMAIN @ \ {p} |-> @[n]],
            !.index = [n \in DOMAIN @ \ {p} |-> @[n]], !.hidden = @ \ {p}]

\* takeTerminal, takeSftp, takeRdp: nothing takes the place of the panel
\* that was active.
TakePanel(w, p) ==
  IF p \notin w.panes THEN w
  ELSE LET out == Forget(extractPane(w, p), p)
       IN [out EXCEPT !.active = IF @ = p THEN NoPanel ELSE @]

\* removePanel shows the last tab when it removes the active one.
removePanel(w, p) ==
  IF p \notin w.panes THEN w
  ELSE LET out == Forget(extractPane(w, p), p)
       IN IF out.active # p THEN out
          ELSE IF out.tabOrder = <<>> THEN [out EXCEPT !.active = NoPanel]
          ELSE showPanel(out, Last(out.tabOrder))

\* The panels of a session: SFTP and RDP panels have keys of their own, so
\* that its terminal is the only one there can be.
removeSessionPanels(w, t) == removePanel(w, t)

unsplitPanel(w, p) ==
  IF p \notin w.panes THEN w
  ELSE activatePanel(IF InSplitter(w, p) THEN extractPane(w, p) ELSE w, p)

canSplitPanel(w, p) == p \in w.panes /\ Cardinality(w.panes) > 1

applyDock(w, moving, edge, target) ==
  IF {moving, target} \subseteq w.panes /\ moving # target
  THEN dockInto(IF widgetInTree(w, target, w.root) THEN w ELSE showPanel(w, target),
                moving, edge, target)
  ELSE w

\* The panel that splitPanel docks p beside: the active one, else the first
\* tab that is visible, else the last tab.
SplitTarget(w, p) ==
  LET others  == RemoveFirst(w.tabOrder, p)
      visible == {i \in DOMAIN others : widgetInTree(w, others[i], w.root)}
  IN IF w.active \in w.panes /\ w.active # p THEN w.active
     ELSE IF visible # {} THEN others[Min(visible)]
     ELSE Last(others)

splitPanel(w, p, edge) ==
  IF canSplitPanel(w, p) /\ isSplitEdge(edge)
  THEN applyDock(w, p, edge, SplitTarget(w, p))
  ELSE w

\* A drop only queues: QDrag::exec still runs in the frames it would move.
splitDrop(w, moving, edge, target) ==
  IF moving = target \/ edge = "None" \/ ~({moving, target} \subseteq w.panes)
  THEN [w EXCEPT !.pendingDock = <<>>]
  ELSE [w EXCEPT !.pendingDock = <<moving, edge, target>>, !.pendingUnsplit = NoPanel]

unsplitDrop(w, p) ==
  IF p \notin w.panes THEN w
  ELSE [w EXCEPT !.pendingDock = <<>>, !.pendingUnsplit = p]

\* The panel that flushPendingDock moves, and selects afterwards.
PendingPanel(w) ==
  IF w.pendingUnsplit # NoPanel THEN w.pendingUnsplit
  ELSE IF w.pendingDock # <<>> THEN w.pendingDock[1]
  ELSE NoPanel

flushPendingDock(w) ==
  LET idle == [w EXCEPT !.pendingDock = <<>>, !.pendingUnsplit = NoPanel]
  IN IF w.pendingUnsplit # NoPanel
     THEN unsplitPanel([w EXCEPT !.pendingUnsplit = NoPanel], w.pendingUnsplit)
     ELSE IF w.pendingDock # <<>>
     THEN applyDock(idle, w.pendingDock[1], w.pendingDock[2], w.pendingDock[3])
     ELSE w

\* Tabs are put in another order for terminals only.
reorderAttached(w, from, before) ==
  IF from \in ToSet(w.tabOrder) /\ before \in ToSet(w.tabOrder) /\ from # before
  THEN LET rest == RemoveFirst(w.tabOrder, from)
           at   == CHOOSE i \in DOMAIN rest : rest[i] = before
       IN [w EXCEPT !.tabOrder = InsertAt(rest, at, from)]
  ELSE w
=============================================================================
