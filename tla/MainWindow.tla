------------------------------ MODULE MainWindow ------------------------------
(***************************************************************************)
(* The main window: the workspace, the session manager's list of sessions, *)
(* the tables of SFTP and RDP panes, the strip of tabs in the top bar and  *)
(* the dashboard, as the slots of MainWindow.cpp, TopNavBar.cpp and        *)
(* PaneFrame.cpp drive them.  A slot runs to its end, so it is one action; *)
(* a drag is not: QDrag::exec runs an event loop of its own, in which      *)
(* timers and the signals of the sessions are delivered.                   *)
(***************************************************************************)
EXTENDS SessionWorkspace

CONSTANTS Terminals, Sftps, Rdps,  \* the panels by their kind
          MaxWidgets,              \* RdpPane objects alive at one time, at most
          MaxPanels                \* how many panels are open at one time, at most

\* The kind is part of a reference; and there are identities enough for the
\* splitters that MaxPanels panels can need.
ASSUME WindowAssumption == /\ Terminals \cup Sftps \cup Rdps = Panels
                           /\ Terminals \cap Sftps = {} /\ Terminals \cap Rdps = {}
                           /\ Sftps \cap Rdps = {}
                           /\ {MaxWidgets, MaxPanels} \subseteq Nat
                           /\ MaxPanels <= Cardinality(Splitters) + 1

VARIABLES
  layout,      \* SessionWorkspace
  order,       \* SessionManager::m_order, each session named by its terminal
  activeId,    \* SessionManager::m_activeId, or NoPanel
  page,        \* the page of m_rootStack: "dashboard" or "workspace"
  sftpPanes,   \* the keys of m_sftpPanes
  rdpAlive,    \* the RdpPane objects, each with a connection
  replaced,    \* those whose panel was given to a newer one (history)
  rdpPanes,    \* m_rdpPanes: [ref -> widget]
  rdpShown,    \* the content of the frame of each RDP panel: [ref -> widget]
  chips,       \* the tabs in the strip
  drag,        \* the drag in progress
  previewed    \* a tab was shown because a drag hovered over it (history)

vars == <<layout, order, activeId, page, sftpPanes, rdpAlive, replaced, rdpPanes,
          rdpShown, chips, drag, previewed>>

desktops == <<rdpAlive, replaced, rdpPanes, rdpShown>>
tables == <<sftpPanes, desktops>>
sessions == <<order, activeId>>

NoDrag == [kind |-> "none", ref |-> NoPanel, doomed |-> FALSE]
Lost   == [kind |-> "lost", ref |-> NoPanel, doomed |-> FALSE]
Widgets == 1..MaxWidgets
hasAttachedSessions(w) == w.panes # {}

TypeOK ==
  /\ ToSet(order) \subseteq Terminals
  /\ activeId \in Terminals \cup {NoPanel}
  /\ page \in {"dashboard", "workspace"}
  /\ sftpPanes \subseteq Sftps
  /\ rdpAlive \subseteq Widgets /\ replaced \subseteq rdpAlive
  /\ previewed \in BOOLEAN
  /\ drag.kind \in {"none", "chip", "header", "lost"} /\ drag.ref \in Panels \cup {NoPanel}

Init ==
  /\ layout = EmptyLayout /\ order = <<>> /\ activeId = NoPanel
  /\ page = "dashboard" /\ sftpPanes = {} /\ rdpAlive = {} /\ replaced = {}
  /\ rdpPanes = [r \in {} |-> 0] /\ rdpShown = [r \in {} |-> 0]
  /\ chips = <<>> /\ drag = NoDrag /\ previewed = FALSE

(***************************************************************************)
(* Parts of the slots.                                                     *)
(***************************************************************************)
\* The user's hands are free: no drag holds the mouse.
Free == drag = NoDrag

RoomFor(p) == p \in layout.panes \/ Cardinality(layout.panes) < MaxPanels

\* rebuildTabs: a chip per open panel, except terminals without a session.
\* The chips that were there are deleted later, a dragged one included.
Strip(w, live) ==
  LET tabs == w.tabOrder
      built[i \in 0..Len(tabs)] ==
        IF i = 0 THEN <<>>
        ELSE IF tabs[i] \in Terminals => tabs[i] \in ToSet(live)
             THEN Append(built[i - 1], tabs[i]) ELSE built[i - 1]
  IN built[Len(tabs)]

refresh ==
  /\ chips' = Strip(layout', order')
  /\ drag' = [drag EXCEPT !.doomed = @ \/ drag.kind = "chip"]

showWorkspace == page' = IF hasAttachedSessions(layout') THEN "workspace" ELSE "dashboard"

showDashboardIfEmpty == page' = IF hasAttachedSessions(layout') THEN page ELSE "dashboard"

\* openOrFocusPanel(p) after the workspace went from layout to w: the session
\* of a terminal becomes the active one, which shows its panel as well.
openOrFocusPanel(w, p) ==
  /\ layout' = showPanel(w, p)
  /\ activeId' = IF p \in Terminals /\ p \in ToSet(order) THEN p ELSE activeId
  /\ previewed' = FALSE
  /\ showWorkspace
  /\ UNCHANGED <<order, tables>>

(***************************************************************************)
(* Opening.                                                                *)
(***************************************************************************)
\* openProfileSession for SSH, Telnet and serial: createSession makes the new
\* session the active one, then its terminal gets a tab.
beginTerminalSession(t) ==
  /\ Free /\ t \notin ToSet(order) /\ RoomFor(t)
  /\ order' = Append(order, t) /\ activeId' = t
  /\ layout' = addTerminal(layout, t)
  /\ previewed' = FALSE
  /\ showWorkspace
  /\ UNCHANGED <<tables>>
  /\ refresh

\* openStandaloneSftp: every pane has a key of its own.
openStandaloneSftp(s) ==
  /\ Free /\ s \notin sftpPanes /\ RoomFor(s)
  /\ sftpPanes' = sftpPanes \cup {s}
  /\ layout' = addSftp(layout, s)
  /\ previewed' = FALSE
  /\ showWorkspace
  /\ UNCHANGED <<sessions, desktops>>
  /\ refresh

\* openRdpSession: the key of the pane is the profile's id.  Opened again, the
\* new pane replaces the old one in m_rdpPanes and in the frame; the old one
\* stays alive, connected and without a parent.
openRdpSession(r) ==
  /\ Free /\ RoomFor(r)
  /\ \E w \in Widgets \ rdpAlive :
       /\ \A v \in Widgets \ rdpAlive : w <= v
       /\ rdpAlive' = rdpAlive \cup {w}
       /\ rdpPanes' = Entered(rdpPanes, r, w)
       /\ rdpShown' = Entered(rdpShown, r, w)
  /\ replaced' = replaced \cup {rdpPanes[q] : q \in {r} \cap DOMAIN rdpPanes}
  /\ layout' = addRdp(layout, r)
  /\ previewed' = FALSE
  /\ showWorkspace
  /\ UNCHANGED <<sessions, sftpPanes>>
  /\ refresh

(***************************************************************************)
(* Closing.                                                                *)
(***************************************************************************)
\* The slot of SessionManager::sessionClosed, in a workspace w.
sessionClosed(w, t) == layout' = removeSessionPanels(w, t) /\ showWorkspace

\* closeLiveSession: the panel is taken out, the session closed; the last of
\* the others becomes active and is shown (sessionActivated), and the handler
\* of sessionClosed removes what panels are left of it.
closeLiveSession(t) ==
  LET taken == TakePanel(layout, t)
      rest  == RemoveFirst(order, t)
      next  == IF activeId # t THEN activeId
               ELSE IF rest = <<>> THEN NoPanel ELSE Last(rest)
      shown == IF next = activeId THEN taken ELSE showPanel(taken, next)
  IN /\ t \in ToSet(order)
     /\ order' = rest /\ activeId' = next
     /\ sessionClosed(shown, t)
     /\ previewed' = (previewed /\ next = activeId)
     /\ UNCHANGED tables

\* closePanel for SFTP and RDP: the panel goes, nothing is shown in its place.
closeFilePanel(p) ==
  /\ p \in sftpPanes
  /\ sftpPanes' = sftpPanes \ {p}
  /\ layout' = TakePanel(layout, p)
  /\ showDashboardIfEmpty
  /\ UNCHANGED <<sessions, desktops, previewed>>

\* A closeDesktopPanel that drops the pane without ending its connection.
CloseLeavesConnection(p) ==
  /\ p \in DOMAIN rdpPanes
  /\ rdpPanes' = [r \in DOMAIN rdpPanes \ {p} |-> rdpPanes[r]]
  /\ rdpShown' = [r \in DOMAIN rdpShown \ {p} |-> rdpShown[r]]
  /\ layout' = TakePanel(layout, p)
  /\ showDashboardIfEmpty
  /\ UNCHANGED <<sessions, sftpPanes, rdpAlive, replaced, previewed>>

closeDesktopPanel(p) ==
  /\ p \in DOMAIN rdpPanes
  /\ rdpAlive' = rdpAlive \ {rdpPanes[p]}
  /\ rdpPanes' = [r \in DOMAIN rdpPanes \ {p} |-> rdpPanes[r]]
  /\ rdpShown' = [r \in DOMAIN rdpShown \ {p} |-> rdpShown[r]]
  /\ layout' = TakePanel(layout, p)
  /\ showDashboardIfEmpty
  /\ UNCHANGED <<sessions, sftpPanes, replaced, previewed>>

closePanel(p) ==
  /\ Free /\ p \in layout.panes
  /\ closeLiveSession(p) \/ closeFilePanel(p) \/ closeDesktopPanel(p)
  /\ refresh

(***************************************************************************)
(* Selecting, splitting and the dashboard.                                 *)
(***************************************************************************)
\* A click on a chip or on the header of a pane, or an entry of the dashboard.
SelectPanel(p) ==
  /\ Free /\ p \in layout.panes
  /\ openOrFocusPanel(layout, p) /\ refresh

\* The close button of a pane's header: out of the split, or else closed.
PaneClose(p) ==
  /\ Free /\ InSplitter(layout, p) /\ page = "workspace"
  /\ openOrFocusPanel(unsplitPanel(layout, p), p) /\ refresh

\* The context menu of a chip: place the panel beside another.
SplitScreen(p, edge) ==
  /\ Free /\ canSplitPanel(layout, p) /\ isSplitEdge(edge)
  /\ openOrFocusPanel(splitPanel(layout, p, edge), p) /\ refresh

toggleDashboard ==
  /\ Free
  /\ IF page = "dashboard" /\ hasAttachedSessions(layout)
     THEN IF layout.active # NoPanel
          THEN openOrFocusPanel(layout, layout.active) /\ refresh
          ELSE /\ page' = "workspace"
               /\ UNCHANGED <<layout, sessions, tables, chips, drag, previewed>>
     ELSE /\ page' = "dashboard"
          /\ UNCHANGED <<layout, sessions, tables, chips, drag, previewed>>

(***************************************************************************)
(* Drags.  While one lasts, QDrag::exec runs an event loop.  A drop queues *)
(* what it asks for and ends the loop; exec returns to the source, whose   *)
(* signal applies it (flushPendingDock).                                   *)
(***************************************************************************)
StartChipDrag(p) ==
  /\ Free /\ p \in ToSet(chips)
  /\ drag' = [kind |-> "chip", ref |-> p, doomed |-> FALSE]
  /\ UNCHANGED <<layout, sessions, page, tables, chips, previewed>>

\* startHeaderDrag selects the pane first; the frame itself is the source.
StartHeaderDrag(p) ==
  /\ Free /\ page = "workspace" /\ widgetInTree(layout, p, layout.root)
  /\ openOrFocusPanel(layout, p)
  /\ chips' = Strip(layout', order)
  /\ drag' = [kind |-> "header", ref |-> p, doomed |-> FALSE]

Dragging == drag.kind \in {"chip", "header"}

\* The drag enters another chip: its panel is previewed, the strip is not rebuilt.
previewPanel(p) ==
  /\ Dragging /\ p \in ToSet(chips) /\ p # drag.ref
  /\ layout' = showPanel(layout, p)
  /\ showWorkspace
  /\ previewed' = TRUE
  /\ UNCHANGED <<sessions, tables, chips, drag>>

\* exec returns, and the source applies what the drop queued in w.
DragReturns(w) ==
  /\ drag' = NoDrag
  /\ IF PendingPanel(w) # NoPanel
     THEN /\ openOrFocusPanel(flushPendingDock(w), PendingPanel(w))
          /\ chips' = Strip(layout', order)
     ELSE /\ layout' = w
          /\ UNCHANGED <<sessions, page, tables, chips, previewed>>

\* Drop on an edge of another pane that is visible.
DropOnPane(target, edge) ==
  /\ Dragging /\ page = "workspace" /\ target # drag.ref /\ isSplitEdge(edge)
  /\ widgetInTree(layout, target, layout.root)
  /\ DragReturns(splitDrop(layout, drag.ref, edge, target))

\* Drop on the strip of tabs: the panel becomes a tab of its own again.
DropOnStrip == Dragging /\ DragReturns(unsplitDrop(layout, drag.ref))

GiveUpDrag == Dragging /\ DragReturns(layout)

\* Drops that rebuild the strip before exec returns: the chip that is the
\* source may be gone when it does.
ReturnsOrLost == drag' \in {NoDrag} \cup (IF drag.kind = "chip" THEN {Lost} ELSE {})

\* Drop on another chip: terminals change their order.
DropOnChip(before) ==
  /\ Dragging /\ before \in ToSet(chips) /\ before # drag.ref
  /\ layout' = IF {drag.ref, before} \subseteq Terminals
               THEN reorderAttached(layout, drag.ref, before) ELSE layout
  /\ chips' = Strip(layout', order)
  /\ ReturnsOrLost
  /\ UNCHANGED <<sessions, page, tables, previewed>>

\* Drop where no other pane takes it, on its own pane or on the empty
\* workspace: the panel is shown and selected.
DropOnWorkspace ==
  /\ Dragging /\ page = "workspace"
  /\ layout.root = NoPanel \/ widgetInTree(layout, drag.ref, layout.root)
  /\ openOrFocusPanel(showPanel(layout, drag.ref), drag.ref)
  /\ chips' = Strip(layout', order)
  /\ ReturnsOrLost

(***************************************************************************)
(* What is delivered in either event loop.                                 *)
(***************************************************************************)
\* The strip is rebuilt because a session reports its state, or because the
\* layoutChanged that notifyLayoutChanged queued has come.  Which operation
\* queued it is left out: it may come whenever a panel or a session is open.
StripRebuilt ==
  /\ order # <<>> \/ layout.panes # {}
  /\ drag.kind # "lost"
  /\ UNCHANGED <<layout, sessions, page, tables, previewed>>
  /\ refresh

\* The deferred deletion of a chip that is still being dragged: its slot goes
\* on in an object that is gone.  Nothing is known of the program after that.
DragSourceDeleted ==
  /\ drag.doomed
  /\ drag' = Lost
  /\ UNCHANGED <<layout, sessions, page, tables, chips, previewed>>

Next ==
  \/ \E t \in Terminals : beginTerminalSession(t)
  \/ \E s \in Sftps : openStandaloneSftp(s)
  \/ \E r \in Rdps : openRdpSession(r)
  \/ \E p \in layout.panes :
       \/ closePanel(p) \/ SelectPanel(p) \/ PaneClose(p)
       \/ StartChipDrag(p) \/ StartHeaderDrag(p) \/ previewPanel(p) \/ DropOnChip(p)
       \/ \E edge \in Edges : SplitScreen(p, edge) \/ DropOnPane(p, edge)
  \/ toggleDashboard
  \/ DropOnStrip \/ DropOnWorkspace \/ GiveUpDrag
  \/ StripRebuilt \/ DragSourceDeleted

Spec == Init /\ [][Next]_vars

(***************************************************************************)
(* Properties.                                                             *)
(***************************************************************************)
\* Every open panel is in exactly one place: in a unit that is visible or
\* parked behind its tab, in a tree of splitters with two children each; the
\* tab order lists each open panel once.  extractPane, collapseSplitter and
\* dockInto take these trees apart and put them together again.
LayoutWellFormed ==
  /\ TypeOK
  /\ layout.panes \subseteq DOMAIN layout.parent
  /\ DOMAIN layout.parent \subseteq layout.panes \cup Splitters
  /\ \A s \in DOMAIN layout.parent \cap Splitters :
       \E a, b \in Children(layout, s) :
         /\ a # b /\ Children(layout, s) = {a, b}
         /\ {layout.index[a], layout.index[b]} = {1, 2}
  /\ \A n \in DOMAIN layout.parent :
       LET top == layoutUnitFor(layout, n)
       IN /\ layout.parent[top] \in {"host", "workspace"}
          /\ (layout.parent[top] = "host") <=> (top = layout.root)
  /\ ToSet(layout.tabOrder) = layout.panes /\ IsInjective(layout.tabOrder)

\* The active panel is one the user sees: it is in the visible unit, and
\* nothing from it up to the root was left hidden by a drag, a split or a
\* collapse.  Parked units are hidden at their outermost widget only, so that
\* showing them brings all of their panels back.
ActiveIsShown ==
  /\ layout.active # NoPanel => widgetInTree(layout, layout.active, layout.root)
  /\ \A n \in layout.hidden : layout.parent[n] = "workspace"
  /\ \A n \in DOMAIN layout.parent : layout.parent[n] = "workspace" => n \in layout.hidden

\* Every connection has a tab to be seen and closed by, and every tab its
\* connection: sessions, SFTP panes and RDP panes agree with the workspace,
\* and so does the strip whenever the user can click on it.  The panes
\* of an RDP profile that was opened again while it was open are left out:
\* the replaced one keeps its connection and has no tab.
ConnectionsHaveTabs ==
  /\ layout.panes = ToSet(order) \cup sftpPanes \cup DOMAIN rdpPanes
  /\ rdpShown = rdpPanes
  /\ drag.kind = "none" => chips = layout.tabOrder
  /\ rdpAlive = {rdpPanes[r] : r \in DOMAIN rdpPanes} \cup replaced

\* When the panel in use is a terminal, its session is the one that the AI
\* agent types into, the statistics are about and the SFTP button opens.  A
\* preview during a drag is left out: it shows a panel without selecting it,
\* and giving up the drag leaves it so.
ActiveTerminalIsSession ==
  layout.active \in Terminals /\ ~previewed => activeId = layout.active

\* The panel in use is where the user looks and where what is typed goes, see
\* each part.
ActiveIsInUse == ActiveIsShown /\ ActiveTerminalIsSession

\* The workspace does what WorkspaceTabs promises, through every split, drag
\* and close: only the panel that is moved changes its group, and a panel
\* taken out of a split stays open.
Tabs == INSTANCE WorkspaceTabs WITH
          open   <- layout.panes,
          groups <- {PanelsOf(layout, u) :
                       u \in {n \in DOMAIN layout.parent : ~InSplitter(layout, n)}},
          front  <- IF layout.root = NoPanel THEN {} ELSE PanelsOf(layout, layout.root),
          active <- layout.active
ImplementsTabs == Tabs!Spec
=============================================================================
