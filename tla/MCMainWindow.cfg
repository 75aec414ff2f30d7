SPECIFICATION Spec
SYMMETRY WindowSymmetry
CONSTANTS
    t1 = t1
    t2 = t2
    s1 = s1
    r1 = r1
    x = x
    y = y
    NoPanel = NoPanel
    Panels = {t1, t2, s1, r1}
    Terminals = {t1, t2}
    Sftps = {s1}
    Rdps = {r1}
    Splitters = {x, y}
    MaxWidgets = 2
    MaxPanels = 3
INVARIANTS
    LayoutWellFormed
    ActiveIsInUse
    ConnectionsHaveTabs
PROPERTIES
    ImplementsTabs
CHECK_DEADLOCK FALSE
