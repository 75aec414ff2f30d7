----------------------------- MODULE MCMainWindow -----------------------------
(***************************************************************************)
(* Instances of MainWindow: model values for the panels and the splitters. *)
(***************************************************************************)
EXTENDS MainWindow

CONSTANTS t1, t2, s1, r1, x, y

\* Terminals are interchangeable, and so are splitters: dockInto takes any free
\* one.
WindowSymmetry == Permutations(Terminals) \cup Permutations(Splitters)

=============================================================================
