--------------------------- MODULE MCSyncController ---------------------------
(* SyncController instantiated for TLC: the devices, the targets of profiles   *)
(* and the pages of notes are interchangeable.                                 *)
EXTENDS SyncController

Symmetry == Permutations(Devices) \cup Permutations(Targets) \cup Permutations(Pages)
=============================================================================
