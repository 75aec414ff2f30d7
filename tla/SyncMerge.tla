------------------------------ MODULE SyncMerge ------------------------------
(* The pure part of core/sync/SyncController.cpp: how two snapshots of the     *)
(* saved data are deduplicated and merged.  A snapshot (SyncPayload) holds the *)
(* saved profiles, the stored private keys and the notes page.  An entry       *)
(* (profile or key) is abstracted to what the code compares: its id and its    *)
(* content key (mode/host/port/user of a profile, name/pem of a key).          *)
EXTENDS Integers, Sequences, SequencesExt

CONSTANTS
    NoContent,   \* the empty content key: entries without host and user, or without name and pem
    Blank        \* a notes page that is empty after trimming

(* Two entries the code treats as one: same id, or the same non-empty target. *)
Clash(e, f) ==
    \/ e.id = f.id
    \/ e.content # NoContent /\ e.content = f.content

KeepUnlessClash(kept, e) ==
    IF \E i \in DOMAIN kept : Clash(kept[i], e) THEN kept ELSE Append(kept, e)

(* Mistaken: the last of a group of clashing entries survives. *)
DedupeKeepLast(s) == Reverse(FoldLeft(KeepUnlessClash, <<>>, Reverse(s)))

(* One pass over a list: the first of a group of clashing entries survives. *)
DedupeEntries(s) == FoldLeft(KeepUnlessClash, <<>>, s)

(* Everything remote stays; a local entry is appended unless it clashes with   *)
(* something remote or with a local entry appended before it.                  *)
CombineEntries(local, remote) == FoldLeft(KeepUnlessClash, remote, local)

DedupePayload(p) ==
    [p EXCEPT !.profiles = DedupeEntries(@), !.keys = DedupeEntries(@)]

PayloadShrunk(before, after) ==
    \/ Len(after.profiles) < Len(before.profiles)
    \/ Len(after.keys) < Len(before.keys)

MergeSnapshots(local, remote) ==
    DedupePayload(
        [remote EXCEPT
            !.profiles = CombineEntries(local.profiles, @),
            !.keys     = CombineEntries(local.keys, @),
            !.notes    = IF @ = Blank THEN local.notes ELSE @])

HasData(p) == p.profiles # <<>> \/ p.keys # <<>> \/ p.notes # Blank

Dirty(p) == PayloadShrunk(p, DedupePayload(p))
=============================================================================
