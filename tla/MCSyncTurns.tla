----------------------------- MODULE MCSyncTurns -----------------------------
(* SyncController with users who take turns, for its liveness; and the merge   *)
(* operators of SyncMerge over every pair of profile lists that can be built   *)
(* from a few ids and contents, looked at once, in the initial state.          *)
EXTENDS SyncController

CONSTANTS Ids, Contents, MaxLocal, MaxRemote   \* the lists handed to mergeSnapshots

Entries == [id : Ids, content : Contents \cup {NoContent}]

Snapshot(s) == [profiles |-> s, keys |-> <<>>, notes |-> Blank]

Merged(local, remote) == MergeSnapshots(Snapshot(local), Snapshot(remote))

Represents(s, e) == \E i \in DOMAIN s : Clash(s[i], e)

(* The entries of s at the indexes K, in their order. *)
Select(s, K) ==
    FoldLeftDomain(LAMBDA acc, i : IF i \in K THEN Append(acc, s[i]) ELSE acc, <<>>, s)

(* dedupePayload computes the greedy maximal clash-free selection of its input:*)
(* no two survivors clash, and every entry it drops clashes with an earlier    *)
(* survivor, so a host is only ever lost to a twin that is kept.               *)
DedupeIsGreedySelection(local) ==
    \E K \in SUBSET DOMAIN local :
        /\ \A i, j \in K : i # j => ~Clash(local[i], local[j])
        /\ \A i \in DOMAIN local \ K : \E j \in K : j < i /\ Clash(local[j], local[i])
        /\ DedupeEntries(local) = Select(local, K)

(* mergeSnapshots loses nobody's connection: each entry of either side is in   *)
(* the result or clashes with one the remote side (which wins) brought along.  *)
MergeKeepsEverything(local, remote) ==
    LET merged == Merged(local, remote).profiles IN
    /\ \A i \in DOMAIN remote : Represents(merged, remote[i])
    /\ \A i \in DOMAIN local : Represents(merged, local[i]) \/ Represents(remote, local[i])

(* Remote wins: the merge starts with the cleaned remote list, unreordered.    *)
MergePutsRemoteFirst(local, remote) ==
    IsPrefix(DedupeEntries(remote), Merged(local, remote).profiles)

(* A join that is repeated (its upload failed, the user joins again) changes   *)
(* nothing more, and the merged snapshot is never found dirty by a later poll. *)
MergeIsStable(local, remote) ==
    LET merged == Merged(local, remote) IN
    /\ ~Dirty(merged)
    /\ MergeSnapshots(merged, Snapshot(remote)) = merged
    /\ MergeSnapshots(merged, merged) = merged

(* The laws the merge of two snapshots rests on, see each part.  They do not   *)
(* depend on the state: TLC looks at them where nothing has happened yet.      *)
MergeLaws ==
    Init => \A local \in BoundedSeq(Entries, MaxLocal), remote \in BoundedSeq(Entries, MaxRemote) :
                /\ DedupeIsGreedySelection(local)
                /\ MergeKeepsEverything(local, remote)
                /\ MergePutsRemoteFirst(local, remote)
                /\ MergeIsStable(local, remote)
=============================================================================
