---------------------------- MODULE MCSftpPane ----------------------------
(* Instances of SftpPane for TLC: two directories with a file of one name.     *)
EXTENDS SftpPane

CONSTANTS d1, d2, n1, n2

MCInitial == {<<d1, n1>>, <<d2, n1>>}
====
