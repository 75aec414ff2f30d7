------------------------------ MODULE MCVault ------------------------------
(* Instances of Vault for TLC: two profiles that may share one stored key, and *)
(* two secrets.                                                                *)
EXTENDS Vault

CONSTANTS p1, p2, k1, s1, s2

P(id, auth, save, secret) == [id |-> id, auth |-> auth, save |-> save, secret |-> secret]

MCInputs ==
    {P(p1, "password", TRUE, s1), P(p1, "password", FALSE, s1), P(p1, k1, TRUE, s1),
     P(p2, k1, TRUE, s2), P(p2, "keyFile", TRUE, NoSecret), P(p2, "password", TRUE, NoSecret)}
MCRemote == {<<P(p2, "password", TRUE, s2)>>}
MCLegacy == <<P(p1, "password", TRUE, s1)>>
MCOld == <<P(p1, k1, TRUE, s1), P(p2, k1, TRUE, s2)>>
====
