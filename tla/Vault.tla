------------------------------- MODULE Vault -------------------------------
(* The encrypted vault of saved sessions: connects.json (what a session is),   *)
(* dbvault (its secrets, under a master key held by the OS keyring or by the   *)
(* fallback file store) and the dashboard operations that rewrite them.        *)
(*                                                                             *)
(* An operation is a sequence of VaultManager calls, each of which may rewrite *)
(* a file; the process may die, a write may fail and the keyring may go away   *)
(* or come back between any two of them.  The functions of SessionProfile.h    *)
(* that make such sequences, saveProfiles and loadProfiles, are SaveCalls and  *)
(* Load.                                                                       *)
EXTENDS Integers, Sequences, SequencesExt, FiniteSetsExt

CONSTANTS
    ProfileIds,      \* ids of saved sessions
    StoredKeyIds,    \* ids of private keys kept in the vault
    Secrets,         \* non-empty passwords and passphrases
    Inputs,          \* profiles a form or a live session may be saved as
    RemotePayloads,  \* profile lists another device may have pushed
    Installs,        \* what the program may find: "fresh", "legacy" or "old"
    LegacyProfiles,  \* the plaintext profiles of a "legacy" installation
    OldProfiles,     \* profiles of an "old" one: key passphrases kept per profile
    MaxSaves,        \* bound: operations that write
    MaxFaults,       \* bound: writes that fail
    MaxCrashes,      \* bound: deaths of the process
    MaxOutages,      \* bound: times the OS keyring goes away
    MaxEvents        \* bound: all of these together

NoSecret == ""        \* an empty password; retrieveSecret reports it as absent
Unset == "unset"      \* no entry in the document
Pem == "pem"          \* the private key itself

\* How a session authenticates: a password, a key file or agent, or a stored key.
Auths == {"password", "keyFile"} \union StoredKeyIds
Profile == [id : ProfileIds, auth : Auths, save : BOOLEAN, secret : Secrets \union {NoSecret}]

\* What a list of profiles in memory is like, here and on the device it was pushed from:
\* no two profiles have one id, and none holds a secret that is not to be saved.
DistinctIds(P) == \A i, j \in DOMAIN P : P[i].id = P[j].id => i = j
Tidy(P) ==
    /\ P \in Seq(Profile)
    /\ DistinctIds(P)
    /\ \A i \in DOMAIN P : ~P[i].save => P[i].secret = NoSecret

ASSUME ConstantsAssumption ==
    /\ {MaxSaves, MaxFaults, MaxCrashes, MaxOutages, MaxEvents} \subseteq Nat
    /\ Installs \subseteq {"fresh", "legacy", "old"}
    /\ Inputs \subseteq Profile
    /\ \A P \in RemotePayloads : Tidy(P)
    /\ {LegacyProfiles, OldProfiles} \subseteq Seq(Profile)
    /\ DistinctIds(OldProfiles)
    /\ IsFiniteSet(StoredKeyIds)
    /\ {"password", "keyFile"} \intersect StoredKeyIds = {}
    /\ ProfileIds \intersect StoredKeyIds = {}
    /\ {NoSecret, Unset, Pem} \intersect Secrets = {}

Slots == (ProfileIds \X {"password", "keyPassphrase"}) \union (StoredKeyIds \X {"pem", "passphrase"})
Values == Secrets \union {NoSecret, Unset, Pem}
EmptyDoc == [s \in Slots |-> Unset]

\* Master keys are numbered in the order they are made.
NoKey == 0
Garbage == -1
Absent == [key |-> NoKey, doc |-> EmptyDoc]        \* no dbvault file
Truncated == [key |-> Garbage, doc |-> EmptyDoc]   \* a file no key opens
NoFile == [state |-> "none", list |-> <<>>]        \* no connects.json

VARIABLES
    native, fallback,  \* the master key in the OS keyring, in the fallback store
    available,         \* the OS keyring answers
    keysMade,          \* master keys made so far
    db, connects,      \* the two files of the vault
    legacy,            \* plaintext profiles in the settings files
    phase,             \* "down", "started", "idle" or "busy"
    profiles,          \* DashboardPage::m_profiles
    vm,                \* the VaultManager of the operation under way
    op, calls, at,     \* the operation, its calls, the call to make next
    result,            \* did all calls, did any call return true
    prompt,            \* importKeyIntoKeyring waiting in its "remember" question
    install, saved, damaged, spent   \* history: see Init and the properties

keyring == <<native, fallback, available, keysMade>>
disk == <<db, connects, legacy>>
work == <<vm, op, calls, at, result>>
history == <<install, saved, damaged, spent>>
vars == <<keyring, disk, phase, profiles, work, prompt, history>>

Bound == [saves |-> MaxSaves, faults |-> MaxFaults, crashes |-> MaxCrashes, outages |-> MaxOutages]
Spend(k) == /\ spent[k] < Bound[k]
            /\ spent["saves"] + spent["faults"] + spent["crashes"] + spent["outages"] < MaxEvents
            /\ spent' = [spent EXCEPT ![k] = @ + 1]

-----------------------------------------------------------------------------
(* VaultManager and KeyringAdapter                                             *)

NewManager == [key |-> NoKey, loaded |-> FALSE, doc |-> EmptyDoc, aged |-> FALSE]

\* What the two stores answer; the keyring service may be away.
RetrieveNative == IF available THEN native ELSE NoKey
RetrieveFallback == fallback
StoreNative(key) == available /\ native' = key /\ UNCHANGED fallback
StoreFallback(key) == ~available /\ fallback' = key /\ UNCHANGED native

\* KeyringAdapter::retrieve: the keyring first, then the fallback store.
KeyFound == IF RetrieveNative # NoKey THEN RetrieveNative ELSE RetrieveFallback

\* ensureDbKey of manager m: its own key, else the one found, else a fresh one,
\* which is stored (KeyringAdapter::store) before it is used.
MakesKey(m) == m.key = NoKey /\ KeyFound = NoKey
DbKey(m) == IF m.key # NoKey THEN m.key ELSE IF KeyFound # NoKey THEN KeyFound ELSE keysMade + 1
EnsureDbKey(m) ==
    /\ UNCHANGED available
    /\ IF MakesKey(m)
       THEN /\ keysMade' = keysMade + 1
            /\ StoreNative(keysMade + 1) \/ StoreFallback(keysMade + 1)
       ELSE UNCHANGED <<native, fallback, keysMade>>

\* readDbvault: a missing file is an empty vault, one under another key is refused.
Opens(key) == db = Absent \/ db.key = key
\* Mistaken: readDbvault never called, as if m_dbLoaded started true.
DocNeverRead(m) == m.doc

DocOf(m) == IF m.loaded \/ db = Absent THEN m.doc ELSE db.doc

\* How a file write ends: done; refused with the file untouched; the file removed
\* and the new one not in its place; a short write moved over the file unnoticed.
Outcomes == {"written", "failed", "lost", "truncated"}
Good(outcome) == outcome \in {"written", "truncated"}
Outcome(outcome) ==
    /\ damaged' = (damaged \/ outcome \in {"lost", "truncated"})
    /\ IF outcome = "written" THEN UNCHANGED spent ELSE Spend("faults")
    /\ UNCHANGED <<install, saved>>

persistDbvault(key, doc, outcome) ==
    CASE outcome = "written" -> [key |-> key, doc |-> doc]
      [] outcome = "failed" -> db
      [] outcome = "lost" -> Absent
      [] outcome = "truncated" -> Truncated

\* removeSecret looks for the owner's object, not for the field.
Kin(slot) == {s \in Slots : s[1] = slot[1] /\ (slot[2] \in {"pem", "passphrase"} => s = slot)}

Store(slot, value) == [op |-> "store", slot |-> slot, value |-> value, must |-> FALSE]
Erase(slot) == [op |-> "remove", slot |-> slot, value |-> Unset, must |-> FALSE]
SaveConnects == [op |-> "connects", slot |-> <<>>, value |-> Unset, must |-> FALSE]
Must(call) == [call EXCEPT !.must = TRUE]  \* made only if no call before it failed

-----------------------------------------------------------------------------
(* saveProfiles and loadProfiles                                               *)

Meta(P) == [i \in DOMAIN P |-> [id |-> P[i].id, auth |-> P[i].auth, save |-> P[i].save]]

KeysUsed(P) == {P[i].auth : i \in DOMAIN P} \intersect StoredKeyIds
Owners(P, k) == {i \in DOMAIN P : P[i].auth = k /\ P[i].save /\ P[i].secret # NoSecret}

PasswordCall(p) ==
    IF p.auth = "password" /\ p.save THEN Store(<<p.id, "password">>, p.secret)
                                     ELSE Erase(<<p.id, "password">>)
PassphraseCall(p) ==
    IF p.auth = "keyFile" /\ p.save THEN Store(<<p.id, "keyPassphrase">>, p.secret)
                                    ELSE Erase(<<p.id, "keyPassphrase">>)
\* The first profile that has a passphrase for the stored key decides it.
KeyCall(P, k) ==
    IF Owners(P, k) # {} THEN Store(<<k, "passphrase">>, P[Min(Owners(P, k))].secret)
                         ELSE Erase(<<k, "passphrase">>)

\* Mistaken: every secret removed before the new ones are stored.
SaveCallsFromScratch(P) ==
    <<SaveConnects>>
    \o [i \in 1..Len(P) |-> Erase(<<P[i].id, "password">>)]
    \o [i \in 1..2 * Len(P) |-> IF i % 2 = 1 THEN PasswordCall(P[(i + 1) \div 2])
                                             ELSE PassphraseCall(P[i \div 2])]
    \o LET keys == SetToSeq(KeysUsed(P)) IN [i \in 1..Len(keys) |-> KeyCall(P, keys[i])]

SaveCalls(P) ==
    LET keys == SetToSeq(KeysUsed(P))
    IN  <<SaveConnects>>
        \o [i \in 1..2 * Len(P) |-> IF i % 2 = 1 THEN PasswordCall(P[(i + 1) \div 2])
                                                 ELSE PassphraseCall(P[i \div 2])]
        \o [i \in 1..Len(keys) |-> KeyCall(P, keys[i])]

\* What retrieveSecret finds in doc, NoSecret when it returns false.
Secret(doc, slot) == IF doc[slot] = Unset THEN NoSecret ELSE doc[slot]
\* Profiles of the stored key that still have their own, older copy.
Copies(M, k, doc) ==
    {i \in DOMAIN M : M[i].auth = k /\ M[i].save /\ Secret(doc, <<M[i].id, "keyPassphrase">>) # NoSecret}
Moves(M, doc) ==
    {k \in StoredKeyIds : Secret(doc, <<k, "passphrase">>) = NoSecret /\ Copies(M, k, doc) # {}}
OldCopy(M, k, doc) == Secret(doc, <<M[Min(Copies(M, k, doc))].id, "keyPassphrase">>)

LoadedSecret(M, i, doc) ==
    LET p == M[i] IN
    CASE ~p.save -> NoSecret
      [] p.save /\ p.auth = "password" -> Secret(doc, <<p.id, "password">>)
      [] p.save /\ p.auth = "keyFile" -> Secret(doc, <<p.id, "keyPassphrase">>)
      [] p.save /\ p.auth \in StoredKeyIds ->
             IF p.auth \notin Moves(M, doc) THEN Secret(doc, <<p.auth, "passphrase">>)
             ELSE IF Min(Copies(M, p.auth, doc)) <= i THEN OldCopy(M, p.auth, doc) ELSE NoSecret

LoadedProfiles(M, doc) ==
    [i \in DOMAIN M |-> [id |-> M[i].id, auth |-> M[i].auth, save |-> M[i].save,
                         secret |-> LoadedSecret(M, i, doc)]]

SecretKind(auth) == IF auth = "password" THEN "password" ELSE "passphrase"

\* A secret that is not to be saved is dropped.
Normalized(p) == IF p.save THEN p ELSE [p EXCEPT !.secret = NoSecret]

\* profilesFromQSettings: a secret is read only when it was to be saved.
PlainProfiles == [i \in DOMAIN legacy |-> Normalized(legacy[i])]

\* The second half of loadProfiles: a plaintext leftover fills a missing secret.
Lacks(P, i) ==
    {l \in Range(PlainProfiles) : /\ l.id = P[i].id /\ SecretKind(l.auth) = SecretKind(P[i].auth)
                           /\ P[i].save /\ P[i].secret = NoSecret /\ l.secret # NoSecret}
Merged(P) ==
    [i \in DOMAIN P |-> IF Lacks(P, i) = {} THEN P[i]
                        ELSE [P[i] EXCEPT !.secret = (CHOOSE l \in Lacks(P, i) : TRUE).secret]]

-----------------------------------------------------------------------------
(* Operations                                                                  *)

NoOp == [name |-> "none", target |-> <<>>, onFail |-> <<>>, again |-> FALSE]
Fresh == [all |-> TRUE, any |-> FALSE]
NoWork == /\ vm' = NewManager
          /\ op' = NoOp /\ calls' = <<>> /\ at' = 1
          /\ result' = Fresh

Start(name, target, onFail, again, sequence) ==
    /\ phase' = "busy"
    /\ op' = [name |-> name, target |-> target, onFail |-> onFail, again |-> again]
    /\ calls' = sequence
    /\ at' = 1
    /\ result' = Fresh

\* loadConnectsJson finds a file that it can decrypt.
loadConnectsJson == connects.state = "good"

\* wipeLegacyQSettingsProfiles: secrets and profiles, in both settings files.
wipeLegacyProfiles == legacy' = <<>>

\* main calls configureFileStorage before any page exists: it purges the plaintext
\* profiles of both settings files.
configureFileStorage ==
    /\ phase = "down"
    /\ phase' = "started"
    /\ legacy' = <<>>
    /\ UNCHANGED <<keyring, db, connects, profiles, work, prompt, history>>

\* loadProfiles: at launch, and whenever the home page is shown.
Load ==
    LET M == connects.list
        found == loadConnectsJson
        asks == found /\ \E i \in DOMAIN M : M[i].save
    IN
    /\ phase = "started" \/ (phase = "idle" /\ prompt = <<>>)
    /\ \E stored \in BOOLEAN :
        LET makes == asks /\ MakesKey(NewManager)
            key == IF makes /\ ~stored THEN NoKey ELSE DbKey(NewManager)
            doc == IF asks /\ key # NoKey /\ Opens(key) THEN db.doc ELSE EmptyDoc
            loaded == LoadedProfiles(M, doc)
            moves == SetToSeq(Moves(M, doc))
        IN
        /\ IF stored THEN UNCHANGED spent ELSE makes /\ Spend("faults")
        /\ IF makes /\ stored THEN EnsureDbKey(NewManager) ELSE UNCHANGED keyring
        /\ vm' = IF asks THEN [NewManager EXCEPT !.key = key] ELSE NewManager
        /\ IF found
           THEN Start("load", Merged(loaded), profiles, Merged(loaded) # loaded,
                      [i \in DOMAIN moves |->
                          Store(<<moves[i], "passphrase">>, OldCopy(M, moves[i], doc))])
           ELSE IF legacy = <<>> THEN Start("load", <<>>, profiles, FALSE, <<>>)
           ELSE Start("migrate", PlainProfiles, profiles, FALSE, SaveCalls(PlainProfiles))
    /\ UNCHANGED <<disk, profiles, prompt, install, saved, damaged>>

\* listStoredKeys: shown with every form; the first one makes the master key.
listStoredKeys ==
    /\ phase = "idle" /\ prompt = <<>>
    /\ MakesKey(NewManager)
    /\ EnsureDbKey(NewManager)
    /\ UNCHANGED <<disk, phase, profiles, work, prompt, history>>

Listed(k) == Opens(KeyFound) /\ db.doc[<<k, "pem">>] # Unset
Usable(auth) == auth \in StoredKeyIds => Listed(auth)
IndexOf(id) == {i \in DOMAIN profiles : profiles[i].id = id}

Begin == /\ phase = "idle" /\ prompt = <<>>
         /\ Spend("saves")
         /\ UNCHANGED <<keyring, disk, profiles, prompt, install, saved, damaged>>
SaveAll(name, target, onFail) ==
    Start(name, target, onFail, FALSE, SaveCalls(target)) /\ vm' = NewManager

\* An empty secret field keeps the secret the edited profile has in memory.
Edited(p, old) ==
    IF p.save /\ p.secret = NoSecret /\ SecretKind(p.auth) = SecretKind(old.auth)
    THEN [p EXCEPT !.secret = old.secret] ELSE Normalized(p)

\* saveCurrentFormAsProfile: a failed save keeps the change in memory.
saveCurrentFormAsProfile(p) ==
    LET target == IF IndexOf(p.id) = {} THEN Append(profiles, Normalized(p))
                  ELSE [i \in DOMAIN profiles |->
                           IF profiles[i].id = p.id THEN Edited(p, profiles[i]) ELSE profiles[i]]
    IN  /\ Begin
        /\ Usable(p.auth)
        /\ SaveAll("form", target, target)

\* saveSessionProfile, deleteSavedProfile, moving a profile: undone when not saved.
saveSessionProfile(p) ==
    /\ Begin
    /\ IndexOf(p.id) = {} /\ Usable(p.auth)
    /\ SaveAll("live", Append(profiles, Normalized(p)), profiles)

deleteSavedProfile(id) ==
    /\ Begin
    /\ \E row \in IndexOf(id) : SaveAll("delete", RemoveAt(profiles, row), profiles)

\* Before another profile, or after the last one of a tag: anywhere in the list.
moveProfile(id) ==
    /\ Begin
    /\ \E row \in IndexOf(id), to \in DOMAIN profiles :
          SaveAll("move", InsertAt(RemoveAt(profiles, row), to, profiles[row]), profiles)

\* editSelectedStoredKeyPassphrase with an empty answer, and with passphrase s.
WithKeySecret(k, keep, s) ==
    [i \in DOMAIN profiles |->
        IF profiles[i].auth = k THEN [profiles[i] EXCEPT !.save = keep, !.secret = s] ELSE profiles[i]]

forgetPassphrase(k) ==
    LET target == WithKeySecret(k, FALSE, NoSecret)
    IN  /\ Begin
        /\ Listed(k)
        /\ Start("passphrase", target, target, FALSE,
                 <<Erase(<<k, "passphrase">>)>> \o SaveCalls(target))
        /\ vm' = NewManager

savePassphrase(k, s) ==
    LET target == WithKeySecret(k, TRUE, s)
        saving == SaveCalls(target)
    IN  /\ Begin
        /\ Listed(k)
        /\ Start("passphrase", target, target, FALSE,
                 <<Store(<<k, "passphrase">>, s), Must(Head(saving))>> \o Tail(saving))
        /\ vm' = NewManager

\* removeSelectedKeyringKey and removeStoredKey: refused while a profile uses it.
removeStoredKey(k) ==
    /\ Begin
    /\ Listed(k) /\ k \notin KeysUsed(profiles)
    /\ Start("keys", profiles, profiles, FALSE,
             <<Erase(<<k, "pem">>), Must(Erase(<<k, "passphrase">>))>>)
    /\ vm' = NewManager

\* importKeyIntoKeyring and generateKeyIntoKeyring: a key that never existed.
NewKey(k) == db.doc[<<k, "pem">>] = Unset /\ k \notin KeysUsed(profiles)

importKeyIntoKeyring(k) ==
    /\ Begin
    /\ NewKey(k)
    /\ Start("import", profiles, profiles, FALSE, <<Store(<<k, "pem">>, Pem)>>)
    /\ vm' = NewManager

generateKeyIntoKeyring(k, s) ==
    /\ Begin
    /\ NewKey(k)
    /\ Start("keys", profiles, profiles, FALSE,
             <<Store(<<k, "pem">>, Pem), Must(Store(<<k, "passphrase">>, s))>>)
    /\ vm' = NewManager

\* The "remember" question runs a nested event loop; a yes goes on with the manager
\* that stored the key and still holds the document it then read.
answerPrompt(s) ==
    /\ phase = "idle" /\ prompt # <<>>
    /\ prompt' = <<>>
    /\ IF s = NoSecret
       THEN UNCHANGED <<phase, work, saved>>
       ELSE /\ Start("keys", profiles, profiles, FALSE, <<Store(<<prompt[1].key, "passphrase">>, s)>>)
            /\ vm' = [prompt[1].vm EXCEPT !.aged = TRUE]
            /\ saved' = (saved /\ prompt[1].vm.doc = db.doc /\ prompt[1].key \notin KeysUsed(profiles))
    /\ UNCHANGED <<keyring, disk, profiles, install, damaged, spent>>

\* Events of the network also come in that loop: setProfileSystem after a login,
\* and the apply callback of the SyncController.
Arrives == /\ phase = "idle"
           /\ Spend("saves")
           /\ UNCHANGED <<keyring, disk, profiles, prompt, install, saved, damaged>>

setProfileSystem == Arrives /\ profiles # <<>> /\ SaveAll("system", profiles, profiles)

applySynced(P, keys) ==
    LET pems == SetToSeq(keys)
    IN  /\ Arrives
        /\ Start("apply", P, profiles, FALSE,
                 SaveCalls(P) \o [i \in DOMAIN pems |-> Must(Store(<<pems[i], "pem">>, Pem))])
        /\ vm' = NewManager

-----------------------------------------------------------------------------
(* The calls of an operation                                                   *)

call == calls[at]
Calling == phase = "busy" /\ at <= Len(calls) /\ (call.must => result.all)
\* Mistaken: the last call decides (ok = ... without && ok).
ReturnsLast(good) ==
    /\ at' = at + 1
    /\ result' = [all |-> good, any |-> result.any \/ good]
    /\ UNCHANGED <<phase, profiles, op, calls, prompt>>
\* Mistaken: migratedKeyPassphrases set whether or not the passphrase was stored.
ReturnsMigrated(good) ==
    /\ at' = at + 1
    /\ result' = [all |-> result.all /\ good, any |-> TRUE]
    /\ UNCHANGED <<phase, profiles, op, calls, prompt>>

Returns(good) == /\ at' = at + 1
                 /\ result' = [all |-> result.all /\ good, any |-> result.any \/ good]
                 /\ UNCHANGED <<phase, profiles, op, calls, prompt>>

\* saveProfiles constructs its manager, whose first call is saveConnectsJson.
saveConnectsJson(outcome) ==
    /\ Calling /\ call.op = "connects"
    /\ vm' = NewManager
    /\ connects' = CASE outcome = "written" -> [state |-> "good", list |-> Meta(op.target)]
                     [] outcome = "failed" -> connects
                     [] outcome = "lost" -> NoFile
                     [] outcome = "truncated" -> [state |-> "corrupt", list |-> <<>>]
    /\ Outcome(outcome)
    /\ Returns(Good(outcome))
    /\ UNCHANGED <<keyring, db, legacy>>

SecretCall == Calling /\ call.op # "connects"

\* Mistaken: m_masterKey set before the fresh key is stored.
keyRefusedButUsed ==
    /\ SecretCall
    /\ MakesKey(vm) /\ Spend("faults")
    /\ vm' = [vm EXCEPT !.key = keysMade + 1]
    /\ Returns(FALSE)
    /\ UNCHANGED <<keyring, disk, install, saved, damaged>>

\* No master key is found and the fresh one cannot be stored.
keyRefused ==
    /\ SecretCall
    /\ MakesKey(vm) /\ Spend("faults")
    /\ Returns(FALSE)
    /\ UNCHANGED <<keyring, disk, vm, install, saved, damaged>>

Readable == vm.loaded \/ Opens(DbKey(vm))

\* dbvault is there and does not open under the key.
vaultRefused ==
    /\ SecretCall
    /\ ~Readable
    /\ EnsureDbKey(vm)
    /\ vm' = [vm EXCEPT !.key = DbKey(vm)]
    /\ Returns(FALSE)
    /\ UNCHANGED <<disk, history>>

\* removeSecret of an owner without an entry writes nothing.
nothingToRemove ==
    /\ SecretCall
    /\ Readable
    /\ call.op = "remove" /\ \A s \in Kin(call.slot) : DocOf(vm)[s] = Unset
    /\ EnsureDbKey(vm)
    /\ vm' = [vm EXCEPT !.key = DbKey(vm), !.doc = DocOf(vm)]
    /\ Returns(TRUE)
    /\ UNCHANGED <<disk, history>>

\* storeSecret and removeSecret: change the document and persist it as a whole.
rewriteDbvault(outcome) ==
    LET doc == [DocOf(vm) EXCEPT ![call.slot] = call.value] IN
    /\ SecretCall
    /\ Readable
    /\ call.op = "remove" => \E s \in Kin(call.slot) : DocOf(vm)[s] # Unset
    /\ EnsureDbKey(vm)
    /\ vm' = [vm EXCEPT !.key = DbKey(vm), !.doc = doc, !.loaded = @ \/ call.op = "store"]
    /\ db' = persistDbvault(DbKey(vm), doc, outcome)
    /\ Outcome(outcome)
    /\ Returns(Good(outcome))
    /\ UNCHANGED <<connects, legacy>>

\* Operations that save the profile list, as opposed to keys only.
SavesProfiles == op.name \notin {"keys", "import", "load"}

finish ==
    LET stopped == at <= Len(calls)
        resaves == op.name = "load" /\ (op.again \/ result.any)
    IN
    /\ phase = "busy"
    /\ stopped => call.must /\ ~result.all
    /\ IF resaves   \* loadProfiles saves what it migrated
       THEN /\ Start("reload", op.target, op.target, FALSE, SaveCalls(op.target))
            /\ vm' = NewManager
            /\ UNCHANGED <<disk, profiles, prompt, saved>>
       ELSE /\ phase' = IF op.name = "form" /\ result.all THEN "started" ELSE "idle"
            /\ NoWork
            /\ profiles' = IF result.all \/ op.name \in {"load", "migrate", "reload"}
                           THEN op.target
                           ELSE IF stopped THEN profiles ELSE op.onFail
            /\ IF op.name \in {"load", "migrate", "reload"} THEN wipeLegacyProfiles ELSE UNCHANGED legacy
            /\ saved' = IF SavesProfiles THEN result.all ELSE saved
            /\ \/ prompt' = prompt
               \/ /\ op.name = "import" /\ result.all   \* a key with a passphrase
                  /\ prompt' = <<[key |-> calls[1].slot[1], vm |-> vm]>>
            /\ UNCHANGED <<db, connects>>
    /\ UNCHANGED <<keyring, install, damaged, spent>>

-----------------------------------------------------------------------------
(* The world                                                                   *)

\* The process ends, by a crash or by the user, and may be started again.
stop ==
    /\ phase # "down"
    /\ Spend("crashes")
    /\ phase' = "down"
    /\ profiles' = <<>>
    /\ NoWork
    /\ prompt' = <<>>
    /\ saved' = FALSE
    /\ UNCHANGED <<keyring, disk, install, damaged>>

keyringGoes ==
    /\ available
    /\ Spend("outages")
    /\ available' = FALSE
    /\ saved' = FALSE
    /\ UNCHANGED <<native, fallback, keysMade, disk, phase, profiles, work, prompt, install, damaged>>

keyringReturns ==
    /\ ~available
    /\ available' = TRUE
    /\ saved' = FALSE
    /\ UNCHANGED <<native, fallback, keysMade, disk, phase, profiles, work, prompt, install,
                   damaged, spent>>

\* What an older version left: one key passphrase per profile.
OldDoc ==
    LET owned(s) == {i \in DOMAIN OldProfiles : /\ OldProfiles[i].auth \in StoredKeyIds
                                                /\ s = <<OldProfiles[i].id, "keyPassphrase">>}
    IN  [s \in Slots |->
            CASE s[2] = "pem" /\ s[1] \in KeysUsed(OldProfiles) -> Pem
              [] owned(s) # {} -> OldProfiles[Min(owned(s))].secret
              [] OTHER -> Unset]

Init ==
    /\ install \in Installs
    /\ IF install = "old"
       THEN /\ native = 1 /\ keysMade = 1
            /\ db = [key |-> 1, doc |-> OldDoc]
            /\ connects = [state |-> "good", list |-> Meta(OldProfiles)]
       ELSE native = NoKey /\ keysMade = 0 /\ db = Absent /\ connects = NoFile
    /\ fallback = NoKey /\ available = TRUE
    /\ legacy = IF install = "legacy" THEN LegacyProfiles ELSE <<>>
    /\ phase = "down" /\ profiles = <<>> /\ prompt = <<>>
    /\ vm = NewManager /\ op = NoOp /\ calls = <<>> /\ at = 1 /\ result = Fresh
    /\ saved = FALSE     \* the last save of the profile list is known to be complete
    /\ damaged = FALSE   \* some file write removed or truncated its file
    /\ spent = [b \in DOMAIN Bound |-> 0]

Next ==
    \/ configureFileStorage \/ Load \/ listStoredKeys
    \/ \E p \in Inputs : saveCurrentFormAsProfile(p) \/ saveSessionProfile(p)
    \/ \E id \in ProfileIds : deleteSavedProfile(id) \/ moveProfile(id)
    \/ \E k \in StoredKeyIds :
          \/ forgetPassphrase(k) \/ removeStoredKey(k) \/ importKeyIntoKeyring(k)
          \/ \E s \in Secrets : savePassphrase(k, s) \/ generateKeyIntoKeyring(k, s)
    \/ \E s \in Secrets \union {NoSecret} : answerPrompt(s)
    \/ setProfileSystem
    \/ \E P \in RemotePayloads, keys \in SUBSET StoredKeyIds : applySynced(P, keys)
    \/ \E o \in Outcomes : saveConnectsJson(o) \/ rewriteDbvault(o)
    \/ keyRefused \/ vaultRefused \/ nothingToRemove \/ finish
    \/ stop \/ keyringGoes \/ keyringReturns

Spec == Init /\ [][Next]_vars

-----------------------------------------------------------------------------
(* Properties                                                                  *)

Manager == [key : Nat, loaded : BOOLEAN, doc : [Slots -> Values], aged : BOOLEAN]

TypeOK ==
    /\ {native, fallback, keysMade} \subseteq Nat /\ available \in BOOLEAN
    /\ db.key \in Nat \union {Garbage} /\ db.doc \in [Slots -> Values]
    /\ connects.state \in {"none", "good", "corrupt"}
    /\ phase \in {"down", "started", "idle", "busy"}
    /\ profiles \in Seq(Profile) /\ legacy \in Seq(Profile)
    /\ vm \in Manager
    /\ at \in Nat \ {0}
    /\ Len(prompt) <= 1
    /\ result \in [all : BOOLEAN, any : BOOLEAN]
    /\ spent \in [DOMAIN Bound -> Nat]

Intact(file) == file.key \notin {NoKey, Garbage}

\* Writing dbvault never loses what was in it: a write keeps the file's key and, apart
\* from the entries this operation's calls name, every entry.  A manager that was kept
\* over the nested event loop of the import prompt (aged) is the exception, and so
\* is a write that went wrong in the file system.
CallsKeepTheRest ==
    LET named == {calls[i].slot : i \in 1..at} IN
    Intact(db) /\ Intact(db') /\ ~vm.aged =>
        /\ db'.key = db.key
        /\ \A s \in Slots : db'.doc[s] # db.doc[s] => s \in named
WritesKeepTheRest == [][CallsKeepTheRest]_vars

\* As long as the OS keyring never went away, the key that ensureDbKey finds opens
\* dbvault, whatever was interrupted: a fresh key is stored before it is used.
KeyOpensVault ==
    spent["outages"] = 0 /\ Intact(db) => KeyFound = db.key

\* What loadProfiles would return now, without the plaintext leftovers.
Reloaded == LoadedProfiles(connects.list, IF Opens(KeyFound) THEN db.doc ELSE EmptyDoc)

\* A save that reported success is durable: while the master key is found, loading gives
\* back every profile and every secret in memory.  Profiles that share a stored key
\* get back the secret of one of them.
SavedIsDurable ==
    /\ TypeOK
    /\ phase = "idle" /\ saved /\ ~damaged /\ Opens(KeyFound) =>
           /\ connects.state \in {"good", "none"} /\ Len(Reloaded) = Len(profiles)
           /\ \A i \in DOMAIN profiles :
                 /\ \A f \in {"id", "auth", "save"} : Reloaded[i][f] = profiles[i][f]
                 /\ \E j \in DOMAIN profiles : /\ profiles[j].auth = profiles[i].auth
                                             /\ profiles[i].auth \notin StoredKeyIds => j = i
                                             /\ Reloaded[i].secret = profiles[j].secret

\* After a successful save the vault holds the secrets the user opted in to keep and
\* none of the listed profiles' others.
OnlyOptedIn ==
    phase = "idle" /\ saved /\ ~damaged =>
        \A i \in DOMAIN profiles :
            LET p == profiles[i] IN
            /\ db.doc[<<p.id, "password">>] \in Secrets => p.auth = "password" /\ p.save
            /\ db.doc[<<p.id, "keyPassphrase">>] \in Secrets => p.auth = "keyFile" /\ p.save
            /\ p.auth \in StoredKeyIds /\ db.doc[<<p.auth, "passphrase">>] \in Secrets =>
                   \E j \in DOMAIN profiles : profiles[j].auth = p.auth /\ profiles[j].save

\* What a save that reported success means on disk, see each part.
SavedIsWhatWasAsked == SavedIsDurable /\ OnlyOptedIn

\* Wherever an operation is interrupted, a profile it leaves alone keeps its secret
\* in the vault; a stored key keeps the secret of some profile using it.
BystandersKeepSecrets ==
    phase = "busy" /\ saved /\ ~damaged =>
        \A i \in DOMAIN profiles :
            LET p == profiles[i]
                kept == \E j \in DOMAIN op.target : op.target[j] = p
                sharing == {q \in Range(profiles) \union Range(op.target) : q.auth = p.auth}
            IN  kept /\ p.save /\ p.secret # NoSecret =>
                    /\ p.auth = "password" => db.doc[<<p.id, "password">>] = p.secret
                    /\ p.auth = "keyFile" => db.doc[<<p.id, "keyPassphrase">>] = p.secret
                    /\ p.auth \in StoredKeyIds =>
                           db.doc[<<p.auth, "passphrase">>] \in {q.secret : q \in sharing}

\* Moving the per-profile passphrases of an older vault to their stored keys loses
\* none of them, whatever is interrupted on the way, until the user saves.  Of one key
\* this holds when writes fail, too.  Of several it does not: one passphrase moved is
\* enough for the save that removes the old copies of all.
MigrationKeepsPassphrases ==
    /\ install = "old" /\ spent["saves"] = 0 /\ spent["outages"] = 0 /\ ~damaged
    /\ spent["faults"] = 0 \/ \A k, l \in KeysUsed(OldProfiles) : k = l
    => \A i \in DOMAIN OldProfiles :
           LET p == OldProfiles[i] IN
           p.auth \in StoredKeyIds /\ p.save /\ p.secret # NoSecret =>
               \/ db.doc[<<p.id, "keyPassphrase">>] = p.secret
               \/ \E j \in DOMAIN OldProfiles :
                     LET q == OldProfiles[j] IN
                     q.auth = p.auth /\ q.secret # NoSecret /\ db.doc[<<p.auth, "passphrase">>] = q.secret

\* README.md: leftover legacy plaintext profile entries are migrated into the vault and
\* wiped on startup.  After an undisturbed first launch each of them has its secret there.
LegacyIsMigrated ==
    /\ install = "legacy" /\ phase = "idle"
    /\ \A b \in DOMAIN Bound : spent[b] = 0
    => \A i \in DOMAIN LegacyProfiles : LegacyProfiles[i] \in Range(Reloaded)

\* KeyringAdapter.h: when the keyring is unavailable the adapter transparently falls back
\* to a local store, which keeps dbvault working everywhere.  Once the keyring answers
\* again, the key it finds still opens dbvault.
VaultOpensAfterOutage == available /\ Intact(db) => KeyFound = db.key
====
