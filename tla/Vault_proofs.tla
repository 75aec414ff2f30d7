---------------------------- MODULE Vault_proofs ----------------------------
(* Proofs about Vault, for any profiles, keys, secrets and bounds: the master  *)
(* key found opens dbvault as long as the keyring never went away, a write     *)
(* never loses what other operations put into the file, the migration of an    *)
(* older vault loses no passphrase wherever it is interrupted, a save that     *)
(* succeeded left in the files what was asked, and a profile that an operation *)
(* leaves alone keeps its secret all the time.                                 *)
EXTENDS Vault, FiniteSetTheorems, SequenceTheorems, WellFoundedInduction, TLAPS

Fields == {"key", "loaded", "doc", "aged"}

\* The parts of the state the proofs look into have their shape.
Shape ==
    /\ native \in Nat /\ fallback \in Nat /\ keysMade \in Nat /\ available \in BOOLEAN
    /\ DOMAIN db.doc = Slots /\ db.key \in Nat \union {Garbage}
    /\ DOMAIN vm = Fields /\ vm.key \in Nat /\ DOMAIN vm.doc = Slots
    /\ prompt # <<>> => DOMAIN prompt[1].vm = Fields /\ prompt[1].vm.key \in Nat
                        /\ DOMAIN prompt[1].vm.doc = Slots
    /\ at \in Nat \ {0}
    /\ spent["outages"] \in Nat /\ DOMAIN spent = {"saves", "faults", "crashes", "outages"}

\* Without an outage, every master key in use is the one that is found.
OneKey ==
    spent["outages"] = 0 =>
        /\ available
        /\ Intact(db) => KeyFound = db.key
        /\ vm.key # NoKey => vm.key = KeyFound
        /\ prompt # <<>> /\ prompt[1].vm.key # NoKey => prompt[1].vm.key = KeyFound

\* A manager that loaded the document agrees with the file but for the entries named
\* by the calls it has made.
CacheFresh ==
    vm.loaded /\ ~vm.aged =>
        /\ vm.key # NoKey
        /\ Intact(db) =>
              /\ vm.key = db.key
              /\ \A s \in Slots : vm.doc[s] # db.doc[s] =>
                    \E i \in 1..at - 1 : s = calls[i].slot

Inv == Shape /\ OneKey /\ CacheFresh

-----------------------------------------------------------------------------
(* ensureDbKey                                                                 *)

\* Whatever ensureDbKey does, the key it returns is a real one, it is the key of the
\* manager if that had one, and it leaves a key that was there to be found.
LEMMA EnsureDbKeyFinds ==
    ASSUME NEW m, Shape, m.key \in Nat, EnsureDbKey(m)
    PROVE  /\ native' \in Nat /\ fallback' \in Nat /\ keysMade' \in Nat /\ available' = available
           /\ DbKey(m) \in Nat \ {NoKey}
           /\ m.key # NoKey => DbKey(m) = m.key
           /\ KeyFound # NoKey => KeyFound' = KeyFound
           /\ m.key = NoKey => KeyFound' = DbKey(m)
           /\ m.key # NoKey => KeyFound' = KeyFound
BY DEF Shape, EnsureDbKey, MakesKey, DbKey, KeyFound, RetrieveNative, RetrieveFallback,
       StoreNative, StoreFallback, NoKey

\* A manager that has just been constructed.
LEMMA NewManagerShape ==
    /\ DOMAIN NewManager = Fields /\ NewManager.key = NoKey /\ NoKey \in Nat
    /\ DOMAIN NewManager.doc = Slots /\ NewManager.loaded = FALSE /\ NewManager.aged = FALSE
BY DEF NewManager, Fields, NoKey, EmptyDoc

\* Spending on anything but an outage leaves the count of outages.
LEMMA SpendsNoOutage ==
    ASSUME NEW k, k # "outages", Shape, Spend(k)
    PROVE  spent'["outages"] = spent["outages"] /\ DOMAIN spent' = DOMAIN spent
BY DEF Shape, Spend

-----------------------------------------------------------------------------
(* The initial state                                                           *)

THEOREM InitEstablishes == Init => Inv
<1> SUFFICES ASSUME Init PROVE Inv
  OBVIOUS
<1>1. DOMAIN EmptyDoc = Slots /\ DOMAIN OldDoc = Slots
  BY DEF EmptyDoc, OldDoc
<1>2. spent["outages"] = 0 /\ DOMAIN spent = {"saves", "faults", "crashes", "outages"}
  BY DEF Init, Bound
<1>3. DOMAIN db.doc = Slots /\ db.key \in Nat /\ (Intact(db) => native = db.key /\ native # NoKey)
  <2>1. CASE install = "old"
    BY <2>1, <1>1 DEF Init, Intact, NoKey
  <2>2. CASE install # "old"
    BY <2>2, <1>1 DEF Init, Intact, NoKey, Absent
  <2> QED
    BY <2>1, <2>2
<1>4. Shape
  BY <1>2, <1>3, NewManagerShape DEF Init, Shape, NoKey
<1>5. OneKey
  BY <1>3, NewManagerShape DEF Init, OneKey, KeyFound, RetrieveNative, RetrieveFallback
<1>6. CacheFresh
  BY NewManagerShape DEF Init, CacheFresh
<1> QED
  BY <1>4, <1>5, <1>6 DEF Inv

-----------------------------------------------------------------------------
(* Steps that leave the keyring and dbvault alone                              *)

\* They keep the manager, with more calls made, or start with a new one.
LEMMA Unaffected ==
    ASSUME Inv, UNCHANGED <<keyring, db>>, at' \in Nat \ {0},
           spent'["outages"] = spent["outages"], DOMAIN spent' = DOMAIN spent,
           vm' = NewManager \/ (vm' = vm /\ calls' = calls /\ at' >= at),
           prompt' = prompt \/ prompt' = <<>> \/ (prompt' # <<>> /\ prompt'[1].vm = vm)
    PROVE  Inv'
<1> USE DEF keyring
<1>1. Shape'
  BY NewManagerShape DEF Inv, Shape
<1>2. KeyFound' = KeyFound /\ (Intact(db))' = Intact(db)
  BY DEF KeyFound, RetrieveNative, RetrieveFallback, Intact
<1>3. OneKey'
  BY <1>2, NewManagerShape DEF Inv, OneKey
<1>4. CacheFresh'
  <2>1. CASE vm' = NewManager
    BY <2>1, NewManagerShape DEF CacheFresh
  <2>2. CASE vm' = vm /\ calls' = calls /\ at' >= at
    <3>1. \A i \in 1..at - 1 : i \in 1..at' - 1
      <4>1. at \in Nat /\ at' \in Nat /\ at' >= at
        BY <2>2 DEF Inv, Shape
      <4>2. \A m, n \in Nat : n >= m => \A i \in 1..m - 1 : i \in 1..n - 1
        OBVIOUS
      <4> QED
        BY <4>1, <4>2
    <3>2. vm'.loaded = vm.loaded /\ vm'.aged = vm.aged /\ vm'.key = vm.key /\ vm'.doc = vm.doc
          /\ db' = db /\ calls' = calls
      BY <2>2
    <3>3. ASSUME vm.loaded, ~vm.aged, Intact(db), NEW s \in Slots, vm.doc[s] # db.doc[s]
          PROVE  \E i \in 1..at' - 1 : s = calls[i].slot
      BY <3>1, <3>3 DEF Inv, CacheFresh
    <3> QED
      BY <3>2, <3>3, <1>2 DEF Inv, CacheFresh
  <2> QED
    BY <2>1, <2>2
<1> QED
  BY <1>1, <1>3, <1>4 DEF Inv

-----------------------------------------------------------------------------
(* Calls on dbvault                                                            *)

\* Made by a manager that goes on under the key it found, with the document unchanged
\* in the file.
LEMMA RefusedOrSkipped ==
    ASSUME Inv, EnsureDbKey(vm), db' = db, calls' = calls, at' = at + 1, prompt' = prompt,
           spent' = spent, NEW d, DOMAIN d = Slots, vm.loaded => d = vm.doc,
           vm' = [vm EXCEPT !.key = DbKey(vm), !.doc = d]
    PROVE  Inv'
<1>1. Shape /\ OneKey /\ CacheFresh
  BY DEF Inv
<1>2. vm.key \in Nat
  BY <1>1 DEF Shape
<1>3. /\ native' \in Nat /\ fallback' \in Nat /\ keysMade' \in Nat /\ available' = available
      /\ DbKey(vm) \in Nat \ {NoKey} /\ (vm.key # NoKey => DbKey(vm) = vm.key)
      /\ (KeyFound # NoKey => KeyFound' = KeyFound)
      /\ (vm.key = NoKey => KeyFound' = DbKey(vm)) /\ (vm.key # NoKey => KeyFound' = KeyFound)
  BY <1>1, <1>2, EnsureDbKeyFinds
<1>4. /\ vm'.key = DbKey(vm) /\ vm'.doc = d /\ vm'.loaded = vm.loaded /\ vm'.aged = vm.aged
      /\ DOMAIN vm' = Fields
  BY <1>1 DEF Shape, Fields
<1>5. Shape'
  BY <1>1, <1>3, <1>4 DEF Shape
<1>6. OneKey'
  BY <1>1, <1>3, <1>4 DEF OneKey, Intact
<1>7. CacheFresh'
  <2>1. \A i \in 1..at - 1 : i \in 1..at' - 1
    BY <1>1 DEF Shape
  <2>2. ASSUME vm.loaded, ~vm.aged, Intact(db), NEW s \in Slots, vm.doc[s] # db.doc[s]
        PROVE  \E i \in 1..at' - 1 : s = calls[i].slot
    BY <2>1, <2>2, <1>1 DEF CacheFresh
  <2> QED
    BY <2>2, <1>1, <1>3, <1>4 DEF CacheFresh, Intact
<1> QED
  BY <1>5, <1>6, <1>7 DEF Inv

\* The document a call is about to write, against the one in the file: same key, and
\* only entries named by the calls made so far differ.
LEMMA RewriteKeepsTheRest ==
    ASSUME Inv, NEW o \in Outcomes, rewriteDbvault(o),
           NEW doc, doc = [DocOf(vm) EXCEPT ![call.slot] = call.value]
    PROVE  /\ DOMAIN doc = Slots
           /\ Intact(db) /\ ~vm.aged =>
                 /\ DbKey(vm) = db.key
                 /\ \A s \in Slots : doc[s] # db.doc[s] => \E i \in 1..at : s = calls[i].slot
<1>1. Shape /\ OneKey /\ CacheFresh /\ Readable
  BY DEF Inv, rewriteDbvault
<1>2. DOMAIN DocOf(vm) = Slots
  BY <1>1 DEF Shape, DocOf
<1>3. DOMAIN doc = Slots /\ \A s \in Slots : doc[s] # DocOf(vm)[s] => s = calls[at].slot
  BY <1>2 DEF call
<1>4. ASSUME Intact(db), ~vm.aged
      PROVE  /\ DbKey(vm) = db.key
             /\ \A s \in Slots : doc[s] # db.doc[s] => \E i \in 1..at : s = calls[i].slot
  <2>1. db # Absent
    BY <1>4 DEF Intact, Absent
  <2>2. at \in 1..at /\ \A i \in 1..at - 1 : i \in 1..at
    BY <1>1 DEF Shape
  <2>3. CASE vm.loaded
    <3>1. /\ vm.key = db.key /\ DbKey(vm) = db.key
          /\ \A s \in Slots : vm.doc[s] # db.doc[s] => \E i \in 1..at - 1 : s = calls[i].slot
      BY <2>3, <1>1, <1>4 DEF CacheFresh, DbKey
    <3>2. DocOf(vm) = vm.doc
      BY <2>3 DEF DocOf
    <3> QED
      BY <3>1, <3>2, <1>3, <2>2
  <2>4. CASE ~vm.loaded
    <3>1. DbKey(vm) = db.key /\ DocOf(vm) = db.doc
      BY <2>4, <2>1, <1>1 DEF Readable, Opens, DocOf
    <3> QED
      BY <3>1, <1>3, <2>2
  <2> QED
    BY <2>3, <2>4
<1> QED
  BY <1>3, <1>4

LEMMA RewriteKeepsInv ==
    ASSUME Inv, NEW o \in Outcomes, rewriteDbvault(o)
    PROVE  Inv'
<1> DEFINE doc == [DocOf(vm) EXCEPT ![call.slot] = call.value]
<1>1. Shape /\ OneKey /\ CacheFresh
  BY DEF Inv
<1>2. /\ DOMAIN doc = Slots
      /\ Intact(db) /\ ~vm.aged =>
            /\ DbKey(vm) = db.key
            /\ \A s \in Slots : doc[s] # db.doc[s] => \E i \in 1..at : s = calls[i].slot
  BY RewriteKeepsTheRest
<1>3. EnsureDbKey(vm) /\ vm.key \in Nat
  BY <1>1 DEF rewriteDbvault, Shape
<1>4. /\ native' \in Nat /\ fallback' \in Nat /\ keysMade' \in Nat /\ available' = available
      /\ DbKey(vm) \in Nat \ {NoKey} /\ (vm.key # NoKey => DbKey(vm) = vm.key)
      /\ (KeyFound # NoKey => KeyFound' = KeyFound)
      /\ (vm.key = NoKey => KeyFound' = DbKey(vm)) /\ (vm.key # NoKey => KeyFound' = KeyFound)
  BY <1>1, <1>3, EnsureDbKeyFinds
<1>5. /\ vm' = [vm EXCEPT !.key = DbKey(vm), !.doc = doc, !.loaded = @ \/ call.op = "store"]
      /\ db' = persistDbvault(DbKey(vm), doc, o)
      /\ at' = at + 1 /\ calls' = calls /\ prompt' = prompt
  BY DEF rewriteDbvault, Returns
<1>6. /\ vm'.key = DbKey(vm) /\ vm'.doc = doc /\ vm'.aged = vm.aged /\ DOMAIN vm' = Fields
  BY <1>1, <1>5 DEF Shape, Fields
<1>7. spent'["outages"] = spent["outages"] /\ DOMAIN spent' = DOMAIN spent
  <2>1. spent' = spent \/ Spend("faults")
    BY DEF rewriteDbvault, Outcome
  <2> QED
    BY <2>1, <1>1, SpendsNoOutage
<1>8. \/ db' = [key |-> DbKey(vm), doc |-> doc]
      \/ db' = db
      \/ ~(Intact(db))' /\ DOMAIN db'.doc = Slots /\ db'.key \in Nat \union {Garbage}
  BY <1>5 DEF persistDbvault, Outcomes, Absent, Truncated, Intact, EmptyDoc, NoKey
<1>9. Shape'
  BY <1>1, <1>2, <1>4, <1>5, <1>6, <1>7, <1>8 DEF Shape
<1>10. OneKey'
  <2>1. SUFFICES ASSUME spent["outages"] = 0
                 PROVE  /\ available' /\ vm'.key = KeyFound'
                        /\ (Intact(db))' => KeyFound' = db'.key
                        /\ prompt # <<>> /\ prompt[1].vm.key # NoKey
                              => prompt[1].vm.key = KeyFound'
    BY <1>5, <1>7 DEF OneKey
  <2>2. available /\ vm'.key = KeyFound'
    BY <2>1, <1>1, <1>4, <1>6 DEF OneKey
  <2>3. (Intact(db))' => KeyFound' = db'.key
    BY <2>1, <2>2, <1>1, <1>4, <1>6, <1>8 DEF OneKey, Intact
  <2>4. prompt # <<>> /\ prompt[1].vm.key # NoKey => prompt[1].vm.key = KeyFound'
    BY <2>1, <1>1, <1>4 DEF OneKey
  <2> QED
    BY <2>2, <2>3, <2>4, <1>4
<1>11. CacheFresh'
  <2>1. SUFFICES ASSUME ~vm.aged, (Intact(db))'
                 PROVE  /\ DbKey(vm) = db'.key
                        /\ \A s \in Slots : doc[s] # db'.doc[s] =>
                              \E i \in 1..at : s = calls[i].slot
    <3>1. at' - 1 = at
      BY <1>1, <1>5 DEF Shape
    <3> QED
      BY <3>1, <1>4, <1>5, <1>6 DEF CacheFresh
  <2>2. CASE db' = [key |-> DbKey(vm), doc |-> doc]
    BY <2>2
  <2>3. CASE db' = db
    BY <2>1, <2>3, <1>2 DEF Intact
  <2> QED
    BY <2>1, <2>2, <2>3, <1>8
<1> QED
  BY <1>9, <1>10, <1>11 DEF Inv

-----------------------------------------------------------------------------
(* Every step                                                                  *)

LEMMA LoadKeepsInv ==
    ASSUME Inv, Load
    PROVE  Inv'
<1>1. Shape /\ OneKey /\ CacheFresh
  BY DEF Inv
<1>2. PICK stored \in BOOLEAN :
         /\ stored \/ (MakesKey(NewManager) /\ Spend("faults"))
         /\ stored => spent' = spent
         /\ EnsureDbKey(NewManager) \/ UNCHANGED keyring
         /\ \/ vm' = NewManager
            \/ vm' = [NewManager EXCEPT !.key = NoKey]
            \/ /\ vm' = [NewManager EXCEPT !.key = DbKey(NewManager)]
               /\ EnsureDbKey(NewManager) \/ ~MakesKey(NewManager)
  BY DEF Load
<1>3. at' = 1 /\ db' = db /\ prompt' = prompt
  BY DEF Load, Start, disk
<1>4. spent'["outages"] = spent["outages"] /\ DOMAIN spent' = DOMAIN spent
  BY <1>1, <1>2, SpendsNoOutage
<1>5. /\ native' \in Nat /\ fallback' \in Nat /\ keysMade' \in Nat /\ available' = available
      /\ KeyFound # NoKey => KeyFound' = KeyFound
  <2>1. CASE EnsureDbKey(NewManager)
    BY <2>1, <1>1, NewManagerShape, EnsureDbKeyFinds
  <2>2. CASE UNCHANGED keyring
    BY <2>2, <1>1 DEF keyring, Shape, KeyFound, RetrieveNative, RetrieveFallback
  <2> QED
    BY <2>1, <2>2, <1>2
<1>6. /\ DOMAIN vm' = Fields /\ vm'.loaded = FALSE /\ DOMAIN vm'.doc = Slots
      /\ vm'.key \in Nat /\ (vm'.key # NoKey => vm'.key = KeyFound')
  <2>1. CASE vm' = NewManager \/ vm' = [NewManager EXCEPT !.key = NoKey]
    BY <2>1, NewManagerShape DEF Fields
  <2>2. CASE vm' = [NewManager EXCEPT !.key = DbKey(NewManager)] /\ EnsureDbKey(NewManager)
    BY <2>2, <1>1, NewManagerShape, EnsureDbKeyFinds DEF Fields
  <2>3. CASE vm' = [NewManager EXCEPT !.key = DbKey(NewManager)] /\ ~MakesKey(NewManager)
    <3>1. DbKey(NewManager) = KeyFound /\ KeyFound # NoKey /\ KeyFound \in Nat
      BY <2>3, <1>1, NewManagerShape DEF DbKey, MakesKey, KeyFound, RetrieveNative, RetrieveFallback, Shape
    <3> QED
      BY <2>3, <3>1, <1>5, NewManagerShape DEF Fields
  <2> QED
    BY <2>1, <2>2, <2>3, <1>2
<1>7. Shape'
  BY <1>1, <1>3, <1>4, <1>5, <1>6 DEF Shape
<1>8. OneKey'
  BY <1>1, <1>3, <1>4, <1>5, <1>6 DEF OneKey, Intact
<1>9. CacheFresh'
  BY <1>6 DEF CacheFresh
<1> QED
  BY <1>7, <1>8, <1>9 DEF Inv

\* The answer to the import prompt goes on with the manager kept there.
LEMMA AnswerKeepsInv ==
    ASSUME Inv, NEW s, answerPrompt(s)
    PROVE  Inv'
<1>1. Shape /\ OneKey /\ CacheFresh /\ prompt # <<>>
  BY DEF Inv, answerPrompt
<1>2. CASE s = NoSecret
  <2>1. UNCHANGED <<keyring, db, spent, vm, calls, at>> /\ prompt' = <<>>
    BY <1>2 DEF answerPrompt, work, disk
  <2>2. at \in Nat \ {0} /\ at >= at
    BY <1>1 DEF Shape
  <2> QED
    BY <2>1, <2>2, Unaffected
<1>3. CASE s # NoSecret
  <2>1. /\ UNCHANGED <<keyring, db, spent>> /\ at' = 1 /\ prompt' = <<>>
        /\ vm' = [prompt[1].vm EXCEPT !.aged = TRUE]
    BY <1>3 DEF answerPrompt, Start, disk
  <2>2. /\ DOMAIN vm' = Fields /\ vm'.key = prompt[1].vm.key /\ vm'.aged
        /\ vm'.doc = prompt[1].vm.doc
    BY <2>1, <1>1 DEF Shape, Fields
  <2>3. KeyFound' = KeyFound /\ (Intact(db))' = Intact(db) /\ available' = available
    BY <2>1 DEF KeyFound, RetrieveNative, RetrieveFallback, Intact, keyring
  <2>4. Shape'
    BY <2>1, <2>2, <1>1 DEF Shape, keyring
  <2>5. OneKey'
    BY <2>1, <2>2, <2>3, <1>1 DEF OneKey
  <2>6. CacheFresh'
    BY <2>2 DEF CacheFresh
  <2> QED
    BY <2>4, <2>5, <2>6 DEF Inv
<1> QED
  BY <1>2, <1>3

\* The keyring goes away, which OneKey is not about, or comes back, which it then cannot.
LEMMA OutageKeepsInv ==
    ASSUME Inv, keyringGoes \/ keyringReturns
    PROVE  Inv'
<1>1. Shape /\ OneKey /\ CacheFresh
  BY DEF Inv
<1>2. UNCHANGED <<native, fallback, keysMade, db, vm, calls, at, prompt>> /\ available' \in BOOLEAN
  BY DEF keyringGoes, keyringReturns, disk, work
<1>3. DOMAIN spent' = DOMAIN spent /\ spent'["outages"] \in Nat \ {0}
  <2>1. CASE keyringGoes
    BY <2>1, <1>1 DEF keyringGoes, Spend, Shape
  <2>2. CASE keyringReturns
    BY <2>2, <1>1 DEF keyringReturns, Shape, OneKey
  <2> QED
    BY <2>1, <2>2
<1>4. Shape'
  BY <1>1, <1>2, <1>3 DEF Shape
<1>5. OneKey'
  BY <1>3 DEF OneKey
<1>6. CacheFresh'
  BY <1>1, <1>2 DEF CacheFresh, Intact
<1> QED
  BY <1>4, <1>5, <1>6 DEF Inv

\* Operations that start: a new manager, nothing written yet.
LEMMA StartKeepsInv ==
    ASSUME Inv, Begin \/ Arrives, vm' = NewManager, at' = 1
    PROVE  Inv'
<1>1. UNCHANGED <<keyring, db, prompt>> /\ Spend("saves")
  BY DEF Begin, Arrives, disk
<1> QED
  BY <1>1, SpendsNoOutage, Unaffected DEF Inv

THEOREM StepKeepsInv ==
    ASSUME Inv, [Next]_vars
    PROVE  Inv'
<1>1. Shape /\ at \in Nat \ {0} /\ at + 1 \in Nat \ {0} /\ at + 1 >= at /\ at >= at
      /\ 1 \in Nat \ {0}
  BY DEF Inv, Shape
<1>2. CASE UNCHANGED vars
  BY <1>1, <1>2, Unaffected DEF vars, work, disk, history
<1>3. CASE configureFileStorage
  BY <1>1, <1>3, Unaffected DEF configureFileStorage, work, history
<1>4. CASE Load
  BY <1>4, LoadKeepsInv
<1>5. CASE listStoredKeys
  <2>1. /\ EnsureDbKey(NewManager)
        /\ UNCHANGED <<db, vm, calls, at, prompt, spent>>
    BY <1>5 DEF listStoredKeys, disk, work, history
  <2>2. /\ native' \in Nat /\ fallback' \in Nat /\ keysMade' \in Nat /\ available' = available
        /\ KeyFound # NoKey => KeyFound' = KeyFound
    BY <2>1, <1>1, NewManagerShape, EnsureDbKeyFinds
  <2>3. Shape'
    BY <2>1, <2>2, <1>1 DEF Shape
  <2>4. OneKey'
    BY <2>1, <2>2 DEF Inv, OneKey, Intact
  <2>5. CacheFresh'
    BY <2>1 DEF Inv, CacheFresh, Intact
  <2> QED
    BY <2>3, <2>4, <2>5 DEF Inv
<1>6. CASE \E p \in Inputs : saveCurrentFormAsProfile(p) \/ saveSessionProfile(p)
  BY <1>6, StartKeepsInv DEF saveCurrentFormAsProfile, saveSessionProfile, SaveAll, Start
<1>7. CASE \E id \in ProfileIds : deleteSavedProfile(id) \/ moveProfile(id)
  BY <1>7, StartKeepsInv DEF deleteSavedProfile, moveProfile, SaveAll, Start
<1>8. CASE \E k \in StoredKeyIds : forgetPassphrase(k) \/ removeStoredKey(k) \/ importKeyIntoKeyring(k)
  BY <1>8, StartKeepsInv DEF forgetPassphrase, removeStoredKey, importKeyIntoKeyring, Start
<1>9. CASE \E k \in StoredKeyIds, s \in Secrets : savePassphrase(k, s) \/ generateKeyIntoKeyring(k, s)
  BY <1>9, StartKeepsInv DEF savePassphrase, generateKeyIntoKeyring, Start
<1>10. CASE \E s \in Secrets \union {NoSecret} : answerPrompt(s)
  BY <1>10, AnswerKeepsInv
<1>11. CASE setProfileSystem
  BY <1>11, StartKeepsInv DEF setProfileSystem, SaveAll, Start
<1>12. CASE \E P \in RemotePayloads, keys \in SUBSET StoredKeyIds : applySynced(P, keys)
  BY <1>12, StartKeepsInv DEF applySynced, Start
<1>13. CASE \E o \in Outcomes : saveConnectsJson(o)
  <2>1. PICK o \in Outcomes : saveConnectsJson(o)
    BY <1>13
  <2>2. UNCHANGED <<keyring, db, prompt>> /\ vm' = NewManager /\ at' = at + 1
    BY <2>1 DEF saveConnectsJson, Returns
  <2>3. spent' = spent \/ Spend("faults")
    BY <2>1 DEF saveConnectsJson, Outcome
  <2> QED
    BY <2>2, <2>3, <1>1, SpendsNoOutage, Unaffected
<1>14. CASE \E o \in Outcomes : rewriteDbvault(o)
  BY <1>14, RewriteKeepsInv
<1>15. CASE keyRefused
  <2>1. UNCHANGED <<keyring, db, prompt, vm, calls>> /\ at' = at + 1 /\ Spend("faults")
    BY <1>15 DEF keyRefused, Returns, disk
  <2> QED
    BY <2>1, <1>1, SpendsNoOutage, Unaffected
<1>16. CASE vaultRefused
  <2>1. /\ EnsureDbKey(vm) /\ UNCHANGED <<db, calls, prompt, spent>> /\ at' = at + 1
        /\ vm' = [vm EXCEPT !.key = DbKey(vm)]
    BY <1>16 DEF vaultRefused, Returns, disk, history
  <2>2. vm' = [vm EXCEPT !.key = DbKey(vm), !.doc = vm.doc] /\ DOMAIN vm.doc = Slots
    BY <2>1, <1>1 DEF Shape, Fields
  <2> QED
    BY <2>1, <2>2, RefusedOrSkipped
<1>17. CASE nothingToRemove
  <2>1. /\ EnsureDbKey(vm) /\ UNCHANGED <<db, calls, prompt, spent>> /\ at' = at + 1
        /\ vm' = [vm EXCEPT !.key = DbKey(vm), !.doc = DocOf(vm)]
    BY <1>17 DEF nothingToRemove, Returns, disk, history
  <2>2. DOMAIN DocOf(vm) = Slots /\ (vm.loaded => DocOf(vm) = vm.doc)
    BY <1>1 DEF Shape, DocOf
  <2> QED
    BY <2>1, <2>2, RefusedOrSkipped
<1>18. CASE finish
  <2>1. UNCHANGED <<keyring, db, spent>> /\ vm' = NewManager /\ at' = 1
    BY <1>18 DEF finish, NoWork, Start, disk, wipeLegacyProfiles
  <2>2. prompt' = prompt \/ prompt' = <<[key |-> calls[1].slot[1], vm |-> vm]>>
    BY <1>18, ZenonT(40) DEF finish
  <2>3. prompt' = prompt \/ (prompt' # <<>> /\ prompt'[1].vm = vm)
    <3> DEFINE copied == [key |-> calls[1].slot[1], vm |-> vm]
    <3>1. copied.vm = vm
      OBVIOUS
    <3>2. prompt' = prompt \/ prompt' = <<copied>>
      BY <2>2
    <3> HIDE DEF copied
    <3> QED
      BY <3>1, <3>2
  <2> QED
    BY <2>1, <2>3, <1>1, Unaffected
<1>19. CASE stop
  <2>1. UNCHANGED <<keyring, db>> /\ vm' = NewManager /\ at' = 1 /\ prompt' = <<>> /\ Spend("crashes")
    BY <1>19 DEF stop, NoWork, disk
  <2> QED
    BY <2>1, <1>1, SpendsNoOutage, Unaffected
<1>20. CASE keyringGoes \/ keyringReturns
  BY <1>20, OutageKeepsInv
<1> QED
  BY <1>2, <1>3, <1>4, <1>5, <1>6, <1>7, <1>8, <1>9, <1>10, <1>11, <1>12, <1>13, <1>14, <1>15,
     <1>16, <1>17, <1>18, <1>19, <1>20 DEF Next

\* The invariant holds of every behaviour.
THEOREM VaultInvariance == Spec => []Inv
  BY InitEstablishes, StepKeepsInv, PTL DEF Spec

-----------------------------------------------------------------------------
(* The results                                                                 *)

\* While the OS keyring has not gone away, ensureDbKey finds the key of dbvault.
THEOREM KeyAlwaysOpens == Spec => []KeyOpensVault
<1>1. Inv => KeyOpensVault
  BY DEF Inv, OneKey, KeyOpensVault
<1> QED
  BY <1>1, VaultInvariance, PTL

\* A call writes over nothing but the entries its operation names.
THEOREM NothingOverwritten == Spec => WritesKeepTheRest
<1>1. Inv /\ [Next]_vars => [CallsKeepTheRest]_vars
  <2> SUFFICES ASSUME Inv, Next, Intact(db), (Intact(db))', ~vm.aged, db' # db
               PROVE  /\ db'.key = db.key
                      /\ \A s \in Slots : db'.doc[s] # db.doc[s] =>
                            s \in {calls[i].slot : i \in 1..at}
    BY DEF CallsKeepTheRest, Intact
  <2>1. PICK o \in Outcomes : rewriteDbvault(o)
    BY DEF Next, configureFileStorage, Load, listStoredKeys, saveCurrentFormAsProfile,
           saveSessionProfile, deleteSavedProfile, moveProfile, forgetPassphrase, savePassphrase,
           removeStoredKey, importKeyIntoKeyring, generateKeyIntoKeyring, answerPrompt,
           setProfileSystem, applySynced, saveConnectsJson, keyRefused, vaultRefused,
           nothingToRemove, finish, stop, keyringGoes, keyringReturns, Begin, Arrives, disk
  <2> DEFINE doc == [DocOf(vm) EXCEPT ![call.slot] = call.value]
  <2>2. /\ DbKey(vm) = db.key
        /\ \A s \in Slots : doc[s] # db.doc[s] => \E i \in 1..at : s = calls[i].slot
    BY <2>1, RewriteKeepsTheRest
  <2>3. db' = [key |-> DbKey(vm), doc |-> doc]
    BY <2>1 DEF rewriteDbvault, persistDbvault, Outcomes, Absent, Truncated, Intact
  <2> QED
    BY <2>2, <2>3
<1> QED
  BY <1>1, VaultInvariance, PTL DEF Spec, WritesKeepTheRest

-----------------------------------------------------------------------------
(* Sets, sequences and the least member of a set                               *)

\* A set of naturals has a least member.
LEMMA LeastExists ==
    ASSUME NEW S \in SUBSET Nat, S # {}
    PROVE  Min(S) \in S /\ \A y \in S : Min(S) <= y
<1>1. \E x \in S : \A y \in S : ~(<<y, x>> \in OpToRel(<, Nat))
  BY NatLessThanWellFounded, WFMin
<1>3. ASSUME NEW x \in Nat, NEW y \in Nat, y < x
      PROVE  <<y, x>> \in OpToRel(<, Nat)
  BY <1>3, Zenon DEF OpToRel
<1>2. \E x \in S : \A y \in S : x <= y
  <2>1. PICK x \in S : \A y \in S : ~(<<y, x>> \in OpToRel(<, Nat))
    BY <1>1
  <2>2. \A y \in S : ~(y < x)
    BY <2>1, <1>3
  <2> QED
    BY <2>2
<1> QED
  BY <1>2 DEF Min

\* SetToSeq lists the members of a finite set.
LEMMA ListsAll ==
    ASSUME NEW S, IsFiniteSet(S)
    PROVE  /\ Cardinality(S) \in Nat
           /\ SetToSeq(S) \in [1..Cardinality(S) -> S]
           /\ \A s \in S : \E i \in 1..Cardinality(S) : SetToSeq(S)[i] = s
<1> DEFINE n == Cardinality(S)
<1>1. n \in Nat /\ ExistsBijection(1..n, S)
  BY FS_CardinalityType
<1>2. PICK f \in [1..n -> S] : IsInjective(f)
  BY <1>1 DEF ExistsBijection, Bijection, Injection
<1>3. SetToSeq(S) \in [1..n -> S] /\ IsInjective(SetToSeq(S))
  BY <1>2 DEF SetToSeq
<1>4. SetToSeq(S) \in Injection(1..n, S)
  BY <1>3 DEF Injection
<1>5. Cardinality(1..n) = n
  BY <1>1, FS_Interval
<1>6. SetToSeq(S) \in Surjection(1..n, S)
  BY <1>1, <1>4, <1>5, FS_Injection
<1> QED
  BY <1>1, <1>3, <1>6 DEF Surjection

\* The keys a list of profiles uses are finitely many.
LEMMA KeysUsedFinite ==
    ASSUME NEW P, NEW n \in Nat, DOMAIN P = 1..n
    PROVE  IsFiniteSet(KeysUsed(P))
<1> DEFINE A == {P[i].auth : i \in 1..n}
           f == [i \in 1..n |-> P[i].auth]
<1>1. f \in Surjection(1..n, A)
  BY DEF Surjection
<1>2. IsFiniteSet(1..n)
  BY FS_Interval
<1>3. IsFiniteSet(A)
  BY <1>1, <1>2, FS_Surjection
<1>4. KeysUsed(P) \in SUBSET A
  BY DEF KeysUsed
<1> QED
  BY <1>3, <1>4, FS_Subset
-----------------------------------------------------------------------------
(* The migration of an older vault, whose profiles had a passphrase each       *)

Slot(i) == <<OldProfiles[i].id, "keyPassphrase">>
Phrase(k) == <<k, "passphrase">>
KeyProfiles == {i \in DOMAIN OldProfiles : OldProfiles[i].auth \in StoredKeyIds}
\* Those whose passphrase is at stake.
Owning == {i \in KeyProfiles : OldProfiles[i].save /\ OldProfiles[i].secret # NoSecret}
PhrasesFor(k) == {OldProfiles[j].secret : j \in {j \in KeyProfiles : OldProfiles[j].auth = k}} \ {NoSecret}

Moved(doc, k) == doc[Phrase(k)] \in PhrasesFor(k)

\* A document that has lost nothing: an old copy or the passphrase of the key.
LostNothing(doc) ==
    /\ DOMAIN doc = Slots
    /\ \A i \in KeyProfiles : doc[Slot(i)] \in {Unset, OldProfiles[i].secret}
    /\ \A k \in KeysUsed(OldProfiles) : doc[Phrase(k)] = Unset \/ Moved(doc, k)
    /\ \A i \in Owning : doc[Slot(i)] = OldProfiles[i].secret \/ Moved(doc, OldProfiles[i].auth)

AllMoved(doc) == \A i \in Owning : Moved(doc, OldProfiles[i].auth)

\* A list of profiles in memory whose saving loses nothing, once all are moved.
Complete(P) ==
    /\ P = [i \in DOMAIN OldProfiles |-> P[i]]
    /\ \A i \in DOMAIN P : /\ P[i].id = OldProfiles[i].id /\ P[i].auth = OldProfiles[i].auth
                           /\ P[i].save = OldProfiles[i].save
    /\ \A i \in KeyProfiles : P[i].save => P[i].secret \in PhrasesFor(P[i].auth) \union {NoSecret}
    /\ \A i \in Owning : Owners(P, OldProfiles[i].auth) # {}

Undisturbed ==
    /\ install = "old" /\ spent["saves"] = 0 /\ spent["outages"] = 0 /\ ~damaged
    /\ spent["faults"] = 0 \/ \A k, l \in KeysUsed(OldProfiles) : k = l

\* While loadProfiles moves the passphrases: each is moved or still to come, unless the
\* only one there is could not be.
Moving ==
    /\ DOMAIN calls = 1..Len(calls)
    /\ \A n \in DOMAIN calls :
          \E k \in KeysUsed(OldProfiles) : \E v \in PhrasesFor(k) : calls[n] = Store(Phrase(k), v)
    /\ result.any => \E k \in KeysUsed(OldProfiles) : Moved(db.doc, k)
    /\ vm.loaded => \A k \in KeysUsed(OldProfiles) : Moved(db.doc, k) => Moved(vm.doc, k)
    /\ \A i \in Owning :
          \/ Moved(db.doc, OldProfiles[i].auth)
          \/ \E n \in DOMAIN calls : n >= at /\ calls[n].slot = Phrase(OldProfiles[i].auth)
          \/ spent["faults"] # 0 /\ ~result.any

Resaving == calls = SaveCalls(op.target) /\ AllMoved(db.doc) /\ (vm.loaded => AllMoved(vm.doc))

Migrating ==
    /\ connects.state = "good" /\ connects.list = Meta(OldProfiles)
    /\ legacy = <<>> /\ prompt = <<>>
    /\ Intact(db) /\ LostNothing(db.doc) /\ (vm.loaded => LostNothing(vm.doc))
    /\ phase = "busy" =>
          /\ Complete(op.target) /\ ~op.again
          /\ (op.name = "load" /\ Moving) \/ (op.name = "reload" /\ Resaving)

MigrationInv == Undisturbed => Migrating

\* What is known of the profiles of the older version.
LEMMA OldProfilesTyped ==
    /\ DOMAIN OldProfiles = 1..Len(OldProfiles) /\ Len(OldProfiles) \in Nat
    /\ \A i \in DOMAIN OldProfiles :
          /\ OldProfiles[i].id \in ProfileIds /\ OldProfiles[i].auth \in Auths
          /\ OldProfiles[i].save \in BOOLEAN
          /\ OldProfiles[i].secret \in Secrets \union {NoSecret}
          /\ OldProfiles[i].secret # Unset
<1>1. OldProfiles \in Seq(Profile)
  BY ConstantsAssumption
<1>2. \A i \in DOMAIN OldProfiles : OldProfiles[i] \in Profile
  BY <1>1
<1>3. Unset \notin Secrets \union {NoSecret}
  BY ConstantsAssumption DEF Unset, NoSecret
<1> QED
  BY <1>1, <1>2, <1>3 DEF Profile

\* The slots a passphrase can be in.
LEMMA SlotsOfPassphrases ==
    /\ \A i \in KeyProfiles : Slot(i) \in Slots
    /\ \A k \in KeysUsed(OldProfiles) : Phrase(k) \in Slots /\ k \in StoredKeyIds
    /\ \A i \in KeyProfiles : \A k : Slot(i) # Phrase(k)
    /\ \A k, l : Phrase(k) = Phrase(l) => k = l
    /\ \A i, j \in KeyProfiles : Slot(i) = Slot(j) => i = j
    /\ \A i \in KeyProfiles : OldProfiles[i].auth \in KeysUsed(OldProfiles)
BY OldProfilesTyped, ConstantsAssumption DEF DistinctIds, KeyProfiles, Slot, Phrase, Slots, KeysUsed

\* Storing under the key what one of its profiles had.
LEMMA MoveLosesNothing ==
    ASSUME NEW doc, LostNothing(doc), NEW k \in KeysUsed(OldProfiles), NEW v \in PhrasesFor(k),
           NEW new, new = [doc EXCEPT ![Phrase(k)] = v]
    PROVE  /\ LostNothing(new) /\ Moved(new, k)
           /\ \A l \in KeysUsed(OldProfiles) : Moved(doc, l) => Moved(new, l)
<1>1. /\ DOMAIN new = Slots /\ new[Phrase(k)] = v
      /\ \A s \in Slots : s # Phrase(k) => new[s] = doc[s]
  BY SlotsOfPassphrases DEF LostNothing
<1>2. Moved(new, k)
  BY <1>1 DEF Moved
<1>3. \A l \in KeysUsed(OldProfiles) : l # k => new[Phrase(l)] = doc[Phrase(l)]
  BY <1>1, SlotsOfPassphrases
<1>4. \A i \in KeyProfiles : new[Slot(i)] = doc[Slot(i)]
  BY <1>1, SlotsOfPassphrases
<1>5. \A l \in KeysUsed(OldProfiles) : Moved(doc, l) => Moved(new, l)
  BY <1>2, <1>3 DEF Moved
<1>6. LostNothing(new)
  BY <1>1, <1>2, <1>3, <1>4, <1>5, SlotsOfPassphrases DEF LostNothing, Owning
<1> QED
  BY <1>2, <1>5, <1>6

\* Sequences, and the members of a concatenation.
LEMMA FunctionIsSequence ==
    ASSUME NEW B, NEW n \in Nat, NEW f, f \in [1..n -> B]
    PROVE  f \in Seq(B) /\ Len(f) = n /\ DOMAIN f = 1..n
OBVIOUS

LEMMA ConcatElement ==
    ASSUME NEW B, NEW s \in Seq(B), NEW t \in Seq(B), NEW n \in DOMAIN (s \o t)
    PROVE  \/ n \in DOMAIN s /\ (s \o t)[n] = s[n]
           \/ n - Len(s) \in DOMAIN t /\ (s \o t)[n] = t[n - Len(s)]
OBVIOUS

\* The calls of a save.
LEMMA SaveCallKinds ==
    ASSUME NEW P, NEW m \in Nat, DOMAIN P = 1..m, P = [i \in 1..m |-> P[i]], NEW n \in DOMAIN SaveCalls(P)
    PROVE  LET c == SaveCalls(P)[n]
           IN  \/ c = SaveConnects
               \/ \E j \in DOMAIN P : c = PasswordCall(P[j]) \/ c = PassphraseCall(P[j])
               \/ \E k \in KeysUsed(P) : c = KeyCall(P, k)
<1> DEFINE keys == SetToSeq(KeysUsed(P))
           N == Cardinality(KeysUsed(P))
           body == [i \in 1..2 * m |-> IF i % 2 = 1 THEN PasswordCall(P[(i + 1) \div 2])
                                                   ELSE PassphraseCall(P[i \div 2])]
           tail == [i \in 1..N |-> KeyCall(P, keys[i])]
<1>1. N \in Nat /\ keys \in [1..N -> KeysUsed(P)]
  BY KeysUsedFinite, ListsAll
<1>2. Len(keys) = N /\ Len(P) = m
  <2>1. keys \in Seq(KeysUsed(P))
    BY <1>1
  <2> QED
    BY <1>1, <2>1
<1>3. SaveCalls(P) = <<SaveConnects>> \o body \o tail
  BY <1>2 DEF SaveCalls
<1>4. \A i \in 1..2 * m : \E j \in DOMAIN P : body[i] = PasswordCall(P[j]) \/ body[i] = PassphraseCall(P[j])
  <2> TAKE i \in 1..2 * m
  <2>1. CASE i % 2 = 1
    <3>1. (i + 1) \div 2 \in 1..m
      BY <2>1
    <3> QED
      BY <2>1, <3>1
  <2>2. CASE i % 2 # 1
    <3>1. i \div 2 \in 1..m
      BY <2>2
    <3> QED
      BY <2>2, <3>1
  <2> QED
    BY <2>1, <2>2
<1>5. \A i \in 1..N : \E k \in KeysUsed(P) : tail[i] = KeyCall(P, k)
  BY <1>1
<1> DEFINE B == {SaveConnects} \union {body[i] : i \in 1..2 * m} \union {tail[i] : i \in 1..N}
<1>6. <<SaveConnects>> \in Seq(B) /\ Len(<<SaveConnects>>) = 1 /\ <<SaveConnects>>[1] = SaveConnects
  OBVIOUS
<1>8. body = [i \in 1..2 * m |-> body[i]] /\ tail = [i \in 1..N |-> tail[i]]
  OBVIOUS
<1> HIDE DEF body, tail, keys, N
<1>9. body \in [1..2 * m -> B] /\ tail \in [1..N -> B] /\ 2 * m \in Nat
  BY <1>8
<1>10. body \in Seq(B) /\ DOMAIN body = 1..2 * m /\ tail \in Seq(B) /\ DOMAIN tail = 1..N
  BY <1>1, <1>9, FunctionIsSequence
<1> DEFINE first == <<SaveConnects>>
<1>11. first \in Seq(B) /\ DOMAIN first = {1} /\ first[1] = SaveConnects
  BY <1>6
<1> HIDE DEF B, first
<1>12. SaveCalls(P) = first \o body \o tail /\ first \o body \in Seq(B)
  BY <1>3, <1>10, <1>11, ConcatProperties DEF first
<1> DEFINE front == first \o body
<1>7. \/ SaveCalls(P)[n] = SaveConnects
      \/ \E i \in 1..2 * m : SaveCalls(P)[n] = body[i]
      \/ \E i \in 1..N : SaveCalls(P)[n] = tail[i]
  <2>1. front \in Seq(B) /\ SaveCalls(P) = front \o tail
    BY <1>12
  <2>2. \A i \in DOMAIN front :
           \/ i \in DOMAIN first /\ front[i] = first[i]
           \/ i - Len(first) \in DOMAIN body /\ front[i] = body[i - Len(first)]
    BY <1>10, <1>11, ConcatElement
  <2> HIDE DEF front
  <2>3. \/ n \in DOMAIN front /\ SaveCalls(P)[n] = front[n]
        \/ n - Len(front) \in DOMAIN tail /\ SaveCalls(P)[n] = tail[n - Len(front)]
    <3>1. n \in DOMAIN (front \o tail)
      BY <2>1
    <3>2. \/ n \in DOMAIN front /\ (front \o tail)[n] = front[n]
          \/ n - Len(front) \in DOMAIN tail /\ (front \o tail)[n] = tail[n - Len(front)]
      BY <2>1, <3>1, <1>10, ConcatElement, ZenonT(30)
    <3> QED
      BY <2>1, <3>2, ZenonT(30)
  <2>4. CASE n \in DOMAIN front /\ SaveCalls(P)[n] = front[n]
    <3>1. CASE n \in DOMAIN first /\ front[n] = first[n]
      BY <3>1, <2>4, <1>11
    <3>2. CASE n - Len(first) \in DOMAIN body /\ front[n] = body[n - Len(first)]
      BY <3>2, <2>4, <1>10
    <3> QED
      BY <3>1, <3>2, <2>2, <2>4
  <2>5. CASE n - Len(front) \in DOMAIN tail /\ SaveCalls(P)[n] = tail[n - Len(front)]
    BY <2>5, <1>10
  <2> QED
    BY <2>3, <2>4, <2>5
<1> QED
  BY <1>4, <1>5, <1>7

\* No call of a save of a complete list takes anything, once all is moved.
LEMMA SaveLosesNothing ==
    ASSUME NEW doc, LostNothing(doc), AllMoved(doc), NEW P, Complete(P),
           NEW n \in DOMAIN SaveCalls(P), NEW c, c = SaveCalls(P)[n], c.op # "connects",
           NEW new, new = [doc EXCEPT ![c.slot] = c.value]
    PROVE  LostNothing(new) /\ AllMoved(new)
<1>1. DOMAIN P = 1..Len(OldProfiles) /\ Len(OldProfiles) \in Nat
  BY OldProfilesTyped DEF Complete
<1>2. /\ DOMAIN new = Slots /\ (new[c.slot] = c.value \/ c.slot \notin Slots)
      /\ \A s \in Slots : s # c.slot => new[s] = doc[s]
  BY DEF LostNothing
<1>3. ASSUME \A i \in KeyProfiles : new[Slot(i)] = doc[Slot(i)] \/ new[Slot(i)] = Unset,
             \A k \in KeysUsed(OldProfiles) : new[Phrase(k)] = doc[Phrase(k)]
      PROVE  LostNothing(new) /\ AllMoved(new)
  <2>1. AllMoved(new)
    BY <1>3, SlotsOfPassphrases DEF AllMoved, Moved, Owning
  <2> QED
    BY <1>2, <1>3, <2>1 DEF LostNothing, AllMoved, Moved
<1>4. ASSUME NEW j \in DOMAIN P, c = PasswordCall(P[j])
      PROVE  LostNothing(new) /\ AllMoved(new)
  <2>1. c.slot = <<P[j].id, "password">>
    BY <1>4 DEF PasswordCall, Store, Erase
  <2>2. (\A i \in KeyProfiles : Slot(i) # c.slot) /\ (\A k : Phrase(k) # c.slot)
    BY <2>1 DEF Slot, Phrase
  <2> QED
    BY <1>2, <1>3, <2>2, SlotsOfPassphrases
<1>5. ASSUME NEW j \in DOMAIN P, c = PassphraseCall(P[j])
      PROVE  LostNothing(new) /\ AllMoved(new)
  <2>1. c.slot = <<P[j].id, "keyPassphrase">> /\ (P[j].auth = "keyFile" \/ c.value = Unset)
    BY <1>5 DEF PassphraseCall, Store, Erase
  <2>2. \A k : Phrase(k) # c.slot
    BY <2>1 DEF Phrase
  <2>3. \A i \in KeyProfiles : Slot(i) = c.slot => c.value = Unset
    <3> SUFFICES ASSUME NEW i \in KeyProfiles, Slot(i) = c.slot PROVE P[j].auth # "keyFile"
      BY <2>1
    <3>1. OldProfiles[i].id = OldProfiles[j].id /\ i \in DOMAIN OldProfiles /\ j \in DOMAIN OldProfiles
      BY <2>1 DEF Slot, Complete, KeyProfiles
    <3>2. i = j
      BY <3>1, ConstantsAssumption DEF DistinctIds
    <3> QED
      BY <3>1, <3>2, ConstantsAssumption DEF Complete, KeyProfiles
  <2>4. \A i \in KeyProfiles : new[Slot(i)] = doc[Slot(i)] \/ new[Slot(i)] = Unset
    BY <1>2, <2>3, SlotsOfPassphrases
  <2>5. \A k \in KeysUsed(OldProfiles) : new[Phrase(k)] = doc[Phrase(k)]
    BY <1>2, <2>2, SlotsOfPassphrases
  <2> QED
    BY <1>3, <2>4, <2>5
<1>6. ASSUME NEW k \in KeysUsed(P), c = KeyCall(P, k)
      PROVE  LostNothing(new) /\ AllMoved(new)
  <2>1. c.slot = Phrase(k) /\ k \in KeysUsed(OldProfiles)
    <3>1. c.slot = Phrase(k)
      BY <1>6 DEF KeyCall, Store, Erase, Phrase
    <3>2. \A i \in DOMAIN P : P[i].auth = OldProfiles[i].auth /\ i \in DOMAIN OldProfiles
      BY DEF Complete
    <3> QED
      BY <1>6, <3>1, <3>2 DEF KeysUsed
  <2>2. CASE Owners(P, k) # {}
    <3> DEFINE m == Min(Owners(P, k))
    <3>1. m \in Owners(P, k)
      <4>1. Owners(P, k) \in SUBSET Nat
        BY <1>1 DEF Owners
      <4> QED
        BY <4>1, <2>2, LeastExists
    <3>2. m \in KeyProfiles /\ P[m].auth = k /\ P[m].save /\ P[m].secret # NoSecret
      BY <3>1, <2>1, SlotsOfPassphrases, SMTT(40) DEF Owners, Complete, KeyProfiles
    <3>3. P[m].secret \in PhrasesFor(k)
      BY <3>2 DEF Complete
    <3>4. c.value = P[m].secret
      BY <1>6, <2>2 DEF KeyCall, Store
    <3>5. LostNothing(new) /\ \A l \in KeysUsed(OldProfiles) : Moved(doc, l) => Moved(new, l)
      <4>1. PICK v \in PhrasesFor(k) : c.value = v
        BY <3>3, <3>4
      <4>2. new = [doc EXCEPT ![Phrase(k)] = v]
        BY <2>1, <4>1
      <4> QED
        BY <4>2, <2>1, MoveLosesNothing
    <3> QED
      BY <3>5, SlotsOfPassphrases DEF AllMoved, Owning
  <2>3. CASE Owners(P, k) = {}
    <3>1. \A i \in Owning : OldProfiles[i].auth # k
      BY <2>3 DEF Complete
    <3>2. c.value = Unset
      BY <1>6, <2>3 DEF KeyCall, Erase
    <3>3. new[Phrase(k)] = Unset
      BY <1>2, <2>1, <3>2, SlotsOfPassphrases
    <3>4. \A l \in KeysUsed(OldProfiles) : l # k => new[Phrase(l)] = doc[Phrase(l)]
      BY <1>2, <2>1, SlotsOfPassphrases
    <3>5. \A i \in KeyProfiles : new[Slot(i)] = doc[Slot(i)]
      BY <1>2, <2>1, SlotsOfPassphrases
    <3>6. AllMoved(new)
      BY <3>1, <3>4, SlotsOfPassphrases DEF AllMoved, Moved, Owning
    <3> QED
      BY <1>2, <3>3, <3>4, <3>5, <3>6 DEF LostNothing, AllMoved, Moved
  <2> QED
    BY <2>2, <2>3
<1>7. c # SaveConnects
  BY DEF SaveConnects
<1>8. P = [i \in 1..Len(OldProfiles) |-> P[i]]
  BY <1>1 DEF Complete
<1>9. \/ \E j \in DOMAIN P : c = PasswordCall(P[j]) \/ c = PassphraseCall(P[j])
      \/ \E k \in KeysUsed(P) : c = KeyCall(P, k)
  BY <1>1, <1>7, <1>8, SaveCallKinds
<1> QED
  BY <1>4, <1>5, <1>6, <1>9

-----------------------------------------------------------------------------
(* loadProfiles over what an older version left                                *)

\* The list in connects.json.
LEMMA MetaOfOld ==
    LET M == Meta(OldProfiles)
    IN  /\ DOMAIN M = DOMAIN OldProfiles
        /\ \A i \in DOMAIN M : /\ M[i].id = OldProfiles[i].id /\ M[i].auth = OldProfiles[i].auth
                               /\ M[i].save = OldProfiles[i].save
BY DEF Meta

\* Copies, as seen in a document that lost nothing.
LEMMA CopiesFound ==
    ASSUME NEW doc, LostNothing(doc), NEW k \in StoredKeyIds
    PROVE  LET C == Copies(Meta(OldProfiles), k, doc)
           IN  /\ C \in SUBSET Nat
               /\ \A i \in C : /\ i \in KeyProfiles /\ OldProfiles[i].auth = k /\ OldProfiles[i].save
                              /\ Secret(doc, Slot(i)) = OldProfiles[i].secret
                              /\ Secret(doc, Slot(i)) \in PhrasesFor(k)
               /\ \A i \in Owning : OldProfiles[i].auth = k /\ ~Moved(doc, k) => i \in C
<1> DEFINE M == Meta(OldProfiles)
           C == Copies(M, k, doc)
<1>1. \A i \in C : /\ i \in KeyProfiles /\ OldProfiles[i].auth = k /\ OldProfiles[i].save
                 /\ Secret(doc, Slot(i)) # NoSecret
  BY MetaOfOld DEF Copies, KeyProfiles, Slot
<1>2. \A i \in C : Secret(doc, Slot(i)) = OldProfiles[i].secret
  BY <1>1 DEF Secret, LostNothing
<1>3. \A i \in C : Secret(doc, Slot(i)) \in PhrasesFor(k)
  BY <1>1, <1>2 DEF PhrasesFor
<1>4. ASSUME NEW i \in Owning, OldProfiles[i].auth = k, ~Moved(doc, k)
      PROVE  i \in C
  <2>1. doc[Slot(i)] = OldProfiles[i].secret /\ OldProfiles[i].secret # NoSecret
        /\ OldProfiles[i].secret # Unset /\ i \in DOMAIN OldProfiles /\ OldProfiles[i].save
    BY <1>4, OldProfilesTyped DEF LostNothing, Owning, KeyProfiles
  <2> QED
    BY <1>4, <2>1, MetaOfOld DEF Copies, Secret, Slot
<1>5. C \in SUBSET Nat
  BY <1>1, OldProfilesTyped DEF KeyProfiles
<1> QED
  BY <1>1, <1>2, <1>3, <1>4, <1>5

\* What loadProfiles moves: only passphrases of the key, and all that is not there.
LEMMA MovesAreSound ==
    ASSUME NEW doc, LostNothing(doc)
    PROVE  LET M == Meta(OldProfiles)
           IN  /\ IsFiniteSet(Moves(M, doc))
               /\ \A k \in Moves(M, doc) :
                     k \in KeysUsed(OldProfiles) /\ OldCopy(M, k, doc) \in PhrasesFor(k)
               /\ \A i \in Owning : Moved(doc, OldProfiles[i].auth) \/ OldProfiles[i].auth \in Moves(M, doc)
<1> DEFINE M == Meta(OldProfiles)
<1>1. ASSUME NEW k \in Moves(M, doc)
      PROVE  k \in KeysUsed(OldProfiles) /\ OldCopy(M, k, doc) \in PhrasesFor(k)
  <2>1. k \in StoredKeyIds /\ Copies(M, k, doc) # {}
    BY <1>1 DEF Moves
  <2>2. Min(Copies(M, k, doc)) \in Copies(M, k, doc)
    BY <2>1, CopiesFound, LeastExists
  <2> DEFINE m == Min(Copies(M, k, doc))
  <2>3. m \in KeyProfiles /\ OldProfiles[m].auth = k /\ Secret(doc, Slot(m)) \in PhrasesFor(k)
    BY <2>1, <2>2, CopiesFound
  <2>4. OldCopy(M, k, doc) = Secret(doc, Slot(m))
    BY <2>3, MetaOfOld DEF OldCopy, Slot, KeyProfiles
  <2> HIDE DEF m
  <2> QED
    BY <2>3, <2>4, SlotsOfPassphrases
<1>2. ASSUME NEW i \in Owning, ~Moved(doc, OldProfiles[i].auth)
      PROVE  OldProfiles[i].auth \in Moves(M, doc)
  <2> DEFINE k == OldProfiles[i].auth
  <2>1. k \in StoredKeyIds /\ k \in KeysUsed(OldProfiles)
    BY SlotsOfPassphrases DEF Owning
  <2>2. Copies(M, k, doc) # {}
    BY <1>2, <2>1, CopiesFound
  <2>3. Secret(doc, <<k, "passphrase">>) = NoSecret
    BY <1>2, <2>1 DEF LostNothing, Secret, Phrase
  <2> QED
    BY <2>1, <2>2, <2>3 DEF Moves
<1>3. IsFiniteSet(KeysUsed(OldProfiles))
  BY OldProfilesTyped, KeysUsedFinite
<1>4. IsFiniteSet(Moves(M, doc))
  BY <1>1, <1>3, FS_Subset
<1> QED
  BY <1>1, <1>2, <1>4

\* What it returns.
LEMMA LoadedIsComplete ==
    ASSUME NEW doc, LostNothing(doc)
    PROVE  Complete(LoadedProfiles(Meta(OldProfiles), doc))
<1> DEFINE M == Meta(OldProfiles)
           P == LoadedProfiles(M, doc)
<1>1. /\ P = [i \in DOMAIN OldProfiles |-> P[i]]
      /\ \A i \in DOMAIN P :
            /\ P[i].id = OldProfiles[i].id /\ P[i].auth = OldProfiles[i].auth
            /\ P[i].save = OldProfiles[i].save /\ P[i].secret = LoadedSecret(M, i, doc)
  BY MetaOfOld DEF LoadedProfiles
<1>2. ASSUME NEW i \in KeyProfiles, OldProfiles[i].save
      PROVE  LET k == OldProfiles[i].auth
             IN  P[i].secret = IF k \notin Moves(M, doc) THEN Secret(doc, Phrase(k))
                               ELSE IF Min(Copies(M, k, doc)) <= i THEN OldCopy(M, k, doc) ELSE NoSecret
  <2>1. /\ i \in DOMAIN P /\ M[i].auth = OldProfiles[i].auth /\ M[i].save
        /\ M[i].auth \in StoredKeyIds /\ M[i].auth # "password" /\ M[i].auth # "keyFile"
    BY <1>1, <1>2, MetaOfOld, ConstantsAssumption DEF KeyProfiles
  <2>2. P[i].secret = LoadedSecret(M, i, doc)
    BY <1>1, <2>1
  <2> HIDE DEF M, P
  <2> QED
    BY <2>1, <2>2 DEF LoadedSecret, Phrase
<1> HIDE DEF P, M
<1>3. ASSUME NEW k \in KeysUsed(OldProfiles)
      PROVE  /\ Secret(doc, Phrase(k)) \in PhrasesFor(k) \union {NoSecret}
             /\ Secret(doc, Phrase(k)) = NoSecret => ~Moved(doc, k)
  <2>1. Unset \notin PhrasesFor(k) /\ NoSecret \notin PhrasesFor(k)
    BY OldProfilesTyped DEF PhrasesFor, KeyProfiles
  <2>2. doc[Phrase(k)] = Unset \/ doc[Phrase(k)] \in PhrasesFor(k)
    BY <1>3 DEF LostNothing, Moved
  <2> QED
    BY <2>1, <2>2 DEF Secret, Moved
<1>4. \A i \in KeyProfiles : P[i].save => P[i].secret \in PhrasesFor(P[i].auth) \union {NoSecret}
  <2> SUFFICES ASSUME NEW i \in KeyProfiles, P[i].save
               PROVE  P[i].secret \in PhrasesFor(P[i].auth) \union {NoSecret}
    OBVIOUS
  <2>1. i \in DOMAIN P /\ P[i].auth = OldProfiles[i].auth /\ OldProfiles[i].save
        /\ OldProfiles[i].auth \in KeysUsed(OldProfiles)
    BY <1>1, SlotsOfPassphrases DEF KeyProfiles
  <2>2. CASE OldProfiles[i].auth \notin Moves(M, doc)
    BY <1>2, <1>3, <2>1, <2>2
  <2>3. CASE OldProfiles[i].auth \in Moves(M, doc)
    <3>1. OldCopy(M, OldProfiles[i].auth, doc) \in PhrasesFor(OldProfiles[i].auth)
      BY <2>3, MovesAreSound DEF M
    <3> QED
      BY <1>2, <2>1, <2>3, <3>1
  <2> QED
    BY <2>2, <2>3
<1>5. ASSUME NEW i \in Owning
      PROVE  Owners(P, OldProfiles[i].auth) # {}
  <2> DEFINE k == OldProfiles[i].auth
  <2>1. i \in KeyProfiles /\ OldProfiles[i].save /\ k \in KeysUsed(OldProfiles) /\ k \in StoredKeyIds
    BY SlotsOfPassphrases DEF Owning
  <2>2. CASE k \notin Moves(M, doc)
    <3>1. P[i].secret = Secret(doc, Phrase(k))
      BY <1>2, <2>1, <2>2
    <3>2. Moved(doc, k)
      BY <2>2, MovesAreSound DEF M
    <3>3. P[i].secret # NoSecret
      BY <1>3, <2>1, <3>1, <3>2
    <3> QED
      BY <1>1, <2>1, <3>3 DEF Owners, KeyProfiles
  <2>3. CASE k \in Moves(M, doc)
    <3> DEFINE m == Min(Copies(M, k, doc))
    <3>1. Copies(M, k, doc) # {}
      BY <2>3 DEF Moves
    <3>2. m \in Copies(M, k, doc)
      BY <2>1, <3>1, CopiesFound, LeastExists DEF M
    <3>3. m \in KeyProfiles /\ OldProfiles[m].auth = k /\ OldProfiles[m].save /\ m \in Nat
      BY <2>1, <3>2, CopiesFound DEF M
    <3>4. OldCopy(M, k, doc) \in PhrasesFor(k)
      BY <2>3, MovesAreSound DEF M
    <3>5. P[m].secret = OldCopy(M, k, doc)
      BY <1>2, <2>3, <3>3
    <3> HIDE DEF m
    <3>6. P[m].secret # NoSecret /\ m \in DOMAIN P /\ P[m].auth = k /\ P[m].save
      BY <1>1, <3>3, <3>4, <3>5 DEF PhrasesFor, KeyProfiles
    <3> QED
      BY <3>6 DEF Owners
  <2> QED
    BY <2>2, <2>3
<1> QED
  BY <1>1, <1>4, <1>5 DEF Complete, P, M

\* There are no plaintext leftovers to merge in.
LEMMA NoLeftovers ==
    ASSUME NEW P, P = [i \in DOMAIN P |-> P[i]], legacy = <<>>
    PROVE  Merged(P) = P
<1>1. Range(PlainProfiles) = {}
  BY DEF PlainProfiles, Range
<1>2. \A i \in DOMAIN P : Lacks(P, i) = {}
  BY <1>1 DEF Lacks
<1> QED
  BY <1>2 DEF Merged

-----------------------------------------------------------------------------
(* The steps                                                                   *)

Budget == {"saves", "faults", "crashes", "outages"}
Counted == spent \in [Budget -> Nat]

\* What was spent is not given back and what was damaged stays so.
LEMMA SpendGrows ==
    ASSUME Counted, spent' = spent \/ \E k \in Budget : Spend(k)
    PROVE  Counted' /\ \A b \in Budget : spent'[b] >= spent[b]
<1>1. CASE spent' = spent
  BY <1>1 DEF Counted
<1>2. ASSUME NEW k \in Budget, Spend(k)
      PROVE  Counted' /\ \A b \in Budget : spent'[b] >= spent[b]
  <2>1. spent' = [spent EXCEPT ![k] = @ + 1]
    BY <1>2 DEF Spend
  <2> QED
    BY <2>1 DEF Counted
<1> QED
  BY <1>1, <1>2

LEMMA HistoryGrows ==
    ASSUME Counted, [Next]_vars
    PROVE  Counted' /\ install' = install /\ (damaged => damaged')
           /\ \A b \in Budget : spent'[b] >= spent[b]
<1> USE DEF history
<1>1. /\ install' = install /\ (damaged' = damaged \/ damaged' = TRUE \/ \E o \in Outcomes : Outcome(o))
      /\ spent' = spent \/ \E k \in Budget : Spend(k)
  <2>1. CASE UNCHANGED vars
    BY <2>1 DEF vars
  <2>2. CASE Next
    <3>1. CASE configureFileStorage \/ Load \/ listStoredKeys
      BY <3>1 DEF configureFileStorage, Load, listStoredKeys, Budget
    <3>2. ASSUME Begin \/ Arrives
          PROVE  install' = install /\ damaged' = damaged /\ \E k \in Budget : Spend(k)
      BY <3>2 DEF Begin, Arrives, Budget
    <3>3. CASE \E p \in Inputs : saveCurrentFormAsProfile(p) \/ saveSessionProfile(p)
      BY <3>2, <3>3 DEF saveCurrentFormAsProfile, saveSessionProfile
    <3>4. CASE \E id \in ProfileIds : deleteSavedProfile(id) \/ moveProfile(id)
      BY <3>2, <3>4 DEF deleteSavedProfile, moveProfile
    <3>5. CASE \E k \in StoredKeyIds : forgetPassphrase(k) \/ removeStoredKey(k) \/ importKeyIntoKeyring(k)
      BY <3>2, <3>5 DEF forgetPassphrase, removeStoredKey, importKeyIntoKeyring
    <3>6. CASE \E k \in StoredKeyIds, s \in Secrets : savePassphrase(k, s) \/ generateKeyIntoKeyring(k, s)
      BY <3>2, <3>6 DEF savePassphrase, generateKeyIntoKeyring
    <3>7. CASE \E s \in Secrets \union {NoSecret} : answerPrompt(s)
      BY <3>7 DEF answerPrompt
    <3>8. CASE setProfileSystem \/ \E P \in RemotePayloads, keys \in SUBSET StoredKeyIds : applySynced(P, keys)
      BY <3>2, <3>8 DEF setProfileSystem, applySynced
    <3>9. ASSUME NEW o \in Outcomes, Outcome(o)
          PROVE  install' = install /\ (spent' = spent \/ \E k \in Budget : Spend(k))
      BY <3>9 DEF Outcome, Budget
    <3>10. CASE \E o \in Outcomes : saveConnectsJson(o) \/ rewriteDbvault(o)
      BY <3>9, <3>10 DEF saveConnectsJson, rewriteDbvault
    <3>11. CASE keyRefused \/ vaultRefused \/ nothingToRemove \/ finish
      BY <3>11 DEF keyRefused, vaultRefused, nothingToRemove, finish, Budget
    <3>12. CASE stop \/ keyringGoes \/ keyringReturns
      BY <3>12 DEF stop, keyringGoes, keyringReturns, Budget
    <3> QED
      BY <2>2, <3>1, <3>3, <3>4, <3>5, <3>6, <3>7, <3>8, <3>10, <3>11, <3>12 DEF Next
  <2> QED
    BY <2>1, <2>2
<1>2. damaged => damaged'
  BY <1>1 DEF Outcome
<1> QED
  BY <1>1, <1>2, SpendGrows

\* The key of dbvault is there, so every call can read it.
LEMMA KeyThere ==
    ASSUME Inv, Undisturbed, Migrating
    PROVE  /\ KeyFound = db.key /\ KeyFound # NoKey /\ db # Absent
           /\ DbKey(vm) = db.key /\ ~MakesKey(vm)
           /\ DbKey(NewManager) = db.key /\ ~MakesKey(NewManager)
           /\ Opens(db.key) /\ Readable
           /\ DocOf(vm) = (IF vm.loaded THEN vm.doc ELSE db.doc) /\ LostNothing(DocOf(vm))
<1>1. OneKey /\ Intact(db) /\ spent["outages"] = 0
  BY DEF Inv, Undisturbed, Migrating
<1>2. KeyFound = db.key /\ KeyFound # NoKey /\ db # Absent
  BY <1>1 DEF OneKey, Intact, Absent
<1>3. DbKey(vm) = db.key /\ ~MakesKey(vm)
  BY <1>1, <1>2 DEF OneKey, DbKey, MakesKey
<1>4. DbKey(NewManager) = db.key /\ ~MakesKey(NewManager)
  BY <1>2, NewManagerShape DEF DbKey, MakesKey
<1> QED
  BY <1>2, <1>3, <1>4 DEF Opens, Readable, DocOf, Migrating

\* Nothing of it is touched, and no operation is under way any more or yet.
LEMMA StillMigrating ==
    ASSUME Migrating, UNCHANGED <<connects, db>>, legacy' \in {legacy, <<>>}, prompt' \in {prompt, <<>>},
           vm' = vm \/ vm' = NewManager, phase' # "busy"
    PROVE  Migrating'
BY NewManagerShape DEF Migrating, Intact

LEMMA LoadMigrates ==
    ASSUME Inv, Undisturbed, Migrating, Load
    PROVE  Migrating'
<1> DEFINE M == Meta(OldProfiles)
           asks == \E i \in DOMAIN M : M[i].save
<1>1. KeyFound = db.key /\ DbKey(NewManager) = db.key /\ ~MakesKey(NewManager) /\ Opens(db.key)
      /\ db.key # NoKey
  BY KeyThere
<1>2. loadConnectsJson /\ connects.list = M /\ legacy = <<>>
  BY DEF Migrating, loadConnectsJson
<1>3. PICK doc : /\ doc = IF asks THEN db.doc ELSE EmptyDoc
                 /\ LET loaded == LoadedProfiles(M, doc)
                        moves == SetToSeq(Moves(M, doc))
                    IN Start("load", Merged(loaded), profiles, Merged(loaded) # loaded,
                             [i \in DOMAIN moves |->
                                Store(<<moves[i], "passphrase">>, OldCopy(M, moves[i], doc))])
                 /\ vm' = NewManager \/ vm' = [NewManager EXCEPT !.key = db.key]
  <2>1. PICK stored \in BOOLEAN :
           LET makes == asks /\ MakesKey(NewManager)
               key == IF makes /\ ~stored THEN NoKey ELSE DbKey(NewManager)
               doc == IF asks /\ key # NoKey /\ Opens(key) THEN db.doc ELSE EmptyDoc
               loaded == LoadedProfiles(M, doc)
               moves == SetToSeq(Moves(M, doc))
           IN  /\ vm' = IF asks THEN [NewManager EXCEPT !.key = key] ELSE NewManager
               /\ Start("load", Merged(loaded), profiles, Merged(loaded) # loaded,
                      [i \in DOMAIN moves |->
                          Store(<<moves[i], "passphrase">>, OldCopy(M, moves[i], doc))])
    BY <1>2, ZenonT(60) DEF Load
  <2> QED
    BY <1>1, <2>1, Zenon
<1> DEFINE loaded == LoadedProfiles(M, doc)
           moves == SetToSeq(Moves(M, doc))
<1>4. LostNothing(doc) /\ (Owning # {} => doc = db.doc)
  <2>1. CASE asks
    BY <1>3, <2>1 DEF Migrating
  <2>2. CASE ~asks
    <3>1. Owning = {}
      BY <2>2, MetaOfOld DEF Owning, KeyProfiles
    <3>2. doc = EmptyDoc
      BY <1>3, <2>2
    <3> QED
      BY <3>1, <3>2, SlotsOfPassphrases DEF LostNothing, EmptyDoc
  <2> QED
    BY <2>1, <2>2
<1>5. Complete(loaded) /\ Merged(loaded) = loaded
  <2>1. Complete(loaded)
    BY <1>4, LoadedIsComplete
  <2>2. loaded = [i \in DOMAIN loaded |-> loaded[i]]
    BY DEF LoadedProfiles
  <2> HIDE DEF loaded
  <2> QED
    BY <1>2, <2>1, <2>2, NoLeftovers
<1>6. PICK N \in Nat : /\ moves \in [1..N -> Moves(M, doc)]
                      /\ \A k \in Moves(M, doc) : \E i \in 1..N : moves[i] = k
  BY <1>4, MovesAreSound, ListsAll
<1>7. /\ phase' = "busy" /\ at' = 1 /\ result' = Fresh
      /\ op' = [name |-> "load", target |-> loaded, onFail |-> profiles, again |-> Merged(loaded) # loaded]
      /\ calls' = [i \in 1..N |-> Store(Phrase(moves[i]), OldCopy(M, moves[i], doc))]
  <2>1. DOMAIN moves = 1..N
    BY <1>6
  <2> QED
    BY <1>3, <1>5, <2>1 DEF Start, Phrase
<1>8. op'.target = loaded /\ ~op'.again /\ op'.name = "load"
  <2> HIDE DEF loaded
  <2> QED
    BY <1>5, <1>7
<1>9. DOMAIN calls' = 1..Len(calls') /\ DOMAIN calls' = 1..N
  <2> DEFINE C == {Store(Phrase(moves[i]), OldCopy(M, moves[i], doc)) : i \in 1..N}
  <2>1. calls' \in [1..N -> C]
    BY <1>7
  <2> HIDE DEF C
  <2> QED
    BY <2>1, FunctionIsSequence
<1>10. \A n \in 1..N : \E k \in KeysUsed(OldProfiles) : \E v \in PhrasesFor(k) : calls'[n] = Store(Phrase(k), v)
  <2> TAKE n \in 1..N
  <2>1. moves[n] \in Moves(M, doc) /\ calls'[n] = Store(Phrase(moves[n]), OldCopy(M, moves[n], doc))
    BY <1>6, <1>7
  <2> HIDE DEF moves
  <2> QED
    BY <1>4, <2>1, MovesAreSound
<1>11. \A i \in Owning : \/ Moved(db.doc, OldProfiles[i].auth)
                        \/ \E n \in 1..N : n >= 1 /\ calls'[n].slot = Phrase(OldProfiles[i].auth)
  <2> TAKE i \in Owning
  <2>1. Moved(db.doc, OldProfiles[i].auth) \/ OldProfiles[i].auth \in Moves(M, doc)
    BY <1>4, MovesAreSound
  <2>2. ASSUME OldProfiles[i].auth \in Moves(M, doc)
        PROVE  \E n \in 1..N : n >= 1 /\ calls'[n].slot = Phrase(OldProfiles[i].auth)
    <3>1. PICK n \in 1..N : moves[n] = OldProfiles[i].auth
      BY <1>6, <2>2
    <3>2. calls'[n] = Store(Phrase(moves[n]), OldCopy(M, moves[n], doc))
      BY <1>7
    <3> QED
      BY <3>1, <3>2 DEF Store
  <2> QED
    BY <2>1, <2>2
<1>12. UNCHANGED <<connects, db, legacy, prompt>> /\ vm'.loaded = FALSE
  <2>1. vm'.loaded = FALSE
    BY <1>3, NewManagerShape DEF Fields
  <2> QED
    BY <2>1 DEF Load, disk
<1>13. Moving'
  BY <1>7, <1>9, <1>10, <1>11, <1>12 DEF Moving, Fresh
<1> HIDE DEF loaded
<1> QED
  BY <1>5, <1>8, <1>12, <1>13 DEF Migrating, Intact

\* The facts about the calls of the operation under way.
LEMMA CallUnderWay ==
    ASSUME Inv, Migrating, Calling
    PROVE  /\ at \in Nat /\ at >= 1 /\ phase = "busy" /\ Complete(op.target) /\ ~op.again
           /\ \/ /\ op.name = "load" /\ Moving /\ at \in DOMAIN calls
                 /\ \E k \in KeysUsed(OldProfiles) : \E v \in PhrasesFor(k) : call = Store(Phrase(k), v)
              \/ /\ op.name = "reload" /\ Resaving /\ at \in DOMAIN SaveCalls(op.target)
                 /\ call = SaveCalls(op.target)[at]
<1>1. at \in Nat \ {0}
  BY DEF Inv, Shape
<1>2. phase = "busy" /\ at <= Len(calls)
  BY DEF Calling
<1>3. CASE op.name = "load" /\ Moving
  <2>1. DOMAIN calls = 1..Len(calls)
    BY <1>3 DEF Moving
  <2>2. at \in DOMAIN calls
    BY <1>1, <1>2, <2>1
  <2> QED
    BY <1>1, <1>2, <1>3, <2>2 DEF Migrating, Moving, call
<1>4. CASE op.name = "reload" /\ Resaving
  <2>1. at \in DOMAIN calls
    BY <1>1, <1>2, <1>4 DEF Resaving
  <2> QED
    BY <1>1, <1>2, <1>4, <2>1 DEF Migrating, Resaving, call
<1> QED
  BY <1>2, <1>3, <1>4 DEF Migrating

\* The list of profiles is written as it was.
LEMMA ConnectsMigrates ==
    ASSUME Inv, Undisturbed, Migrating, ~damaged', NEW o \in Outcomes, saveConnectsJson(o)
    PROVE  Migrating'
<1>1. Calling /\ call.op = "connects"
  BY DEF saveConnectsJson
<1>2. call.op # "store"
  BY <1>1
<1>3. Complete(op.target) /\ ~op.again /\ op.name = "reload" /\ Resaving /\ phase = "busy"
  BY <1>1, CallUnderWay DEF Store
<1>4. o \in {"written", "failed"}
  BY DEF saveConnectsJson, Outcome, Outcomes
<1>5. Meta(op.target) = Meta(OldProfiles)
  BY <1>3 DEF Meta, Complete
<1>6. connects'.state = "good" /\ connects'.list = Meta(OldProfiles)
  BY <1>4, <1>5 DEF saveConnectsJson, Migrating
<1>7. UNCHANGED <<db, legacy, phase, op, calls, prompt>> /\ vm' = NewManager
  BY DEF saveConnectsJson, Returns
<1> QED
  BY <1>3, <1>6, <1>7, NewManagerShape DEF Migrating, Resaving, Intact

\* A call that removes what is not there.
LEMMA SkipMigrates ==
    ASSUME Inv, Undisturbed, Migrating, nothingToRemove
    PROVE  Migrating'
<1>1. Calling /\ call.op = "remove"
  BY DEF nothingToRemove, SecretCall
<1>2. Complete(op.target) /\ ~op.again /\ op.name = "reload" /\ Resaving /\ phase = "busy"
  BY <1>1, CallUnderWay DEF Store
<1>3. UNCHANGED <<db, connects, legacy, phase, op, calls, prompt>>
  BY DEF nothingToRemove, Returns, disk
<1>4. vm'.loaded = vm.loaded /\ (vm.loaded => vm'.doc = vm.doc)
  <2>1. DOMAIN vm = Fields
    BY DEF Inv, Shape
  <2>2. vm' = [vm EXCEPT !.key = DbKey(vm), !.doc = DocOf(vm)]
    BY DEF nothingToRemove
  <2>3. DocOf(vm) = IF vm.loaded THEN vm.doc ELSE db.doc
    BY KeyThere
  <2> QED
    BY <2>1, <2>2, <2>3 DEF Fields
<1> QED
  BY <1>2, <1>3, <1>4 DEF Migrating, Resaving, Intact

\* A call that rewrites dbvault: the new document has lost nothing, whether or not it
\* reaches the file.
LEMMA RewriteMigrates ==
    ASSUME Inv, Counted, Undisturbed, Migrating, Undisturbed', NEW o \in Outcomes, rewriteDbvault(o)
    PROVE  Migrating'
<1> DEFINE doc == [DocOf(vm) EXCEPT ![call.slot] = call.value]
<1>1. Calling /\ call.op # "connects" /\ vm' = [vm EXCEPT !.key = DbKey(vm), !.doc = doc,
                                                       !.loaded = @ \/ call.op = "store"]
      /\ db' = persistDbvault(DbKey(vm), doc, o) /\ Outcome(o) /\ Returns(Good(o))
      /\ UNCHANGED <<connects, legacy>>
  BY DEF rewriteDbvault, SecretCall
<1>2. /\ DbKey(vm) = db.key /\ LostNothing(DocOf(vm)) /\ Intact(db)
      /\ DocOf(vm) = IF vm.loaded THEN vm.doc ELSE db.doc
  BY KeyThere DEF Migrating
<1>3. /\ DOMAIN vm = Fields /\ vm'.doc = doc
  BY <1>1 DEF Inv, Shape, Fields
<1>4. /\ UNCHANGED <<phase, op, calls, prompt>> /\ at' = at + 1
      /\ result' = [all |-> result.all /\ Good(o), any |-> result.any \/ Good(o)]
  BY <1>1 DEF Returns
<1>5. \/ o = "written" /\ db' = [key |-> db.key, doc |-> doc] /\ spent' = spent
      \/ o = "failed" /\ db' = db /\ Spend("faults")
  BY <1>1, <1>2 DEF Outcome, Outcomes, persistDbvault, Undisturbed
<1>6. (Intact(db))'
  BY <1>2, <1>5 DEF Intact
<1>7. ASSUME op.name = "reload", Resaving, at \in DOMAIN SaveCalls(op.target), Complete(op.target),
             call = SaveCalls(op.target)[at]
      PROVE  LostNothing(doc) /\ AllMoved(doc)
  <2>1. AllMoved(DocOf(vm))
    BY <1>2, <1>7 DEF Resaving
  <2> QED
    BY <1>1, <1>2, <1>7, <2>1, SaveLosesNothing
<1>8. ASSUME NEW k \in KeysUsed(OldProfiles), NEW v \in PhrasesFor(k), call = Store(Phrase(k), v)
      PROVE  LostNothing(doc) /\ Moved(doc, k)
             /\ \A l \in KeysUsed(OldProfiles) : Moved(DocOf(vm), l) => Moved(doc, l)
  <2>1. doc = [DocOf(vm) EXCEPT ![Phrase(k)] = v]
    BY <1>8 DEF Store
  <2> HIDE DEF doc
  <2> QED
    BY <1>2, <2>1, MoveLosesNothing
<1> HIDE DEF doc
<1>9. LostNothing(doc)
  BY <1>1, <1>7, <1>8, CallUnderWay
<1>10. LostNothing(db'.doc) /\ LostNothing(vm'.doc)
  BY <1>3, <1>5, <1>9 DEF Migrating
<1>11. CASE op.name = "reload" /\ Resaving /\ at \in DOMAIN SaveCalls(op.target) /\ Complete(op.target)
            /\ call = SaveCalls(op.target)[at]
  <2>1. AllMoved(db'.doc) /\ AllMoved(vm'.doc)
    BY <1>3, <1>5, <1>7, <1>11 DEF Resaving
  <2> QED
    BY <1>1, <1>4, <1>6, <1>10, <1>11, <2>1 DEF Migrating, Resaving
<1>12. CASE /\ op.name = "load" /\ Moving /\ at \in DOMAIN calls
            /\ \E k \in KeysUsed(OldProfiles) : \E v \in PhrasesFor(k) : call = Store(Phrase(k), v)
  <2>0. PICK k \in KeysUsed(OldProfiles) : \E v \in PhrasesFor(k) : call = Store(Phrase(k), v)
    BY <1>12
  <2>1. PICK v \in PhrasesFor(k) : call = Store(Phrase(k), v)
    BY <2>0
  <2>2. call.slot = Phrase(k) /\ at \in Nat
    BY <2>1 DEF Store, Inv, Shape
  <2>3. ASSUME NEW l \in KeysUsed(OldProfiles), Moved(db.doc, l)
        PROVE  Moved(DocOf(vm), l) /\ Moved(doc, l) /\ Moved(db'.doc, l)
    <3>1. Moved(DocOf(vm), l)
      BY <1>2, <1>12, <2>3 DEF Moving
    <3>2. Moved(doc, l)
      BY <1>8, <2>1, <3>1
    <3> QED
      BY <1>5, <2>3, <3>1, <3>2
  <2>4. Moved(vm'.doc, k) /\ (o = "written" => Moved(db'.doc, k))
    BY <1>3, <1>5, <1>8, <2>1
  <2>5. /\ DOMAIN calls' = 1..Len(calls')
        /\ \A n \in DOMAIN calls' :
              \E j \in KeysUsed(OldProfiles) : \E w \in PhrasesFor(j) : calls'[n] = Store(Phrase(j), w)
    BY <1>4, <1>12 DEF Moving
  <2>6. result'.any => \E l \in KeysUsed(OldProfiles) : Moved(db'.doc, l)
    BY <1>4, <1>5, <1>12, <2>3, <2>4 DEF Moving, Good
  <2>7. \A l \in KeysUsed(OldProfiles) : Moved(db'.doc, l) => Moved(vm'.doc, l)
    BY <1>3, <1>5, <2>3
  <2>8. ASSUME NEW i \in Owning
        PROVE  \/ Moved(db'.doc, OldProfiles[i].auth)
               \/ \E n \in DOMAIN calls' : n >= at' /\ calls'[n].slot = Phrase(OldProfiles[i].auth)
               \/ spent'["faults"] # 0 /\ ~result'.any
    <3> DEFINE l == OldProfiles[i].auth
    <3>1. l \in KeysUsed(OldProfiles)
      BY SlotsOfPassphrases DEF Owning
    <3>2. CASE Moved(db.doc, l)
      BY <2>3, <3>1, <3>2
    <3>3. CASE ~Moved(db.doc, l) /\ \E n \in DOMAIN calls : n >= at /\ calls[n].slot = Phrase(l)
      <4>1. PICK n \in DOMAIN calls : n >= at /\ calls[n].slot = Phrase(l)
        BY <3>3
      <4>2. CASE n = at
        <5>1. l = k
          BY <2>2, <4>1, <4>2, SlotsOfPassphrases DEF call
        <5>2. CASE o = "written"
          BY <2>4, <5>1, <5>2
        <5>3. CASE o = "failed"
          <6>1. Spend("faults") /\ db' = db /\ spent'["faults"] # 0
            BY <1>5, <5>3 DEF Spend, Counted, Budget
          <6>2. \A j, g \in KeysUsed(OldProfiles) : j = g
            BY <6>1 DEF Undisturbed
          <6>3. ~result.any
            BY <1>12, <3>1, <3>3, <6>2 DEF Moving
          <6> QED
            BY <1>4, <5>3, <6>1, <6>3 DEF Good
        <5> QED
          BY <1>5, <5>2, <5>3
      <4>3. CASE n # at
        <5>1. n \in Nat /\ n >= at + 1
          BY <1>12, <2>2, <4>1, <4>3 DEF Moving
        <5> QED
          BY <1>4, <4>1, <5>1
      <4> QED
        BY <4>2, <4>3
    <3>4. CASE ~Moved(db.doc, l) /\ spent["faults"] # 0 /\ ~result.any
      <4>1. \A j, g \in KeysUsed(OldProfiles) : j = g
        BY <3>4 DEF Undisturbed
      <4>2. l = k
        BY <3>1, <4>1
      <4>3. CASE o = "written"
        BY <2>4, <4>2, <4>3
      <4>4. CASE o = "failed"
        <5>1. spent'["faults"] # 0
          BY <1>5, <4>4 DEF Spend, Counted, Budget
        <5> QED
          BY <1>4, <3>4, <4>4, <5>1 DEF Good
      <4> QED
        BY <1>5, <4>3, <4>4
    <3> QED
      BY <1>12, <3>2, <3>3, <3>4 DEF Moving
  <2>9. Moving'
    BY <2>5, <2>6, <2>7, <2>8 DEF Moving
  <2> QED
    BY <1>1, <1>4, <1>6, <1>10, <1>12, <2>9, CallUnderWay DEF Migrating
<1> QED
  BY <1>1, <1>11, <1>12, CallUnderWay

\* The calls are made: when one passphrase was moved all are, and the list is saved.
LEMMA FinishMigrates ==
    ASSUME Inv, Undisturbed, Migrating, finish
    PROVE  Migrating'
<1>1. /\ phase = "busy" /\ (at <= Len(calls) => call.must) /\ Complete(op.target) /\ ~op.again
      /\ (op.name = "load" /\ Moving) \/ (op.name = "reload" /\ Resaving)
  BY DEF finish, Migrating
<1>2. CASE op.name = "load" /\ result.any
  <2>1. /\ Start("reload", op.target, op.target, FALSE, SaveCalls(op.target))
        /\ vm' = NewManager /\ UNCHANGED <<disk, prompt>>
    BY <1>2 DEF finish
  <2>2. AllMoved(db.doc)
    <3> SUFFICES ASSUME NEW i \in Owning PROVE Moved(db.doc, OldProfiles[i].auth)
      BY DEF AllMoved
    <3>0. Moving /\ result.any
      BY <1>1, <1>2
    <3>1. SUFFICES ASSUME NEW n \in DOMAIN calls, n >= at PROVE FALSE
      BY <3>0 DEF Moving
    <3>2. at \in Nat \ {0} /\ DOMAIN calls = 1..Len(calls)
      BY <3>0 DEF Inv, Shape, Moving
    <3>3. at <= Len(calls) /\ at \in DOMAIN calls
      BY <3>1, <3>2
    <3>4. ~call.must
      BY <3>0, <3>3 DEF Moving, Store, call
    <3> QED
      BY <1>1, <3>3, <3>4
  <2>3. /\ phase' = "busy" /\ calls' = SaveCalls(op.target)
        /\ op'.name = "reload" /\ op'.target = op.target /\ ~op'.again
    BY <2>1 DEF Start
  <2>4. UNCHANGED <<db, connects, legacy, prompt>> /\ vm'.loaded = FALSE
    BY <2>1, NewManagerShape DEF disk
  <2>5. Resaving'
    BY <2>2, <2>3, <2>4 DEF Resaving
  <2>6. Complete(op'.target) /\ (Intact(db))' /\ LostNothing(db'.doc)
    BY <1>1, <2>3, <2>4 DEF Migrating, Intact
  <2> QED
    BY <2>3, <2>4, <2>5, <2>6 DEF Migrating
<1>3. CASE ~(op.name = "load" /\ result.any)
  <2>1. /\ vm' = NewManager /\ phase' \in {"idle", "started"}
        /\ UNCHANGED <<db, connects>> /\ legacy' \in {legacy, <<>>} /\ prompt' = prompt
    BY <1>1, <1>3 DEF finish, NoWork, wipeLegacyProfiles
  <2> QED
    BY <2>1, StillMigrating
<1> QED
  BY <1>2, <1>3

\* What the user or the network starts is not for free, so it ends the claim.
LEMMA SavingIsCounted ==
    ASSUME Counted, Begin \/ Arrives
    PROVE  ~Undisturbed'
BY DEF Begin, Arrives, Spend, Counted, Budget, Undisturbed

\* Every step keeps the invariant.
THEOREM StepMigrates ==
    ASSUME Inv, Counted, MigrationInv, [Next]_vars
    PROVE  MigrationInv'
<1> SUFFICES ASSUME Undisturbed' PROVE Migrating'
  BY DEF MigrationInv
<1>1. Undisturbed /\ Migrating
  <2>1. Undisturbed
    BY HistoryGrows DEF Undisturbed, Counted, Budget
  <2> QED
    BY <2>1 DEF MigrationInv
<1>2. ~Begin /\ ~Arrives
  BY SavingIsCounted
<1>3. CASE UNCHANGED vars
  BY <1>1, <1>3 DEF vars, disk, work, history, Migrating, Moving, Resaving, Intact, call
<1>4. CASE configureFileStorage
  BY <1>1, <1>4, StillMigrating DEF configureFileStorage, work
<1>5. CASE Load
  BY <1>1, <1>5, LoadMigrates
<1>6. CASE listStoredKeys
  BY <1>1, <1>6, StillMigrating DEF listStoredKeys, disk, work
<1>7. CASE \E p \in Inputs : saveCurrentFormAsProfile(p) \/ saveSessionProfile(p)
  BY <1>2, <1>7 DEF saveCurrentFormAsProfile, saveSessionProfile
<1>8. CASE \E id \in ProfileIds : deleteSavedProfile(id) \/ moveProfile(id)
  BY <1>2, <1>8 DEF deleteSavedProfile, moveProfile
<1>9. CASE \E k \in StoredKeyIds : forgetPassphrase(k) \/ removeStoredKey(k) \/ importKeyIntoKeyring(k)
  BY <1>2, <1>9 DEF forgetPassphrase, removeStoredKey, importKeyIntoKeyring
<1>10. CASE \E k \in StoredKeyIds, s \in Secrets : savePassphrase(k, s) \/ generateKeyIntoKeyring(k, s)
  BY <1>2, <1>10 DEF savePassphrase, generateKeyIntoKeyring
<1>11. CASE \E s \in Secrets \union {NoSecret} : answerPrompt(s)
  BY <1>1, <1>11 DEF answerPrompt, Migrating
<1>12. CASE setProfileSystem \/ \E P \in RemotePayloads, keys \in SUBSET StoredKeyIds : applySynced(P, keys)
  BY <1>2, <1>12 DEF setProfileSystem, applySynced
<1>13. CASE \E o \in Outcomes : saveConnectsJson(o)
  BY <1>1, <1>13, ConnectsMigrates DEF Undisturbed
<1>14. CASE \E o \in Outcomes : rewriteDbvault(o)
  BY <1>1, <1>14, RewriteMigrates
<1>15. CASE keyRefused \/ vaultRefused
  BY <1>1, <1>15, KeyThere DEF keyRefused, vaultRefused
<1>16. CASE nothingToRemove
  BY <1>1, <1>16, SkipMigrates
<1>17. CASE finish
  BY <1>1, <1>17, FinishMigrates
<1>18. CASE stop
  BY <1>1, <1>18, StillMigrating DEF stop, NoWork, disk
<1>19. CASE keyringGoes
  BY <1>19, HistoryGrows DEF keyringGoes, Spend, Counted, Undisturbed, Budget
<1>20. CASE keyringReturns
  <2>1. UNCHANGED <<disk, phase, vm, op, calls, at, result, prompt, spent>>
    BY <1>20 DEF keyringReturns, work
  <2> QED
    BY <1>1, <2>1 DEF disk, Migrating, Moving, Resaving, Intact
<1> QED
  BY <1>3, <1>4, <1>5, <1>6, <1>7, <1>8, <1>9, <1>10, <1>11, <1>12, <1>13, <1>14, <1>15, <1>16,
     <1>17, <1>18, <1>19, <1>20 DEF Next

\* The old installation as it is found.
LEMMA InitMigrates == Init => Counted /\ MigrationInv
<1> SUFFICES ASSUME Init PROVE Counted /\ MigrationInv
  OBVIOUS
<1>1. Counted
  BY DEF Init, Counted, Bound, Budget
<1>2. ASSUME install = "old" PROVE Migrating
  <2>1. /\ db.key = 1 /\ db.doc = OldDoc /\ connects.state = "good"
        /\ connects.list = Meta(OldProfiles) /\ legacy = <<>> /\ prompt = <<>>
        /\ phase # "busy" /\ vm = NewManager
    BY <1>2 DEF Init
  <2>2. ASSUME NEW i \in KeyProfiles
        PROVE  OldDoc[Slot(i)] = OldProfiles[i].secret
    <3> DEFINE owned(s) == {j \in DOMAIN OldProfiles : /\ OldProfiles[j].auth \in StoredKeyIds
                                                       /\ s = <<OldProfiles[j].id, "keyPassphrase">>}
    <3>1. owned(Slot(i)) = {i}
      BY ConstantsAssumption DEF DistinctIds, KeyProfiles, Slot
    <3>2. i \in Nat /\ Min({i}) = i
      <4>1. i \in Nat
        BY OldProfilesTyped DEF KeyProfiles
      <4> QED
        BY <4>1, LeastExists
    <3>3. OldDoc[Slot(i)] = OldProfiles[Min(owned(Slot(i)))].secret
      <4>1. Slot(i) \in Slots /\ Slot(i)[2] # "pem" /\ owned(Slot(i)) # {}
        BY <3>1, SlotsOfPassphrases DEF Slot
      <4> QED
        BY <4>1 DEF OldDoc
    <3> QED
      BY <3>1, <3>2, <3>3
  <2>3. ASSUME NEW k \in KeysUsed(OldProfiles)
        PROVE  OldDoc[Phrase(k)] = Unset
    <3>1. Phrase(k) \in Slots /\ Phrase(k)[2] = "passphrase"
      BY SlotsOfPassphrases DEF Phrase
    <3> QED
      BY <3>1 DEF OldDoc, Phrase
  <2>4. DOMAIN OldDoc = Slots
    BY DEF OldDoc
  <2>5. LostNothing(OldDoc)
    BY <2>2, <2>3, <2>4 DEF LostNothing, Owning
  <2> QED
    BY <2>1, <2>5, NewManagerShape DEF Migrating, Intact, NoKey, Garbage
<1> QED
  BY <1>1, <1>2 DEF MigrationInv, Undisturbed

\* The invariant of the migration, with that of the vault.
THEOREM MigrationIsSafe == Spec => [](Counted /\ MigrationInv)
<1>1. Counted /\ [Next]_vars => Counted'
  BY HistoryGrows
<1> QED
  BY <1>1, InitMigrates, StepMigrates, VaultInvariance, PTL DEF Spec

\* An interrupted migration loses no passphrase.
THEOREM PassphrasesSurvive == Spec => []MigrationKeepsPassphrases
<1>1. MigrationInv => MigrationKeepsPassphrases
  <2> SUFFICES ASSUME MigrationInv, Undisturbed, NEW i \in Owning
               PROVE  \/ db.doc[Slot(i)] = OldProfiles[i].secret
                      \/ \E j \in DOMAIN OldProfiles :
                            /\ OldProfiles[j].auth = OldProfiles[i].auth /\ OldProfiles[j].secret # NoSecret
                            /\ db.doc[Phrase(OldProfiles[i].auth)] = OldProfiles[j].secret
    BY DEF MigrationKeepsPassphrases, Undisturbed, Owning, KeyProfiles, Slot, Phrase
  <2> QED
    BY DEF MigrationInv, Migrating, LostNothing, Moved, PhrasesFor, KeyProfiles
<1> QED
  BY <1>1, MigrationIsSafe, PTL

-----------------------------------------------------------------------------
(* What a save that succeeded left in the two files                            *)

PasswordSlot(p) == <<p.id, "password">>
PassphraseSlot(p) == <<p.id, "keyPassphrase">>

\* A document, whose entries are secrets but for the private keys.
Document(d) ==
    /\ d \in [Slots -> Values]
    /\ \A s \in Slots : s[2] # "pem" => d[s] \in Secrets \union {NoSecret, Unset}

SecretCallShape(c) ==
    /\ c.op \in {"store", "remove"} /\ c.slot \in Slots /\ c.value \in Values
    /\ c.slot[2] # "pem" => c.value \in Secrets \union {NoSecret, Unset}
    /\ c.op = "remove" => c.value = Unset

CallsShape(C) ==
    /\ Len(C) \in Nat /\ DOMAIN C = 1..Len(C)
    /\ \A n \in DOMAIN C : C[n].op = "connects" \/ SecretCallShape(C[n])

Remembered(m) == m \in Manager /\ Document(m.doc) /\ m.key <= keysMade

Metas == [id : ProfileIds, auth : Auths, save : BOOLEAN]

Typed ==
    /\ {native, fallback, keysMade} \subseteq Nat /\ native <= keysMade /\ fallback <= keysMade
    /\ db.key \in Nat \union {Garbage} /\ Document(db.doc)
    /\ db = Absent \/ db = Truncated \/ db.key \in 1..keysMade
    /\ Remembered(vm)
    /\ \/ prompt = <<>>
       \/ Len(prompt) = 1 /\ prompt[1].key \in StoredKeyIds /\ Remembered(prompt[1].vm)
    /\ CallsShape(calls)
    /\ connects.state \in {"none", "good", "corrupt"}
    /\ connects.state = "good" => connects.list \in Seq(Metas) /\ DistinctIds(connects.list)
    /\ Tidy(profiles) /\ Tidy(op.target) /\ Tidy(op.onFail)
    /\ legacy \in Seq(Profile) /\ (phase # "down" => legacy = <<>>)
    /\ phase \in {"down", "started", "idle", "busy"} /\ (phase = "down" => ~saved)
    /\ result \in [all : BOOLEAN, any : BOOLEAN]
    /\ saved \in BOOLEAN /\ damaged \in BOOLEAN

\* While no file was damaged, a manager that loaded the document has the key of dbvault,
\* and one that did not load it goes by the file.
Managers ==
    ~damaged =>
        /\ db # Truncated
        /\ vm.loaded /\ db # Absent => vm.key = db.key
        /\ ~vm.loaded /\ db = Absent => vm.doc = EmptyDoc
        /\ prompt # <<>> => prompt[1].vm.loaded /\ db # Absent /\ prompt[1].vm.key = db.key

\* The import of a key is one call; when it has succeeded its manager has the document.
Importing ==
    phase = "busy" /\ op.name = "import" =>
        /\ Len(calls) = 1 /\ calls[1].op = "store" /\ calls[1].slot[1] \in StoredKeyIds
        /\ at > 1 /\ result.all /\ ~damaged => vm.loaded /\ db # Absent

\* The document has the secrets of profiles P that are to be saved ...
HasAll(P, doc) ==
    \A i \in DOMAIN P :
        LET p == P[i] IN
        /\ p.save /\ p.auth = "password" => Secret(doc, PasswordSlot(p)) = p.secret
        /\ p.save /\ p.auth = "keyFile" => Secret(doc, PassphraseSlot(p)) = p.secret
        /\ p.auth \in StoredKeyIds =>
               IF Owners(P, p.auth) = {} THEN Secret(doc, Phrase(p.auth)) = NoSecret
               ELSE \E j \in Owners(P, p.auth) : doc[Phrase(p.auth)] = P[j].secret

\* ... and of those profiles no others.
HasNoOther(P, doc) ==
    \A i \in DOMAIN P :
        LET p == P[i] IN
        /\ doc[PasswordSlot(p)] \in Secrets => p.auth = "password" /\ p.save
        /\ doc[PassphraseSlot(p)] \in Secrets => p.auth = "keyFile" /\ p.save
        /\ p.auth \in StoredKeyIds /\ doc[Phrase(p.auth)] \in Secrets =>
               \E j \in DOMAIN P : P[j].auth = p.auth /\ P[j].save

Bare(P) == \A i \in DOMAIN P : P[i].secret = NoSecret

\* The files say what the list of profiles says.  A list that was loaded while the key
\* was not found has no secrets, and then the key stays unfound.
Kept(P) ==
    /\ connects.state = "good" /\ connects.list = Meta(P)
    /\ HasNoOther(P, db.doc)
    /\ HasAll(P, db.doc) \/ (Bare(P) /\ ~Opens(KeyFound))

Resting == phase # "busy" /\ saved /\ ~damaged => Kept(profiles)

\* Slots of stored keys that no profile uses.
Spare == {s \in Slots : s[1] \in StoredKeyIds /\ s[1] \notin KeysUsed(profiles)}

\* Operations that do not save the list of profiles leave what was kept.
Aside ==
    phase = "busy" /\ ~SavesProfiles /\ saved /\ ~damaged =>
        /\ Kept(profiles) /\ Kept(op.target)
        /\ op.name = "load" => calls = <<>> /\ ~op.again /\ ~result.any
        /\ op.name # "load" => op.target = profiles /\ op.onFail = profiles
        /\ \A n \in DOMAIN calls : calls[n].op # "connects" /\ calls[n].slot \in Spare
        /\ \A s \in Slots \ Spare : DocOf(vm)[s] = db.doc[s]

\* The calls name the slot and give it the value.
Wants(C, slot, value) ==
    \E n \in DOMAIN C : C[n].op # "connects" /\ C[n].slot = slot /\ C[n].value = value

SlotOf(p) == IF p.auth = "password" THEN PasswordSlot(p)
             ELSE IF p.auth = "keyFile" THEN PassphraseSlot(p) ELSE Phrase(p.auth)
\* What may be in it while the profile is left alone.
MayHold(p) == IF p.auth \in StoredKeyIds
              THEN {q.secret : q \in {q \in Range(profiles) \union Range(op.target) : q.auth = p.auth}}
              ELSE {p.secret}
LeftAlone(p) == p \in Range(op.target) /\ p.save /\ p.secret # NoSecret

Guarded ==
    phase = "busy" /\ SavesProfiles /\ saved /\ ~damaged =>
        \A i \in DOMAIN profiles :
            LeftAlone(profiles[i]) =>
                /\ db.doc[SlotOf(profiles[i])] \in MayHold(profiles[i])
                /\ DocOf(vm)[SlotOf(profiles[i])] \in MayHold(profiles[i])
                /\ \A v : Wants(calls, SlotOf(profiles[i]), v) => v \in MayHold(profiles[i])

\* What saving profiles P puts where.
PasswordOf(p) == IF p.auth = "password" /\ p.save THEN p.secret ELSE Unset
PassphraseOf(p) == IF p.auth = "keyFile" /\ p.save THEN p.secret ELSE Unset
PhraseOf(P, k) == IF Owners(P, k) # {} THEN P[Min(Owners(P, k))].secret ELSE Unset
SaveWants(P, slot, value) ==
    \/ \E i \in DOMAIN P : slot = PasswordSlot(P[i]) /\ value = PasswordOf(P[i])
    \/ \E i \in DOMAIN P : slot = PassphraseSlot(P[i]) /\ value = PassphraseOf(P[i])
    \/ \E k \in KeysUsed(P) : slot = Phrase(k) /\ value = PhraseOf(P, k)

\* The calls do that, and none of them undoes what another did.
Saves(C, P) ==
    /\ \E n \in DOMAIN C : C[n].op = "connects"
    /\ \A slot, value : SaveWants(P, slot, value) => Wants(C, slot, value)
    /\ \A slot, v, w : Wants(C, slot, v) /\ Wants(C, slot, w) => v = w

\* As long as every call succeeded, each of those made has its effect in the files.
Saving ==
    phase = "busy" /\ SavesProfiles =>
        /\ Saves(calls, op.target)
        /\ ~damaged /\ result.all =>
               /\ DocOf(vm) = db.doc
               /\ \A n \in DOMAIN calls :
                     n < at => IF calls[n].op = "connects"
                               THEN connects.state = "good" /\ connects.list = Meta(op.target)
                               ELSE db.doc[calls[n].slot] = calls[n].value

SaveInv == Typed /\ Managers /\ Importing /\ Resting /\ Aside /\ Guarded /\ Saving

-----------------------------------------------------------------------------
(* A call on dbvault, as far as these parts are concerned                      *)

\* What it leaves alone, the shape of what it changes, and what it does to the document
\* in memory and in the file.
SecretFrame ==
    /\ UNCHANGED <<connects, legacy, phase, profiles, op, calls, prompt, saved>>
    /\ damaged' \in BOOLEAN /\ (damaged => damaged')
    /\ phase = "busy" /\ at \in DOMAIN calls /\ at' = at + 1
    /\ call.op # "connects" /\ SecretCallShape(call)

SecretTypes ==
    /\ Document(db'.doc) /\ Remembered(vm)'
    /\ native' \in 0..keysMade' /\ fallback' \in 0..keysMade' /\ keysMade' \in Nat
    /\ keysMade <= keysMade'
    /\ result' \in [all : BOOLEAN, any : BOOLEAN]
    /\ db' = Absent \/ db' = Truncated \/ db'.key \in 1..keysMade'

KeysEffect ==
    /\ db' # Truncated
    /\ db # Absent => db' # Absent /\ db'.key = db.key
    /\ vm'.loaded /\ db' # Absent => vm'.key = db'.key
    /\ ~vm'.loaded /\ db' = Absent => vm'.doc = EmptyDoc
    /\ ~Opens(KeyFound) => ~Opens(KeyFound)'
MemoryEffect ==
    \A s \in Slots :
        \/ DocOf(vm)'[s] = DocOf(vm)[s]
        \/ s = call.slot /\ DocOf(vm)'[s] = call.value
FileEffect ==
    \A s \in Slots :
        \/ db'.doc[s] \in {db.doc[s], DocOf(vm)[s]}
        \/ s = call.slot /\ db'.doc[s] = call.value
SuccessEffect ==
    result'.all =>
        /\ result.all
        /\ call.op = "store" => vm'.loaded /\ db' # Absent
        /\ DocOf(vm) = db.doc =>
               /\ DocOf(vm)' = db'.doc /\ db'.doc[call.slot] = call.value
               /\ \A s \in Slots \ {call.slot} : db'.doc[s] = db.doc[s]
SecretEffect == KeysEffect /\ MemoryEffect /\ FileEffect /\ SuccessEffect

SecretStep == SecretFrame /\ SecretTypes /\ (~damaged' => ~damaged /\ SecretEffect)

\* A manager whose key, document and mark have been set.
LEMMA ManagerUpdated ==
    ASSUME NEW m \in Manager, NEW key \in Nat, NEW doc \in [Slots -> Values], NEW b \in BOOLEAN
    PROVE  /\ [m EXCEPT !.key = key, !.doc = doc, !.loaded = b] \in Manager
           /\ [m EXCEPT !.key = key, !.doc = doc, !.loaded = b]
                  = [key |-> key, loaded |-> b, doc |-> doc, aged |-> m.aged]
           /\ [m EXCEPT !.key = key, !.doc = doc]
                  = [key |-> key, loaded |-> m.loaded, doc |-> doc, aged |-> m.aged]
           /\ [m EXCEPT !.key = key]
                  = [key |-> key, loaded |-> m.loaded, doc |-> m.doc, aged |-> m.aged]
<1> DEFINE m1 == [m EXCEPT !.key = key]
           m2 == [m EXCEPT !.key = key, !.doc = doc]
           m3 == [m EXCEPT !.key = key, !.doc = doc, !.loaded = b]
<1>1. m = [key |-> m.key, loaded |-> m.loaded, doc |-> m.doc, aged |-> m.aged]
      /\ DOMAIN m = {"key", "loaded", "doc", "aged"}
  BY DEF Manager
<1>2. m1 = [key |-> key, loaded |-> m.loaded, doc |-> m.doc, aged |-> m.aged]
  BY <1>1
<1>6. m2 = [m1 EXCEPT !.doc = doc]
  BY <1>1
<1>7. m3 = [m2 EXCEPT !.loaded = b]
  BY <1>1
<1> HIDE DEF m1, m2, m3
<1>3. m2 = [key |-> key, loaded |-> m.loaded, doc |-> doc, aged |-> m.aged]
  BY <1>2, <1>6
<1>4. m3 = [key |-> key, loaded |-> b, doc |-> doc, aged |-> m.aged]
  BY <1>3, <1>7
<1>5. m3 \in Manager
  BY <1>4 DEF Manager
<1> QED
  BY <1>2, <1>3, <1>4, <1>5 DEF m1, m2, m3

\* ensureDbKey finds no key that would open a file that does not open.
LEMMA StaysShut ==
    ASSUME NEW m, Inv, Typed, m.key \in Nat, EnsureDbKey(m), ~Opens(KeyFound),
           db'.key = db.key, db' # Absent
    PROVE  ~Opens(KeyFound)'
<1>1. db # Absent /\ db.key # KeyFound
  BY DEF Opens
<1>2. KeyFound' = KeyFound \/ KeyFound' = keysMade + 1
  BY DEF Inv, Shape, EnsureDbKey, MakesKey, KeyFound, RetrieveNative, RetrieveFallback,
         StoreNative, StoreFallback, NoKey
<1>3. db.key # keysMade + 1
  <2>1. keysMade \in Nat
    BY DEF Inv, Shape
  <2> QED
    BY <2>1, <1>1 DEF Typed, Truncated, Garbage
<1> QED
  BY <1>1, <1>2, <1>3 DEF Opens

\* Every key is one that was made.
LEMMA KeysAreMade ==
    ASSUME NEW m, Typed, Remembered(m), EnsureDbKey(m)
    PROVE  /\ native' \in 0..keysMade' /\ fallback' \in 0..keysMade' /\ keysMade' \in Nat
           /\ keysMade <= keysMade' /\ DbKey(m) \in 1..keysMade'
           /\ m.key # NoKey => DbKey(m) = m.key
<1>1. native \in Nat /\ fallback \in Nat /\ keysMade \in Nat /\ native <= keysMade /\ fallback <= keysMade
      /\ m.key \in Nat /\ m.key <= keysMade
  BY DEF Typed, Remembered, Manager
<1> QED
  BY <1>1 DEF EnsureDbKey, MakesKey, DbKey, KeyFound, RetrieveNative, RetrieveFallback,
              StoreNative, StoreFallback, NoKey

\* The call to make next.
LEMMA CallToMake ==
    ASSUME Inv, Typed, SecretCall
    PROVE  /\ phase = "busy" /\ at \in DOMAIN calls /\ call.op # "connects" /\ SecretCallShape(call)
           /\ Document(DocOf(vm))
<1>1. phase = "busy" /\ at <= Len(calls) /\ call.op # "connects"
  BY DEF SecretCall, Calling
<1>2. at \in DOMAIN calls
  BY <1>1 DEF Typed, Inv, Shape
<1> QED
  BY <1>1, <1>2 DEF Typed, CallsShape, call, DocOf, Remembered

\* What every manager knows of dbvault.
LEMMA DocOfFresh ==
    ASSUME NEW m, ~m.loaded, m.doc = EmptyDoc
    PROVE  DocOf(m) = db.doc
BY DEF DocOf, Absent

LEMMA SameDocument ==
    ASSUME db' = db, vm'.loaded = vm.loaded, vm'.doc = vm.doc \/ vm'.doc = DocOf(vm)
    PROVE  DocOf(vm)' = DocOf(vm)
BY DEF DocOf, Absent

\* A call that fails before it writes.
LEMMA RefusedStep ==
    ASSUME Inv, Typed, Managers, keyRefused \/ vaultRefused
    PROVE  SecretStep
<1>3. /\ SecretCall /\ UNCHANGED <<db, connects, legacy, phase, profiles, op, calls, prompt, saved, damaged>>
      /\ at' = at + 1 /\ result' = [all |-> FALSE, any |-> result.any]
  <2>1. CASE keyRefused
    BY <2>1 DEF keyRefused, Returns, disk, Typed
  <2>2. CASE vaultRefused
    BY <2>2 DEF vaultRefused, Returns, disk, history, Typed
  <2> QED
    BY <2>1, <2>2
<1>1. \/ vm' = vm /\ UNCHANGED keyring
      \/ ~vm.loaded /\ vm' = [vm EXCEPT !.key = DbKey(vm)] /\ EnsureDbKey(vm)
  <2>1. CASE keyRefused
    BY <2>1, Zenon DEF keyRefused
  <2>2. CASE vaultRefused
    BY <2>2, Zenon DEF vaultRefused, Readable
  <2> QED
    BY <2>1, <2>2
<1>2. vm \in Manager /\ Document(vm.doc) /\ Document(db.doc) /\ result.any \in BOOLEAN
  BY DEF Typed, Remembered
<1>4. /\ native' \in 0..keysMade' /\ fallback' \in 0..keysMade' /\ keysMade' \in Nat
      /\ keysMade <= keysMade' /\ keysMade \in Nat
      /\ vm' = vm \/ (~vm.loaded /\ vm' = [vm EXCEPT !.key = DbKey(vm)] /\ DbKey(vm) \in 1..keysMade')
  <2>1. CASE UNCHANGED keyring /\ vm' = vm
    BY <2>1 DEF keyring, Typed
  <2>2. CASE EnsureDbKey(vm)
    BY <2>2, <1>1, KeysAreMade DEF Typed
  <2> QED
    BY <1>1, <2>1, <2>2
<1>5. /\ vm' \in Manager /\ vm'.loaded = vm.loaded /\ vm'.doc = vm.doc /\ (vm.loaded => vm'.key = vm.key)
      /\ vm'.key <= keysMade'
  <2>1. vm.key <= keysMade
    BY DEF Typed, Remembered
  <2>2. CASE vm' = vm
    BY <1>2, <1>4, <2>1, <2>2 DEF Manager
  <2>3. CASE ~vm.loaded /\ vm' = [vm EXCEPT !.key = DbKey(vm)] /\ DbKey(vm) \in 1..keysMade'
    BY <1>2, <1>4, <2>1, <2>3 DEF Manager
  <2> QED
    BY <1>4, <2>2, <2>3
<1>6. DocOf(vm)' = DocOf(vm)
  BY <1>3, <1>5, SameDocument
<1>7. ~Opens(KeyFound) => ~Opens(KeyFound)'
  <2>1. CASE UNCHANGED keyring
    BY <2>1, <1>3 DEF keyring, Opens, KeyFound, RetrieveNative, RetrieveFallback
  <2>2. CASE EnsureDbKey(vm)
    BY <2>2, <1>2, <1>3, StaysShut DEF Manager, Opens
  <2> QED
    BY <1>1, <2>1, <2>2
<1>8. db' = Absent \/ db' = Truncated \/ db'.key \in 1..keysMade'
  BY <1>3, <1>4 DEF Typed
<1>9. ASSUME ~damaged
      PROVE  /\ db' # Truncated
             /\ vm'.loaded /\ db' # Absent => vm'.key = db'.key
             /\ ~vm'.loaded /\ db' = Absent => vm'.doc = EmptyDoc
  BY <1>3, <1>5, <1>9 DEF Managers
<1>10. result' \in [all : BOOLEAN, any : BOOLEAN] /\ ~result'.all
  BY <1>3, <1>2
<1>11. SecretFrame
  BY <1>3, CallToMake DEF SecretFrame, Typed
<1>12. SecretTypes
  BY <1>2, <1>3, <1>4, <1>5, <1>8, <1>10 DEF SecretTypes, Remembered
<1>13. ~damaged => KeysEffect
  BY <1>3, <1>7, <1>9 DEF KeysEffect
<1>14. MemoryEffect /\ FileEffect /\ SuccessEffect
  BY <1>3, <1>6, <1>10 DEF MemoryEffect, FileEffect, SuccessEffect
<1> QED
  BY <1>3, <1>11, <1>12, <1>13, <1>14 DEF SecretStep, SecretEffect

\* A call that removes what is not there.
LEMMA SkippedStep ==
    ASSUME Inv, Typed, Managers, nothingToRemove
    PROVE  SecretStep
<1>1. /\ SecretCall /\ UNCHANGED <<disk, phase, profiles, op, calls, prompt, saved, damaged>>
      /\ at' = at + 1 /\ result' = [all |-> result.all, any |-> TRUE]
      /\ vm' = [vm EXCEPT !.key = DbKey(vm), !.doc = DocOf(vm)] /\ EnsureDbKey(vm)
      /\ call.op = "remove" /\ DocOf(vm)[call.slot] = Unset /\ Readable
  <2>1. SecretCallShape(call) /\ call.slot \in Kin(call.slot)
    BY CallToMake DEF nothingToRemove, SecretCallShape, Kin
  <2> QED
    BY <2>1 DEF nothingToRemove, Returns, Typed, history
<1>2. vm \in Manager /\ Document(vm.doc) /\ Document(db.doc) /\ result.all \in BOOLEAN
  BY DEF Typed, Remembered
<1>3. db' = db /\ connects' = connects /\ legacy' = legacy
  BY <1>1 DEF disk
<1>4. /\ native' \in 0..keysMade' /\ fallback' \in 0..keysMade' /\ keysMade' \in Nat
      /\ keysMade <= keysMade' /\ keysMade \in Nat /\ DbKey(vm) \in 1..keysMade'
      /\ (vm.loaded /\ vm.key # NoKey => DbKey(vm) = vm.key)
  BY <1>1, KeysAreMade DEF Typed
<1>5. vm' \in Manager /\ vm'.loaded = vm.loaded /\ vm'.doc = DocOf(vm) /\ vm'.key = DbKey(vm)
      /\ vm'.key <= keysMade'
  <2>1. DocOf(vm) \in [Slots -> Values]
    BY <1>1, CallToMake DEF Document
  <2>2. vm' = [key |-> DbKey(vm), loaded |-> vm.loaded, doc |-> DocOf(vm), aged |-> vm.aged]
    BY <1>1, <1>2, <1>4, <2>1, ManagerUpdated DEF Manager
  <2> QED
    BY <1>2, <1>4, <2>1, <2>2 DEF Manager
<1>6. DocOf(vm)' = DocOf(vm)
  BY <1>3, <1>5, SameDocument
<1>7. ~Opens(KeyFound) => ~Opens(KeyFound)'
  BY <1>1, <1>2, <1>3, StaysShut DEF Manager, Opens
<1>8. db' = Absent \/ db' = Truncated \/ db'.key \in 1..keysMade'
  BY <1>3, <1>4 DEF Typed
<1>9. ASSUME ~damaged
      PROVE  /\ db' # Truncated
             /\ vm'.loaded /\ db' # Absent => vm'.key = db'.key
             /\ ~vm'.loaded /\ db' = Absent => vm'.doc = EmptyDoc
  <2>1. vm.loaded /\ db # Absent => db.key # NoKey
    <3>1. keysMade \in Nat
      BY <1>4
    <3> QED
      BY <3>1, <1>9 DEF Managers, Typed, NoKey, Truncated, Garbage
  <2>2. ~vm.loaded /\ db = Absent => DocOf(vm) = EmptyDoc
    BY <1>9 DEF Managers, DocOf
  <2> QED
    BY <2>1, <2>2, <1>3, <1>4, <1>5, <1>9 DEF Managers
<1>10. result' \in [all : BOOLEAN, any : BOOLEAN] /\ (result'.all => result.all)
  BY <1>1, <1>2
<1>11. call.op # "store" /\ call.value = Unset
  BY <1>1, CallToMake DEF SecretCallShape
<1>12. SecretFrame
  BY <1>1, <1>3, CallToMake DEF SecretFrame, Typed
<1>13. SecretTypes
  BY <1>1, <1>2, <1>3, <1>4, <1>5, <1>8, <1>10, CallToMake DEF SecretTypes, Remembered
<1>14. ~damaged => KeysEffect
  BY <1>3, <1>7, <1>9 DEF KeysEffect
<1>15. MemoryEffect /\ FileEffect /\ SuccessEffect
  BY <1>1, <1>3, <1>6, <1>10, <1>11 DEF MemoryEffect, FileEffect, SuccessEffect
<1> QED
  BY <1>1, <1>12, <1>13, <1>14, <1>15 DEF SecretStep, SecretEffect

\* A call that rewrites the document, whether or not it reaches the file.
LEMMA RewriteStep ==
    ASSUME Inv, Typed, Managers, NEW o \in Outcomes, rewriteDbvault(o)
    PROVE  SecretStep
<1> DEFINE doc == [DocOf(vm) EXCEPT ![call.slot] = call.value]
<1>1. /\ SecretCall /\ Readable /\ EnsureDbKey(vm) /\ Outcome(o)
      /\ UNCHANGED <<connects, legacy, phase, profiles, op, calls, prompt>>
      /\ at' = at + 1 /\ db' = persistDbvault(DbKey(vm), doc, o)
      /\ vm' = [vm EXCEPT !.key = DbKey(vm), !.doc = doc, !.loaded = @ \/ call.op = "store"]
  BY DEF rewriteDbvault, Returns
<1>2. /\ call.op = "remove" => \E s \in Kin(call.slot) : DocOf(vm)[s] # Unset
      /\ result' = [all |-> result.all /\ Good(o), any |-> result.any \/ Good(o)]
  BY DEF rewriteDbvault, Returns
<1>3. /\ phase = "busy" /\ at \in DOMAIN calls /\ call.op # "connects" /\ SecretCallShape(call)
      /\ Document(DocOf(vm))
  BY <1>1, CallToMake
<1>6. /\ vm \in Manager /\ Document(vm.doc) /\ Document(db.doc)
      /\ result.all \in BOOLEAN /\ result.any \in BOOLEAN
  BY DEF Typed, Remembered
<1>7. /\ native' \in 0..keysMade' /\ fallback' \in 0..keysMade' /\ keysMade' \in Nat
      /\ keysMade <= keysMade' /\ keysMade \in Nat /\ DbKey(vm) \in 1..keysMade'
      /\ vm.key # NoKey => DbKey(vm) = vm.key
  BY <1>1, KeysAreMade DEF Typed
<1>8. Document(doc)
  BY <1>3 DEF Document, SecretCallShape
<1>9. doc[call.slot] = call.value /\ \A s \in Slots \ {call.slot} : doc[s] = DocOf(vm)[s]
  BY <1>3 DEF Document, SecretCallShape
<1> HIDE DEF doc
<1>10. /\ vm' \in Manager /\ vm'.doc = doc /\ vm'.key = DbKey(vm)
       /\ vm'.loaded = (vm.loaded \/ call.op = "store")
  <2>1. /\ doc \in [Slots -> Values] /\ DbKey(vm) \in Nat /\ vm \in Manager
        /\ (vm.loaded \/ call.op = "store") \in BOOLEAN
    BY <1>6, <1>7, <1>8 DEF Document
  <2>2. vm' = [vm EXCEPT !.key = DbKey(vm), !.doc = doc, !.loaded = (vm.loaded \/ call.op = "store")]
    BY <1>1
  <2>3. vm' = [key |-> DbKey(vm), loaded |-> (vm.loaded \/ call.op = "store"), doc |-> doc,
               aged |-> vm.aged]
    BY <2>1, <2>2, ManagerUpdated, ZenonT(60)
  <2> QED
    BY <2>1, <2>3 DEF Manager
<1>19. result' \in [all : BOOLEAN, any : BOOLEAN]
  BY <1>2, <1>6 DEF Good
<1>21. Remembered(vm)'
  BY <1>7, <1>8, <1>10 DEF Remembered
<1>24. SecretFrame
  <2>1. UNCHANGED <<connects, legacy, phase, profiles, op, calls, prompt, saved>> /\ at' = at + 1
        /\ damaged' \in BOOLEAN /\ (damaged => damaged')
    BY <1>1 DEF Outcome, Typed
  <2> QED
    BY <1>3, <2>1 DEF SecretFrame
<1>25. SecretTypes
  <2>1. db' = db \/ db' = Absent \/ db' = Truncated \/ db' = [key |-> DbKey(vm), doc |-> doc]
    BY <1>1 DEF persistDbvault, Outcomes
  <2>2. db' = Absent \/ db' = Truncated \/ db'.key \in 1..keysMade'
    BY <2>1, <1>7 DEF Typed
  <2>3. Document(db'.doc)
    BY <2>1, <1>6, <1>8 DEF Absent, Truncated, Document, EmptyDoc, Values
  <2> QED
    BY <2>2, <2>3, <1>7, <1>19, <1>21 DEF SecretTypes
<1>30. ASSUME ~damaged' PROVE ~damaged /\ SecretEffect
  <2>4. o \in {"written", "failed"} /\ ~damaged /\ damaged' = damaged /\ saved' = saved
    BY <1>1, <1>30 DEF Outcome, Outcomes, Typed
  <2>5. /\ o = "written" => db' = [key |-> DbKey(vm), doc |-> doc]
        /\ o = "failed" => db' = db
    BY <1>1 DEF persistDbvault
  <2>11. ~vm.loaded => DocOf(vm) = db.doc
    BY <2>4 DEF Managers, DocOf, Absent
  <2>12. db # Absent => db.key \in 1..keysMade /\ db.key # NoKey /\ DbKey(vm) = db.key
    <3>1. db # Absent => db.key \in 1..keysMade /\ db.key # NoKey
      BY <2>4, <1>7 DEF Typed, Managers, NoKey
    <3>2. CASE vm.loaded
      BY <3>1, <3>2, <2>4, <1>7 DEF Managers
    <3>3. CASE ~vm.loaded
      BY <3>1, <3>3, <1>1 DEF Readable, Opens
    <3> QED
      BY <3>1, <3>2, <3>3
  <2>13. ~Opens(KeyFound) => ~Opens(KeyFound)'
    <3>1. ~Opens(KeyFound) => db # Absent
      BY DEF Opens
    <3>2. db # Absent => db' # Absent /\ db'.key = db.key
      BY <2>4, <2>5, <2>12 DEF Absent
    <3> QED
      BY <1>1, <1>6, <3>1, <3>2, StaysShut DEF Manager
  <2>14. /\ db' = Absent \/ (db' # Truncated /\ db'.key \in 1..keysMade')
         /\ db # Absent => db' # Absent /\ db'.key = db.key
         /\ Document(db'.doc)
    <3>1. CASE o = "written"
      BY <3>1, <2>5, <1>7, <1>8, <2>12 DEF Absent, Truncated, NoKey, Garbage
    <3>2. CASE o = "failed"
      BY <3>2, <2>4, <2>5, <1>6, <1>7, <2>12 DEF Managers
    <3> QED
      BY <2>4, <3>1, <3>2
  <2>15. /\ vm'.loaded /\ db' # Absent => vm'.key = db'.key
         /\ ~vm'.loaded /\ db' = Absent => vm'.doc = EmptyDoc
    <3>1. db' # Absent => vm'.key = db'.key
      BY <2>4, <2>5, <1>10, <2>12
    <3>2. ASSUME ~vm'.loaded, db' = Absent PROVE FALSE
      <4>1. ~vm.loaded /\ call.op = "remove" /\ db = Absent
        BY <3>2, <1>3, <1>10, <2>14 DEF SecretCallShape
      <4>2. DocOf(vm) = EmptyDoc
        BY <4>1, <2>4 DEF Managers, DocOf
      <4> QED
        BY <4>1, <4>2, <1>2 DEF Kin, EmptyDoc
    <3> QED
      BY <3>1, <3>2
  <2>16. DocOf(vm)' = doc \/ DocOf(vm)' = DocOf(vm)
    <3>1. CASE vm'.loaded \/ db' = Absent
      BY <3>1, <1>10 DEF DocOf
    <3>2. CASE ~vm'.loaded /\ db' # Absent
      <4>1. DocOf(vm)' = db'.doc /\ ~vm.loaded
        BY <3>2, <1>10 DEF DocOf
      <4> QED
        BY <4>1, <2>4, <2>5, <2>11
    <3> QED
      BY <3>1, <3>2
  <2>17. FileEffect
    BY <2>4, <2>5, <1>9 DEF FileEffect
  <2>18. ASSUME result'.all
         PROVE  /\ result.all
                /\ call.op = "store" => vm'.loaded /\ db' # Absent
                /\ DocOf(vm)' = doc /\ db'.doc = doc
    <3>1. result.all /\ o = "written"
      BY <1>2, <2>4, <1>6, <2>18 DEF Good
    <3>2. db' # Absent /\ db'.doc = doc
      BY <3>1, <2>5, <1>7 DEF Absent, NoKey
    <3> QED
      BY <3>1, <3>2, <1>10 DEF DocOf
  <2>20. MemoryEffect
    BY <1>9, <2>16 DEF MemoryEffect
  <2>23. SuccessEffect
    BY <1>9, <2>18 DEF SuccessEffect
  <2>24. KeysEffect
    BY <2>13, <2>14, <2>15 DEF KeysEffect, Absent, Truncated, NoKey, Garbage
  <2> QED
    BY <2>4, <2>17, <2>20, <2>23, <2>24 DEF SecretEffect
<1> QED
  BY <1>24, <1>25, <1>30 DEF SecretStep

-----------------------------------------------------------------------------
(* What is kept depends on the slots of the profiles only                      *)

LEMMA ProfileSlots ==
    ASSUME NEW P \in Seq(Profile), NEW i \in DOMAIN P
    PROVE  /\ P[i] \in Profile /\ P[i].id \in ProfileIds /\ P[i].auth \in Auths /\ P[i].save \in BOOLEAN
           /\ P[i].secret \in Secrets \union {NoSecret}
           /\ PasswordSlot(P[i]) \in Slots /\ PassphraseSlot(P[i]) \in Slots
           /\ P[i].auth \in StoredKeyIds => Phrase(P[i].auth) \in Slots
           /\ SlotOf(P[i]) \in Slots
<1>1. P[i] \in Profile
  OBVIOUS
<1>2. P[i].auth \in StoredKeyIds \/ P[i].auth \in {"password", "keyFile"}
  BY <1>1 DEF Profile, Auths
<1>3. PasswordSlot(P[i]) \in Slots /\ PassphraseSlot(P[i]) \in Slots
  BY <1>1 DEF Profile, Slots, PasswordSlot, PassphraseSlot
<1>4. P[i].auth \in StoredKeyIds => Phrase(P[i].auth) \in Slots
  BY DEF Slots, Phrase
<1> QED
  BY <1>1, <1>2, <1>3, <1>4 DEF Profile, SlotOf

\* No slot of a profile is spare.
LEMMA SpareIsApart ==
    ASSUME NEW P \in Seq(Profile), NEW i \in DOMAIN P
    PROVE  /\ \A s : s[1] \in StoredKeyIds => s # PasswordSlot(P[i]) /\ s # PassphraseSlot(P[i])
           /\ P[i].auth \in StoredKeyIds => P[i].auth \in KeysUsed(P)
<1>1. P[i].id \notin StoredKeyIds
  BY ProfileSlots, ConstantsAssumption
<1> QED
  BY <1>1 DEF PasswordSlot, PassphraseSlot, KeysUsed

LEMMA KeptCarries ==
    ASSUME NEW P \in Seq(Profile), NEW d, NEW e,
           \A i \in DOMAIN P : /\ e[PasswordSlot(P[i])] = d[PasswordSlot(P[i])]
                               /\ e[PassphraseSlot(P[i])] = d[PassphraseSlot(P[i])]
                               /\ P[i].auth \in StoredKeyIds => e[Phrase(P[i].auth)] = d[Phrase(P[i].auth)]
    PROVE  (HasAll(P, d) => HasAll(P, e)) /\ (HasNoOther(P, d) => HasNoOther(P, e))
<1>1. HasNoOther(P, d) => HasNoOther(P, e)
  BY DEF HasNoOther
<1>2. HasAll(P, d) => HasAll(P, e)
  BY DEF HasAll, Secret
<1> QED
  BY <1>1, <1>2

\* Profiles stay kept when dbvault changes in spare slots and does not begin to open.
LEMMA StaysKept ==
    ASSUME Typed, NEW P, Tidy(P), Kept(P), KeysUsed(P) \subseteq KeysUsed(profiles),
           connects' = connects, ~Opens(KeyFound) => ~Opens(KeyFound)',
           \A s \in Slots \ Spare : db'.doc[s] = db.doc[s]
    PROVE  Kept(P)'
<1>1. P \in Seq(Profile)
  BY DEF Tidy
<1>2. ASSUME NEW i \in DOMAIN P
      PROVE  /\ PasswordSlot(P[i]) \in Slots \ Spare /\ PassphraseSlot(P[i]) \in Slots \ Spare
             /\ P[i].auth \in StoredKeyIds => Phrase(P[i].auth) \in Slots \ Spare
  BY <1>1, ProfileSlots, SpareIsApart DEF Spare, Phrase
<1>3. \A i \in DOMAIN P : /\ db'.doc[PasswordSlot(P[i])] = db.doc[PasswordSlot(P[i])]
                          /\ db'.doc[PassphraseSlot(P[i])] = db.doc[PassphraseSlot(P[i])]
                          /\ P[i].auth \in StoredKeyIds =>
                                 db'.doc[Phrase(P[i].auth)] = db.doc[Phrase(P[i].auth)]
  BY <1>2
<1>4. (HasAll(P, db.doc) => HasAll(P, db'.doc)) /\ (HasNoOther(P, db.doc) => HasNoOther(P, db'.doc))
  BY <1>1, <1>3, KeptCarries
<1> QED
  BY <1>4 DEF Kept

-----------------------------------------------------------------------------
(* The calls of an operation keep the invariant                                *)

LEMMA SecretKeepsTyped ==
    ASSUME Typed, SecretStep
    PROVE  Typed'
<1>1. SecretFrame /\ SecretTypes
  BY DEF SecretStep
<1>2. keysMade \in Nat /\ keysMade' \in Nat /\ keysMade <= keysMade'
  BY <1>1 DEF SecretTypes, Typed
<1>3. ASSUME NEW m, Remembered(m) PROVE m \in Manager /\ Document(m.doc) /\ m.key <= keysMade'
  BY <1>2, <1>3 DEF Remembered, Manager
<1>4. \/ prompt' = <<>>
      \/ Len(prompt') = 1 /\ prompt'[1].key \in StoredKeyIds /\ Remembered(prompt[1].vm)'
  BY <1>1, <1>3 DEF Typed, SecretFrame, Remembered
<1>5. /\ {native', fallback', keysMade'} \subseteq Nat /\ native' <= keysMade' /\ fallback' <= keysMade'
      /\ db'.key \in Nat \union {Garbage}
      /\ db' = Absent \/ db' = Truncated \/ db'.key \in 1..keysMade'
  BY <1>1 DEF SecretTypes, Absent, Truncated, NoKey, Garbage
<1>6. Document(db'.doc) /\ Remembered(vm)' /\ result' \in [all : BOOLEAN, any : BOOLEAN]
  BY <1>1 DEF SecretTypes
<1>7. UNCHANGED <<connects, legacy, phase, profiles, op, calls, saved>> /\ damaged' \in BOOLEAN
  BY <1>1 DEF SecretFrame
<1> QED
  BY <1>4, <1>5, <1>6, <1>7 DEF Typed

LEMMA SecretKeepsManagers ==
    ASSUME Typed, Managers, Importing, SecretStep
    PROVE  Managers' /\ Importing'
<1>1. SecretFrame /\ (~damaged' => ~damaged /\ KeysEffect /\ SuccessEffect)
  BY DEF SecretStep, SecretEffect
<1>2. Managers'
  BY <1>1 DEF Managers, SecretFrame, KeysEffect
<1>3. Importing'
  <2> SUFFICES ASSUME op.name = "import", result'.all, ~damaged'
               PROVE  vm'.loaded /\ db' # Absent
    BY <1>1 DEF Importing, SecretFrame
  <2>1. call = calls[1]
    <3>1. Len(calls) = 1 /\ at \in DOMAIN calls
      BY <1>1 DEF Importing, SecretFrame
    <3>2. DOMAIN calls = 1..Len(calls)
      BY DEF Typed
    <3>3. at = 1
      BY <3>1, <3>2
    <3> QED
      BY <3>3 DEF call
  <2> QED
    BY <1>1, <2>1 DEF Importing, SecretFrame, SuccessEffect
<1> QED
  BY <1>2, <1>3

LEMMA SecretKeepsAside ==
    ASSUME Typed, Aside, SecretStep
    PROVE  Resting' /\ Aside'
<1>1. SecretFrame /\ (~damaged' => ~damaged /\ KeysEffect /\ MemoryEffect /\ FileEffect)
  BY DEF SecretStep, SecretEffect
<1>2. Resting'
  BY <1>1 DEF Resting, SecretFrame
<1>3. ASSUME ~SavesProfiles, saved, ~damaged'
      PROVE  /\ Kept(profiles)' /\ Kept(op.target)'
             /\ op.name # "load" /\ op.target = profiles /\ op.onFail = profiles
             /\ \A n \in DOMAIN calls : calls[n].op # "connects" /\ calls[n].slot \in Spare
             /\ \A s \in Slots \ Spare : DocOf(vm)'[s] = db'.doc[s]
  <2>1. /\ Kept(profiles) /\ Tidy(profiles) /\ op.name # "load"
        /\ op.target = profiles /\ op.onFail = profiles
        /\ \A n \in DOMAIN calls : calls[n].op # "connects" /\ calls[n].slot \in Spare
        /\ \A s \in Slots \ Spare : DocOf(vm)[s] = db.doc[s]
    <3>1. phase = "busy" /\ at \in DOMAIN calls /\ ~damaged
      BY <1>1, <1>3 DEF SecretFrame
    <3> QED
      BY <3>1, <1>3 DEF Aside, Typed
  <2>2. call.slot \in Spare
    BY <1>1, <2>1 DEF SecretFrame, call
  <2>3. \A s \in Slots \ Spare : db'.doc[s] = db.doc[s] /\ DocOf(vm)'[s] = db.doc[s]
    BY <1>1, <1>3, <2>1, <2>2 DEF MemoryEffect, FileEffect
  <2>4. connects' = connects /\ profiles' = profiles /\ op' = op /\ (~Opens(KeyFound) => ~Opens(KeyFound)')
    BY <1>1, <1>3 DEF SecretFrame, KeysEffect
  <2>5. Kept(profiles)'
    <3> DEFINE P == profiles
    <3>1. Tidy(P) /\ Kept(P) /\ KeysUsed(P) \subseteq KeysUsed(profiles)
      BY <2>1
    <3> QED
      BY <2>1, <2>3, <2>4, StaysKept DEF Kept
  <2> QED
    BY <2>1, <2>3, <2>4, <2>5 DEF Kept
<1>4. Aside'
  BY <1>1, <1>3 DEF Aside, SecretFrame, SavesProfiles, Spare
<1> QED
  BY <1>2, <1>4

LEMMA SecretKeepsGuarded ==
    ASSUME Typed, Guarded, SecretStep
    PROVE  Guarded'
<1>1. SecretFrame /\ (~damaged' => ~damaged /\ MemoryEffect /\ FileEffect)
  BY DEF SecretStep, SecretEffect
<1>2. UNCHANGED <<profiles, op, calls, phase, saved>> /\ phase = "busy"
      /\ at \in DOMAIN calls /\ call.op # "connects"
  BY <1>1 DEF SecretFrame
<1>3. ASSUME SavesProfiles, saved, ~damaged', NEW i \in DOMAIN profiles, LeftAlone(profiles[i])
      PROVE  /\ db'.doc[SlotOf(profiles[i])] \in MayHold(profiles[i])
             /\ DocOf(vm)'[SlotOf(profiles[i])] \in MayHold(profiles[i])
             /\ \A v : Wants(calls, SlotOf(profiles[i]), v) => v \in MayHold(profiles[i])
  <2> DEFINE slot == SlotOf(profiles[i])
             held == MayHold(profiles[i])
  <2>1. db.doc[slot] \in held /\ DocOf(vm)[slot] \in held /\ \A v : Wants(calls, slot, v) => v \in held
    BY <1>1, <1>2, <1>3 DEF Guarded
  <2>2. slot \in Slots
    BY ProfileSlots DEF Typed, Tidy
  <2>3. slot = call.slot => call.value \in held
    BY <1>2, <2>1 DEF Wants, call
  <2> HIDE DEF slot, held
  <2>4. db'.doc[slot] \in held /\ DocOf(vm)'[slot] \in held
    BY <1>1, <1>3, <2>1, <2>2, <2>3 DEF MemoryEffect, FileEffect
  <2> QED
    BY <2>1, <2>4 DEF slot, held
<1>4. \A p : LeftAlone(p)' = LeftAlone(p) /\ MayHold(p)' = MayHold(p)
  BY <1>2 DEF LeftAlone, MayHold
<1> QED
  BY <1>2, <1>3, <1>4 DEF Guarded, SavesProfiles

LEMMA SecretKeepsSaving ==
    ASSUME Typed, Saving, SecretStep
    PROVE  Saving'
<1>1. SecretFrame /\ (~damaged' => ~damaged /\ SuccessEffect)
  BY DEF SecretStep, SecretEffect
<1>2. UNCHANGED <<connects, profiles, op, calls, phase>> /\ phase = "busy" /\ at' = at + 1
      /\ at \in DOMAIN calls /\ call.op # "connects" /\ SecretCallShape(call)
  BY <1>1 DEF SecretFrame
<1>3. ASSUME SavesProfiles, ~damaged', result'.all, NEW n \in DOMAIN calls, n < at'
      PROVE  /\ DocOf(vm)' = db'.doc
             /\ IF calls[n].op = "connects"
                THEN connects.state = "good" /\ connects.list = Meta(op.target)
                ELSE db'.doc[calls[n].slot] = calls[n].value
  <2>1. /\ result.all /\ Saves(calls, op.target) /\ DocOf(vm) = db.doc
        /\ \A m \in DOMAIN calls :
              m < at => IF calls[m].op = "connects"
                        THEN connects.state = "good" /\ connects.list = Meta(op.target)
                        ELSE db.doc[calls[m].slot] = calls[m].value
    BY <1>1, <1>2, <1>3 DEF Saving, SuccessEffect
  <2>2. /\ DocOf(vm)' = db'.doc /\ db'.doc[call.slot] = call.value
        /\ \A s \in Slots \ {call.slot} : db'.doc[s] = db.doc[s]
    BY <1>1, <1>3, <2>1 DEF SuccessEffect
  <2>3. n < at \/ n = at
    <3>1. n \in Nat /\ at \in Nat
      BY <1>2 DEF Typed, CallsShape
    <3> QED
      BY <1>2, <1>3, <3>1
  <2>4. CASE calls[n].op # "connects" /\ calls[n].slot = call.slot
    <3>1. Wants(calls, call.slot, call.value) /\ Wants(calls, call.slot, calls[n].value)
      BY <1>2, <2>4 DEF Wants, call
    <3>2. calls[n].value = call.value
      BY <3>1, <2>1 DEF Saves
    <3> QED
      BY <2>2, <2>4, <3>2
  <2>5. CASE calls[n].op # "connects" /\ calls[n].slot # call.slot
    <3>1. n < at /\ SecretCallShape(calls[n])
      BY <2>3, <2>5 DEF call, Typed, CallsShape
    <3> QED
      BY <2>1, <2>2, <2>5, <3>1 DEF SecretCallShape
  <2>6. CASE calls[n].op = "connects"
    <3>1. n < at
      BY <2>3, <2>6, <1>2 DEF call
    <3> QED
      BY <2>1, <2>2, <2>6, <3>1
  <2> QED
    BY <2>4, <2>5, <2>6
<1>4. SavesProfiles /\ ~damaged' /\ result'.all => DocOf(vm)' = db'.doc
  <2>1. at < at'
    BY <1>2 DEF Typed
  <2> QED
    BY <1>2, <1>3, <2>1
<1>5. Saving'
  BY <1>2, <1>3, <1>4 DEF Saving, SavesProfiles
<1> QED
  BY <1>5

LEMMA MetaIsSeq ==
    ASSUME NEW P \in Seq(Profile), DistinctIds(P)
    PROVE  Meta(P) \in Seq(Metas) /\ DistinctIds(Meta(P)) /\ DOMAIN Meta(P) = DOMAIN P
<1>1. P \in Seq(Profile) /\ DistinctIds(P)
  OBVIOUS
<1>2. \A i \in DOMAIN P : [id |-> P[i].id, auth |-> P[i].auth, save |-> P[i].save] \in Metas
  BY <1>1, ProfileSlots DEF Metas
<1>3. DOMAIN P = 1..Len(P) /\ Len(P) \in Nat
  BY <1>1
<1>4. Meta(P) \in [1..Len(P) -> Metas]
  BY <1>2, <1>3 DEF Meta
<1>5. Meta(P) \in Seq(Metas) /\ DOMAIN Meta(P) = DOMAIN P
  BY <1>3, <1>4, FunctionIsSequence
<1> QED
  BY <1>1, <1>5 DEF DistinctIds, Meta

LEMMA MetaTyped ==
    ASSUME NEW P, Tidy(P)
    PROVE  Meta(P) \in Seq(Metas) /\ DistinctIds(Meta(P)) /\ DOMAIN Meta(P) = DOMAIN P
BY MetaIsSeq DEF Tidy

LEMMA NewManagerTyped ==
    /\ NewManager \in Manager /\ Document(NewManager.doc) /\ NewManager.key = 0
    /\ ~NewManager.loaded /\ NewManager.doc = EmptyDoc
BY DEF NewManager, Manager, Document, EmptyDoc, Values, NoKey

\* The call that writes connects.json.
LEMMA ConnectsKeeps ==
    ASSUME Inv, SaveInv, NEW o \in Outcomes, saveConnectsJson(o)
    PROVE  SaveInv'
<1>1. /\ phase = "busy" /\ at \in DOMAIN calls /\ call.op = "connects" /\ at' = at + 1
      /\ UNCHANGED <<keyring, db, legacy, phase, profiles, op, calls, prompt, saved>>
      /\ vm' = NewManager /\ damaged' \in BOOLEAN /\ (damaged => damaged')
      /\ result' = [all |-> result.all /\ Good(o), any |-> result.any \/ Good(o)]
  <2>1. at \in 1..Len(calls)
    BY DEF saveConnectsJson, Calling, SaveInv, Typed, CallsShape, Inv, Shape
  <2> QED
    BY <2>1 DEF saveConnectsJson, Calling, Returns, Outcome, SaveInv, Typed
<1>2. \/ connects' = [state |-> "good", list |-> Meta(op.target)] /\ o = "written"
      \/ connects' = connects \/ connects' = NoFile \/ connects' = [state |-> "corrupt", list |-> <<>>]
  BY DEF saveConnectsJson, Outcomes
<1>3. ~damaged' => ~damaged /\ (o = "written" \/ (o = "failed" /\ connects' = connects))
  BY DEF saveConnectsJson, Outcome, Outcomes, SaveInv, Typed
<1>4. Typed'
  <2>1. /\ connects'.state \in {"none", "good", "corrupt"}
        /\ connects'.state = "good" => connects'.list \in Seq(Metas) /\ DistinctIds(connects'.list)
    BY <1>2, MetaTyped DEF SaveInv, Typed, NoFile
  <2>2. Remembered(vm)'
    BY <1>1, NewManagerTyped DEF Remembered, SaveInv, Typed, keyring
  <2>3. \/ prompt' = <<>>
        \/ Len(prompt') = 1 /\ prompt'[1].key \in StoredKeyIds /\ Remembered(prompt[1].vm)'
    BY <1>1 DEF SaveInv, Typed, Remembered, keyring
  <2>4. result' \in [all : BOOLEAN, any : BOOLEAN]
    BY <1>1 DEF SaveInv, Typed, Good
  <2> QED
    BY <1>1, <2>1, <2>2, <2>3, <2>4 DEF SaveInv, Typed, keyring
<1>5. Managers'
  BY <1>1, <1>3, NewManagerTyped DEF SaveInv, Managers
<1>6. Importing'
  <2>1. op.name # "import"
    <3> SUFFICES ASSUME op.name = "import" PROVE FALSE
      OBVIOUS
    <3>1. Len(calls) = 1 /\ calls[1].op = "store" /\ DOMAIN calls = 1..Len(calls)
      BY <1>1 DEF SaveInv, Importing, Typed, CallsShape
    <3>2. at = 1
      BY <1>1, <3>1
    <3> QED
      BY <1>1, <3>1, <3>2 DEF call
  <2> QED
    BY <1>1, <2>1 DEF Importing
<1>7. Resting'
  BY <1>1 DEF Resting
<1>8. Aside'
  BY <1>1, <1>3 DEF SaveInv, Aside, SavesProfiles, call
<1>9. DocOf(vm)' = db'.doc
  BY <1>1, NewManagerTyped DEF DocOf, Absent
<1>10. Guarded'
  <2>1. \A p : LeftAlone(p)' = LeftAlone(p) /\ MayHold(p)' = MayHold(p)
    BY <1>1 DEF LeftAlone, MayHold
  <2> QED
    BY <1>1, <1>3, <1>9, <2>1 DEF SaveInv, Guarded, SavesProfiles
<1>11. Saving'
  <2> SUFFICES ASSUME SavesProfiles
               PROVE  /\ Saves(calls, op.target)
                      /\ ~damaged' /\ result'.all =>
                            \A n \in DOMAIN calls :
                               n < at' => IF calls[n].op = "connects"
                                          THEN connects'.state = "good" /\ connects'.list = Meta(op.target)
                                          ELSE db.doc[calls[n].slot] = calls[n].value
    BY <1>1, <1>9 DEF Saving, SavesProfiles
  <2>1. Saves(calls, op.target)
    BY <1>1 DEF SaveInv, Saving
  <2>2. ASSUME ~damaged', result'.all, NEW n \in DOMAIN calls, n < at', calls[n].op # "connects"
        PROVE  db.doc[calls[n].slot] = calls[n].value
    <3>1. n < at
      <4>1. n \in Nat /\ at \in Nat /\ n # at
        BY <1>1, <2>2 DEF SaveInv, Typed, call
      <4> QED
        BY <1>1, <2>2, <4>1
    <3>2. result.all /\ ~damaged
      BY <1>1, <1>3, <2>2 DEF SaveInv, Typed
    <3> QED
      BY <1>1, <2>2, <3>1, <3>2 DEF SaveInv, Saving
  <2>3. ~damaged' /\ result'.all => connects'.state = "good" /\ connects'.list = Meta(op.target)
    BY <1>1, <1>2, <1>3 DEF SaveInv, Typed, Good, saveConnectsJson
  <2> QED
    BY <2>1, <2>2, <2>3
<1> QED
  BY <1>4, <1>5, <1>6, <1>7, <1>8, <1>10, <1>11 DEF SaveInv

-----------------------------------------------------------------------------
(* The calls a save consists of                                                *)

Occurs(C, c) == \E n \in DOMAIN C : C[n] = c

LEMMA ConcatOccurs ==
    ASSUME NEW B, NEW s \in Seq(B), NEW t \in Seq(B)
    PROVE  /\ s \o t \in Seq(B) /\ Len(s \o t) = Len(s) + Len(t)
           /\ \A c : Occurs(s \o t, c) <=> Occurs(s, c) \/ Occurs(t, c)
           /\ Len(s) > 0 => (s \o t)[1] = s[1]
<1>1. s \o t \in Seq(B) /\ Len(s \o t) = Len(s) + Len(t)
  BY ConcatProperties
<1>2. ASSUME NEW c, Occurs(s \o t, c) PROVE Occurs(s, c) \/ Occurs(t, c)
  <2>1. PICK n \in DOMAIN (s \o t) : (s \o t)[n] = c
    BY <1>2 DEF Occurs
  <2>2. \/ n \in DOMAIN s /\ (s \o t)[n] = s[n]
        \/ n - Len(s) \in DOMAIN t /\ (s \o t)[n] = t[n - Len(s)]
    BY ConcatElement
  <2> QED
    BY <2>1, <2>2 DEF Occurs
<1>3. ASSUME NEW c, Occurs(s, c) PROVE Occurs(s \o t, c)
  <2>1. PICK n \in DOMAIN s : s[n] = c
    BY <1>3 DEF Occurs
  <2>2. n \in 1..Len(s) /\ n \in 1..Len(s) + Len(t) /\ DOMAIN (s \o t) = 1..Len(s) + Len(t)
    BY <1>1
  <2>3. (s \o t)[n] = s[n]
    BY <2>2, ConcatProperties
  <2> QED
    BY <2>1, <2>2, <2>3 DEF Occurs
<1>4. ASSUME NEW c, Occurs(t, c) PROVE Occurs(s \o t, c)
  <2>1. PICK n \in DOMAIN t : t[n] = c
    BY <1>4 DEF Occurs
  <2>2. n \in 1..Len(t) /\ Len(s) + n \in 1..Len(s) + Len(t) /\ DOMAIN (s \o t) = 1..Len(s) + Len(t)
    BY <1>1
  <2>3. (s \o t)[Len(s) + n] = t[n]
    BY <2>2, ConcatProperties
  <2> QED
    BY <2>1, <2>2, <2>3 DEF Occurs
<1>5. Len(s) > 0 => (s \o t)[1] = s[1]
  BY ConcatProperties
<1> QED
  BY <1>1, <1>2, <1>3, <1>4, <1>5

LEMMA Halves ==
    ASSUME NEW m \in Nat, NEW j \in 1..m
    PROVE  /\ 2 * j \in 1..2 * m /\ 2 * j - 1 \in 1..2 * m
           /\ (2 * j) % 2 # 1 /\ (2 * j - 1) % 2 = 1
           /\ (2 * j) \div 2 = j /\ ((2 * j - 1) + 1) \div 2 = j
<1>1. 2 * j \in 1..2 * m /\ 2 * j - 1 \in 1..2 * m
  OBVIOUS
<1>2. (2 * j) % 2 # 1
  OBVIOUS
<1>3. (2 * j - 1) % 2 = 1
  OBVIOUS
<1>4. (2 * j) \div 2 = j
  OBVIOUS
<1> QED
  BY <1>1, <1>2, <1>3, <1>4

\* A call is made when profiles P are saved.
SaveCall(P, c) ==
    \/ c = SaveConnects
    \/ \E j \in DOMAIN P : c = PasswordCall(P[j]) \/ c = PassphraseCall(P[j])
    \/ \E k \in KeysUsed(P) : c = KeyCall(P, k)

LEMMA SaveCallsAre ==
    ASSUME NEW P \in Seq(Profile)
    PROVE  /\ SaveCalls(P) \in Seq(Range(SaveCalls(P)))
           /\ Len(SaveCalls(P)) > 0 /\ SaveCalls(P)[1] = SaveConnects
           /\ \A c : Occurs(SaveCalls(P), c) <=> SaveCall(P, c)
<1> DEFINE m == Len(P)
           keys == SetToSeq(KeysUsed(P))
           N == Cardinality(KeysUsed(P))
           body == [i \in 1..2 * m |-> IF i % 2 = 1 THEN PasswordCall(P[(i + 1) \div 2])
                                                   ELSE PassphraseCall(P[i \div 2])]
           tail == [i \in 1..N |-> KeyCall(P, keys[i])]
           first == <<SaveConnects>>
           B == {SaveConnects} \union {body[i] : i \in 1..2 * m} \union {tail[i] : i \in 1..N}
<1>0. m \in Nat /\ DOMAIN P = 1..m /\ 2 * m \in Nat /\ P = [i \in 1..m |-> P[i]]
  OBVIOUS
<1>1. /\ N \in Nat /\ keys \in [1..N -> KeysUsed(P)]
      /\ \A k \in KeysUsed(P) : \E i \in 1..N : keys[i] = k
  BY <1>0, KeysUsedFinite, ListsAll
<1>2. Len(keys) = N
  <2>1. keys \in Seq(KeysUsed(P))
    BY <1>1
  <2> QED
    BY <1>1, <2>1
<1>3. SaveCalls(P) = (first \o body) \o tail
  BY <1>2 DEF SaveCalls
<1>4. \A j \in DOMAIN P : Occurs(body, PasswordCall(P[j])) /\ Occurs(body, PassphraseCall(P[j]))
  <2> SUFFICES ASSUME NEW j \in 1..m
               PROVE  Occurs(body, PasswordCall(P[j])) /\ Occurs(body, PassphraseCall(P[j]))
    BY <1>0
  <2>1. /\ 2 * j \in 1..2 * m /\ 2 * j - 1 \in 1..2 * m
        /\ (2 * j) % 2 # 1 /\ (2 * j - 1) % 2 = 1
        /\ (2 * j) \div 2 = j /\ ((2 * j - 1) + 1) \div 2 = j
    BY <1>0, Halves
  <2>2. body[2 * j - 1] = PasswordCall(P[j]) /\ body[2 * j] = PassphraseCall(P[j])
    BY <2>1
  <2>3. DOMAIN body = 1..2 * m
    OBVIOUS
  <2> HIDE DEF body
  <2> QED
    BY <2>1, <2>2, <2>3 DEF Occurs
<1>5. \A k \in KeysUsed(P) : Occurs(tail, KeyCall(P, k))
  BY <1>1 DEF Occurs
<1>6. first \in Seq(B) /\ Len(first) = 1 /\ first[1] = SaveConnects /\ Occurs(first, SaveConnects)
  BY DEF Occurs
<1>8. body = [i \in 1..2 * m |-> body[i]] /\ tail = [i \in 1..N |-> tail[i]]
  OBVIOUS
<1> HIDE DEF body, tail, keys, N, m
<1>9. body \in [1..2 * m -> B] /\ tail \in [1..N -> B]
  BY <1>8
<1>10. body \in Seq(B) /\ tail \in Seq(B)
  BY <1>0, <1>1, <1>9, FunctionIsSequence
<1> HIDE DEF B, first
<1>11. /\ first \o body \in Seq(B) /\ Len(first \o body) > 0 /\ (first \o body)[1] = SaveConnects
       /\ \A c : Occurs(first \o body, c) <=> Occurs(first, c) \/ Occurs(body, c)
  BY <1>6, <1>10, ConcatOccurs
<1>12. /\ SaveCalls(P) \in Seq(B) /\ Len(SaveCalls(P)) > 0 /\ SaveCalls(P)[1] = SaveConnects
       /\ \A c : Occurs(SaveCalls(P), c) <=> Occurs(first \o body, c) \/ Occurs(tail, c)
  <2> DEFINE front == first \o body
  <2>1. front \in Seq(B) /\ Len(front) > 0 /\ front[1] = SaveConnects
    BY <1>11
  <2>3. SaveCalls(P) = front \o tail
    BY <1>3
  <2> HIDE DEF front
  <2>2. /\ front \o tail \in Seq(B) /\ Len(front \o tail) = Len(front) + Len(tail)
        /\ \A c : Occurs(front \o tail, c) <=> Occurs(front, c) \/ Occurs(tail, c)
        /\ (front \o tail)[1] = SaveConnects
    BY <2>1, <1>10, ConcatOccurs
  <2>4. Len(front) \in Nat /\ Len(tail) \in Nat
    BY <2>1, <1>10
  <2> QED
    BY <2>1, <2>2, <2>3, <2>4 DEF front
<1>13. \A c : SaveCall(P, c) => Occurs(SaveCalls(P), c)
  BY <1>4, <1>5, <1>6, <1>11, <1>12 DEF SaveCall
<1>14. \A c : Occurs(SaveCalls(P), c) => SaveCall(P, c)
  BY <1>0, SaveCallKinds DEF Occurs, SaveCall
<1>15. SaveCalls(P) \in Seq(Range(SaveCalls(P)))
  BY <1>12 DEF Range
<1> QED
  BY <1>12, <1>13, <1>14, <1>15

LEMMA CallFields ==
    /\ SaveConnects.op = "connects"
    /\ \A slot, v : /\ Store(slot, v).op = "store" /\ Store(slot, v).slot = slot /\ Store(slot, v).value = v
                    /\ Must(Store(slot, v)).op = "store" /\ Must(Store(slot, v)).slot = slot
                    /\ Must(Store(slot, v)).value = v
    /\ \A slot : /\ Erase(slot).op = "remove" /\ Erase(slot).slot = slot /\ Erase(slot).value = Unset
                 /\ Must(Erase(slot)).op = "remove" /\ Must(Erase(slot)).slot = slot
                 /\ Must(Erase(slot)).value = Unset
    /\ Must(SaveConnects).op = "connects"
BY DEF SaveConnects, Store, Erase, Must

LEMMA OwnersLeast ==
    ASSUME NEW P \in Seq(Profile), NEW k, Owners(P, k) # {}
    PROVE  Min(Owners(P, k)) \in Owners(P, k)
<1>1. Owners(P, k) \in SUBSET Nat
  BY DEF Owners
<1> QED
  BY <1>1, LeastExists

LEMMA KeyCallFields ==
    ASSUME NEW P \in Seq(Profile), NEW k \in StoredKeyIds
    PROVE  /\ KeyCall(P, k).op # "connects" /\ KeyCall(P, k).slot = Phrase(k)
           /\ KeyCall(P, k).value = PhraseOf(P, k) /\ SecretCallShape(KeyCall(P, k))
<1>1. Phrase(k) \in Slots /\ Phrase(k)[2] = "passphrase"
  BY DEF Phrase, Slots
<1>2. CASE Owners(P, k) # {}
  <2>1. Min(Owners(P, k)) \in DOMAIN P
    BY <1>2, OwnersLeast DEF Owners
  <2>2. PhraseOf(P, k) \in Secrets \union {NoSecret}
    BY <1>2, <2>1, ProfileSlots DEF PhraseOf
  <2> QED
    BY <1>1, <1>2, <2>2, CallFields DEF KeyCall, PhraseOf, SecretCallShape, Values, Phrase
<1>3. CASE Owners(P, k) = {}
  BY <1>1, <1>3, CallFields DEF KeyCall, PhraseOf, SecretCallShape, Values, Phrase
<1> QED
  BY <1>2, <1>3

LEMMA ProfileCallFields ==
    ASSUME NEW P \in Seq(Profile), NEW i \in DOMAIN P
    PROVE  /\ PasswordCall(P[i]).op # "connects" /\ PasswordCall(P[i]).slot = PasswordSlot(P[i])
           /\ PasswordCall(P[i]).value = PasswordOf(P[i]) /\ SecretCallShape(PasswordCall(P[i]))
           /\ PassphraseCall(P[i]).op # "connects" /\ PassphraseCall(P[i]).slot = PassphraseSlot(P[i])
           /\ PassphraseCall(P[i]).value = PassphraseOf(P[i]) /\ SecretCallShape(PassphraseCall(P[i]))
<1>1. /\ PasswordSlot(P[i]) \in Slots /\ PassphraseSlot(P[i]) \in Slots
      /\ P[i].secret \in Secrets \union {NoSecret}
  BY ProfileSlots
<1>2. /\ PasswordCall(P[i]).op # "connects" /\ PasswordCall(P[i]).slot = PasswordSlot(P[i])
      /\ PasswordCall(P[i]).value = PasswordOf(P[i]) /\ SecretCallShape(PasswordCall(P[i]))
  <2>1. CASE P[i].auth = "password" /\ P[i].save
    BY <1>1, <2>1, CallFields DEF PasswordCall, PasswordOf, PasswordSlot, SecretCallShape, Values
  <2>2. CASE ~(P[i].auth = "password" /\ P[i].save)
    BY <1>1, <2>2, CallFields DEF PasswordCall, PasswordOf, PasswordSlot, SecretCallShape, Values
  <2> QED
    BY <2>1, <2>2
<1>3. /\ PassphraseCall(P[i]).op # "connects" /\ PassphraseCall(P[i]).slot = PassphraseSlot(P[i])
      /\ PassphraseCall(P[i]).value = PassphraseOf(P[i]) /\ SecretCallShape(PassphraseCall(P[i]))
  <2>1. CASE P[i].auth = "keyFile" /\ P[i].save
    BY <1>1, <2>1, CallFields DEF PassphraseCall, PassphraseOf, PassphraseSlot, SecretCallShape, Values
  <2>2. CASE ~(P[i].auth = "keyFile" /\ P[i].save)
    BY <1>1, <2>2, CallFields DEF PassphraseCall, PassphraseOf, PassphraseSlot, SecretCallShape, Values
  <2> QED
    BY <2>1, <2>2
<1> QED
  BY <1>2, <1>3

\* The calls of a save, by what they put where.
LEMMA SaveCallsWant ==
    ASSUME NEW P \in Seq(Profile)
    PROVE  /\ CallsShape(SaveCalls(P))
           /\ \E n \in DOMAIN SaveCalls(P) : SaveCalls(P)[n].op = "connects"
           /\ \A slot, v : Wants(SaveCalls(P), slot, v) <=> SaveWants(P, slot, v)
<1> DEFINE C == SaveCalls(P)
<1>1. C \in Seq(Range(C)) /\ Len(C) > 0 /\ C[1] = SaveConnects
      /\ \A c : Occurs(C, c) <=> SaveCall(P, c)
  BY SaveCallsAre
<1> HIDE DEF C
<1>2. Len(C) \in Nat /\ DOMAIN C = 1..Len(C)
  BY <1>1
<1>3. \A k \in KeysUsed(P) : k \in StoredKeyIds
  BY DEF KeysUsed
<1>4. \A n \in DOMAIN C : SaveCall(P, C[n])
  BY <1>1 DEF Occurs
<1>5. \A n \in DOMAIN C : C[n].op = "connects" \/ SecretCallShape(C[n])
  BY <1>3, <1>4, CallFields, KeyCallFields, ProfileCallFields DEF SaveCall
<1>6. ASSUME NEW slot, NEW v, Wants(C, slot, v) PROVE SaveWants(P, slot, v)
  <2>1. PICK n \in DOMAIN C : C[n].op # "connects" /\ C[n].slot = slot /\ C[n].value = v
    BY <1>6 DEF Wants
  <2>2. CASE \E j \in DOMAIN P : C[n] = PasswordCall(P[j])
    BY <2>1, <2>2, ProfileCallFields DEF SaveWants
  <2>3. CASE \E j \in DOMAIN P : C[n] = PassphraseCall(P[j])
    BY <2>1, <2>3, ProfileCallFields DEF SaveWants
  <2>4. CASE \E k \in KeysUsed(P) : C[n] = KeyCall(P, k)
    BY <2>1, <2>4, <1>3, KeyCallFields DEF SaveWants
  <2> QED
    BY <2>1, <2>2, <2>3, <2>4, <1>4, CallFields DEF SaveCall
<1>7. ASSUME NEW slot, NEW v, SaveWants(P, slot, v) PROVE Wants(C, slot, v)
  <2>1. \A c : SaveCall(P, c) /\ c.op # "connects" /\ c.slot = slot /\ c.value = v => Wants(C, slot, v)
    BY <1>1 DEF Occurs, Wants
  <2>2. CASE \E i \in DOMAIN P : slot = PasswordSlot(P[i]) /\ v = PasswordOf(P[i])
    BY <2>1, <2>2, ProfileCallFields DEF SaveCall
  <2>3. CASE \E i \in DOMAIN P : slot = PassphraseSlot(P[i]) /\ v = PassphraseOf(P[i])
    BY <2>1, <2>3, ProfileCallFields DEF SaveCall
  <2>4. CASE \E k \in KeysUsed(P) : slot = Phrase(k) /\ v = PhraseOf(P, k)
    BY <2>1, <2>4, <1>3, KeyCallFields DEF SaveCall
  <2> QED
    BY <1>7, <2>2, <2>3, <2>4 DEF SaveWants
<1>8. \E n \in DOMAIN C : C[n].op = "connects"
  BY <1>1, <1>2, CallFields
<1> QED
  BY <1>2, <1>5, <1>6, <1>7, <1>8 DEF C, CallsShape

\* The calls save the profiles and put nothing else into the slots of one that is to be
\* saved and has a secret.
Faithful(C, P) ==
    /\ CallsShape(C) /\ Saves(C, P)
    /\ \A slot, v : Wants(C, slot, v) =>
          \/ SaveWants(P, slot, v)
          \/ slot[2] = "pem"
          \/ \E k \in StoredKeyIds :
                /\ slot = Phrase(k)
                /\ \A i \in DOMAIN P : P[i].auth = k => ~P[i].save \/ P[i].secret = v

LEMMA SlotKinds ==
    /\ \A p : PasswordSlot(p)[1] = p.id /\ PasswordSlot(p)[2] = "password"
    /\ \A p : PassphraseSlot(p)[1] = p.id /\ PassphraseSlot(p)[2] = "keyPassphrase"
    /\ \A k : Phrase(k)[1] = k /\ Phrase(k)[2] = "passphrase"
BY DEF PasswordSlot, PassphraseSlot, Phrase

\* A save puts one value into a slot.
LEMMA SaveWantsOnce ==
    ASSUME NEW P, Tidy(P), NEW slot, NEW v, NEW w, SaveWants(P, slot, v), SaveWants(P, slot, w)
    PROVE  v = w
<1>1. DistinctIds(P)
  BY DEF Tidy
<1>2. CASE slot[2] = "password"
  <2>1. PICK i \in DOMAIN P : slot = PasswordSlot(P[i]) /\ v = PasswordOf(P[i])
    BY <1>2, SlotKinds DEF SaveWants
  <2>2. PICK j \in DOMAIN P : slot = PasswordSlot(P[j]) /\ w = PasswordOf(P[j])
    BY <1>2, SlotKinds DEF SaveWants
  <2>3. P[i].id = P[j].id
    BY <2>1, <2>2 DEF PasswordSlot
  <2>4. i = j
    BY <1>1, <2>3 DEF DistinctIds
  <2> QED
    BY <2>1, <2>2, <2>4
<1>3. CASE slot[2] = "keyPassphrase"
  <2>1. PICK i \in DOMAIN P : slot = PassphraseSlot(P[i]) /\ v = PassphraseOf(P[i])
    BY <1>3, SlotKinds DEF SaveWants
  <2>2. PICK j \in DOMAIN P : slot = PassphraseSlot(P[j]) /\ w = PassphraseOf(P[j])
    BY <1>3, SlotKinds DEF SaveWants
  <2>3. P[i].id = P[j].id
    BY <2>1, <2>2 DEF PassphraseSlot
  <2>4. i = j
    BY <1>1, <2>3 DEF DistinctIds
  <2> QED
    BY <2>1, <2>2, <2>4
<1>4. CASE slot[2] # "password" /\ slot[2] # "keyPassphrase"
  <2>1. PICK k \in KeysUsed(P) : slot = Phrase(k) /\ v = PhraseOf(P, k)
    BY <1>4, SlotKinds DEF SaveWants
  <2>2. PICK l \in KeysUsed(P) : slot = Phrase(l) /\ w = PhraseOf(P, l)
    BY <1>4, SlotKinds DEF SaveWants
  <2>3. k = l
    BY <2>1, <2>2 DEF Phrase
  <2> QED
    BY <2>1, <2>2, <2>3
<1> QED
  BY <1>2, <1>3, <1>4

LEMMA SaveSlotsAreNotPems ==
    ASSUME NEW P, NEW slot, NEW v, SaveWants(P, slot, v)
    PROVE  slot[2] # "pem"
BY SlotKinds DEF SaveWants

LEMMA SaveIsFaithful ==
    ASSUME NEW P, Tidy(P)
    PROVE  Faithful(SaveCalls(P), P)
<1>1. P \in Seq(Profile)
  BY DEF Tidy
<1>2. Saves(SaveCalls(P), P)
  BY <1>1, SaveCallsWant, SaveWantsOnce DEF Saves
<1> QED
  BY <1>1, <1>2, SaveCallsWant DEF Faithful

\* The profiles of the key have this passphrase, or have none to be saved.
Settled(P, k, x) ==
    \/ x = Unset /\ \A i \in DOMAIN P : P[i].auth = k => ~P[i].save
    \/ x # NoSecret /\ \A i \in DOMAIN P : P[i].auth = k => P[i].save /\ P[i].secret = x

\* A key passphrase put under its key before the profiles are saved.
LEMMA PrefixIsFaithful ==
    ASSUME NEW P, Tidy(P), NEW C, CallsShape(C), \E n \in DOMAIN C : C[n].op = "connects",
           NEW k \in StoredKeyIds, NEW x,
           \A slot, v : Wants(C, slot, v) <=> SaveWants(P, slot, v) \/ (slot = Phrase(k) /\ v = x),
           Settled(P, k, x)
    PROVE  Faithful(C, P)
<1>1. P \in Seq(Profile)
  BY DEF Tidy
<1>5. \/ x = Unset /\ \A i \in DOMAIN P : P[i].auth = k => ~P[i].save
      \/ x # NoSecret /\ \A i \in DOMAIN P : P[i].auth = k => P[i].save /\ P[i].secret = x
  BY DEF Settled
<1>2. ASSUME NEW w, SaveWants(P, Phrase(k), w) PROVE w = x
  <2>1. PICK l \in KeysUsed(P) : Phrase(k) = Phrase(l) /\ w = PhraseOf(P, l)
    BY <1>2, SlotKinds DEF SaveWants
  <2>2. k = l /\ k \in KeysUsed(P)
    BY <2>1 DEF Phrase
  <2>3. CASE \A i \in DOMAIN P : P[i].auth = k => ~P[i].save
    <3>1. Owners(P, k) = {}
      BY <2>3 DEF Owners
    <3>2. \/ x = Unset
          \/ \A i \in DOMAIN P : P[i].auth # k
      BY <2>3, <1>5
    <3>3. x = Unset
      BY <2>2, <3>2 DEF KeysUsed
    <3> QED
      BY <2>1, <2>2, <3>1, <3>3 DEF PhraseOf
  <2>4. CASE x # NoSecret /\ \A i \in DOMAIN P : P[i].auth = k => P[i].save /\ P[i].secret = x
    <3>1. Owners(P, k) # {}
      BY <2>2, <2>4 DEF Owners, KeysUsed
    <3>2. Min(Owners(P, k)) \in Owners(P, k)
      BY <1>1, <3>1, OwnersLeast
    <3> QED
      BY <2>1, <2>2, <2>4, <3>1, <3>2 DEF PhraseOf, Owners
  <2> QED
    BY <1>5, <2>3, <2>4
<1>3. Saves(C, P)
  BY <1>2, SaveWantsOnce DEF Saves
<1>4. \A i \in DOMAIN P : P[i].auth = k => ~P[i].save \/ P[i].secret = x
  BY <1>5
<1> QED
  BY <1>3, <1>4 DEF Faithful

\* Private keys stored after the profiles were saved.
LEMMA PemsAreFaithful ==
    ASSUME NEW P, Tidy(P), NEW C, CallsShape(C), \E n \in DOMAIN C : C[n].op = "connects",
           NEW keys,
           \A slot, v : Wants(C, slot, v) <=>
               SaveWants(P, slot, v) \/ (v = Pem /\ \E k \in keys : slot = <<k, "pem">>)
    PROVE  Faithful(C, P)
<1>1. \A k \in keys : <<k, "pem">>[2] = "pem"
  OBVIOUS
<1>2. Saves(C, P)
  BY <1>1, SaveWantsOnce, SaveSlotsAreNotPems DEF Saves
<1> QED
  BY <1>1, <1>2 DEF Faithful

-----------------------------------------------------------------------------
(* The lists of profiles that operations save are tidy                         *)

LEMMA PickedIsTidy ==
    ASSUME NEW P, Tidy(P), NEW Q \in Seq(Profile), NEW f \in [DOMAIN Q -> DOMAIN P],
           \A i \in DOMAIN Q : Q[i] = P[f[i]],
           \A i, j \in DOMAIN Q : f[i] = f[j] => i = j
    PROVE  Tidy(Q)
<1>1. DistinctIds(Q)
  <2> SUFFICES ASSUME NEW i \in DOMAIN Q, NEW j \in DOMAIN Q, Q[i].id = Q[j].id PROVE i = j
    BY DEF DistinctIds
  <2>1. f[i] \in DOMAIN P /\ f[j] \in DOMAIN P /\ P[f[i]].id = P[f[j]].id
    OBVIOUS
  <2>2. f[i] = f[j]
    BY <2>1 DEF Tidy, DistinctIds
  <2> QED
    BY <2>2
<1>2. ASSUME NEW i \in DOMAIN Q, ~Q[i].save PROVE Q[i].secret = NoSecret
  BY <1>2 DEF Tidy
<1> QED
  BY <1>1, <1>2 DEF Tidy

\* The element at each place once one was removed, and once one was put in.
LEMMA RemoveAtPicks ==
    ASSUME NEW B, NEW s \in Seq(B), NEW row \in 1..Len(s)
    PROVE  /\ RemoveAt(s, row) \in Seq(B) /\ Len(RemoveAt(s, row)) = Len(s) - 1
           /\ \A i \in 1..Len(s) - 1 : RemoveAt(s, row)[i] = IF i < row THEN s[i] ELSE s[i + 1]
<1> DEFINE a == SubSeq(s, 1, row - 1)
           b == SubSeq(s, row + 1, Len(s))
<1>1. PICK m \in Nat, r \in Nat : m = Len(s) /\ r = row /\ r >= 1 /\ r <= m
  OBVIOUS
<1>2. a \in Seq(B) /\ Len(a) = r - 1 /\ \A i \in 1..r - 1 : a[i] = s[i]
  <2>1. \A i \in 1..r - 1 : s[i] \in B
    BY <1>1
  <2> QED
    BY <1>1, <2>1, SubSeqProperties
<1>3. b \in Seq(B) /\ Len(b) = m - r /\ \A i \in 1..m - r : b[i] = s[r + i]
  <2>1. \A i \in r + 1..m : s[i] \in B
    BY <1>1
  <2>2. r + 1 \in Int /\ m \in Int /\ m - (r + 1) + 1 = m - r
    BY <1>1
  <2>3. /\ b \in Seq(B) /\ Len(b) = IF r + 1 <= m THEN m - (r + 1) + 1 ELSE 0
        /\ \A i \in 1..m - (r + 1) + 1 : b[i] = s[(r + 1) + i - 1]
    BY <1>1, <2>1, <2>2, SubSeqProperties
  <2> QED
    BY <1>1, <2>2, <2>3
<1> HIDE DEF a, b
<1>4. /\ a \o b \in Seq(B) /\ Len(a \o b) = m - 1
      /\ \A i \in 1..m - 1 : (a \o b)[i] = IF i <= r - 1 THEN a[i] ELSE b[i - (r - 1)]
  <2>5. r - 1 \in Nat /\ m - r \in Nat /\ (r - 1) + (m - r) = m - 1
    BY <1>1
  <2>1. PICK p \in Nat, q \in Nat : p = r - 1 /\ q = m - r /\ p + q = m - 1
    BY <2>5
  <2>2. Len(a) = p /\ Len(b) = q
    BY <1>2, <1>3, <2>1
  <2>3. /\ a \o b \in Seq(B) /\ Len(a \o b) = Len(a) + Len(b)
        /\ \A i \in 1..Len(a) + Len(b) : (a \o b)[i] = IF i <= Len(a) THEN a[i] ELSE b[i - Len(a)]
    BY <1>2, <1>3, ConcatProperties
  <2>4. /\ a \o b \in Seq(B) /\ Len(a \o b) = p + q
        /\ \A i \in 1..p + q : (a \o b)[i] = IF i <= p THEN a[i] ELSE b[i - p]
    BY <2>2, <2>3
  <2> QED
    BY <1>1, <2>1, <2>4
<1>5. RemoveAt(s, row) = a \o b
  BY DEF RemoveAt, a, b
<1>6. ASSUME NEW i \in 1..m - 1
      PROVE  (a \o b)[i] = IF i < r THEN s[i] ELSE s[i + 1]
  <2>1. CASE i < r
    BY <2>1, <1>1, <1>2, <1>4
  <2>2. CASE ~(i < r)
    <3>1. i - (r - 1) \in 1..m - r /\ r + (i - (r - 1)) = i + 1 /\ ~(i <= r - 1)
      BY <2>2, <1>1
    <3> QED
      BY <2>2, <3>1, <1>3, <1>4
  <2> QED
    BY <2>1, <2>2
<1> QED
  BY <1>1, <1>4, <1>5, <1>6

Inserted(B, s, to, e) ==
    /\ InsertAt(s, to, e) \in Seq(B) /\ Len(InsertAt(s, to, e)) = Len(s) + 1
    /\ \A i \in 1..Len(s) + 1 :
          InsertAt(s, to, e)[i] = IF i < to THEN s[i] ELSE IF i = to THEN e ELSE s[i - 1]

LEMMA InsertAtPicks ==
    ASSUME NEW B, NEW s \in Seq(B), NEW to \in Nat, NEW e \in B, 1 <= to, to <= Len(s) + 1
    PROVE  Inserted(B, s, to, e)
<1> DEFINE a == SubSeq(s, 1, to - 1)
           b == SubSeq(s, to, Len(s))
<1>1. PICK m \in Nat, r \in Nat : m = Len(s) /\ r = to /\ r >= 1 /\ r <= m + 1
  OBVIOUS
<1>2. a \in Seq(B) /\ Len(a) = r - 1 /\ \A i \in 1..r - 1 : a[i] = s[i]
  <2>1. \A i \in 1..r - 1 : s[i] \in B
    BY <1>1
  <2>2. 1 \in Int /\ r - 1 \in Int /\ (r - 1) - 1 + 1 = r - 1
    BY <1>1
  <2>3. /\ a \in Seq(B) /\ Len(a) = IF 1 <= r - 1 THEN (r - 1) - 1 + 1 ELSE 0
        /\ \A i \in 1..(r - 1) - 1 + 1 : a[i] = s[1 + i - 1]
    BY <1>1, <2>1, <2>2, SubSeqProperties
  <2> QED
    BY <1>1, <2>2, <2>3
<1>3. b \in Seq(B) /\ Len(b) = m - r + 1 /\ \A i \in 1..m - r + 1 : b[i] = s[r + i - 1]
  <2>1. \A i \in r..m : s[i] \in B
    BY <1>1
  <2>2. r \in Int /\ m \in Int
    BY <1>1
  <2>3. /\ b \in Seq(B) /\ Len(b) = IF r <= m THEN m - r + 1 ELSE 0
        /\ \A i \in 1..m - r + 1 : b[i] = s[r + i - 1]
    BY <1>1, <2>1, <2>2, SubSeqProperties
  <2> QED
    BY <1>1, <2>3
<1> HIDE DEF a, b
<1>4. /\ a \o <<e>> \in Seq(B) /\ Len(a \o <<e>>) = r
      /\ \A i \in 1..r : (a \o <<e>>)[i] = IF i < r THEN a[i] ELSE e
  <2>1. <<e>> \in Seq(B) /\ Len(<<e>>) = 1 /\ <<e>>[1] = e
    OBVIOUS
  <2>2. /\ a \o <<e>> \in Seq(B) /\ Len(a \o <<e>>) = Len(a) + 1
        /\ \A i \in 1..Len(a) + 1 : (a \o <<e>>)[i] = IF i <= Len(a) THEN a[i] ELSE <<e>>[i - Len(a)]
    BY <1>2, <2>1, ConcatProperties
  <2> QED
    BY <1>1, <1>2, <2>1, <2>2
<1>5. /\ (a \o <<e>>) \o b \in Seq(B) /\ Len((a \o <<e>>) \o b) = m + 1
      /\ \A i \in 1..m + 1 : ((a \o <<e>>) \o b)[i] = IF i <= r THEN (a \o <<e>>)[i] ELSE b[i - r]
  <2> DEFINE c == a \o <<e>>
  <2>1. c \in Seq(B) /\ Len(c) = r
    BY <1>4
  <2> HIDE DEF c
  <2>2. PICK q \in Nat : q = m - r + 1 /\ r + q = m + 1
    BY <1>1
  <2>5. Len(b) = q
    BY <1>3, <2>2
  <2>6. /\ c \o b \in Seq(B) /\ Len(c \o b) = Len(c) + Len(b)
        /\ \A i \in 1..Len(c) + Len(b) : (c \o b)[i] = IF i <= Len(c) THEN c[i] ELSE b[i - Len(c)]
    BY <1>3, <2>1, ConcatProperties
  <2>4. /\ c \o b \in Seq(B) /\ Len(c \o b) = r + q
        /\ \A i \in 1..r + q : (c \o b)[i] = IF i <= r THEN c[i] ELSE b[i - r]
    BY <2>1, <2>5, <2>6
  <2>3. /\ c \o b \in Seq(B) /\ Len(c \o b) = m + 1
        /\ \A i \in 1..m + 1 : (c \o b)[i] = IF i <= r THEN c[i] ELSE b[i - r]
    BY <2>2, <2>4
  <2> QED
    BY <2>3 DEF c
<1>6. InsertAt(s, to, e) = (a \o <<e>>) \o b
  BY DEF InsertAt, a, b
<1>7. ASSUME NEW i \in 1..m + 1
      PROVE  ((a \o <<e>>) \o b)[i] = IF i < r THEN s[i] ELSE IF i = r THEN e ELSE s[i - 1]
  <2>1. CASE i < r
    <3>1. i \in 1..r - 1 /\ i \in 1..r
      BY <1>1, <2>1
    <3> QED
      BY <2>1, <3>1, <1>2, <1>4, <1>5
  <2>2. CASE i = r
    BY <2>2, <1>1, <1>4, <1>5
  <2>3. CASE i > r
    <3>1. i - r \in 1..m - r + 1 /\ r + (i - r) - 1 = i - 1 /\ ~(i <= r) /\ ~(i < r) /\ i # r
      BY <2>3, <1>1
    <3> QED
      BY <3>1, <1>3, <1>5
  <2>4. i < r \/ i = r \/ i > r
    BY <1>1
  <2> QED
    BY <2>1, <2>2, <2>3, <2>4
<1> QED
  BY <1>1, <1>5, <1>6, <1>7 DEF Inserted

LEMMA RemovedIsTidy ==
    ASSUME NEW P, Tidy(P), NEW row \in DOMAIN P
    PROVE  Tidy(RemoveAt(P, row))
<1> DEFINE Q == RemoveAt(P, row)
<1>1. PICK m \in Nat : m = Len(P) /\ DOMAIN P = 1..m /\ P \in Seq(Profile)
  BY DEF Tidy
<1>2. /\ Q \in Seq(Profile) /\ Len(Q) = m - 1
      /\ \A i \in 1..m - 1 : Q[i] = IF i < row THEN P[i] ELSE P[i + 1]
  BY <1>1, RemoveAtPicks
<1> HIDE DEF Q
<1>3. DOMAIN Q = 1..m - 1
  BY <1>2
<1> DEFINE f == [i \in 1..m - 1 |-> IF i < row THEN i ELSE i + 1]
<1>4. /\ f \in [DOMAIN Q -> DOMAIN P] /\ \A i \in DOMAIN Q : Q[i] = P[f[i]]
      /\ \A i, j \in DOMAIN Q : f[i] = f[j] => i = j
  BY <1>1, <1>2, <1>3
<1> HIDE DEF f
<1>5. Tidy(Q)
  BY <1>2, <1>4, PickedIsTidy
<1> QED
  BY <1>5 DEF Q

LEMMA MovedIsTidy ==
    ASSUME NEW P, Tidy(P), NEW row \in DOMAIN P, NEW to \in DOMAIN P
    PROVE  Tidy(InsertAt(RemoveAt(P, row), to, P[row]))
<1> DEFINE R == RemoveAt(P, row)
           Q == InsertAt(R, to, P[row])
<1>1. PICK m \in Nat : m = Len(P) /\ DOMAIN P = 1..m /\ P \in Seq(Profile)
  BY DEF Tidy
<1>2. /\ R \in Seq(Profile) /\ Len(R) = m - 1
      /\ \A i \in 1..m - 1 : R[i] = IF i < row THEN P[i] ELSE P[i + 1]
  BY <1>1, RemoveAtPicks
<1> HIDE DEF R
<1>3. /\ Q \in Seq(Profile) /\ Len(Q) = m
      /\ \A i \in 1..m : Q[i] = IF i < to THEN R[i] ELSE IF i = to THEN P[row] ELSE R[i - 1]
  <2> DEFINE e == P[row]
  <2>1. e \in Profile /\ m - 1 \in Nat /\ (m - 1) + 1 = m /\ Len(R) + 1 = m /\ to \in Nat /\ 1 <= to /\ to <= Len(R) + 1
    BY <1>1, <1>2
  <2> HIDE DEF e
  <2>3. R \in Seq(Profile)
    BY <1>2
  <2>2. Inserted(Profile, R, to, e)
    BY <2>1, <2>3, InsertAtPicks
  <2> QED
    BY <2>1, <2>2 DEF e, Inserted
<1> HIDE DEF Q
<1>4. DOMAIN Q = 1..m
  BY <1>3
<1> DEFINE g(i) == IF i < row THEN i ELSE i + 1
           f == [i \in 1..m |-> IF i < to THEN g(i) ELSE IF i = to THEN row ELSE g(i - 1)]
<1>5. row \in 1..m /\ to \in 1..m
  BY <1>1
<1>6. f \in [DOMAIN Q -> DOMAIN P]
  BY <1>1, <1>4, <1>5
<1>7. ASSUME NEW i \in DOMAIN Q PROVE Q[i] = P[f[i]]
  <2>1. CASE i < to
    BY <2>1, <1>2, <1>3, <1>4, <1>5
  <2>2. CASE i = to
    BY <2>2, <1>3, <1>4, <1>5
  <2>3. CASE i > to
    <3>1. i - 1 \in 1..m - 1
      BY <2>3, <1>4, <1>5
    <3> QED
      BY <2>3, <3>1, <1>2, <1>3, <1>4, <1>5
  <2> QED
    BY <2>1, <2>2, <2>3, <1>4, <1>5
<1>8. ASSUME NEW i \in DOMAIN Q, NEW j \in DOMAIN Q, f[i] = f[j] PROVE i = j
  BY <1>4, <1>5, <1>8
<1> HIDE DEF f, g
<1>9. Tidy(Q)
  BY <1>3, <1>6, <1>7, <1>8, PickedIsTidy
<1> QED
  BY <1>9 DEF Q, R

LEMMA NormalizedTyped ==
    ASSUME NEW p \in Profile
    PROVE  /\ Normalized(p) \in Profile /\ Normalized(p).id = p.id /\ Normalized(p).auth = p.auth
           /\ ~Normalized(p).save => Normalized(p).secret = NoSecret
BY DEF Profile, Normalized

LEMMA EditedTyped ==
    ASSUME NEW p \in Profile, NEW old \in Profile
    PROVE  /\ Edited(p, old) \in Profile /\ Edited(p, old).id = p.id
           /\ ~Edited(p, old).save => Edited(p, old).secret = NoSecret
<1>1. CASE p.save /\ p.secret = NoSecret /\ SecretKind(p.auth) = SecretKind(old.auth)
  <2>1. Edited(p, old) = [p EXCEPT !.secret = old.secret]
    BY <1>1 DEF Edited
  <2> QED
    BY <1>1, <2>1 DEF Profile
<1>2. CASE ~(p.save /\ p.secret = NoSecret /\ SecretKind(p.auth) = SecretKind(old.auth))
  <2>1. Edited(p, old) = Normalized(p)
    BY <1>2 DEF Edited
  <2> QED
    BY <2>1, NormalizedTyped
<1> QED
  BY <1>1, <1>2

LEMMA AppendedIsTidy ==
    ASSUME NEW P, Tidy(P), NEW p \in Profile, \A i \in DOMAIN P : P[i].id # p.id
    PROVE  Tidy(Append(P, Normalized(p)))
<1> DEFINE q == Normalized(p)
           Q == Append(P, q)
<1>1. q \in Profile /\ q.id = p.id /\ (~q.save => q.secret = NoSecret)
  BY NormalizedTyped
<1> HIDE DEF q
<1>2. PICK m \in Nat : m = Len(P) /\ DOMAIN P = 1..m /\ P \in Seq(Profile)
  BY DEF Tidy
<1>3. Q \in Seq(Profile) /\ DOMAIN Q = 1..m + 1 /\ Q[m + 1] = q /\ \A i \in 1..m : Q[i] = P[i]
  BY <1>1, <1>2, AppendProperties
<1> HIDE DEF Q
<1>4. ASSUME NEW i \in DOMAIN Q, NEW j \in DOMAIN Q, Q[i].id = Q[j].id PROVE i = j
  <2>1. CASE i \in 1..m /\ j \in 1..m
    BY <1>2, <1>3, <1>4, <2>1 DEF Tidy, DistinctIds
  <2>2. CASE i \in 1..m /\ j = m + 1
    BY <1>1, <1>2, <1>3, <1>4, <2>2
  <2>3. CASE i = m + 1 /\ j \in 1..m
    BY <1>1, <1>2, <1>3, <1>4, <2>3
  <2>4. (i \in 1..m \/ i = m + 1) /\ (j \in 1..m \/ j = m + 1)
    BY <1>2, <1>3
  <2> QED
    BY <2>1, <2>2, <2>3, <2>4
<1>5. ASSUME NEW i \in DOMAIN Q, ~Q[i].save PROVE Q[i].secret = NoSecret
  <2>1. i \in 1..m \/ i = m + 1
    BY <1>2, <1>3
  <2> QED
    BY <1>1, <1>2, <1>3, <1>5, <2>1 DEF Tidy
<1>6. Tidy(Q)
  BY <1>3, <1>4, <1>5 DEF Tidy, DistinctIds
<1> QED
  BY <1>6 DEF Q, q

\* A list whose profiles were changed where they stand.
LEMMA ChangedIsTidy ==
    ASSUME NEW P, Tidy(P), NEW Q, Q = [i \in DOMAIN P |-> Q[i]],
           \A i \in DOMAIN P : /\ Q[i] \in Profile /\ Q[i].id = P[i].id
                               /\ ~Q[i].save => Q[i].secret = NoSecret
    PROVE  Tidy(Q)
<1>1. Len(P) \in Nat /\ DOMAIN P = 1..Len(P) /\ DistinctIds(P)
  BY DEF Tidy
<1>2. Q \in [1..Len(P) -> Profile]
  BY <1>1
<1>3. Q \in Seq(Profile) /\ DOMAIN Q = DOMAIN P
  BY <1>1, <1>2, FunctionIsSequence
<1> QED
  BY <1>1, <1>3 DEF Tidy, DistinctIds

LEMMA EditIsTidy ==
    ASSUME NEW P, Tidy(P), NEW p \in Profile
    PROVE  Tidy([i \in DOMAIN P |-> IF P[i].id = p.id THEN Edited(p, P[i]) ELSE P[i]])
<1> DEFINE Q == [i \in DOMAIN P |-> IF P[i].id = p.id THEN Edited(p, P[i]) ELSE P[i]]
<1>1. ASSUME NEW i \in DOMAIN P
      PROVE  Q[i] \in Profile /\ Q[i].id = P[i].id /\ (~Q[i].save => Q[i].secret = NoSecret)
  <2>1. P[i] \in Profile /\ (~P[i].save => P[i].secret = NoSecret)
    BY DEF Tidy
  <2>2. /\ Edited(p, P[i]) \in Profile /\ Edited(p, P[i]).id = p.id
        /\ ~Edited(p, P[i]).save => Edited(p, P[i]).secret = NoSecret
    BY <2>1, EditedTyped
  <2>3. Q[i] = IF P[i].id = p.id THEN Edited(p, P[i]) ELSE P[i]
    OBVIOUS
  <2> HIDE DEF Q
  <2> QED
    BY <2>1, <2>2, <2>3
<1>2. Q = [i \in DOMAIN P |-> Q[i]]
  OBVIOUS
<1> HIDE DEF Q
<1>3. Tidy(Q)
  BY <1>1, <1>2, ChangedIsTidy
<1> QED
  BY <1>3 DEF Q

KeySecretSet(Q, k, keep, s) ==
    Tidy(Q) /\ \A i \in DOMAIN Q : Q[i].auth = k => Q[i].save = keep /\ Q[i].secret = s

LEMMA KeySecretIsTidy ==
    ASSUME Tidy(profiles), NEW k \in StoredKeyIds, NEW keep \in BOOLEAN,
           NEW s \in Secrets \union {NoSecret}, keep \/ s = NoSecret
    PROVE  KeySecretSet(WithKeySecret(k, keep, s), k, keep, s)
<1> DEFINE Q == WithKeySecret(k, keep, s)
<1>1. ASSUME NEW i \in DOMAIN profiles
      PROVE  /\ Q[i] \in Profile /\ Q[i].id = profiles[i].id /\ (~Q[i].save => Q[i].secret = NoSecret)
             /\ Q[i].auth = k => Q[i].save = keep /\ Q[i].secret = s
  <2>1. profiles[i] \in Profile /\ (~profiles[i].save => profiles[i].secret = NoSecret)
    BY DEF Tidy
  <2>2. Q[i] = IF profiles[i].auth = k THEN [profiles[i] EXCEPT !.save = keep, !.secret = s]
               ELSE profiles[i]
    BY DEF WithKeySecret
  <2> HIDE DEF Q
  <2> QED
    BY <2>1, <2>2 DEF Profile
<1>2. Q = [i \in DOMAIN profiles |-> Q[i]] /\ DOMAIN Q = DOMAIN profiles
  BY DEF WithKeySecret
<1> HIDE DEF Q
<1>3. Tidy(Q)
  BY <1>1, <1>2, ChangedIsTidy
<1>4. Tidy(Q) /\ \A i \in DOMAIN Q : Q[i].auth = k => Q[i].save = keep /\ Q[i].secret = s
  BY <1>1, <1>2, <1>3
<1> QED
  BY <1>4 DEF Q, KeySecretSet

-----------------------------------------------------------------------------
(* Starting an operation that saves the profiles                               *)

\* What is kept of a profile with a secret is in its slot.
LEMMA KeptHolds ==
    ASSUME Tidy(profiles), Kept(profiles), NEW i \in DOMAIN profiles,
           profiles[i].save, profiles[i].secret # NoSecret
    PROVE  LET p == profiles[i] IN
           IF p.auth \in StoredKeyIds
           THEN \E q \in Range(profiles) : q.auth = p.auth /\ db.doc[SlotOf(p)] = q.secret
           ELSE db.doc[SlotOf(p)] = p.secret
<1> DEFINE p == profiles[i]
<1>1. HasAll(profiles, db.doc)
  BY DEF Kept, Bare
<1>2. p \in Profile /\ p \in Range(profiles) /\ p.auth \in Auths
  BY ProfileSlots DEF Tidy, Range
<1>3. CASE p.auth = "password"
  <2>1. Secret(db.doc, PasswordSlot(p)) = p.secret
    BY <1>1, <1>3 DEF HasAll
  <2>2. db.doc[PasswordSlot(p)] = p.secret
    BY <2>1 DEF Secret
  <2>3. p.auth \notin StoredKeyIds
    BY <1>3, ConstantsAssumption
  <2> QED
    BY <1>3, <2>2, <2>3 DEF SlotOf
<1>4. CASE p.auth = "keyFile"
  <2>1. Secret(db.doc, PassphraseSlot(p)) = p.secret
    BY <1>1, <1>4 DEF HasAll
  <2>2. db.doc[PassphraseSlot(p)] = p.secret
    BY <2>1 DEF Secret
  <2>3. p.auth \notin StoredKeyIds
    BY <1>4, ConstantsAssumption
  <2> QED
    BY <1>4, <2>2, <2>3 DEF SlotOf
<1>5. CASE p.auth \in StoredKeyIds
  <2>1. i \in Owners(profiles, p.auth)
    BY DEF Owners
  <2>2. PICK j \in Owners(profiles, p.auth) : db.doc[Phrase(p.auth)] = profiles[j].secret
    BY <1>1, <1>5, <2>1 DEF HasAll
  <2>3. j \in DOMAIN profiles /\ profiles[j].auth = p.auth /\ profiles[j] \in Range(profiles)
    BY <2>2 DEF Owners, Range
  <2>4. SlotOf(p) = Phrase(p.auth)
    BY <1>5, ConstantsAssumption DEF SlotOf
  <2> QED
    BY <1>5, <2>2, <2>3, <2>4
<1> QED
  BY <1>2, <1>3, <1>4, <1>5 DEF Auths

\* What a faithful sequence of calls puts into the slot of a profile left alone.
LEMMA FaithfulHolds ==
    ASSUME NEW P, Tidy(P), NEW C, Faithful(C, P), NEW p \in Range(P), p.save, p.secret # NoSecret,
           NEW v, Wants(C, SlotOf(p), v)
    PROVE  IF p.auth \in StoredKeyIds THEN \E q \in Range(P) : q.auth = p.auth /\ v = q.secret
           ELSE v = p.secret
<1>1. PICK i \in DOMAIN P : P[i] = p
  BY DEF Range
<1>2. P \in Seq(Profile) /\ p \in Profile /\ p.auth \in Auths
  BY <1>1, ProfileSlots DEF Tidy
<1>3. CASE p.auth \notin StoredKeyIds
  <2>1. p.auth = "password" \/ p.auth = "keyFile"
    BY <1>2, <1>3 DEF Auths
  <2>2. CASE p.auth = "password"
    <3>1. SlotOf(p) = PasswordSlot(p) /\ SlotOf(p)[2] = "password"
      BY <2>2, SlotKinds DEF SlotOf
    <3>2. SaveWants(P, SlotOf(p), v)
      BY <3>1, SlotKinds DEF Faithful
    <3>3. SaveWants(P, SlotOf(p), PasswordOf(p))
      BY <1>1, <3>1 DEF SaveWants
    <3>4. v = PasswordOf(p)
      BY <3>2, <3>3, SaveWantsOnce
    <3> QED
      BY <1>3, <2>2, <3>4 DEF PasswordOf
  <2>3. CASE p.auth = "keyFile"
    <3>1. SlotOf(p) = PassphraseSlot(p) /\ SlotOf(p)[2] = "keyPassphrase"
      BY <2>3, SlotKinds DEF SlotOf
    <3>2. SaveWants(P, SlotOf(p), v)
      BY <3>1, SlotKinds DEF Faithful
    <3>3. SaveWants(P, SlotOf(p), PassphraseOf(p))
      BY <1>1, <3>1 DEF SaveWants
    <3>4. v = PassphraseOf(p)
      BY <3>2, <3>3, SaveWantsOnce
    <3> QED
      BY <1>3, <2>3, <3>4 DEF PassphraseOf
  <2> QED
    BY <2>1, <2>2, <2>3
<1>4. CASE p.auth \in StoredKeyIds
  <2>1. SlotOf(p) = Phrase(p.auth) /\ SlotOf(p)[2] = "passphrase"
    BY <1>4, ConstantsAssumption, SlotKinds DEF SlotOf
  <2>2. CASE SaveWants(P, SlotOf(p), v)
    <3>1. i \in Owners(P, p.auth) /\ p.auth \in KeysUsed(P)
      BY <1>1, <1>4 DEF Owners, KeysUsed
    <3>2. SaveWants(P, SlotOf(p), PhraseOf(P, p.auth))
      BY <2>1, <3>1 DEF SaveWants
    <3>3. v = PhraseOf(P, p.auth)
      BY <2>2, <3>2, SaveWantsOnce
    <3>4. Min(Owners(P, p.auth)) \in Owners(P, p.auth)
      BY <1>2, <3>1, OwnersLeast
    <3> QED
      BY <1>4, <3>1, <3>3, <3>4 DEF PhraseOf, Owners, Range
  <2>3. CASE ~SaveWants(P, SlotOf(p), v)
    <3>1. PICK k \in StoredKeyIds :
             /\ SlotOf(p) = Phrase(k)
             /\ \A j \in DOMAIN P : P[j].auth = k => ~P[j].save \/ P[j].secret = v
      BY <2>1, <2>3 DEF Faithful
    <3>2. k = p.auth
      BY <2>1, <3>1 DEF Phrase
    <3> QED
      BY <1>1, <1>4, <3>1, <3>2
  <2> QED
    BY <2>2, <2>3
<1> QED
  BY <1>3, <1>4

LEMMA SaveStarts ==
    ASSUME SaveInv, phase # "down", NEW P, Tidy(P), NEW F, Tidy(F), NEW C, Faithful(C, P),
           NEW name, name \notin {"keys", "import", "load"}, NEW again,
           Start(name, P, F, again, C), vm' = NewManager,
           UNCHANGED <<keyring, disk, profiles, prompt, saved, damaged>>,
           saved /\ ~damaged => Kept(profiles)
    PROVE  SaveInv'
<1>1. /\ phase' = "busy" /\ op'.name = name /\ op'.target = P /\ op'.onFail = F
      /\ calls' = C /\ at' = 1 /\ result' = [all |-> TRUE, any |-> FALSE]
      /\ UNCHANGED <<keyring, db, connects, legacy, profiles, prompt, saved, damaged>>
      /\ vm' = NewManager
  BY DEF Start, Fresh, disk
<1>2. DocOf(vm)' = db.doc
  BY <1>1, NewManagerTyped DEF DocOf, Absent
<1>3. Typed'
  <2>1. Remembered(vm)'
    BY <1>1, NewManagerTyped DEF Remembered, SaveInv, Typed, keyring
  <2>2. \/ prompt' = <<>>
        \/ Len(prompt') = 1 /\ prompt'[1].key \in StoredKeyIds /\ Remembered(prompt[1].vm)'
    BY <1>1 DEF SaveInv, Typed, Remembered, keyring
  <2>3. CallsShape(calls)'
    BY <1>1 DEF Faithful, CallsShape
  <2> QED
    BY <1>1, <2>1, <2>2, <2>3 DEF SaveInv, Typed, keyring
<1>4. Managers' /\ Importing' /\ Resting' /\ Aside'
  BY <1>1, NewManagerTyped DEF SaveInv, Managers, Importing, Resting, Aside, SavesProfiles
<1>5. Guarded'
  <2> SUFFICES ASSUME saved, ~damaged, NEW i \in DOMAIN profiles, LeftAlone(profiles[i])'
               PROVE  /\ db.doc[SlotOf(profiles[i])] \in MayHold(profiles[i])'
                      /\ \A v : Wants(C, SlotOf(profiles[i]), v) => v \in MayHold(profiles[i])'
    BY <1>1, <1>2 DEF Guarded
  <2> DEFINE p == profiles[i]
  <2>1. p \in Range(P) /\ p.save /\ p.secret # NoSecret
    BY <1>1 DEF LeftAlone
  <2>5. IF p.auth \in StoredKeyIds
        THEN \E q \in Range(profiles) : q.auth = p.auth /\ db.doc[SlotOf(p)] = q.secret
        ELSE db.doc[SlotOf(p)] = p.secret
    BY <2>1, KeptHolds DEF SaveInv, Typed
  <2>3. \A v : (IF p.auth \in StoredKeyIds
                THEN \E q \in Range(profiles) \union Range(P) : q.auth = p.auth /\ v = q.secret
                ELSE v = p.secret) <=> v \in MayHold(p)'
    BY <1>1 DEF MayHold
  <2>2. db.doc[SlotOf(p)] \in MayHold(p)'
    BY <2>3, <2>5
  <2>4. \A v : Wants(C, SlotOf(p), v) => v \in MayHold(p)'
    BY <2>1, <2>3, FaithfulHolds
  <2> QED
    BY <2>2, <2>4
<1>6. Saving'
  <2>1. \A n \in DOMAIN C : ~(n < 1)
    BY DEF Faithful, CallsShape
  <2> QED
    BY <1>1, <1>2, <2>1 DEF Saving, Faithful
<1> QED
  BY <1>3, <1>4, <1>5, <1>6 DEF SaveInv

-----------------------------------------------------------------------------
(* Calls put together                                                          *)

LEMMA WantsOccurs ==
    ASSUME NEW C, NEW slot, NEW v
    PROVE  Wants(C, slot, v) <=> \E c : Occurs(C, c) /\ c.op # "connects" /\ c.slot = slot /\ c.value = v
<1>1. ASSUME Wants(C, slot, v)
      PROVE  \E c : Occurs(C, c) /\ c.op # "connects" /\ c.slot = slot /\ c.value = v
  <2>1. PICK n \in DOMAIN C : C[n].op # "connects" /\ C[n].slot = slot /\ C[n].value = v
    BY <1>1 DEF Wants
  <2>2. Occurs(C, C[n])
    BY DEF Occurs
  <2> QED
    BY <2>1, <2>2
<1>2. ASSUME NEW c, Occurs(C, c), c.op # "connects", c.slot = slot, c.value = v
      PROVE  Wants(C, slot, v)
  BY <1>2 DEF Occurs, Wants
<1> QED
  BY <1>1, <1>2

LEMMA JoinedCalls ==
    ASSUME NEW B, NEW C \in Seq(B), NEW D \in Seq(B), CallsShape(C), CallsShape(D)
    PROVE  /\ CallsShape(C \o D)
           /\ \A slot, v : Wants(C \o D, slot, v) <=> Wants(C, slot, v) \/ Wants(D, slot, v)
           /\ (\E n \in DOMAIN (C \o D) : (C \o D)[n].op = "connects")
                <=> \/ \E n \in DOMAIN C : C[n].op = "connects"
                    \/ \E n \in DOMAIN D : D[n].op = "connects"
<1> DEFINE E == C \o D
<1>1. E \in Seq(B) /\ \A c : Occurs(E, c) <=> Occurs(C, c) \/ Occurs(D, c)
  BY ConcatOccurs
<1>2. Len(E) \in Nat /\ DOMAIN E = 1..Len(E)
  BY <1>1
<1> HIDE DEF E
<1>3. \A n \in DOMAIN E : E[n].op = "connects" \/ SecretCallShape(E[n])
  BY <1>1, SMTT(40) DEF Occurs, CallsShape
<1>4. CallsShape(E)
  BY <1>2, <1>3 DEF CallsShape
<1>5. \A slot, v : Wants(E, slot, v) <=> Wants(C, slot, v) \/ Wants(D, slot, v)
  BY <1>1, WantsOccurs
<1>6. (\E n \in DOMAIN E : E[n].op = "connects")
        <=> \/ \E n \in DOMAIN C : C[n].op = "connects"
            \/ \E n \in DOMAIN D : D[n].op = "connects"
  BY <1>1 DEF Occurs
<1> QED
  BY <1>4, <1>5, <1>6 DEF E

\* What follows the saving of connects.json, and what may precede it.
LEMMA TailCalls ==
    ASSUME NEW P \in Seq(Profile)
    PROVE  LET S == SaveCalls(P)
           IN  /\ Head(S) = SaveConnects /\ Tail(S) \in Seq(Range(S)) /\ CallsShape(Tail(S))
               /\ \A slot, v : Wants(Tail(S), slot, v) <=> SaveWants(P, slot, v)
<1> DEFINE S == SaveCalls(P)
           T == Tail(S)
<1>1. S \in Seq(Range(S)) /\ Len(S) > 0 /\ S[1] = SaveConnects
  BY SaveCallsAre
<1>2. CallsShape(S) /\ \A slot, v : Wants(S, slot, v) <=> SaveWants(P, slot, v)
  BY SaveCallsWant
<1> HIDE DEF S
<1>3. Head(S) = SaveConnects
  BY <1>1
<1>4. PICK m \in Nat : m + 1 = Len(S) /\ DOMAIN S = 1..m + 1
  <2>1. Len(S) \in Nat /\ Len(S) - 1 \in Nat /\ (Len(S) - 1) + 1 = Len(S) /\ DOMAIN S = 1..Len(S)
    BY <1>1
  <2> QED
    BY <2>1
<1>5. T \in Seq(Range(S)) /\ Len(T) = m /\ DOMAIN T = 1..m /\ \A n \in 1..m : T[n] = S[n + 1]
  <2>1. S # <<>>
    BY <1>1
  <2> QED
    BY <1>1, <1>4, <2>1, HeadTailProperties
<1> HIDE DEF T
<1>6. \A c : Occurs(S, c) <=> c = SaveConnects \/ Occurs(T, c)
  <2>1. ASSUME NEW c, Occurs(S, c) PROVE c = SaveConnects \/ Occurs(T, c)
    <3>1. PICK n \in 1..m + 1 : S[n] = c
      BY <1>4, <2>1 DEF Occurs
    <3>2. CASE n = 1
      BY <1>1, <3>1, <3>2
    <3>3. CASE n # 1
      <4>1. n - 1 \in 1..m /\ (n - 1) + 1 = n
        BY <3>1, <3>3
      <4>2. T[n - 1] = c
        BY <1>5, <3>1, <4>1
      <4> QED
        BY <1>5, <4>1, <4>2 DEF Occurs
    <3> QED
      BY <3>2, <3>3
  <2>2. ASSUME NEW c, Occurs(T, c) PROVE Occurs(S, c)
    <3>1. PICK n \in 1..m : T[n] = c
      BY <1>5, <2>2 DEF Occurs
    <3>2. n + 1 \in DOMAIN S /\ S[n + 1] = c
      BY <1>4, <1>5, <3>1
    <3> QED
      BY <3>2 DEF Occurs
  <2>3. Occurs(S, SaveConnects)
    BY <1>1, <1>4 DEF Occurs
  <2> QED
    BY <2>1, <2>2, <2>3
<1>7. CallsShape(T)
  BY <1>2, <1>5, <1>6, SMTT(40) DEF CallsShape, Occurs
<1>8. \A slot, v : Wants(T, slot, v) <=> Wants(S, slot, v)
  BY <1>6, CallFields DEF Wants, Occurs
<1> QED
  BY <1>2, <1>3, <1>5, <1>7, <1>8 DEF T, S

\* Calls that do not save connects.json, one or two of them.
LEMMA ShortCalls ==
    ASSUME NEW c, SecretCallShape(c)
    PROVE  /\ CallsShape(<<c>>)
           /\ \A slot, v : Wants(<<c>>, slot, v) <=> c.slot = slot /\ c.value = v
           /\ \A d : \/ ~SecretCallShape(d)
                     \/ CallsShape(<<c, d>>)
           /\ \A d : d.op = "connects" =>
                 /\ CallsShape(<<c, d>>)
                 /\ \A slot, v : Wants(<<c, d>>, slot, v) <=> c.slot = slot /\ c.value = v
<1>1. c.op # "connects"
  BY DEF SecretCallShape
<1>2. Len(<<c>>) = 1 /\ DOMAIN <<c>> = 1..1 /\ <<c>>[1] = c
  OBVIOUS
<1>3. CallsShape(<<c>>)
  BY <1>2 DEF CallsShape
<1>4. \A slot, v : Wants(<<c>>, slot, v) <=> c.slot = slot /\ c.value = v
  BY <1>1, <1>2 DEF Wants
<1>5. \A d : Len(<<c, d>>) = 2 /\ DOMAIN <<c, d>> = 1..2 /\ <<c, d>>[1] = c /\ <<c, d>>[2] = d
  OBVIOUS
<1>6. \A d : SecretCallShape(d) \/ d.op = "connects" => CallsShape(<<c, d>>)
  BY <1>5 DEF CallsShape
<1>7. ASSUME NEW d, d.op = "connects", NEW slot, NEW v
      PROVE  Wants(<<c, d>>, slot, v) <=> c.slot = slot /\ c.value = v
  BY <1>1, <1>5, <1>7 DEF Wants
<1> QED
  BY <1>3, <1>4, <1>6, <1>7

LEMMA PhraseCalls ==
    ASSUME NEW k \in StoredKeyIds, NEW s \in Secrets
    PROVE  /\ SecretCallShape(Erase(<<k, "passphrase">>)) /\ SecretCallShape(Store(<<k, "passphrase">>, s))
           /\ SecretCallShape(Must(Erase(<<k, "passphrase">>)))
           /\ SecretCallShape(Must(Store(<<k, "passphrase">>, s)))
           /\ SecretCallShape(Erase(<<k, "pem">>)) /\ SecretCallShape(Store(<<k, "pem">>, Pem))
           /\ SecretCallShape(Must(Store(<<k, "pem">>, Pem)))
           /\ Phrase(k) = <<k, "passphrase">> /\ <<k, "pem">>[2] = "pem"
<1>1. /\ <<k, "passphrase">> \in Slots /\ <<k, "pem">> \in Slots
      /\ <<k, "passphrase">>[2] = "passphrase" /\ <<k, "pem">>[2] = "pem"
  BY DEF Slots
<1> QED
  BY <1>1, CallFields DEF SecretCallShape, Values, Phrase

LEMMA ForgetIsFaithful ==
    ASSUME NEW P, Tidy(P), NEW k \in StoredKeyIds, \A i \in DOMAIN P : P[i].auth = k => ~P[i].save
    PROVE  Faithful(<<Erase(<<k, "passphrase">>)>> \o SaveCalls(P), P)
<1> DEFINE S == SaveCalls(P)
           c == Erase(<<k, "passphrase">>)
           C == <<c>>
           B == Range(S) \union {c}
<1>1. S \in Seq(Range(S)) /\ CallsShape(S) /\ (\E n \in DOMAIN S : S[n].op = "connects")
      /\ \A slot, v : Wants(S, slot, v) <=> SaveWants(P, slot, v)
  BY SaveCallsAre, SaveCallsWant DEF Tidy
<1>2. SecretCallShape(c) /\ c.slot = Phrase(k) /\ c.value = Unset
  <2>1. SecretCallShape(Erase(<<k, "passphrase">>))
    BY PhraseCalls, CallFields DEF SecretCallShape, Slots, Values
  <2> QED
    BY <2>1, CallFields DEF Phrase
<1> HIDE DEF S, c
<1>3. S \in Seq(B) /\ C \in Seq(B)
  BY <1>1
<1>4. CallsShape(C) /\ \A slot, v : Wants(C, slot, v) <=> slot = Phrase(k) /\ v = Unset
  BY <1>2, ShortCalls
<1> HIDE DEF C, B
<1>5. /\ CallsShape(C \o S)
      /\ \A slot, v : Wants(C \o S, slot, v) <=> Wants(C, slot, v) \/ Wants(S, slot, v)
      /\ \E n \in DOMAIN (C \o S) : (C \o S)[n].op = "connects"
  BY <1>1, <1>3, <1>4, JoinedCalls
<1> DEFINE D == C \o S
<1>6. /\ CallsShape(D) /\ \E n \in DOMAIN D : D[n].op = "connects"
      /\ \A slot, v : Wants(D, slot, v) <=> SaveWants(P, slot, v) \/ (slot = Phrase(k) /\ v = Unset)
  BY <1>1, <1>4, <1>5
<1> HIDE DEF D
<1>7. Faithful(D, P)
  BY <1>6, PrefixIsFaithful DEF Settled
<1> QED
  BY <1>7 DEF D, C, c, S

LEMMA SavePassphraseIsFaithful ==
    ASSUME NEW P, Tidy(P), NEW k \in StoredKeyIds, NEW s \in Secrets,
           \A i \in DOMAIN P : P[i].auth = k => P[i].save /\ P[i].secret = s
    PROVE  Faithful(<<Store(<<k, "passphrase">>, s), Must(Head(SaveCalls(P)))>> \o Tail(SaveCalls(P)), P)
<1> DEFINE T == Tail(SaveCalls(P))
           c == Store(<<k, "passphrase">>, s)
           d == Must(Head(SaveCalls(P)))
           C == <<c, d>>
           B == Range(SaveCalls(P)) \union {c, d}
<1>1. T \in Seq(Range(SaveCalls(P))) /\ CallsShape(T) /\ d.op = "connects"
      /\ \A slot, v : Wants(T, slot, v) <=> SaveWants(P, slot, v)
  BY TailCalls, CallFields DEF Tidy
<1>2. SecretCallShape(c) /\ c.slot = Phrase(k) /\ c.value = s
  <2>1. SecretCallShape(Store(<<k, "passphrase">>, s)) /\ Phrase(k) = <<k, "passphrase">>
    BY PhraseCalls
  <2> QED
    BY <2>1, CallFields
<1> HIDE DEF T, c, d
<1>3. T \in Seq(B) /\ C \in Seq(B)
  BY <1>1
<1>4. CallsShape(C) /\ \A slot, v : Wants(C, slot, v) <=> slot = Phrase(k) /\ v = s
  BY <1>1, <1>2, ShortCalls
<1>5. \E n \in DOMAIN C : C[n].op = "connects"
  <2>1. 2 \in DOMAIN C /\ C[2] = d
    OBVIOUS
  <2> QED
    BY <1>1, <2>1
<1> HIDE DEF C, B
<1>6. /\ CallsShape(C \o T)
      /\ \A slot, v : Wants(C \o T, slot, v) <=> Wants(C, slot, v) \/ Wants(T, slot, v)
      /\ \E n \in DOMAIN (C \o T) : (C \o T)[n].op = "connects"
  BY <1>1, <1>3, <1>4, <1>5, JoinedCalls
<1> DEFINE D == C \o T
<1>7. /\ CallsShape(D) /\ \E n \in DOMAIN D : D[n].op = "connects"
      /\ \A slot, v : Wants(D, slot, v) <=> SaveWants(P, slot, v) \/ (slot = Phrase(k) /\ v = s)
  BY <1>1, <1>4, <1>6
<1> HIDE DEF D
<1>8. s # NoSecret
  BY ConstantsAssumption
<1>10. Settled(P, k, s)
  BY <1>8 DEF Settled
<1>9. Faithful(D, P)
  BY <1>7, <1>10, PrefixIsFaithful
<1> QED
  BY <1>9 DEF D, C, c, d, T

LEMMA ApplyIsFaithful ==
    ASSUME NEW P, Tidy(P), NEW keys \in SUBSET StoredKeyIds
    PROVE  LET pems == SetToSeq(keys)
           IN  Faithful(SaveCalls(P) \o [i \in DOMAIN pems |-> Must(Store(<<pems[i], "pem">>, Pem))], P)
<1> DEFINE S == SaveCalls(P)
           pems == SetToSeq(keys)
           T == [i \in DOMAIN pems |-> Must(Store(<<pems[i], "pem">>, Pem))]
           N == Cardinality(keys)
           B == Range(S) \union Range(T)
<1>1. S \in Seq(Range(S)) /\ CallsShape(S) /\ (\E n \in DOMAIN S : S[n].op = "connects")
      /\ \A slot, v : Wants(S, slot, v) <=> SaveWants(P, slot, v)
  BY SaveCallsAre, SaveCallsWant DEF Tidy
<1>2. N \in Nat /\ pems \in [1..N -> keys] /\ \A k \in keys : \E i \in 1..N : pems[i] = k
  <2>1. IsFiniteSet(keys)
    BY ConstantsAssumption, FS_Subset
  <2> QED
    BY <2>1, FS_CardinalityType, ListsAll
<1> HIDE DEF pems, N, S
<1>3. DOMAIN T = 1..N /\ T = [i \in 1..N |-> T[i]]
      /\ \A i \in 1..N : T[i] = Must(Store(<<pems[i], "pem">>, Pem))
  BY <1>2
<1> HIDE DEF T
<1>4. T \in Seq(Range(T))
  <2>1. T \in [1..N -> Range(T)]
    BY <1>3 DEF Range
  <2> QED
    BY <1>2, <2>1, FunctionIsSequence
<1>5. Len(T) = N
  BY <1>2, <1>3, <1>4
<1>6. \A i \in 1..N : /\ SecretCallShape(T[i]) /\ T[i].op # "connects"
                      /\ T[i].slot = <<pems[i], "pem">> /\ T[i].value = Pem
  <2> SUFFICES ASSUME NEW i \in 1..N
               PROVE  /\ SecretCallShape(T[i]) /\ T[i].op # "connects"
                      /\ T[i].slot = <<pems[i], "pem">> /\ T[i].value = Pem
    OBVIOUS
  <2>1. pems[i] \in StoredKeyIds
    BY <1>2
  <2>2. <<pems[i], "pem">> \in Slots /\ <<pems[i], "pem">>[2] = "pem"
    BY <2>1 DEF Slots
  <2> QED
    BY <1>3, <2>2, CallFields DEF SecretCallShape, Values
<1>7. CallsShape(T)
  BY <1>2, <1>3, <1>5, <1>6 DEF CallsShape
<1>8. \A slot, v : Wants(T, slot, v) <=> v = Pem /\ \E k \in keys : slot = <<k, "pem">>
  <2>1. ASSUME NEW slot, NEW v, Wants(T, slot, v)
        PROVE  v = Pem /\ \E k \in keys : slot = <<k, "pem">>
    <3>1. PICK i \in 1..N : T[i].slot = slot /\ T[i].value = v
      BY <1>3, <2>1 DEF Wants
    <3>2. pems[i] \in keys
      BY <1>2
    <3> QED
      BY <1>6, <3>1, <3>2
  <2>2. ASSUME NEW k \in keys PROVE Wants(T, <<k, "pem">>, Pem)
    <3>1. PICK i \in 1..N : pems[i] = k
      BY <1>2
    <3> QED
      BY <1>3, <1>6, <3>1 DEF Wants
  <2> QED
    BY <2>1, <2>2
<1>9. S \in Seq(B) /\ T \in Seq(B)
  BY <1>1, <1>4
<1> HIDE DEF B
<1>10. /\ CallsShape(S \o T)
       /\ \A slot, v : Wants(S \o T, slot, v) <=> Wants(S, slot, v) \/ Wants(T, slot, v)
       /\ \E n \in DOMAIN (S \o T) : (S \o T)[n].op = "connects"
  BY <1>1, <1>7, <1>9, JoinedCalls
<1> DEFINE D == S \o T
<1>11. /\ CallsShape(D) /\ \E n \in DOMAIN D : D[n].op = "connects"
       /\ \A slot, v : Wants(D, slot, v) <=>
             SaveWants(P, slot, v) \/ (v = Pem /\ \E k \in keys : slot = <<k, "pem">>)
  BY <1>1, <1>8, <1>10
<1> HIDE DEF D
<1>12. Faithful(D, P)
  BY <1>11, PemsAreFaithful
<1> QED
  BY <1>12 DEF D, S, T, pems

-----------------------------------------------------------------------------
(* Every operation that saves the profiles                                     *)

LEMMA CallsStart ==
    ASSUME SaveInv, phase = "idle", UNCHANGED <<keyring, disk, profiles, prompt, saved, damaged>>,
           NEW P, Tidy(P), NEW F, Tidy(F), NEW C, Faithful(C, P),
           NEW name, name \notin {"keys", "import", "load"},
           Start(name, P, F, FALSE, C), vm' = NewManager
    PROVE  SaveInv'
<1>1. saved /\ ~damaged => Kept(profiles)
  BY DEF SaveInv, Resting
<1>2. phase # "down"
  OBVIOUS
<1> HIDE DEF SaveInv
<1> QED
  BY <1>1, <1>2, SaveStarts

LEMMA SaveAllKeeps ==
    ASSUME SaveInv, phase = "idle", UNCHANGED <<keyring, disk, profiles, prompt, saved, damaged>>,
           NEW P, Tidy(P), NEW F, Tidy(F), NEW name, name \notin {"keys", "import", "load"},
           SaveAll(name, P, F)
    PROVE  SaveInv'
BY SaveIsFaithful, CallsStart DEF SaveAll

LEMMA Begins ==
    ASSUME SaveInv, Begin \/ Arrives
    PROVE  /\ phase = "idle" /\ UNCHANGED <<keyring, disk, profiles, prompt, saved, damaged>>
           /\ Tidy(profiles)
BY DEF Begin, Arrives, SaveInv, Typed

LEMMA FormKeeps ==
    ASSUME SaveInv, NEW p \in Inputs, saveCurrentFormAsProfile(p) \/ saveSessionProfile(p)
    PROVE  SaveInv'
<1>1. Begin
  BY DEF saveCurrentFormAsProfile, saveSessionProfile
<1>2. /\ phase = "idle" /\ UNCHANGED <<keyring, disk, profiles, prompt, saved, damaged>>
      /\ Tidy(profiles) /\ p \in Profile
  BY <1>1, Begins, ConstantsAssumption
<1> DEFINE A == Append(profiles, Normalized(p))
           Q == [i \in DOMAIN profiles |->
                    IF profiles[i].id = p.id THEN Edited(p, profiles[i]) ELSE profiles[i]]
<1>3. IndexOf(p.id) = {} => Tidy(A)
  <2>1. IndexOf(p.id) = {} => \A i \in DOMAIN profiles : profiles[i].id # p.id
    BY DEF IndexOf
  <2> QED
    BY <1>2, <2>1, AppendedIsTidy
<1>4. Tidy(Q)
  BY <1>2, EditIsTidy
<1>5. CASE saveCurrentFormAsProfile(p)
  <2>1. \/ IndexOf(p.id) = {} /\ SaveAll("form", A, A)
        \/ SaveAll("form", Q, Q)
    BY <1>5 DEF saveCurrentFormAsProfile
  <2> HIDE DEF A, Q
  <2> QED
    BY <1>2, <1>3, <1>4, <2>1, SaveAllKeeps
<1>6. CASE saveSessionProfile(p)
  <2>1. IndexOf(p.id) = {} /\ SaveAll("live", A, profiles)
    BY <1>6 DEF saveSessionProfile
  <2> HIDE DEF A, Q
  <2> QED
    BY <1>2, <1>3, <2>1, SaveAllKeeps
<1> QED
  BY <1>5, <1>6

LEMMA ListKeeps ==
    ASSUME SaveInv, NEW id \in ProfileIds, deleteSavedProfile(id) \/ moveProfile(id)
    PROVE  SaveInv'
<1>1. Begin
  BY DEF deleteSavedProfile, moveProfile
<1>2. /\ phase = "idle" /\ UNCHANGED <<keyring, disk, profiles, prompt, saved, damaged>>
      /\ Tidy(profiles)
  BY <1>1, Begins
<1>3. CASE deleteSavedProfile(id)
  <2>1. PICK row \in IndexOf(id) : SaveAll("delete", RemoveAt(profiles, row), profiles)
    BY <1>3 DEF deleteSavedProfile
  <2>2. Tidy(RemoveAt(profiles, row))
    BY <1>2, RemovedIsTidy DEF IndexOf
  <2> QED
    BY <1>2, <2>1, <2>2, SaveAllKeeps
<1>4. CASE moveProfile(id)
  <2>1. PICK row \in IndexOf(id), to \in DOMAIN profiles :
           SaveAll("move", InsertAt(RemoveAt(profiles, row), to, profiles[row]), profiles)
    BY <1>4 DEF moveProfile
  <2>2. Tidy(InsertAt(RemoveAt(profiles, row), to, profiles[row]))
    BY <1>2, MovedIsTidy DEF IndexOf
  <2> QED
    BY <1>2, <2>1, <2>2, SaveAllKeeps
<1> QED
  BY <1>3, <1>4

LEMMA PassphraseKeeps ==
    ASSUME SaveInv, NEW k \in StoredKeyIds,
           forgetPassphrase(k) \/ \E s \in Secrets : savePassphrase(k, s)
    PROVE  SaveInv'
<1>1. Begin
  BY DEF forgetPassphrase, savePassphrase
<1>2. /\ phase = "idle" /\ UNCHANGED <<keyring, disk, profiles, prompt, saved, damaged>>
      /\ Tidy(profiles)
  BY <1>1, Begins
<1>3. CASE forgetPassphrase(k)
  <2> DEFINE Q == WithKeySecret(k, FALSE, NoSecret)
             C == <<Erase(<<k, "passphrase">>)>> \o SaveCalls(Q)
  <2>1. Start("passphrase", Q, Q, FALSE, C) /\ vm' = NewManager
    BY <1>3 DEF forgetPassphrase
  <2>2. Tidy(Q) /\ \A i \in DOMAIN Q : Q[i].auth = k => Q[i].save = FALSE
    <3>1. KeySecretSet(WithKeySecret(k, FALSE, NoSecret), k, FALSE, NoSecret)
      BY <1>2, KeySecretIsTidy
    <3> QED
      BY <3>1 DEF KeySecretSet
  <2> HIDE DEF Q
  <2>3. Faithful(C, Q)
    BY <2>2, ForgetIsFaithful
  <2> HIDE DEF C
  <2> QED
    BY <1>2, <2>1, <2>2, <2>3, CallsStart
<1>4. ASSUME NEW s \in Secrets, savePassphrase(k, s) PROVE SaveInv'
  <2> DEFINE Q == WithKeySecret(k, TRUE, s)
             C == <<Store(<<k, "passphrase">>, s), Must(Head(SaveCalls(Q)))>> \o Tail(SaveCalls(Q))
  <2>1. Start("passphrase", Q, Q, FALSE, C) /\ vm' = NewManager
    BY <1>4 DEF savePassphrase
  <2>2. Tidy(Q) /\ \A i \in DOMAIN Q : Q[i].auth = k => Q[i].save = TRUE /\ Q[i].secret = s
    <3>1. KeySecretSet(WithKeySecret(k, TRUE, s), k, TRUE, s)
      BY <1>2, KeySecretIsTidy
    <3> QED
      BY <3>1 DEF KeySecretSet
  <2> HIDE DEF Q
  <2>3. Faithful(C, Q)
    BY <2>2, SavePassphraseIsFaithful
  <2> HIDE DEF C
  <2> QED
    BY <1>2, <2>1, <2>2, <2>3, CallsStart
<1> QED
  BY <1>3, <1>4

LEMMA ArrivalKeeps ==
    ASSUME SaveInv,
           setProfileSystem \/ \E P \in RemotePayloads, keys \in SUBSET StoredKeyIds : applySynced(P, keys)
    PROVE  SaveInv'
<1>1. Arrives
  BY DEF setProfileSystem, applySynced
<1>2. /\ phase = "idle" /\ UNCHANGED <<keyring, disk, profiles, prompt, saved, damaged>>
      /\ Tidy(profiles)
  BY <1>1, Begins
<1>3. CASE setProfileSystem
  <2>1. SaveAll("system", profiles, profiles)
    BY <1>3 DEF setProfileSystem
  <2> QED
    BY <1>2, <2>1, SaveAllKeeps
<1>4. ASSUME NEW P \in RemotePayloads, NEW keys \in SUBSET StoredKeyIds, applySynced(P, keys)
      PROVE  SaveInv'
  <2> DEFINE pems == SetToSeq(keys)
             C == SaveCalls(P) \o [i \in DOMAIN pems |-> Must(Store(<<pems[i], "pem">>, Pem))]
  <2>1. Start("apply", P, profiles, FALSE, C) /\ vm' = NewManager
    BY <1>4 DEF applySynced
  <2>2. Tidy(P)
    BY ConstantsAssumption
  <2>3. Faithful(C, P)
    BY <2>2, ApplyIsFaithful
  <2> HIDE DEF C
  <2> QED
    BY <1>2, <2>1, <2>2, <2>3, CallsStart
<1> QED
  BY <1>3, <1>4

LEMMA SecretKeeps ==
    ASSUME Inv, SaveInv,
           keyRefused \/ vaultRefused \/ nothingToRemove \/ \E o \in Outcomes : rewriteDbvault(o)
    PROVE  SaveInv'
<1>1. Typed /\ Managers /\ Importing /\ Aside /\ Guarded /\ Saving
  BY DEF SaveInv
<1> HIDE DEF SaveInv
<1>2. SecretStep
  BY <1>1, RefusedStep, SkippedStep, RewriteStep
<1>3. Typed' /\ Managers' /\ Importing' /\ Resting' /\ Aside' /\ Guarded' /\ Saving'
  BY <1>1, <1>2, SecretKeepsTyped, SecretKeepsManagers, SecretKeepsAside, SecretKeepsGuarded,
     SecretKeepsSaving
<1> QED
  BY <1>3 DEF SaveInv

-----------------------------------------------------------------------------
(* Operations on stored keys, which leave the profiles aside                   *)

\* A manager that may start an operation.
Ready(m) ==
    /\ Remembered(m)
    /\ ~damaged => /\ m.loaded /\ db # Absent => m.key = db.key
                   /\ ~m.loaded /\ db = Absent => m.doc = EmptyDoc

LEMMA AsideStarts ==
    ASSUME SaveInv, phase = "idle", UNCHANGED <<keyring, disk, profiles, damaged>>,
           prompt' = prompt \/ prompt' = <<>>, saved' \in BOOLEAN, saved' => saved,
           NEW name \in {"keys", "import"}, NEW C, CallsShape(C), Start(name, profiles, profiles, FALSE, C),
           Ready(vm'),
           saved' /\ ~damaged => /\ DocOf(vm)' = db.doc
                                 /\ \A n \in DOMAIN C : C[n].op # "connects" /\ C[n].slot \in Spare,
           name = "import" => Len(C) = 1 /\ C[1].op = "store" /\ C[1].slot[1] \in StoredKeyIds
    PROVE  SaveInv'
<1>1. /\ phase' = "busy" /\ op'.name = name /\ op'.target = profiles /\ op'.onFail = profiles
      /\ calls' = C /\ at' = 1 /\ result' = [all |-> TRUE, any |-> FALSE]
      /\ UNCHANGED <<keyring, db, connects, legacy, profiles, damaged>>
  BY DEF Start, Fresh, disk
<1>2. ~SavesProfiles' /\ name # "load"
  BY <1>1 DEF SavesProfiles
<1>3. Typed'
  <2>1. Remembered(vm)'
    BY <1>1 DEF Ready, Remembered, keyring
  <2>2. \/ prompt' = <<>>
        \/ Len(prompt') = 1 /\ prompt'[1].key \in StoredKeyIds /\ Remembered(prompt[1].vm)'
    BY <1>1 DEF SaveInv, Typed, Remembered, keyring
  <2>3. CallsShape(calls)'
    BY <1>1 DEF CallsShape
  <2> QED
    BY <1>1, <2>1, <2>2, <2>3 DEF SaveInv, Typed, keyring
<1>4. Managers'
  BY <1>1 DEF SaveInv, Managers, Ready
<1>5. Importing'
  BY <1>1 DEF Importing
<1>6. Resting' /\ Guarded' /\ Saving'
  BY <1>1, <1>2 DEF Resting, Guarded, Saving
<1>7. Aside'
  <2> SUFFICES ASSUME saved', ~damaged
               PROVE  /\ Kept(profiles)' /\ Kept(op.target)'
                      /\ \A n \in DOMAIN C : C[n].op # "connects" /\ C[n].slot \in Spare'
                      /\ \A s \in Slots \ Spare' : DocOf(vm)'[s] = db.doc[s]
    BY <1>1, <1>2 DEF Aside
  <2>1. Kept(profiles)
    BY DEF SaveInv, Resting
  <2>2. Kept(profiles)'
    BY <1>1, <2>1 DEF Kept, Opens, KeyFound, RetrieveNative, RetrieveFallback, keyring
  <2>3. Kept(op.target)'
    BY <1>1, <2>2 DEF Kept
  <2>4. Spare' = Spare
    BY <1>1 DEF Spare
  <2> QED
    BY <2>2, <2>3, <2>4
<1> QED
  BY <1>3, <1>4, <1>5, <1>6, <1>7 DEF SaveInv

LEMMA KeySlots ==
    ASSUME NEW k \in StoredKeyIds, k \notin KeysUsed(profiles)
    PROVE  <<k, "pem">> \in Spare /\ <<k, "passphrase">> \in Spare
BY DEF Spare, Slots

LEMMA FreshIsReady ==
    ASSUME SaveInv, vm' = NewManager
    PROVE  Ready(vm') /\ DocOf(vm)' = db'.doc
<1>1. Remembered(NewManager)
  BY NewManagerTyped DEF Remembered, SaveInv, Typed
<1> QED
  BY <1>1, NewManagerTyped DEF Ready, DocOf, Absent

LEMMA CallsInto ==
    ASSUME NEW S, NEW c, SecretCallShape(c), c.slot \in S
    PROVE  /\ CallsShape(<<c>>) /\ Len(<<c>>) = 1 /\ <<c>>[1] = c
           /\ \A n \in DOMAIN <<c>> : <<c>>[n].op # "connects" /\ <<c>>[n].slot \in S
           /\ \A d : SecretCallShape(d) /\ d.slot \in S =>
                 /\ CallsShape(<<c, d>>)
                 /\ \A n \in DOMAIN <<c, d>> : <<c, d>>[n].op # "connects" /\ <<c, d>>[n].slot \in S
<1>1. c.op # "connects" /\ CallsShape(<<c>>)
  BY ShortCalls DEF SecretCallShape
<1>2. \A n \in DOMAIN <<c>> : <<c>>[n] = c
  OBVIOUS
<1>3. ASSUME NEW d, SecretCallShape(d), d.slot \in S
      PROVE  /\ CallsShape(<<c, d>>)
             /\ \A n \in DOMAIN <<c, d>> : <<c, d>>[n].op # "connects" /\ <<c, d>>[n].slot \in S
  <2>1. CallsShape(<<c, d>>) /\ d.op # "connects"
    BY <1>3, ShortCalls DEF SecretCallShape
  <2>2. \A n \in DOMAIN <<c, d>> : <<c, d>>[n] = c \/ <<c, d>>[n] = d
    OBVIOUS
  <2> QED
    BY <1>1, <1>3, <2>1, <2>2
<1>4. Len(<<c>>) = 1 /\ <<c>>[1] = c
  OBVIOUS
<1> QED
  BY <1>1, <1>2, <1>3, <1>4

LEMMA KeysKeep ==
    ASSUME SaveInv, NEW k \in StoredKeyIds,
           \/ removeStoredKey(k) \/ importKeyIntoKeyring(k)
           \/ \E s \in Secrets : generateKeyIntoKeyring(k, s)
    PROVE  SaveInv'
<1>1. Begin /\ k \notin KeysUsed(profiles) /\ vm' = NewManager
  BY DEF removeStoredKey, importKeyIntoKeyring, generateKeyIntoKeyring, NewKey
<1>2. /\ phase = "idle" /\ UNCHANGED <<keyring, disk, profiles, prompt, saved, damaged>>
      /\ Tidy(profiles)
  BY <1>1, Begins
<1>3. Ready(vm') /\ DocOf(vm)' = db.doc /\ saved \in BOOLEAN
  BY <1>1, <1>2, FreshIsReady DEF disk, SaveInv, Typed
<1>4. <<k, "pem">> \in Spare /\ <<k, "passphrase">> \in Spare
  BY <1>1, KeySlots
<1>6. /\ SecretCallShape(Erase(<<k, "pem">>)) /\ SecretCallShape(Must(Erase(<<k, "passphrase">>)))
      /\ SecretCallShape(Store(<<k, "pem">>, Pem))
      /\ \A s \in Secrets : SecretCallShape(Must(Store(<<k, "passphrase">>, s)))
  <2>1. /\ <<k, "passphrase">> \in Slots /\ <<k, "pem">> \in Slots
        /\ <<k, "passphrase">>[2] = "passphrase" /\ <<k, "pem">>[2] = "pem"
    BY DEF Slots
  <2> QED
    BY <2>1, CallFields DEF SecretCallShape, Values
<1> HIDE DEF SaveInv
<1>7. ASSUME NEW c, SecretCallShape(c), NEW d, SecretCallShape(d), c.slot \in Spare, d.slot \in Spare,
             Start("keys", profiles, profiles, FALSE, <<c, d>>)
      PROVE  SaveInv'
  <2> DEFINE C == <<c, d>>
  <2>1. CallsShape(C) /\ \A n \in DOMAIN C : C[n].op # "connects" /\ C[n].slot \in Spare
    BY <1>7, CallsInto
  <2> HIDE DEF C
  <2>2. Start("keys", profiles, profiles, FALSE, C)
    BY <1>7 DEF C
  <2> QED
    BY <1>2, <1>3, <2>1, <2>2, AsideStarts
<1>8. CASE removeStoredKey(k)
  <2> DEFINE c == Erase(<<k, "pem">>)
             d == Must(Erase(<<k, "passphrase">>))
  <2>1. Start("keys", profiles, profiles, FALSE, <<c, d>>)
    BY <1>8 DEF removeStoredKey
  <2>2. SecretCallShape(c) /\ SecretCallShape(d) /\ c.slot \in Spare /\ d.slot \in Spare
    BY <1>4, <1>6, CallFields
  <2> HIDE DEF c, d
  <2> QED
    BY <1>7, <2>1, <2>2
<1>9. ASSUME NEW s \in Secrets, generateKeyIntoKeyring(k, s) PROVE SaveInv'
  <2> DEFINE c == Store(<<k, "pem">>, Pem)
             d == Must(Store(<<k, "passphrase">>, s))
  <2>1. Start("keys", profiles, profiles, FALSE, <<c, d>>)
    BY <1>9 DEF generateKeyIntoKeyring
  <2>2. SecretCallShape(c) /\ SecretCallShape(d) /\ c.slot \in Spare /\ d.slot \in Spare
    BY <1>4, <1>6, CallFields
  <2> HIDE DEF c, d
  <2> QED
    BY <1>7, <2>1, <2>2
<1>10. CASE importKeyIntoKeyring(k)
  <2> DEFINE c == Store(<<k, "pem">>, Pem)
             C == <<c>>
  <2>1. Start("import", profiles, profiles, FALSE, C)
    BY <1>10 DEF importKeyIntoKeyring
  <2>2. SecretCallShape(c) /\ c.slot = <<k, "pem">> /\ c.op = "store"
    BY <1>6, CallFields
  <2> HIDE DEF c
  <2>3. /\ CallsShape(C) /\ \A n \in DOMAIN C : C[n].op # "connects" /\ C[n].slot \in Spare
        /\ Len(C) = 1 /\ C[1].op = "store" /\ C[1].slot[1] \in StoredKeyIds
    <3>1. c.slot \in Spare /\ c.slot[1] = k
      BY <1>4, <2>2
    <3> QED
      BY <2>2, <3>1, CallsInto
  <2> HIDE DEF C
  <2> QED
    BY <1>2, <1>3, <2>1, <2>3, AsideStarts
<1> QED
  BY <1>8, <1>9, <1>10

LEMMA PromptKeeps ==
    ASSUME SaveInv, NEW s \in Secrets \union {NoSecret}, answerPrompt(s)
    PROVE  SaveInv'
<1>1. phase = "idle" /\ prompt # <<>> /\ prompt' = <<>> /\ UNCHANGED <<keyring, disk, profiles, damaged>>
  BY DEF answerPrompt
<1>2. CASE s = NoSecret
  <2>1. UNCHANGED <<keyring, disk, profiles, damaged, phase, work, saved>>
    BY <1>1, <1>2 DEF answerPrompt
  <2>2. Typed'
    BY <1>1, <2>1 DEF SaveInv, Typed, keyring, disk, work, Remembered
  <2>3. Managers' /\ Importing'
    BY <1>1, <2>1 DEF SaveInv, Managers, Importing, disk, work
  <2>4. Kept(profiles)' = Kept(profiles)
    BY <1>1, <2>1 DEF Kept, Opens, KeyFound, RetrieveNative, RetrieveFallback, keyring, disk
  <2>5. Resting' /\ Aside' /\ Guarded' /\ Saving'
    BY <1>1, <2>1, <2>4 DEF SaveInv, Resting, Aside, Guarded, Saving
  <2> QED
    BY <2>2, <2>3, <2>5 DEF SaveInv
<1>3. CASE s # NoSecret
  <2> DEFINE m == prompt[1].vm
             k == prompt[1].key
             c == Store(<<k, "passphrase">>, s)
             C == <<c>>
  <2>1. /\ Start("keys", profiles, profiles, FALSE, C)
        /\ vm' = [m EXCEPT !.aged = TRUE] /\ s \in Secrets
        /\ saved' = (saved /\ m.doc = db.doc /\ k \notin KeysUsed(profiles))
    BY <1>3 DEF answerPrompt
  <2>2. /\ k \in StoredKeyIds /\ Remembered(m)
        /\ ~damaged => m.loaded /\ db # Absent /\ m.key = db.key
    BY <1>1 DEF SaveInv, Typed, Managers
  <2> HIDE DEF m, k
  <2>3. vm' \in Manager /\ vm'.doc = m.doc /\ vm'.key = m.key /\ vm'.loaded = m.loaded
    BY <2>1, <2>2 DEF Remembered, Manager
  <2>4. Ready(vm')
    BY <2>2, <2>3 DEF Ready, Remembered
  <2>5. saved' /\ ~damaged => DocOf(vm)' = db.doc /\ <<k, "passphrase">> \in Spare
    BY <2>1, <2>2, <2>3, KeySlots DEF DocOf
  <2>6. SecretCallShape(c) /\ c.slot = <<k, "passphrase">>
    BY <2>1, <2>2, PhraseCalls, CallFields, ZenonT(60)
  <2> HIDE DEF c
  <2>7. CallsShape(C) /\ \A n \in DOMAIN C : C[n].op # "connects" /\ C[n].slot = <<k, "passphrase">>
    <3>1. DOMAIN C = {1} /\ C[1] = c
      OBVIOUS
    <3> QED
      BY <2>6, <3>1, ShortCalls DEF SecretCallShape
  <2> HIDE DEF C
  <2>8. saved' \in BOOLEAN /\ (saved' => saved)
    BY <2>1 DEF SaveInv, Typed
  <2> HIDE DEF SaveInv
  <2> QED
    BY <1>1, <2>1, <2>4, <2>5, <2>7, <2>8, AsideStarts
<1> QED
  BY <1>2, <1>3

-----------------------------------------------------------------------------
(* Loading the profiles                                                        *)

LEMMA CopiesLeast ==
    ASSUME NEW M \in Seq(Metas), NEW k, NEW doc, Copies(M, k, doc) # {}
    PROVE  Min(Copies(M, k, doc)) \in Copies(M, k, doc)
<1>1. Copies(M, k, doc) \in SUBSET Nat
  BY DEF Copies
<1> QED
  BY <1>1, LeastExists

LEMMA MetaSlots ==
    ASSUME NEW M \in Seq(Metas), NEW i \in DOMAIN M
    PROVE  /\ M[i] \in Metas /\ M[i].id \in ProfileIds /\ M[i].auth \in Auths /\ M[i].save \in BOOLEAN
           /\ <<M[i].id, "password">> \in Slots /\ <<M[i].id, "keyPassphrase">> \in Slots
<1>1. M[i] \in Metas
  OBVIOUS
<1> QED
  BY <1>1 DEF Metas, Slots

LEMMA SecretTyped ==
    ASSUME NEW doc, Document(doc), NEW s \in Slots, s[2] # "pem"
    PROVE  /\ Secret(doc, s) \in Secrets \union {NoSecret}
           /\ Secret(doc, s) # NoSecret => doc[s] \in Secrets /\ Secret(doc, s) = doc[s]
           /\ doc[s] \notin Secrets => Secret(doc, s) = NoSecret
BY DEF Document, Secret

LEMMA OldCopyTyped ==
    ASSUME NEW M \in Seq(Metas), NEW doc, Document(doc), NEW k \in Moves(M, doc)
    PROVE  k \in StoredKeyIds /\ OldCopy(M, k, doc) \in Secrets \union {NoSecret}
<1>1. k \in StoredKeyIds /\ Copies(M, k, doc) # {}
  BY DEF Moves
<1> DEFINE m == Min(Copies(M, k, doc))
<1>2. m \in Copies(M, k, doc)
  BY <1>1, CopiesLeast
<1> HIDE DEF m
<1>3. m \in DOMAIN M
  BY <1>2 DEF Copies
<1>4. <<M[m].id, "keyPassphrase">> \in Slots /\ <<M[m].id, "keyPassphrase">>[2] # "pem"
  BY <1>3, MetaSlots
<1>5. OldCopy(M, k, doc) = Secret(doc, <<M[m].id, "keyPassphrase">>)
  BY DEF OldCopy, m
<1> QED
  BY <1>1, <1>4, <1>5, SecretTyped

LEMMA LoadedSecretTyped ==
    ASSUME NEW M \in Seq(Metas), NEW doc, Document(doc), NEW i \in DOMAIN M
    PROVE  /\ LoadedSecret(M, i, doc) \in Secrets \union {NoSecret}
           /\ ~M[i].save => LoadedSecret(M, i, doc) = NoSecret
<1>1. /\ M[i].id \in ProfileIds /\ M[i].auth \in Auths /\ M[i].save \in BOOLEAN
      /\ <<M[i].id, "password">> \in Slots /\ <<M[i].id, "keyPassphrase">> \in Slots
  BY MetaSlots
<1>2. CASE ~M[i].save
  BY <1>2 DEF LoadedSecret
<1>3. CASE M[i].save /\ M[i].auth = "password"
  <2>1. LoadedSecret(M, i, doc) = Secret(doc, <<M[i].id, "password">>)
    BY <1>3, ConstantsAssumption DEF LoadedSecret
  <2> QED
    BY <1>1, <1>3, <2>1, SecretTyped
<1>4. CASE M[i].save /\ M[i].auth = "keyFile"
  <2>1. LoadedSecret(M, i, doc) = Secret(doc, <<M[i].id, "keyPassphrase">>)
    BY <1>4, ConstantsAssumption DEF LoadedSecret
  <2> QED
    BY <1>1, <1>4, <2>1, SecretTyped
<1>5. CASE M[i].save /\ M[i].auth \in StoredKeyIds
  <2> DEFINE k == M[i].auth
  <2>1. LoadedSecret(M, i, doc) \in {Secret(doc, <<k, "passphrase">>), OldCopy(M, k, doc), NoSecret}
        /\ (k \notin Moves(M, doc) => LoadedSecret(M, i, doc) = Secret(doc, <<k, "passphrase">>))
    BY <1>5, ConstantsAssumption DEF LoadedSecret
  <2>2. <<k, "passphrase">> \in Slots /\ <<k, "passphrase">>[2] # "pem"
    BY <1>5 DEF Slots
  <2>3. Secret(doc, <<k, "passphrase">>) \in Secrets \union {NoSecret}
    BY <2>2, SecretTyped
  <2>4. k \in Moves(M, doc) => OldCopy(M, k, doc) \in Secrets \union {NoSecret}
    BY OldCopyTyped
  <2> QED
    BY <1>5, <2>1, <2>3, <2>4
<1> QED
  BY <1>1, <1>2, <1>3, <1>4, <1>5 DEF Auths

LEMMA LoadedIsTidy ==
    ASSUME NEW M \in Seq(Metas), DistinctIds(M), NEW doc, Document(doc)
    PROVE  Tidy(LoadedProfiles(M, doc)) /\ IsFiniteSet(Moves(M, doc))
<1> DEFINE Q == LoadedProfiles(M, doc)
<1>1. \A i \in DOMAIN M : Q[i] = [id |-> M[i].id, auth |-> M[i].auth, save |-> M[i].save,
                                  secret |-> LoadedSecret(M, i, doc)]
  BY DEF LoadedProfiles
<1>2. Q = [i \in DOMAIN M |-> Q[i]]
  BY DEF LoadedProfiles
<1> HIDE DEF Q
<1>3. \A i \in DOMAIN M : Q[i] \in Profile /\ Q[i].id = M[i].id /\ (~Q[i].save => Q[i].secret = NoSecret)
  <2> SUFFICES ASSUME NEW i \in DOMAIN M
               PROVE  Q[i] \in Profile /\ Q[i].id = M[i].id /\ (~Q[i].save => Q[i].secret = NoSecret)
    OBVIOUS
  <2>1. /\ M[i].id \in ProfileIds /\ M[i].auth \in Auths /\ M[i].save \in BOOLEAN
        /\ LoadedSecret(M, i, doc) \in Secrets \union {NoSecret}
        /\ ~M[i].save => LoadedSecret(M, i, doc) = NoSecret
    BY MetaSlots, LoadedSecretTyped
  <2> QED
    <3>1. Q[i] = [id |-> M[i].id, auth |-> M[i].auth, save |-> M[i].save,
                  secret |-> LoadedSecret(M, i, doc)]
      BY <1>1
    <3> DEFINE sec == LoadedSecret(M, i, doc)
    <3>2. sec \in Secrets \union {NoSecret} /\ (~M[i].save => sec = NoSecret)
      BY <2>1
    <3> HIDE DEF sec
    <3>3. Q[i] = [id |-> M[i].id, auth |-> M[i].auth, save |-> M[i].save, secret |-> sec]
      BY <3>1 DEF sec
    <3> QED
      BY <2>1, <3>2, <3>3 DEF Profile
<1>4. Len(M) \in Nat /\ DOMAIN M = 1..Len(M)
  OBVIOUS
<1>5. Q \in [1..Len(M) -> Profile]
  BY <1>2, <1>3, <1>4
<1>6. Q \in Seq(Profile) /\ DOMAIN Q = DOMAIN M
  BY <1>4, <1>5, FunctionIsSequence
<1>7. Tidy(Q)
  BY <1>3, <1>6 DEF Tidy, DistinctIds
<1>8. IsFiniteSet(Moves(M, doc))
  <2>1. Moves(M, doc) \subseteq StoredKeyIds
    BY DEF Moves
  <2> QED
    BY <2>1, ConstantsAssumption, FS_Subset
<1> QED
  BY <1>7, <1>8 DEF Q

LEMMA MetaOf ==
    ASSUME NEW P \in Seq(Profile)
    PROVE  /\ DOMAIN Meta(P) = DOMAIN P
           /\ \A i \in DOMAIN P : /\ Meta(P)[i].id = P[i].id /\ Meta(P)[i].auth = P[i].auth
                                  /\ Meta(P)[i].save = P[i].save
BY DEF Meta

\* Profiles whose vault holds none but their secrets have nothing left to move.
LEMMA NothingToMove ==
    ASSUME NEW P, Tidy(P), NEW doc, Document(doc), HasNoOther(P, doc)
    PROVE  Moves(Meta(P), doc) = {}
<1>1. P \in Seq(Profile) /\ Meta(P) \in Seq(Metas)
  BY MetaTyped DEF Tidy
<1>2. ASSUME NEW k \in Moves(Meta(P), doc) PROVE FALSE
  <2>1. PICK i : i \in Copies(Meta(P), k, doc)
    BY <1>2 DEF Moves
  <2>2. k \in StoredKeyIds
    BY <1>2 DEF Moves
  <2>3. i \in DOMAIN P /\ P[i].auth = k /\ Secret(doc, PassphraseSlot(P[i])) # NoSecret
    BY <1>1, <2>1, MetaOf DEF Copies, PassphraseSlot
  <2>4. doc[PassphraseSlot(P[i])] \in Secrets
    BY <1>1, <2>3, ProfileSlots, SecretTyped, SlotKinds
  <2>5. P[i].auth = "keyFile"
    BY <2>3, <2>4 DEF HasNoOther
  <2> QED
    BY <2>2, <2>3, <2>5, ConstantsAssumption
<1> QED
  BY <1>2

LEMMA EmptyHasNoOther ==
    ASSUME NEW P, Tidy(P)
    PROVE  HasNoOther(P, EmptyDoc) /\ Document(EmptyDoc)
<1>1. P \in Seq(Profile)
  BY DEF Tidy
<1>2. \A s \in Slots : EmptyDoc[s] = Unset /\ EmptyDoc[s] \notin Secrets
  BY ConstantsAssumption DEF EmptyDoc
<1>3. HasNoOther(P, EmptyDoc)
  BY <1>1, <1>2, ProfileSlots DEF HasNoOther
<1> QED
  BY <1>3, NewManagerTyped

\* What loading gives when the document was read.
LEMMA LoadedIsKept ==
    ASSUME NEW P, Tidy(P), NEW doc, Document(doc), HasNoOther(P, doc)
    PROVE  LET Q == LoadedProfiles(Meta(P), doc)
           IN  /\ DOMAIN Q = DOMAIN P
               /\ \A i \in DOMAIN P : /\ Q[i].id = P[i].id /\ Q[i].auth = P[i].auth /\ Q[i].save = P[i].save
                                      /\ P[i].save /\ P[i].auth \in StoredKeyIds =>
                                             Q[i].secret = Secret(doc, Phrase(P[i].auth))
                                      /\ ~P[i].save => Q[i].secret = NoSecret
               /\ HasAll(Q, doc)
<1> DEFINE M == Meta(P)
           Q == LoadedProfiles(M, doc)
<1>1. P \in Seq(Profile) /\ M \in Seq(Metas) /\ DOMAIN M = DOMAIN P
  BY MetaTyped DEF Tidy
<1>2. \A i \in DOMAIN P : M[i].id = P[i].id /\ M[i].auth = P[i].auth /\ M[i].save = P[i].save
  BY <1>1, MetaOf
<1>3. DOMAIN Q = DOMAIN M
      /\ \A i \in DOMAIN M : Q[i] = [id |-> M[i].id, auth |-> M[i].auth, save |-> M[i].save,
                                     secret |-> LoadedSecret(M, i, doc)]
  BY DEF LoadedProfiles
<1>4. Moves(M, doc) = {}
  BY NothingToMove
<1> HIDE DEF M, Q
<1>5. ASSUME NEW i \in DOMAIN P
      PROVE  /\ Q[i].id = P[i].id /\ Q[i].auth = P[i].auth /\ Q[i].save = P[i].save
             /\ P[i].save /\ P[i].auth = "password" => Q[i].secret = Secret(doc, PasswordSlot(P[i]))
             /\ P[i].save /\ P[i].auth = "keyFile" => Q[i].secret = Secret(doc, PassphraseSlot(P[i]))
             /\ P[i].save /\ P[i].auth \in StoredKeyIds => Q[i].secret = Secret(doc, Phrase(P[i].auth))
             /\ ~P[i].save => Q[i].secret = NoSecret
  <2>1. /\ Q[i].id = P[i].id /\ Q[i].auth = P[i].auth /\ Q[i].save = P[i].save
        /\ Q[i].secret = LoadedSecret(M, i, doc)
    BY <1>1, <1>2, <1>3
  <2>2. M[i].id = P[i].id /\ M[i].auth = P[i].auth /\ M[i].save = P[i].save /\ P[i].save \in BOOLEAN
    BY <1>1, <1>2, ProfileSlots
  <2>3. ~P[i].save => LoadedSecret(M, i, doc) = NoSecret
    BY <2>2 DEF LoadedSecret
  <2>4. P[i].save /\ P[i].auth = "password" => LoadedSecret(M, i, doc) = Secret(doc, PasswordSlot(P[i]))
    BY <2>2, ConstantsAssumption DEF LoadedSecret, PasswordSlot
  <2>5. P[i].save /\ P[i].auth = "keyFile" => LoadedSecret(M, i, doc) = Secret(doc, PassphraseSlot(P[i]))
    BY <2>2, ConstantsAssumption DEF LoadedSecret, PassphraseSlot
  <2>6. P[i].save /\ P[i].auth \in StoredKeyIds => LoadedSecret(M, i, doc) = Secret(doc, Phrase(P[i].auth))
    BY <1>4, <2>2, ConstantsAssumption DEF LoadedSecret, Phrase
  <2> QED
    BY <2>1, <2>3, <2>4, <2>5, <2>6
<1>6. ASSUME NEW i \in DOMAIN P, P[i].auth \in StoredKeyIds
      PROVE  IF Owners(Q, P[i].auth) = {} THEN Secret(doc, Phrase(P[i].auth)) = NoSecret
             ELSE \E j \in Owners(Q, P[i].auth) : doc[Phrase(P[i].auth)] = Q[j].secret
  <2> DEFINE k == P[i].auth
  <2>1. Phrase(k) \in Slots /\ Phrase(k)[2] # "pem"
    BY <1>1, <1>6, ProfileSlots, SlotKinds
  <2>2. \A j \in Owners(Q, k) : j \in DOMAIN P /\ P[j].auth = k /\ P[j].save /\ Q[j].secret # NoSecret
                               /\ Q[j].secret = Secret(doc, Phrase(k))
    BY <1>1, <1>3, <1>5, <1>6 DEF Owners
  <2>3. CASE Owners(Q, k) = {}
    <3>1. ASSUME doc[Phrase(k)] \in Secrets PROVE FALSE
      <4>1. PICK j \in DOMAIN P : P[j].auth = k /\ P[j].save
        BY <1>6, <3>1 DEF HasNoOther
      <4>2. Secret(doc, Phrase(k)) # NoSecret
        BY <3>1, ConstantsAssumption DEF Secret
      <4>3. j \in Owners(Q, k)
        BY <1>1, <1>3, <1>5, <1>6, <4>1, <4>2 DEF Owners
      <4> QED
        BY <2>3, <4>3
    <3> QED
      BY <2>1, <2>3, <3>1, SecretTyped
  <2>4. CASE Owners(Q, k) # {}
    <3>1. PICK j : j \in Owners(Q, k)
      BY <2>4
    <3>2. doc[Phrase(k)] = Q[j].secret
      BY <2>1, <2>2, <3>1, SecretTyped
    <3> QED
      BY <2>4, <3>1, <3>2
  <2> QED
    BY <2>3, <2>4
<1>7. HasAll(Q, doc)
  <2> SUFFICES ASSUME NEW i \in DOMAIN P
               PROVE  /\ Q[i].save /\ Q[i].auth = "password" => Secret(doc, PasswordSlot(Q[i])) = Q[i].secret
                      /\ Q[i].save /\ Q[i].auth = "keyFile" => Secret(doc, PassphraseSlot(Q[i])) = Q[i].secret
                      /\ Q[i].auth \in StoredKeyIds =>
                            IF Owners(Q, Q[i].auth) = {} THEN Secret(doc, Phrase(Q[i].auth)) = NoSecret
                            ELSE \E j \in Owners(Q, Q[i].auth) : doc[Phrase(Q[i].auth)] = Q[j].secret
    BY <1>1, <1>3 DEF HasAll
  <2>1. Q[i].id = P[i].id /\ Q[i].auth = P[i].auth /\ Q[i].save = P[i].save
    BY <1>5
  <2>2. PasswordSlot(Q[i]) = PasswordSlot(P[i]) /\ PassphraseSlot(Q[i]) = PassphraseSlot(P[i])
    BY <2>1 DEF PasswordSlot, PassphraseSlot
  <2> QED
    BY <1>5, <1>6, <2>1, <2>2
<1> QED
  BY <1>1, <1>3, <1>5, <1>7 DEF M, Q

\* A list loaded without the document has no secrets.
LEMMA LoadedIsBare ==
    ASSUME NEW P, Tidy(P)
    PROVE  Bare(LoadedProfiles(Meta(P), EmptyDoc))
<1> DEFINE Q == LoadedProfiles(Meta(P), EmptyDoc)
<1>1. P \in Seq(Profile) /\ HasNoOther(P, EmptyDoc) /\ Document(EmptyDoc)
  BY EmptyHasNoOther DEF Tidy
<1>2. /\ DOMAIN Q = DOMAIN P /\ HasAll(Q, EmptyDoc)
      /\ \A i \in DOMAIN P : /\ Q[i].id = P[i].id /\ Q[i].auth = P[i].auth /\ Q[i].save = P[i].save
                             /\ P[i].save /\ P[i].auth \in StoredKeyIds =>
                                    Q[i].secret = Secret(EmptyDoc, Phrase(P[i].auth))
                             /\ ~P[i].save => Q[i].secret = NoSecret
  BY <1>1, LoadedIsKept
<1> HIDE DEF Q
<1>3. \A s \in Slots : Secret(EmptyDoc, s) = NoSecret
  BY DEF EmptyDoc, Secret
<1>4. ASSUME NEW i \in DOMAIN P PROVE Q[i].secret = NoSecret
  <2>1. /\ PasswordSlot(P[i]) \in Slots /\ PassphraseSlot(P[i]) \in Slots
        /\ P[i].auth \in StoredKeyIds => Phrase(P[i].auth) \in Slots
        /\ P[i].auth \in StoredKeyIds \/ P[i].auth \in {"password", "keyFile"}
    BY <1>1, ProfileSlots DEF Auths
  <2>2. PasswordSlot(Q[i]) = PasswordSlot(P[i]) /\ PassphraseSlot(Q[i]) = PassphraseSlot(P[i])
    BY <1>2 DEF PasswordSlot, PassphraseSlot
  <2>3. CASE ~P[i].save
    BY <1>2, <2>3
  <2>4. CASE P[i].save /\ P[i].auth \in StoredKeyIds
    BY <1>2, <1>3, <2>1, <2>4
  <2>5. CASE P[i].save /\ P[i].auth = "password"
    BY <1>2, <1>3, <2>1, <2>2, <2>5 DEF HasAll
  <2>6. CASE P[i].save /\ P[i].auth = "keyFile"
    BY <1>2, <1>3, <2>1, <2>2, <2>6 DEF HasAll
  <2> QED
    BY <2>1, <2>3, <2>4, <2>5, <2>6
<1> QED
  BY <1>2, <1>4 DEF Bare, Q

\* Where nothing is to be saved the document has all there is.
LEMMA UnsavedIsAll ==
    ASSUME NEW P \in Seq(Profile), \A i \in DOMAIN P : ~P[i].save, NEW doc, Document(doc), HasNoOther(P, doc)
    PROVE  HasAll(P, doc)
<1>1. ASSUME NEW i \in DOMAIN P, P[i].auth \in StoredKeyIds
      PROVE  Owners(P, P[i].auth) = {} /\ Secret(doc, Phrase(P[i].auth)) = NoSecret
  <2>1. doc[Phrase(P[i].auth)] \notin Secrets
    BY <1>1 DEF HasNoOther
  <2>2. Phrase(P[i].auth) \in Slots /\ Phrase(P[i].auth)[2] # "pem"
    BY <1>1, ProfileSlots, SlotKinds
  <2>3. Owners(P, P[i].auth) = {}
    BY DEF Owners
  <2> QED
    BY <2>1, <2>2, <2>3, SecretTyped
<1> QED
  BY <1>1 DEF HasAll

LEMMA NoOtherCarries ==
    ASSUME NEW P, NEW Q, DOMAIN Q = DOMAIN P, NEW doc,
           \A i \in DOMAIN P : Q[i].id = P[i].id /\ Q[i].auth = P[i].auth /\ Q[i].save = P[i].save,
           HasNoOther(P, doc)
    PROVE  HasNoOther(Q, doc) /\ Meta(Q) = Meta(P)
<1>1. Meta(Q) = Meta(P)
  BY DEF Meta
<1>2. \A i \in DOMAIN P : PasswordSlot(Q[i]) = PasswordSlot(P[i]) /\ PassphraseSlot(Q[i]) = PassphraseSlot(P[i])
  BY DEF PasswordSlot, PassphraseSlot
<1>3. HasNoOther(Q, doc)
  BY <1>2 DEF HasNoOther
<1> QED
  BY <1>1, <1>3

\* The three ways a loaded list is kept: the document was read, there is nothing to read,
\* or the key was not found and still is not.
LEMMA LoadingKeeps ==
    ASSUME Typed, Kept(profiles), NEW doc \in {db.doc, EmptyDoc}, UNCHANGED <<db, connects>>,
           \/ doc = db.doc
           \/ \A i \in DOMAIN profiles : ~profiles[i].save
           \/ ~Opens(KeyFound)'
    PROVE  LET Q == LoadedProfiles(connects.list, doc)
           IN  /\ connects.state = "good" /\ connects.list = Meta(Q) /\ HasNoOther(Q, db.doc)
               /\ HasAll(Q, db.doc) \/ (Bare(Q) /\ ~Opens(KeyFound)')
               /\ Moves(connects.list, doc) = {}
<1> DEFINE Q == LoadedProfiles(Meta(profiles), doc)
<1>1. /\ Tidy(profiles) /\ Document(db.doc) /\ connects.state = "good" /\ connects.list = Meta(profiles)
      /\ HasNoOther(profiles, db.doc)
  BY DEF Typed, Kept
<1>2. HasNoOther(profiles, doc) /\ Document(doc)
  BY <1>1, EmptyHasNoOther
<1>3. /\ DOMAIN Q = DOMAIN profiles /\ HasAll(Q, doc)
      /\ \A i \in DOMAIN profiles : /\ Q[i].id = profiles[i].id /\ Q[i].auth = profiles[i].auth
                                    /\ Q[i].save = profiles[i].save
  BY <1>1, <1>2, LoadedIsKept
<1>4. Moves(Meta(profiles), doc) = {}
  BY <1>1, <1>2, NothingToMove
<1>5. Tidy(Q)
  BY <1>1, <1>2, MetaTyped, LoadedIsTidy
<1>6. doc = EmptyDoc => Bare(Q)
  BY <1>1, LoadedIsBare
<1> HIDE DEF Q
<1>7. HasNoOther(Q, db.doc) /\ Meta(Q) = Meta(profiles)
  BY <1>1, <1>3, NoOtherCarries
<1>8. CASE doc = db.doc
  BY <1>1, <1>3, <1>4, <1>7, <1>8 DEF Q
<1>9. CASE \A i \in DOMAIN profiles : ~profiles[i].save
  <2>1. HasAll(Q, db.doc)
    BY <1>1, <1>3, <1>5, <1>7, <1>9, UnsavedIsAll DEF Tidy
  <2> QED
    BY <1>1, <1>4, <1>7, <2>1 DEF Q
<1>10. CASE doc = EmptyDoc /\ ~Opens(KeyFound)'
  BY <1>1, <1>4, <1>6, <1>7, <1>10 DEF Q
<1> QED
  BY <1>8, <1>9, <1>10

\* The key that loading goes by: either it opens the document or none that is found does.
LEMMA LoadFinds ==
    ASSUME Typed, NEW makes \in BOOLEAN, NEW stored \in BOOLEAN, db' = db,
           makes => MakesKey(NewManager),
           IF makes /\ stored THEN EnsureDbKey(NewManager) ELSE UNCHANGED keyring,
           ~makes => ~MakesKey(NewManager),
           NEW key, key = IF makes /\ ~stored THEN NoKey ELSE DbKey(NewManager)
    PROVE  (key # NoKey /\ Opens(key)) \/ db.doc = EmptyDoc \/ ~Opens(KeyFound)'
<1>1. /\ native \in Nat /\ fallback \in Nat /\ keysMade \in Nat
      /\ db = Absent \/ db = Truncated \/ db.key \in 1..keysMade
  BY DEF Typed
<1>2. db = Absent => db.doc = EmptyDoc
  BY DEF Absent
<1>3. NewManager.key = NoKey
  BY DEF NewManager
<1>4. CASE makes /\ ~stored
  <2>1. KeyFound = NoKey /\ UNCHANGED <<native, fallback, available>>
    BY <1>4 DEF MakesKey, keyring
  <2>2. KeyFound' = NoKey
    BY <2>1 DEF KeyFound, RetrieveNative, RetrieveFallback
  <2>3. db # Absent => db.key # NoKey
    BY <1>1 DEF Truncated, NoKey, Garbage
  <2> QED
    BY <1>2, <2>2, <2>3 DEF Opens
<1>5. CASE makes /\ stored
  <2>1. key = keysMade + 1 /\ KeyFound = NoKey
    BY <1>3, <1>5 DEF MakesKey, DbKey
  <2>2. /\ available' = available
        /\ (available /\ native' = key) \/ (~available /\ fallback' = key)
    BY <1>5, <2>1 DEF EnsureDbKey, StoreNative, StoreFallback
  <2>3. key # NoKey
    BY <1>1, <2>1 DEF NoKey
  <2>4. KeyFound' = key
    BY <2>2, <2>3 DEF KeyFound, RetrieveNative, RetrieveFallback
  <2> QED
    BY <2>3, <2>4 DEF Opens
<1>6. CASE ~makes
  <2>1. KeyFound # NoKey /\ key = KeyFound /\ UNCHANGED <<native, fallback, available>>
    BY <1>3, <1>6 DEF MakesKey, DbKey, keyring
  <2>2. KeyFound' = KeyFound
    BY <2>1 DEF KeyFound, RetrieveNative, RetrieveFallback
  <2> QED
    BY <2>1, <2>2 DEF Opens
<1> QED
  BY <1>4, <1>5, <1>6

\* The parts of loading that every one has.
LEMMA LoadBasics ==
    ASSUME Inv, Typed, NEW key, IF key = NoKey THEN TRUE ELSE key = DbKey(NewManager),
           vm' \in {NewManager, [NewManager EXCEPT !.key = key]}, db' = db,
           EnsureDbKey(NewManager) \/ (UNCHANGED keyring /\ (key # NoKey => ~MakesKey(NewManager)))
    PROVE  /\ native' \in 0..keysMade' /\ fallback' \in 0..keysMade' /\ keysMade' \in Nat
           /\ keysMade <= keysMade'
           /\ Remembered(vm)' /\ ~vm'.loaded /\ vm'.doc = EmptyDoc
           /\ ~Opens(KeyFound) => ~Opens(KeyFound)'
<1>1. /\ native \in Nat /\ fallback \in Nat /\ keysMade \in Nat /\ native <= keysMade
      /\ fallback <= keysMade
  BY DEF Typed
<1>2. Remembered(NewManager)
  BY <1>1, NewManagerTyped DEF Remembered
<1>3. /\ native' \in 0..keysMade' /\ fallback' \in 0..keysMade' /\ keysMade' \in Nat
      /\ keysMade <= keysMade' /\ (key # NoKey => key \in 1..keysMade')
  <2>1. CASE EnsureDbKey(NewManager)
    BY <1>2, <2>1, KeysAreMade
  <2>2. CASE UNCHANGED keyring /\ (key # NoKey => ~MakesKey(NewManager))
    <3>1. key # NoKey => key \in 1..keysMade
      BY <1>1, <2>2, NewManagerTyped
         DEF DbKey, MakesKey, KeyFound, RetrieveNative, RetrieveFallback, NoKey
    <3> QED
      BY <1>1, <2>2, <3>1 DEF keyring
  <2> QED
    BY <2>1, <2>2
<1>4. Remembered(vm)' /\ ~vm'.loaded /\ vm'.doc = EmptyDoc
  <2>1. CASE vm' = NewManager
    BY <1>3, <2>1, NewManagerTyped DEF Remembered
  <2>2. CASE vm' = [NewManager EXCEPT !.key = key]
    <3>1. key \in Nat /\ key <= keysMade'
      BY <1>3 DEF NoKey
    <3>2. vm' = [key |-> key, loaded |-> FALSE, doc |-> EmptyDoc, aged |-> FALSE]
      BY <2>2 DEF NewManager
    <3> QED
      BY <1>3, <3>1, <3>2, NewManagerTyped DEF Remembered, Manager, Document
  <2> QED
    BY <2>1, <2>2
<1>5. ~Opens(KeyFound) => ~Opens(KeyFound)'
  <2>1. CASE EnsureDbKey(NewManager)
    BY <2>1, StaysShut, NewManagerTyped DEF Opens
  <2>2. CASE UNCHANGED keyring
    BY <2>2 DEF keyring, Opens, KeyFound, RetrieveNative, RetrieveFallback
  <2> QED
    BY <2>1, <2>2
<1> QED
  BY <1>3, <1>4, <1>5

\* How a load starts.
LoadStarts(P, C) ==
    /\ phase' = "busy" /\ op' = [name |-> "load", target |-> P, onFail |-> profiles, again |-> FALSE]
    /\ calls' = C /\ at' = 1 /\ result' = [all |-> TRUE, any |-> FALSE]

LEMMA LoadKeepsSaveInv ==
    ASSUME SaveInv, phase \in {"started", "idle"}, UNCHANGED <<disk, profiles, prompt, saved, damaged>>,
           native' \in 0..keysMade', fallback' \in 0..keysMade', keysMade' \in Nat, keysMade <= keysMade',
           Remembered(vm)', ~vm'.loaded, vm'.doc = EmptyDoc, ~Opens(KeyFound) => ~Opens(KeyFound)',
           NEW P, Tidy(P), NEW C, CallsShape(C), LoadStarts(P, C),
           saved /\ ~damaged => /\ C = <<>> /\ connects.list = Meta(P) /\ HasNoOther(P, db.doc)
                                /\ HasAll(P, db.doc) \/ (Bare(P) /\ ~Opens(KeyFound)')
    PROVE  SaveInv'
<1>1. /\ phase' = "busy" /\ op'.name = "load" /\ op'.target = P /\ op'.onFail = profiles /\ ~op'.again
      /\ calls' = C /\ at' = 1 /\ result' = [all |-> TRUE, any |-> FALSE]
      /\ UNCHANGED <<db, connects, legacy, profiles, prompt, saved, damaged>>
  BY DEF LoadStarts, disk
<1>2. ~SavesProfiles'
  BY <1>1 DEF SavesProfiles
<1>3. Typed'
  <2>1. /\ {native', fallback', keysMade'} \subseteq Nat /\ native' <= keysMade' /\ fallback' <= keysMade'
        /\ keysMade \in Nat
    BY DEF SaveInv, Typed
  <2>2. \/ prompt' = <<>>
        \/ Len(prompt') = 1 /\ prompt'[1].key \in StoredKeyIds /\ Remembered(prompt[1].vm)'
    <3>1. \/ prompt = <<>>
          \/ Len(prompt) = 1 /\ prompt[1].key \in StoredKeyIds /\ Remembered(prompt[1].vm)
      BY DEF SaveInv, Typed
    <3>2. ASSUME NEW m, Remembered(m) PROVE m \in Manager /\ Document(m.doc) /\ m.key <= keysMade'
      BY <2>1, <3>2 DEF Remembered, Manager
    <3> QED
      BY <1>1, <3>1, <3>2 DEF Remembered
  <2>3. db' = Absent \/ db' = Truncated \/ db'.key \in 1..keysMade'
    BY <1>1, <2>1 DEF SaveInv, Typed
  <2>4. CallsShape(calls)'
    BY <1>1 DEF CallsShape
  <2> QED
    BY <1>1, <2>1, <2>2, <2>3, <2>4 DEF SaveInv, Typed
<1>4. Managers' /\ Importing' /\ Resting' /\ Guarded' /\ Saving'
  BY <1>1, <1>2 DEF SaveInv, Managers, Importing, Resting, Guarded, Saving
<1>5. Aside'
  <2> SUFFICES ASSUME saved, ~damaged
               PROVE  /\ Kept(profiles)' /\ Kept(op.target)' /\ calls' = <<>> /\ ~result'.any
                      /\ \A s \in Slots : DocOf(vm)'[s] = db.doc[s]
    BY <1>1, <1>2 DEF Aside
  <2>1. Kept(profiles) /\ C = <<>> /\ connects.state = "good"
    BY DEF SaveInv, Resting, Kept
  <2>2. Kept(profiles)'
    BY <1>1, <2>1 DEF Kept
  <2>3. Kept(op.target)'
    BY <1>1, <2>1 DEF Kept
  <2>4. DocOf(vm)' = db.doc
    BY <1>1 DEF DocOf, Absent
  <2> QED
    BY <1>1, <2>1, <2>2, <2>3, <2>4
<1> QED
  BY <1>3, <1>4, <1>5 DEF SaveInv

\* The calls that move old copies.
MoveCalls(M, doc) ==
    LET moves == SetToSeq(Moves(M, doc))
    IN  [i \in DOMAIN moves |-> Store(<<moves[i], "passphrase">>, OldCopy(M, moves[i], doc))]

LEMMA MoveCallsShape ==
    ASSUME NEW M \in Seq(Metas), NEW doc, Document(doc), IsFiniteSet(Moves(M, doc))
    PROVE  CallsShape(MoveCalls(M, doc)) /\ (Moves(M, doc) = {} => MoveCalls(M, doc) = <<>>)
<1> DEFINE moves == SetToSeq(Moves(M, doc))
           N == Cardinality(Moves(M, doc))
           C == [i \in DOMAIN moves |-> Store(<<moves[i], "passphrase">>, OldCopy(M, moves[i], doc))]
<1>1. N \in Nat /\ moves \in [1..N -> Moves(M, doc)]
  BY ListsAll
<1> HIDE DEF moves, N
<1>2. /\ DOMAIN C = 1..N /\ C = [i \in 1..N |-> C[i]]
      /\ \A i \in 1..N : C[i] = Store(<<moves[i], "passphrase">>, OldCopy(M, moves[i], doc))
  BY <1>1
<1> HIDE DEF C
<1>3. C \in Seq(Range(C))
  <2>1. C \in [1..N -> Range(C)]
    BY <1>2 DEF Range
  <2> QED
    BY <1>1, <2>1, FunctionIsSequence
<1>4. Len(C) = N
  BY <1>1, <1>2, <1>3
<1>5. \A n \in DOMAIN C : SecretCallShape(C[n])
  <2> SUFFICES ASSUME NEW n \in 1..N PROVE SecretCallShape(C[n])
    BY <1>2
  <2>1. moves[n] \in Moves(M, doc)
    BY <1>1
  <2>2. moves[n] \in StoredKeyIds /\ OldCopy(M, moves[n], doc) \in Secrets \union {NoSecret}
    BY <2>1, OldCopyTyped
  <2>3. <<moves[n], "passphrase">> \in Slots /\ <<moves[n], "passphrase">>[2] = "passphrase"
    BY <2>2 DEF Slots
  <2> QED
    BY <1>2, <2>2, <2>3, CallFields DEF SecretCallShape, Values
<1>6. Moves(M, doc) = {} => C = <<>>
  <2> SUFFICES ASSUME Moves(M, doc) = {} PROVE C = <<>>
    OBVIOUS
  <2>1. N = 0
    <3>1. ASSUME N # 0 PROVE FALSE
      <4>1. 1 \in 1..N
        BY <1>1, <3>1
      <4>2. moves[1] \in Moves(M, doc)
        BY <1>1, <4>1
      <4> QED
        BY <4>2
    <3> QED
      BY <3>1
  <2> QED
    BY <1>3, <1>4, <2>1
<1>7. CallsShape(C)
  BY <1>1, <1>2, <1>4, <1>5 DEF CallsShape
<1> QED
  BY <1>6, <1>7 DEF C, moves, MoveCalls

LEMMA LoadKeeps ==
    ASSUME Inv, SaveInv, Load
    PROVE  SaveInv'
<1> DEFINE M == connects.list
           found == loadConnectsJson
           asks == found /\ \E i \in DOMAIN M : M[i].save
           makes == asks /\ MakesKey(NewManager)
<1>1. /\ phase \in {"started", "idle"} /\ UNCHANGED <<disk, profiles, prompt, saved, damaged>>
      /\ Typed /\ legacy = <<>>
  <2>1. phase \in {"started", "idle"} /\ UNCHANGED <<disk, profiles, prompt, saved, damaged>>
    BY DEF Load
  <2> QED
    BY <2>1 DEF SaveInv, Typed
<1>2. PICK stored \in BOOLEAN :
         LET key == IF makes /\ ~stored THEN NoKey ELSE DbKey(NewManager)
             doc == IF asks /\ key # NoKey /\ Opens(key) THEN db.doc ELSE EmptyDoc
             loaded == LoadedProfiles(M, doc)
             moves == SetToSeq(Moves(M, doc))
         IN
         /\ IF makes /\ stored THEN EnsureDbKey(NewManager) ELSE UNCHANGED keyring
         /\ vm' = IF asks THEN [NewManager EXCEPT !.key = key] ELSE NewManager
         /\ IF found
            THEN Start("load", Merged(loaded), profiles, Merged(loaded) # loaded,
                       [i \in DOMAIN moves |->
                           Store(<<moves[i], "passphrase">>, OldCopy(M, moves[i], doc))])
            ELSE IF legacy = <<>> THEN Start("load", <<>>, profiles, FALSE, <<>>)
            ELSE Start("migrate", PlainProfiles, profiles, FALSE, SaveCalls(PlainProfiles))
  BY Zenon DEF Load
<1> DEFINE key == IF makes /\ ~stored THEN NoKey ELSE DbKey(NewManager)
           doc == IF asks /\ key # NoKey /\ Opens(key) THEN db.doc ELSE EmptyDoc
           loaded == LoadedProfiles(M, doc)
           C == MoveCalls(M, doc)
<1>3. IF makes /\ stored THEN EnsureDbKey(NewManager) ELSE UNCHANGED keyring
  BY <1>2, Zenon
<1>4. vm' = IF asks THEN [NewManager EXCEPT !.key = key] ELSE NewManager
  BY <1>2, Zenon
<1>5. /\ found => Start("load", Merged(loaded), profiles, Merged(loaded) # loaded, C)
      /\ ~found => Start("load", <<>>, profiles, FALSE, <<>>)
  BY <1>1, <1>2, Zenon DEF MoveCalls
<1>6. found => connects.state = "good" /\ M \in Seq(Metas) /\ DistinctIds(M)
  BY <1>1 DEF loadConnectsJson, Typed
<1>7. doc \in {db.doc, EmptyDoc} /\ Document(doc) /\ db' = db /\ connects' = connects
  BY <1>1, NewManagerTyped DEF Typed, disk
<1>8. asks => doc = db.doc \/ ~Opens(KeyFound)'
  <2>1. asks => (key # NoKey /\ Opens(key)) \/ db.doc = EmptyDoc \/ ~Opens(KeyFound)'
    <3>1. makes \in BOOLEAN /\ (makes => MakesKey(NewManager)) /\ (asks /\ ~makes => ~MakesKey(NewManager))
      OBVIOUS
    <3> HIDE DEF makes, asks
    <3> QED
      BY <1>1, <1>3, <1>7, <3>1, LoadFinds
  <2> HIDE DEF key, asks
  <2> QED
    BY <2>1
<1>9. /\ native' \in 0..keysMade' /\ fallback' \in 0..keysMade' /\ keysMade' \in Nat
      /\ keysMade <= keysMade'
      /\ Remembered(vm)' /\ ~vm'.loaded /\ vm'.doc = EmptyDoc
      /\ ~Opens(KeyFound) => ~Opens(KeyFound)'
  <2>1. CASE asks
    <3>1. IF key = NoKey THEN TRUE ELSE key = DbKey(NewManager)
      OBVIOUS
    <3>2. EnsureDbKey(NewManager) \/ (UNCHANGED keyring /\ (key # NoKey => ~MakesKey(NewManager)))
      BY <1>3, <2>1
    <3>3. vm' \in {NewManager, [NewManager EXCEPT !.key = key]}
      BY <1>4, <2>1
    <3> HIDE DEF key
    <3> QED
      BY <1>1, <1>7, <3>1, <3>2, <3>3, LoadBasics
  <2>2. CASE ~asks
    <3> DEFINE none == NoKey
    <3>1. IF none = NoKey THEN TRUE ELSE none = DbKey(NewManager)
      OBVIOUS
    <3>2. EnsureDbKey(NewManager) \/ (UNCHANGED keyring /\ (none # NoKey => ~MakesKey(NewManager)))
      BY <1>3, <2>2
    <3>3. vm' \in {NewManager, [NewManager EXCEPT !.key = none]}
      BY <1>4, <2>2
    <3> HIDE DEF none
    <3> QED
      BY <1>1, <1>7, <3>1, <3>2, <3>3, LoadBasics
  <2> QED
    BY <2>1, <2>2
<1>10. CASE found
  <2>1. Tidy(loaded) /\ IsFiniteSet(Moves(M, doc))
    BY <1>6, <1>7, <1>10, LoadedIsTidy
  <2>2. Merged(loaded) = loaded
    <3>1. loaded = [i \in DOMAIN loaded |-> loaded[i]]
      BY DEF LoadedProfiles
    <3> HIDE DEF loaded
    <3> QED
      BY <1>1, <3>1, NoLeftovers
  <2>3. CallsShape(C) /\ (Moves(M, doc) = {} => C = <<>>)
    BY <1>6, <1>7, <1>10, <2>1, MoveCallsShape
  <2>4. saved /\ ~damaged => /\ C = <<>> /\ connects.list = Meta(loaded) /\ HasNoOther(loaded, db.doc)
                             /\ HasAll(loaded, db.doc) \/ (Bare(loaded) /\ ~Opens(KeyFound)')
    <3> SUFFICES ASSUME saved, ~damaged
                 PROVE  /\ C = <<>> /\ connects.list = Meta(loaded) /\ HasNoOther(loaded, db.doc)
                        /\ HasAll(loaded, db.doc) \/ (Bare(loaded) /\ ~Opens(KeyFound)')
      OBVIOUS
    <3>1. Kept(profiles)
      BY <1>1 DEF SaveInv, Resting
    <3>2. ~asks => \A i \in DOMAIN profiles : ~profiles[i].save
      <4>1. M = Meta(profiles) /\ profiles \in Seq(Profile)
        BY <1>1, <3>1 DEF Kept, Typed, Tidy
      <4>2. DOMAIN M = DOMAIN profiles /\ \A i \in DOMAIN profiles : M[i].save = profiles[i].save
        BY <4>1, MetaOf
      <4> QED
        BY <1>10, <4>2
    <3> HIDE DEF doc, asks
    <3>3. /\ connects.list = Meta(loaded) /\ HasNoOther(loaded, db.doc)
          /\ HasAll(loaded, db.doc) \/ (Bare(loaded) /\ ~Opens(KeyFound)')
          /\ Moves(M, doc) = {}
      BY <1>1, <1>7, <1>8, <3>1, <3>2, LoadingKeeps
    <3> QED
      BY <2>3, <3>3
  <2> HIDE DEF C, loaded
  <2>5. LoadStarts(loaded, C)
    BY <1>5, <1>10, <2>2 DEF LoadStarts, Start, Fresh
  <2> QED
    BY <1>1, <1>9, <2>1, <2>3, <2>4, <2>5, LoadKeepsSaveInv
<1>11. CASE ~found
  <2> DEFINE P == <<>>
             D == <<>>
  <2>1. Tidy(P) /\ CallsShape(D)
    BY DEF Tidy, DistinctIds, CallsShape
  <2>2. ~(saved /\ ~damaged)
    BY <1>1, <1>11 DEF SaveInv, Resting, Kept, loadConnectsJson
  <2>3. LoadStarts(P, D)
    BY <1>5, <1>11 DEF LoadStarts, Start, Fresh
  <2> HIDE DEF P, D
  <2> QED
    BY <1>1, <1>9, <2>1, <2>2, <2>3, LoadKeepsSaveInv
<1> QED
  BY <1>10, <1>11

-----------------------------------------------------------------------------
(* The end of an operation                                                     *)

\* When every call of a save has had its effect, the document is that of the profiles.
LEMMA SavedIsKept ==
    ASSUME NEW P, Tidy(P), NEW doc, \A slot, v : SaveWants(P, slot, v) => doc[slot] = v
    PROVE  HasAll(P, doc) /\ HasNoOther(P, doc)
<1>1. P \in Seq(Profile)
  BY DEF Tidy
<1>2. {Unset} \intersect Secrets = {} /\ Unset # NoSecret
  BY ConstantsAssumption DEF Unset, NoSecret
<1>3. ASSUME NEW i \in DOMAIN P
      PROVE  /\ doc[PasswordSlot(P[i])] = PasswordOf(P[i])
             /\ doc[PassphraseSlot(P[i])] = PassphraseOf(P[i])
             /\ P[i].auth \in StoredKeyIds => doc[Phrase(P[i].auth)] = PhraseOf(P, P[i].auth)
  <2>1. SaveWants(P, PasswordSlot(P[i]), PasswordOf(P[i]))
    BY DEF SaveWants
  <2>2. SaveWants(P, PassphraseSlot(P[i]), PassphraseOf(P[i]))
    BY DEF SaveWants
  <2>3. P[i].auth \in StoredKeyIds => P[i].auth \in KeysUsed(P)
    BY DEF KeysUsed
  <2>4. P[i].auth \in StoredKeyIds => SaveWants(P, Phrase(P[i].auth), PhraseOf(P, P[i].auth))
    BY <2>3 DEF SaveWants
  <2> QED
    BY <2>1, <2>2, <2>4
<1>4. ASSUME NEW i \in DOMAIN P
      PROVE  P[i].secret # Unset
  <2>1. P[i] \in Profile
    BY <1>1, ProfileSlots
  <2>2. P[i].secret \in Secrets \union {NoSecret}
    BY <2>1 DEF Profile
  <2> QED
    BY <1>2, <2>2
<1>5. ASSUME NEW k, Owners(P, k) # {}
      PROVE  /\ PhraseOf(P, k) # Unset
             /\ \E j \in Owners(P, k) : PhraseOf(P, k) = P[j].secret
  <2>1. Min(Owners(P, k)) \in Owners(P, k)
    BY <1>1, <1>5, OwnersLeast
  <2>2. Min(Owners(P, k)) \in DOMAIN P
    BY <2>1 DEF Owners
  <2>3. PhraseOf(P, k) = P[Min(Owners(P, k))].secret
    BY <1>5 DEF PhraseOf
  <2> QED
    BY <2>1, <2>2, <2>3, <1>4
<1>6. HasAll(P, doc)
  <2> SUFFICES ASSUME NEW i \in DOMAIN P
               PROVE  /\ P[i].save /\ P[i].auth = "password" => Secret(doc, PasswordSlot(P[i])) = P[i].secret
                      /\ P[i].save /\ P[i].auth = "keyFile" => Secret(doc, PassphraseSlot(P[i])) = P[i].secret
                      /\ P[i].auth \in StoredKeyIds =>
                            IF Owners(P, P[i].auth) = {} THEN Secret(doc, Phrase(P[i].auth)) = NoSecret
                            ELSE \E j \in Owners(P, P[i].auth) : doc[Phrase(P[i].auth)] = P[j].secret
    BY DEF HasAll
  <2>1. P[i].save /\ P[i].auth = "password" => Secret(doc, PasswordSlot(P[i])) = P[i].secret
    BY <1>3, <1>4 DEF PasswordOf, Secret
  <2>2. P[i].save /\ P[i].auth = "keyFile" => Secret(doc, PassphraseSlot(P[i])) = P[i].secret
    BY <1>3, <1>4 DEF PassphraseOf, Secret
  <2>3. ASSUME P[i].auth \in StoredKeyIds, Owners(P, P[i].auth) = {}
        PROVE  Secret(doc, Phrase(P[i].auth)) = NoSecret
    BY <1>3, <2>3 DEF PhraseOf, Secret
  <2>4. ASSUME P[i].auth \in StoredKeyIds, Owners(P, P[i].auth) # {}
        PROVE  \E j \in Owners(P, P[i].auth) : doc[Phrase(P[i].auth)] = P[j].secret
    BY <1>3, <1>5, <2>4
  <2> QED
    BY <2>1, <2>2, <2>3, <2>4
<1>7. HasNoOther(P, doc)
  <2> SUFFICES ASSUME NEW i \in DOMAIN P
               PROVE  /\ doc[PasswordSlot(P[i])] \in Secrets => P[i].auth = "password" /\ P[i].save
                      /\ doc[PassphraseSlot(P[i])] \in Secrets => P[i].auth = "keyFile" /\ P[i].save
                      /\ P[i].auth \in StoredKeyIds /\ doc[Phrase(P[i].auth)] \in Secrets =>
                             \E j \in DOMAIN P : P[j].auth = P[i].auth /\ P[j].save
    BY DEF HasNoOther
  <2>1. doc[PasswordSlot(P[i])] \in Secrets => P[i].auth = "password" /\ P[i].save
    BY <1>2, <1>3 DEF PasswordOf
  <2>2. doc[PassphraseSlot(P[i])] \in Secrets => P[i].auth = "keyFile" /\ P[i].save
    BY <1>2, <1>3 DEF PassphraseOf
  <2>3. ASSUME P[i].auth \in StoredKeyIds, doc[Phrase(P[i].auth)] \in Secrets
        PROVE  \E j \in DOMAIN P : P[j].auth = P[i].auth /\ P[j].save
    <3>1. Owners(P, P[i].auth) # {}
      BY <1>2, <1>3, <2>3 DEF PhraseOf
    <3> QED
      BY <3>1 DEF Owners
  <2> QED
    BY <2>1, <2>2, <2>3
<1> QED
  BY <1>6, <1>7

\* When the calls of a save have all been made and succeeded, its profiles are kept.
LEMMA SaveEnds ==
    ASSUME Inv, SaveInv, phase = "busy", SavesProfiles, ~damaged, result.all, ~(at <= Len(calls))
    PROVE  Kept(op.target)
<1>1. /\ Saves(calls, op.target)
      /\ \A n \in DOMAIN calls :
            n < at => IF calls[n].op = "connects"
                      THEN connects.state = "good" /\ connects.list = Meta(op.target)
                      ELSE db.doc[calls[n].slot] = calls[n].value
  BY DEF SaveInv, Saving
<1>2. \A n \in DOMAIN calls : n < at
  <2>1. Len(calls) \in Nat /\ DOMAIN calls = 1..Len(calls) /\ at \in Nat
    BY DEF SaveInv, Typed, CallsShape, Inv, Shape
  <2> QED
    BY <2>1
<1>3. connects.state = "good" /\ connects.list = Meta(op.target)
  BY <1>1, <1>2 DEF Saves
<1>4. ASSUME NEW slot, NEW v, SaveWants(op.target, slot, v)
      PROVE  db.doc[slot] = v
  <2>1. Wants(calls, slot, v)
    BY <1>1, <1>4 DEF Saves
  <2> QED
    BY <2>1, <1>1, <1>2 DEF Wants
<1>5. HasAll(op.target, db.doc) /\ HasNoOther(op.target, db.doc)
  BY <1>4, SavedIsKept DEF SaveInv, Typed
<1> QED
  BY <1>3, <1>5 DEF Kept

LEMMA FinishKeeps ==
    ASSUME Inv, SaveInv, finish
    PROVE  SaveInv'
<1> DEFINE stopped == at <= Len(calls)
           resaves == op.name = "load" /\ (op.again \/ result.any)
<1>1. /\ phase = "busy" /\ (stopped => ~result.all)
      /\ UNCHANGED <<keyring, db, connects, damaged>>
  BY DEF finish, disk
<1>2. ASSUME resaves PROVE SaveInv'
  <2>1. /\ Start("reload", op.target, op.target, FALSE, SaveCalls(op.target))
        /\ vm' = NewManager
        /\ UNCHANGED <<keyring, disk, profiles, prompt, saved, damaged>>
    BY <1>2 DEF finish
  <2>2. Tidy(op.target)
    BY DEF SaveInv, Typed
  <2>3. Faithful(SaveCalls(op.target), op.target)
    BY <2>2, SaveIsFaithful
  <2>4. ~(saved /\ ~damaged)
    BY <1>1, <1>2 DEF SaveInv, Aside, SavesProfiles
  <2> DEFINE name == "reload"
             again == FALSE
             C == SaveCalls(op.target)
             P == op.target
  <2>5. /\ name \notin {"keys", "import", "load"} /\ Start(name, P, P, again, C)
        /\ Tidy(P) /\ Faithful(C, P) /\ phase # "down"
    BY <1>1, <2>1, <2>2, <2>3
  <2> HIDE DEF name, again, C, P
  <2> QED
    BY <2>1, <2>4, <2>5, SaveStarts
<1>3. ASSUME ~resaves PROVE SaveInv'
  <2>1. /\ phase' \in {"started", "idle"}
        /\ vm' = NewManager /\ op' = NoOp /\ calls' = <<>> /\ at' = 1
        /\ result' = [all |-> TRUE, any |-> FALSE]
        /\ profiles' = IF result.all \/ op.name \in {"load", "migrate", "reload"}
                       THEN op.target
                       ELSE IF stopped THEN profiles ELSE op.onFail
        /\ legacy' = <<>> \/ legacy' = legacy
        /\ saved' = IF SavesProfiles THEN result.all ELSE saved
        /\ \/ prompt' = prompt
           \/ /\ op.name = "import" /\ result.all
              /\ prompt' = <<[key |-> calls[1].slot[1], vm |-> vm]>>
    BY <1>3 DEF finish, NoWork, Fresh, wipeLegacyProfiles
  <2>2. Typed'
    <3>1. Remembered(vm)'
      BY <1>1, <2>1, NewManagerTyped DEF Remembered, SaveInv, Typed, keyring
    <3>2. \/ prompt' = <<>>
          \/ Len(prompt') = 1 /\ prompt'[1].key \in StoredKeyIds /\ Remembered(prompt[1].vm)'
      <4>1. CASE prompt' = prompt
        BY <1>1, <4>1 DEF SaveInv, Typed, Remembered, keyring
      <4>2. CASE op.name = "import" /\ prompt' = <<[key |-> calls[1].slot[1], vm |-> vm]>>
        <5>1. calls[1].slot[1] \in StoredKeyIds
          BY <1>1, <4>2 DEF SaveInv, Importing
        <5> DEFINE k == calls[1].slot[1]
        <5>2. k \in StoredKeyIds /\ prompt' = <<[key |-> k, vm |-> vm]>>
          BY <4>2, <5>1
        <5> HIDE DEF k
        <5>3. Len(prompt') = 1 /\ prompt'[1].key = k /\ prompt'[1].vm = vm
          BY <5>2
        <5> QED
          BY <1>1, <5>2, <5>3 DEF SaveInv, Typed, Remembered, keyring
      <4> QED
        BY <2>1, <4>1, <4>2
    <3>3. CallsShape(<<>>)
      BY DEF CallsShape
    <3>4. Tidy(<<>>)
      BY DEF Tidy, DistinctIds
    <3>5. Tidy(profiles') /\ Tidy(op'.target) /\ Tidy(op'.onFail)
      BY <2>1, <3>4 DEF SaveInv, Typed, NoOp
    <3>6. legacy' = <<>> /\ saved' \in BOOLEAN /\ result' \in [all : BOOLEAN, any : BOOLEAN]
      BY <1>1, <2>1 DEF SaveInv, Typed
    <3>7. <<>> \in Seq(Profile)
      OBVIOUS
    <3> QED
      BY <1>1, <2>1, <3>1, <3>2, <3>3, <3>5, <3>6, <3>7 DEF SaveInv, Typed, keyring
  <2>3. Managers'
    <3> SUFFICES ASSUME ~damaged
                 PROVE  prompt' # <<>> => prompt'[1].vm.loaded /\ db # Absent /\ prompt'[1].vm.key = db.key
      BY <1>1, <2>1, NewManagerTyped DEF SaveInv, Managers
    <3>1. CASE prompt' = prompt
      BY <3>1 DEF SaveInv, Managers
    <3>2. CASE op.name = "import" /\ result.all /\ prompt' = <<[key |-> calls[1].slot[1], vm |-> vm]>>
      <4>1. at > 1
        <5>1. Len(calls) = 1 /\ ~stopped /\ at \in Nat
          BY <1>1, <3>2 DEF SaveInv, Importing, Inv, Shape
        <5> QED
          BY <5>1
      <4>2. vm.loaded /\ db # Absent
        BY <1>1, <3>2, <4>1 DEF SaveInv, Importing
      <4>3. prompt'[1].vm = vm
        BY <3>2
      <4> QED
        BY <4>2, <4>3 DEF SaveInv, Managers
    <3> QED
      BY <2>1, <3>1, <3>2
  <2>4. Importing' /\ Aside' /\ Guarded' /\ Saving'
    BY <2>1 DEF Importing, Aside, Guarded, Saving
  <2>5. Resting'
    <3> SUFFICES ASSUME saved', ~damaged
                 PROVE  Kept(profiles')
      <4>1. Kept(profiles') => Kept(profiles)'
        BY <1>1 DEF Kept, Opens, KeyFound, RetrieveNative, RetrieveFallback, keyring
      <4> QED
        BY <1>1, <4>1 DEF Resting
    <3>1. CASE SavesProfiles
      <4>1. result.all /\ ~stopped /\ profiles' = op.target
        BY <1>1, <2>1, <3>1
      <4> QED
        BY <1>1, <3>1, <4>1, SaveEnds
    <3>2. CASE ~SavesProfiles
      <4>1. saved /\ op.name \in {"keys", "import", "load"}
        BY <2>1, <3>2 DEF SavesProfiles
      <4>2. /\ Kept(profiles) /\ Kept(op.target)
            /\ op.name # "load" => op.target = profiles /\ op.onFail = profiles
        BY <1>1, <3>2, <4>1 DEF SaveInv, Aside
      <4> QED
        BY <2>1, <4>1, <4>2
    <3> QED
      BY <3>1, <3>2
  <2> QED
    BY <2>2, <2>3, <2>4, <2>5 DEF SaveInv
<1> QED
  BY <1>2, <1>3


-----------------------------------------------------------------------------
(* The rest of the world                                                       *)

\* The plaintext profiles are purged, the home page makes a key, the process ends, the
\* keyring goes away or comes back.
LEMMA WorldKeeps ==
    ASSUME Inv, SaveInv, configureFileStorage \/ stop \/ keyringGoes \/ keyringReturns
    PROVE  SaveInv'
<1>1. CASE configureFileStorage
  <2>1. /\ phase = "down" /\ phase' = "started" /\ legacy' = <<>>
        /\ UNCHANGED <<keyring, db, connects, profiles, vm, op, calls, at, result, prompt, saved, damaged>>
    BY <1>1 DEF configureFileStorage, work, history
  <2>2. Typed'
    <3>1. Remembered(vm)' /\ (\/ prompt' = <<>>
                              \/ Len(prompt') = 1 /\ prompt'[1].key \in StoredKeyIds
                                 /\ Remembered(prompt[1].vm)')
      BY <2>1 DEF SaveInv, Typed, Remembered, keyring
    <3>2. <<>> \in Seq(Profile)
      OBVIOUS
    <3> QED
      BY <2>1, <3>1, <3>2 DEF SaveInv, Typed, keyring, CallsShape
  <2>3. Managers' /\ Importing' /\ Resting' /\ Aside' /\ Guarded' /\ Saving'
    BY <2>1 DEF SaveInv, Typed, Managers, Importing, Resting, Aside, Guarded, Saving
  <2> QED
    BY <2>2, <2>3 DEF SaveInv
<1>2. CASE stop
  <2>1. /\ phase' = "down" /\ profiles' = <<>> /\ prompt' = <<>> /\ saved' = FALSE
        /\ vm' = NewManager /\ op' = NoOp /\ calls' = <<>> /\ at' = 1
        /\ result' = [all |-> TRUE, any |-> FALSE]
        /\ UNCHANGED <<keyring, db, connects, legacy, damaged>>
    BY <1>2 DEF stop, NoWork, Fresh, disk
  <2>2. Typed'
    <3>1. Remembered(vm)'
      BY <2>1, NewManagerTyped DEF Remembered, SaveInv, Typed, keyring
    <3>2. CallsShape(<<>>)
      BY DEF CallsShape
    <3>3. Tidy(<<>>)
      BY DEF Tidy, DistinctIds
    <3>4. Tidy(profiles') /\ Tidy(op'.target) /\ Tidy(op'.onFail)
      BY <2>1, <3>3 DEF NoOp
    <3> QED
      BY <2>1, <3>1, <3>2, <3>4 DEF SaveInv, Typed, keyring
  <2>3. Managers' /\ Importing' /\ Resting' /\ Aside' /\ Guarded' /\ Saving'
    BY <2>1, NewManagerTyped DEF SaveInv, Managers, Importing, Resting, Aside, Guarded, Saving
  <2> QED
    BY <2>2, <2>3 DEF SaveInv
<1>3. CASE keyringGoes \/ keyringReturns
  <2>1. /\ saved' = FALSE
        /\ UNCHANGED <<native, fallback, keysMade, db, connects, legacy, phase, profiles,
                       vm, op, calls, at, result, prompt, damaged>>
    BY <1>3 DEF keyringGoes, keyringReturns, disk, work
  <2>2. Typed'
    <3>1. Remembered(vm)' /\ (\/ prompt' = <<>>
                              \/ Len(prompt') = 1 /\ prompt'[1].key \in StoredKeyIds
                                 /\ Remembered(prompt[1].vm)')
      BY <2>1 DEF SaveInv, Typed, Remembered
    <3> QED
      BY <2>1, <3>1 DEF SaveInv, Typed, CallsShape
  <2>3. DocOf(vm)' = DocOf(vm)
    BY <2>1 DEF DocOf
  <2>4. Managers' /\ Importing' /\ Resting' /\ Aside' /\ Guarded'
    BY <2>1 DEF SaveInv, Managers, Importing, Resting, Aside, Guarded
  <2>5. Saving'
    BY <2>1, <2>3 DEF SaveInv, Saving, SavesProfiles
  <2> QED
    BY <2>2, <2>4, <2>5 DEF SaveInv
<1> QED
  BY <1>1, <1>2, <1>3

LEMMA ListingKeeps ==
    ASSUME Inv, SaveInv, listStoredKeys
    PROVE  SaveInv'
<1>1. /\ phase = "idle" /\ prompt = <<>> /\ EnsureDbKey(NewManager)
      /\ UNCHANGED <<db, connects, legacy, phase, profiles, vm, op, calls, at, result, prompt, saved, damaged>>
  BY DEF listStoredKeys, disk, work, history
<1>2. Remembered(NewManager)
  BY NewManagerTyped DEF Remembered, SaveInv, Typed
<1>3. native' \in 0..keysMade' /\ fallback' \in 0..keysMade' /\ keysMade' \in Nat /\ keysMade <= keysMade'
  BY <1>1, <1>2, KeysAreMade DEF SaveInv
<1>4. native \in Nat /\ keysMade \in Nat /\ vm.key \in Nat /\ vm.key <= keysMade
  BY DEF SaveInv, Typed, Remembered, Manager
<1>5. Typed'
  <2>1. Remembered(vm)'
    BY <1>1, <1>3, <1>4 DEF Remembered, SaveInv, Typed
  <2>2. db = Absent \/ db = Truncated \/ db.key \in 1..keysMade'
    BY <1>3, <1>4 DEF SaveInv, Typed
  <2>3. {native', fallback', keysMade'} \subseteq Nat /\ native' <= keysMade' /\ fallback' <= keysMade'
    BY <1>3
  <2> QED
    BY <1>1, <2>1, <2>2, <2>3 DEF SaveInv, Typed, CallsShape
<1>6. Managers' /\ Importing' /\ Aside' /\ Guarded' /\ Saving'
  BY <1>1 DEF SaveInv, Managers, Importing, Aside, Guarded, Saving
<1>7. Resting'
  <2>1. ~Opens(KeyFound) => ~Opens(KeyFound)'
    <3>1. ASSUME ~Opens(KeyFound) PROVE db' # Absent /\ db'.key = db.key
      BY <1>1, <3>1 DEF Opens
    <3> QED
      BY <1>1, <3>1, NewManagerTyped, StaysShut DEF SaveInv
  <2> QED
    BY <1>1, <2>1 DEF SaveInv, Resting, Kept
<1> QED
  BY <1>5, <1>6, <1>7 DEF SaveInv

\* Every step of the program and of the world preserves the invariant.
THEOREM StepKeepsSaveInv ==
    ASSUME Inv, SaveInv, [Next]_vars
    PROVE  SaveInv'
<1>1. CASE UNCHANGED vars
  <2>1. UNCHANGED <<native, fallback, available, keysMade, db, connects, legacy, phase, profiles,
                    vm, op, calls, at, result, prompt, saved, damaged>>
    BY <1>1 DEF vars, keyring, disk, work, history
  <2>2. Typed'
    BY <2>1 DEF SaveInv, Typed, Remembered, CallsShape
  <2>3. Kept(profiles)' = Kept(profiles) /\ Kept(op.target)' = Kept(op.target)
    BY <2>1 DEF Kept, Opens, KeyFound, RetrieveNative, RetrieveFallback
  <2>4. DocOf(vm)' = DocOf(vm) /\ Spare' = Spare /\ SavesProfiles' = SavesProfiles
    BY <2>1 DEF DocOf, Spare, SavesProfiles
  <2>5. \A p : LeftAlone(p)' = LeftAlone(p) /\ MayHold(p)' = MayHold(p)
    BY <2>1 DEF LeftAlone, MayHold
  <2>6. Managers' /\ Importing'
    BY <2>1 DEF SaveInv, Managers, Importing
  <2>7. Resting' /\ Aside'
    BY <2>1, <2>3, <2>4 DEF SaveInv, Resting, Aside
  <2>8. Guarded'
    BY <2>1, <2>4, <2>5 DEF SaveInv, Guarded
  <2>9. Saving'
    BY <2>1, <2>4 DEF SaveInv, Saving
  <2> QED
    BY <2>2, <2>6, <2>7, <2>8, <2>9 DEF SaveInv
<1>2. CASE Next
  <2>1. CASE configureFileStorage \/ stop \/ keyringGoes \/ keyringReturns
    BY <2>1, WorldKeeps
  <2>2. CASE Load
    BY <2>2, LoadKeeps
  <2>3. CASE listStoredKeys
    BY <2>3, ListingKeeps
  <2>4. CASE \E p \in Inputs : saveCurrentFormAsProfile(p) \/ saveSessionProfile(p)
    BY <2>4, FormKeeps
  <2>5. CASE \E id \in ProfileIds : deleteSavedProfile(id) \/ moveProfile(id)
    BY <2>5, ListKeeps
  <2>6. CASE \E k \in StoredKeyIds : forgetPassphrase(k) \/ \E s \in Secrets : savePassphrase(k, s)
    BY <2>6, PassphraseKeeps
  <2>7. CASE \E k \in StoredKeyIds : \/ removeStoredKey(k) \/ importKeyIntoKeyring(k)
                                     \/ \E s \in Secrets : generateKeyIntoKeyring(k, s)
    BY <2>7, KeysKeep
  <2>8. CASE \E s \in Secrets \union {NoSecret} : answerPrompt(s)
    BY <2>8, PromptKeeps
  <2>9. CASE setProfileSystem \/ \E P \in RemotePayloads, keys \in SUBSET StoredKeyIds : applySynced(P, keys)
    BY <2>9, ArrivalKeeps
  <2>10. CASE \E o \in Outcomes : saveConnectsJson(o)
    BY <2>10, ConnectsKeeps
  <2>11. CASE keyRefused \/ vaultRefused \/ nothingToRemove \/ \E o \in Outcomes : rewriteDbvault(o)
    BY <2>11, SecretKeeps
  <2>12. CASE finish
    BY <2>12, FinishKeeps
  <2> QED
    BY <1>2, <2>1, <2>2, <2>3, <2>4, <2>5, <2>6, <2>7, <2>8, <2>9, <2>10, <2>11, <2>12 DEF Next
<1> QED
  BY <1>1, <1>2


-----------------------------------------------------------------------------
(* The initial state                                                           *)

LEMMA OldDocTyped == Document(OldDoc)
<1> DEFINE owned(s) == {i \in DOMAIN OldProfiles : /\ OldProfiles[i].auth \in StoredKeyIds
                                                   /\ s = <<OldProfiles[i].id, "keyPassphrase">>}
<1>1. OldProfiles \in Seq(Profile)
  BY ConstantsAssumption
<1>2. \A s \in Slots : OldDoc[s] = CASE s[2] = "pem" /\ s[1] \in KeysUsed(OldProfiles) -> Pem
                                     [] owned(s) # {} -> OldProfiles[Min(owned(s))].secret
                                     [] OTHER -> Unset
  BY DEF OldDoc
<1>3. ASSUME NEW s \in Slots, owned(s) # {}
      PROVE  OldProfiles[Min(owned(s))].secret \in Secrets \union {NoSecret} /\ s[2] # "pem"
  <2>1. owned(s) \in SUBSET Nat
    BY <1>1
  <2>2. Min(owned(s)) \in owned(s)
    BY <1>3, <2>1, LeastExists
  <2>3. Min(owned(s)) \in DOMAIN OldProfiles /\ s[2] = "keyPassphrase"
    BY <2>2
  <2> DEFINE n == Min(owned(s))
  <2>4. n \in DOMAIN OldProfiles
    BY <2>3
  <2> HIDE DEF n
  <2>5. OldProfiles[n] \in Profile
    BY <1>1, <2>4
  <2>6. OldProfiles[n].secret \in Secrets \union {NoSecret}
    BY <2>5 DEF Profile
  <2> QED
    BY <2>3, <2>6 DEF n
<1> HIDE DEF owned
<1>4. ASSUME NEW s \in Slots
      PROVE  /\ OldDoc[s] \in Secrets \union {NoSecret, Unset, Pem}
             /\ s[2] # "pem" => OldDoc[s] \in Secrets \union {NoSecret, Unset}
  <2>1. CASE s[2] = "pem" /\ s[1] \in KeysUsed(OldProfiles)
    <3>1. ~(owned(s) # {})
      BY <1>3, <2>1
    <3>2. OldDoc[s] = Pem
      BY <1>2, <2>1, <3>1
    <3> QED
      BY <2>1, <3>2
  <2>2. CASE ~(s[2] = "pem" /\ s[1] \in KeysUsed(OldProfiles)) /\ owned(s) # {}
    <3>1. OldDoc[s] = OldProfiles[Min(owned(s))].secret
      BY <1>2, <2>2
    <3> QED
      BY <1>3, <2>2, <3>1
  <2>3. CASE ~(s[2] = "pem" /\ s[1] \in KeysUsed(OldProfiles)) /\ owned(s) = {}
    <3>1. OldDoc[s] = Unset
      BY <1>2, <2>3
    <3> QED
      BY <3>1
  <2> QED
    BY <2>1, <2>2, <2>3
<1>5. OldDoc = [s \in Slots |-> OldDoc[s]]
  BY DEF OldDoc
<1>6. OldDoc \in [Slots -> Values]
  BY <1>4, <1>5 DEF Values
<1> QED
  BY <1>4, <1>6 DEF Document

LEMMA InitSaves == Init => SaveInv
<1> SUFFICES ASSUME Init PROVE SaveInv
  OBVIOUS
<1>1. /\ fallback = 0 /\ phase = "down" /\ profiles = <<>> /\ prompt = <<>>
      /\ vm = NewManager /\ op = NoOp /\ calls = <<>> /\ at = 1
      /\ result = [all |-> TRUE, any |-> FALSE] /\ saved = FALSE /\ damaged = FALSE
  BY DEF Init, Fresh, NoKey
<1>2. /\ native \in Nat /\ keysMade \in Nat /\ native <= keysMade
      /\ Document(db.doc) /\ (db = Absent \/ (db.key = 1 /\ keysMade = 1))
      /\ db # Truncated
      /\ connects = NoFile \/ connects = [state |-> "good", list |-> Meta(OldProfiles)]
  <2>1. CASE install = "old"
    BY <2>1, OldDocTyped DEF Init, Truncated, Garbage
  <2>2. CASE install # "old"
    BY <2>2, NewManagerTyped DEF Init, Absent, Truncated, Garbage, NoKey, NewManager
  <2> QED
    BY <2>1, <2>2
<1>3. Meta(OldProfiles) \in Seq(Metas) /\ DistinctIds(Meta(OldProfiles))
  BY ConstantsAssumption, MetaIsSeq
<1>4. legacy \in Seq(Profile)
  BY ConstantsAssumption DEF Init
<1>5. Typed
  <2>1. Remembered(vm)
    BY <1>1, <1>2, NewManagerTyped DEF Remembered
  <2>2. Tidy(profiles) /\ Tidy(op.target) /\ Tidy(op.onFail) /\ CallsShape(calls)
    BY <1>1 DEF Tidy, DistinctIds, NoOp, CallsShape
  <2>3. db.key \in Nat \union {Garbage}
    BY <1>2 DEF Absent, NoKey
  <2>4. /\ connects.state \in {"none", "good", "corrupt"}
        /\ connects.state = "good" => connects.list \in Seq(Metas) /\ DistinctIds(connects.list)
    BY <1>2, <1>3 DEF NoFile
  <2>5. {native, fallback, keysMade} \subseteq Nat /\ native <= keysMade /\ fallback <= keysMade
    BY <1>1, <1>2
  <2>6. db = Absent \/ db = Truncated \/ db.key \in 1..keysMade
    BY <1>2
  <2>7. prompt = <<>> /\ phase = "down" /\ ~saved /\ saved \in BOOLEAN /\ damaged \in BOOLEAN
        /\ result \in [all : BOOLEAN, any : BOOLEAN] /\ Document(db.doc)
    BY <1>1, <1>2
  <2> QED
    BY <1>4, <2>1, <2>2, <2>3, <2>4, <2>5, <2>6, <2>7 DEF Typed
<1>6. Managers /\ Importing /\ Resting /\ Aside /\ Guarded /\ Saving
  BY <1>1, <1>2, NewManagerTyped DEF Managers, Importing, Resting, Aside, Guarded, Saving
<1> QED
  BY <1>5, <1>6 DEF SaveInv

-----------------------------------------------------------------------------
(* The theorems                                                                *)

\* The files, the managers and the operation under way fit together as SaveInv says,
\* whatever fails, dies or goes away.
THEOREM SavingIsSound == Spec => [](Inv /\ Counted /\ SaveInv)
<1>1. Init => SaveInv
  BY InitSaves
<1>2. Inv /\ SaveInv /\ [Next]_vars => SaveInv'
  BY StepKeepsSaveInv
<1>3. Spec => []Inv
  BY VaultInvariance
<1>4. Spec => []Counted
  <2>1. Counted /\ MigrationInv => Counted
    OBVIOUS
  <2> QED
    BY <2>1, MigrationIsSafe, PTL
<1> QED
  BY <1>1, <1>2, <1>3, <1>4, PTL DEF Spec

LEMMA SaveInvTypeOK ==
    ASSUME Inv, Counted, SaveInv
    PROVE  TypeOK
<1>1. /\ {native, fallback, keysMade} \subseteq Nat /\ db.key \in Nat \union {Garbage}
      /\ db.doc \in [Slots -> Values] /\ connects.state \in {"none", "good", "corrupt"}
      /\ phase \in {"down", "started", "idle", "busy"}
      /\ profiles \in Seq(Profile) /\ legacy \in Seq(Profile) /\ vm \in Manager
      /\ result \in [all : BOOLEAN, any : BOOLEAN]
  BY DEF SaveInv, Typed, Document, Tidy, Remembered
<1>2. available \in BOOLEAN /\ at \in Nat \ {0}
  BY DEF Inv, Shape
<1>3. Len(prompt) <= 1
  <2>1. prompt = <<>> \/ Len(prompt) = 1
    BY DEF SaveInv, Typed
  <2>2. CASE prompt = <<>>
    <3>1. Len(<<>>) = 0
      OBVIOUS
    <3>2. Len(prompt) = 0
      BY <2>2, <3>1
    <3> QED
      BY <3>2
  <2>3. CASE Len(prompt) = 1
    BY <2>3
  <2> QED
    BY <2>1, <2>2, <2>3
<1>4. spent \in [DOMAIN Bound -> Nat]
  BY DEF Counted, Budget, Bound
<1> QED
  BY <1>1, <1>2, <1>3, <1>4 DEF TypeOK

\* What is kept is what loading gives back, one secret for each stored key.
LEMMA KeptReloads ==
    ASSUME Typed, Kept(profiles), Opens(KeyFound)
    PROVE  /\ connects.state \in {"good", "none"} /\ Len(Reloaded) = Len(profiles)
           /\ \A i \in DOMAIN profiles :
                 /\ \A f \in {"id", "auth", "save"} : Reloaded[i][f] = profiles[i][f]
                 /\ \E j \in DOMAIN profiles : /\ profiles[j].auth = profiles[i].auth
                                             /\ profiles[i].auth \notin StoredKeyIds => j = i
                                             /\ Reloaded[i].secret = profiles[j].secret
<1> DEFINE P == profiles
           doc == db.doc
           Q == LoadedProfiles(Meta(P), doc)
<1>1. /\ Tidy(P) /\ Document(doc) /\ HasNoOther(P, doc) /\ HasAll(P, doc)
      /\ connects.state = "good" /\ connects.list = Meta(P)
  BY DEF Typed, Kept
<1>2. Reloaded = Q
  BY <1>1 DEF Reloaded
<1>3. /\ DOMAIN Q = DOMAIN P /\ HasAll(Q, doc)
      /\ \A i \in DOMAIN P : /\ Q[i].id = P[i].id /\ Q[i].auth = P[i].auth /\ Q[i].save = P[i].save
                             /\ P[i].save /\ P[i].auth \in StoredKeyIds =>
                                    Q[i].secret = Secret(doc, Phrase(P[i].auth))
                             /\ ~P[i].save => Q[i].secret = NoSecret
  BY <1>1, LoadedIsKept
<1>4. Tidy(Q)
  BY <1>1, MetaTyped, LoadedIsTidy
<1> HIDE DEF P, doc, Q
<1>5. P \in Seq(Profile) /\ Q \in Seq(Profile)
  BY <1>1, <1>4 DEF Tidy
<1>6. Len(Q) = Len(P)
  <2>1. Len(Q) \in Nat /\ Len(P) \in Nat /\ DOMAIN Q = 1..Len(Q) /\ DOMAIN P = 1..Len(P)
    BY <1>5
  <2>2. \A m, n \in Nat : 1..m = 1..n => m = n
    <3> SUFFICES ASSUME NEW m \in Nat, NEW n \in Nat, 1..m = 1..n PROVE m = n
      OBVIOUS
    <3>1. m \in 1..m \/ m = 0
      OBVIOUS
    <3>2. n \in 1..n \/ n = 0
      OBVIOUS
    <3> QED
      BY <3>1, <3>2
  <2> QED
    BY <1>3, <2>1, <2>2
<1>7. ASSUME NEW i \in DOMAIN P
      PROVE  \E j \in DOMAIN P : /\ P[j].auth = P[i].auth
                                 /\ P[i].auth \notin StoredKeyIds => j = i
                                 /\ Q[i].secret = P[j].secret
  <2>1. /\ P[i].auth \in Auths /\ P[i].save \in BOOLEAN
        /\ Q[i].id = P[i].id /\ Q[i].auth = P[i].auth /\ Q[i].save = P[i].save
    BY <1>3, <1>5, ProfileSlots
  <2>2. CASE ~P[i].save
    <3>1. P[i].secret = NoSecret
      BY <1>1, <2>2 DEF Tidy
    <3> QED
      BY <1>3, <2>2, <3>1
  <2>3. CASE P[i].save /\ P[i].auth = "password"
    <3>1. Secret(doc, PasswordSlot(P[i])) = P[i].secret
      BY <1>1, <2>3 DEF HasAll
    <3>2. Secret(doc, PasswordSlot(Q[i])) = Q[i].secret
      BY <1>3, <2>1, <2>3 DEF HasAll
    <3>3. PasswordSlot(Q[i]) = PasswordSlot(P[i])
      BY <2>1 DEF PasswordSlot
    <3> QED
      BY <3>1, <3>2, <3>3
  <2>4. CASE P[i].save /\ P[i].auth = "keyFile"
    <3>1. Secret(doc, PassphraseSlot(P[i])) = P[i].secret
      BY <1>1, <2>4 DEF HasAll
    <3>2. Secret(doc, PassphraseSlot(Q[i])) = Q[i].secret
      BY <1>3, <2>1, <2>4 DEF HasAll
    <3>3. PassphraseSlot(Q[i]) = PassphraseSlot(P[i])
      BY <2>1 DEF PassphraseSlot
    <3> QED
      BY <3>1, <3>2, <3>3
  <2>5. CASE P[i].save /\ P[i].auth \in StoredKeyIds
    <3> DEFINE k == P[i].auth
    <3>1. Q[i].secret = Secret(doc, Phrase(k))
      BY <1>3, <2>5
    <3>2. CASE Owners(P, k) = {}
      <4>1. Q[i].secret = NoSecret
        BY <1>1, <2>5, <3>1, <3>2 DEF HasAll
      <4>2. P[i].secret = NoSecret
        BY <2>5, <3>2 DEF Owners
      <4> QED
        BY <4>1, <4>2
    <3>3. CASE Owners(P, k) # {}
      <4>1. PICK j \in Owners(P, k) : doc[Phrase(k)] = P[j].secret
        BY <1>1, <2>5, <3>3 DEF HasAll
      <4>2. j \in DOMAIN P /\ P[j].auth = k
        BY <4>1 DEF Owners
      <4>3. P[j].secret # Unset
        <5>1. P[j] \in Profile
          BY <1>5, <4>2, ProfileSlots
        <5> QED
          BY <5>1, ConstantsAssumption DEF Profile, Unset, NoSecret
      <4>4. Q[i].secret = P[j].secret
        BY <3>1, <4>1, <4>3 DEF Secret
      <4> QED
        BY <2>5, <4>2, <4>4
    <3> QED
      BY <3>2, <3>3
  <2> QED
    BY <2>1, <2>2, <2>3, <2>4, <2>5 DEF Auths
<1>8. ASSUME NEW i \in DOMAIN P, NEW f \in {"id", "auth", "save"}
      PROVE  Q[i][f] = P[i][f]
  BY <1>3
<1> QED
  BY <1>1, <1>2, <1>6, <1>7, <1>8 DEF P

\* A save that reported success is durable, and holds no secret the user did not opt in
\* to keep: once it is over the files are those of the list in memory (Resting).
THEOREM WhatWasSavedIsThere == Spec => []SavedIsWhatWasAsked
<1>1. Inv /\ Counted /\ SaveInv => SavedIsDurable
  <2> SUFFICES ASSUME Inv, Counted, SaveInv PROVE SavedIsDurable
    OBVIOUS
  <2>1. TypeOK
    BY SaveInvTypeOK
  <2>2. ASSUME phase = "idle", saved, ~damaged PROVE Typed /\ Kept(profiles)
    BY <2>2 DEF SaveInv, Resting
  <2> QED
    BY <2>1, <2>2, KeptReloads DEF SavedIsDurable
<1>2. SaveInv => OnlyOptedIn
  <2> SUFFICES ASSUME SaveInv, phase = "idle", saved, ~damaged, NEW i \in DOMAIN profiles
               PROVE  LET p == profiles[i] IN
                      /\ db.doc[<<p.id, "password">>] \in Secrets => p.auth = "password" /\ p.save
                      /\ db.doc[<<p.id, "keyPassphrase">>] \in Secrets => p.auth = "keyFile" /\ p.save
                      /\ p.auth \in StoredKeyIds /\ db.doc[<<p.auth, "passphrase">>] \in Secrets =>
                             \E j \in DOMAIN profiles : profiles[j].auth = p.auth /\ profiles[j].save
    BY DEF OnlyOptedIn
  <2>1. HasNoOther(profiles, db.doc)
    BY DEF SaveInv, Resting, Kept
  <2> QED
    BY <2>1 DEF HasNoOther, PasswordSlot, PassphraseSlot, Phrase
<1>3. Inv /\ Counted /\ SaveInv => SavedIsWhatWasAsked
  BY <1>1, <1>2 DEF SavedIsWhatWasAsked
<1> QED
  BY <1>3, SavingIsSound, PTL

\* A profile that an operation leaves alone keeps its secret, wherever the operation is:
\* neither the file nor the manager's document nor a call to come has another value
\* for its slot (Guarded).
THEOREM BystandersAreKept == Spec => []BystandersKeepSecrets
<1>1. SaveInv => BystandersKeepSecrets
  <2> SUFFICES ASSUME SaveInv, phase = "busy", saved, ~damaged, NEW i \in DOMAIN profiles,
                      NEW p, p = profiles[i],
                      \E j \in DOMAIN op.target : op.target[j] = p, p.save, p.secret # NoSecret
               PROVE  /\ p.auth = "password" => db.doc[<<p.id, "password">>] = p.secret
                      /\ p.auth = "keyFile" => db.doc[<<p.id, "keyPassphrase">>] = p.secret
                      /\ p.auth \in StoredKeyIds =>
                             db.doc[<<p.auth, "passphrase">>] \in
                                {q.secret : q \in {q \in Range(profiles) \union Range(op.target) : q.auth = p.auth}}
    BY DEF BystandersKeepSecrets
  <2>1. LeftAlone(p)
    BY DEF LeftAlone, Range
  <2>2. IF p.auth \in StoredKeyIds
        THEN db.doc[SlotOf(p)] \in
                {q.secret : q \in {q \in Range(profiles) \union Range(op.target) : q.auth = p.auth}}
        ELSE db.doc[SlotOf(p)] = p.secret
    <3>1. CASE SavesProfiles
      <4>1. db.doc[SlotOf(p)] \in MayHold(p)
        BY <2>1, <3>1 DEF SaveInv, Guarded
      <4> QED
        BY <4>1 DEF MayHold
    <3>2. CASE ~SavesProfiles
      <4>1. Kept(profiles) /\ Tidy(profiles)
        BY <3>2 DEF SaveInv, Aside, Typed
      <4>2. IF p.auth \in StoredKeyIds
            THEN \E q \in Range(profiles) : q.auth = p.auth /\ db.doc[SlotOf(p)] = q.secret
            ELSE db.doc[SlotOf(p)] = p.secret
        BY <4>1, KeptHolds
      <4> QED
        BY <4>2
    <3> QED
      BY <3>1, <3>2
  <2>3. {"password", "keyFile"} \intersect StoredKeyIds = {}
    BY ConstantsAssumption
  <2> QED
    BY <2>2, <2>3 DEF SlotOf, PasswordSlot, PassphraseSlot, Phrase
<1>2. Inv /\ Counted /\ SaveInv => BystandersKeepSecrets
  BY <1>1
<1> QED
  BY <1>2, SavingIsSound, PTL
====
