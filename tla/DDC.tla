-------------------------------- MODULE DDC --------------------------------
(***************************************************************************)
(* DecryptedDataContainer (src/cppForSwig/DecryptedDataContainer.cpp):    *)
(* the master encryption key of a wallet, wrapped by ciphers each bound to *)
(* an unlocker (a passphrase, or the default key), the recursive key       *)
(* unwrapping of populateEncryptionKey with its passphrase prompt, and     *)
(* encryptEncryptionKey, which changes the set of unlockers with three     *)
(* write transactions (temp copy, permanent key, temp removal).            *)
(*                                                                         *)
(* The wallet database is used at the level of WalletKV, which WalletDB    *)
(* implements: `store` maps the permanent entry (ENCRYPTIONKEY_PREFIX |    *)
(* key id) and the temp entry (ENCRYPTIONKEY_PREFIX_TEMP | key id) of the  *)
(* master key to the set of unlockers of its cipher data.  A commit whose  *)
(* last effect on a key erases a key the file does not hold throws, as     *)
(* ~WalletIfaceTransaction does, and the exception ends the process.       *)
(***************************************************************************)
EXTENDS Naturals, Sequences, FiniteSets

CONSTANTS
    Passphrases,        \* passphrases the user may type or set
    DefaultKey,         \* defaultEncryptionKeyId_
    MasterKey,          \* id of the master encryption key
    NoPass,             \* the passphrase lambda returns an empty passphrase
    Absent,             \* no entry in the store
    NoLock,             \* lockedDecryptedData_ is null (container unlocked)
    NestedInCallerTx,   \* may a caller run encryptEncryptionKey inside its
                        \* own write transaction?
    MaxChanges,         \* bound on encryptEncryptionKey calls
    MaxCrashes          \* bound on process crashes

ASSUME /\ NestedInCallerTx \in BOOLEAN
       /\ MaxChanges \in Nat /\ MaxCrashes \in Nat

VARIABLES
    store,       \* the wallet database: "perm"/"temp" -> unlockers or Absent
    up,          \* the process runs and has read the container from disk
    encrKey,     \* encryptionKeyMap_[MasterKey]: unlockers of its cipher data
    dec,         \* key ids in lockedDecryptedData_->encryptionKeys_, or NoLock
    privDec,     \* private data decrypted in this lock (privateData_)
    pc,          \* where encryptEncryptionKey is: idle/temp/perm/deltemp/outer
    call,        \* arguments of the running encryptEncryptionKey
    staged,      \* operations staged in the caller's write transaction
    err,         \* the last exception a call threw, or None
    changes, crashes

vars == <<store, up, encrKey, dec, privDec, pc, call, staged, err,
          changes, crashes>>

Unlockers == {DefaultKey} \cup Passphrases
StoreKeys == {"perm", "temp"}
None == "none"
Op == [key : StoreKeys, write : BOOLEAN, val : SUBSET Unlockers \cup {Absent}]

-----------------------------------------------------------------------------
(* populateEncryptionKey(keyMap): make one key of keyMap decrypted.  It     *)
(* takes a decrypted one, else unwraps one of keyMap found in               *)
(* encryptionKeyMap_ after populating the keys of its ciphers (recursion),  *)
(* else prompts.  `typed` is what the passphrase lambda returns; a          *)
(* passphrase matching no key id of keyMap makes promptPassphrase ask       *)
(* again, so the call does not return with that answer ("retry").          *)
RECURSIVE populateEncryptionKey(_, _, _, _)
populateEncryptionKey(encMap, keyMap, d, typed) ==
    LET enc == keyMap \cap DOMAIN encMap
    IN  IF keyMap \cap d # {} THEN [dec |-> d, err |-> None]
        ELSE IF enc # {}
        THEN LET k == CHOOSE x \in enc : TRUE
                 r == populateEncryptionKey(encMap, encMap[k], d, typed)
             IN  IF r.err # None THEN r
                 ELSE IF r.dec \cap encMap[k] = {}
                      THEN [dec |-> d, err |-> "failed to decrypt key"]
                      ELSE [dec |-> r.dec \cup {k}, err |-> None]
        ELSE IF typed = NoPass THEN [dec |-> d, err |-> "empty passphrase"]
        ELSE IF typed \in keyMap THEN [dec |-> d \cup {typed}, err |-> None]
        ELSE [dec |-> d, err |-> "retry"]

EncrMap == [k \in {MasterKey} |-> encrKey]

\* what the caller's write transaction sees for store key k (getDataRef)
View(k) ==
    LET hits == {i \in 1 .. Len(staged) : staged[i].key = k}
    IN  IF hits = {} THEN store[k]
        ELSE staged[CHOOSE i \in hits : \A j \in hits : j <= i].val

\* one write transaction of encryptEncryptionKey: committed on its own, or
\* staged into the caller's transaction
WriteTx(ops) ==
    IF call.nested
    THEN /\ staged' = staged \o ops
         /\ UNCHANGED store
    ELSE /\ store' = [k \in StoreKeys |->
                LET mine == {i \in 1 .. Len(ops) : ops[i].key = k}
                IN  IF mine = {} THEN store[k]
                    ELSE ops[CHOOSE i \in mine : \A j \in mine : j <= i].val]
         /\ UNCHANGED staged

Put(k, v) == [key |-> k, write |-> TRUE, val |-> v]
Del(k) == [key |-> k, write |-> FALSE, val |-> Absent]

\* updateKeyOnDiskNoPrefix(k, encryptedKey): nothing if the entry already
\* holds the same data, else erase the old entry (if any) and insert
updateKeyOnDiskNoPrefix(k) ==
    IF View(k) = encrKey THEN <<>>
    ELSE IF View(k) # Absent THEN <<Del(k), Put(k, encrKey)>>
    ELSE <<Put(k, encrKey)>>

\* mutant: a getDataRef that misses the erase staged in the same transaction
PermOps_staleView == <<Del("perm")>> \o updateKeyOnDiskNoPrefix("perm")

\* the permanent key's transaction: deleteKeyFromDisk(perm_key), then
\* updateKeyOnDiskNoPrefix(perm_key, ...), whose getDataRef sees the erase
PermOps == <<Del("perm"), Put("perm", encrKey)>>

NoCall == [new |-> NoPass, replace |-> FALSE, nested |-> FALSE]

-----------------------------------------------------------------------------
Init ==
    /\ store \in {[k \in StoreKeys |-> IF k = "perm" THEN {u} ELSE Absent] :
                    u \in Unlockers}
    /\ up = FALSE
    /\ encrKey = {}
    /\ dec = NoLock
    /\ privDec = FALSE
    /\ pc = "idle"
    /\ call = NoCall
    /\ staged = <<>>
    /\ err = None
    /\ changes = 0
    /\ crashes = 0

\* readFromDisk: the ENCRYPTIONKEY_PREFIX entries become encryptionKeyMap_;
\* the ENCRYPTIONKEY_PREFIX_TEMP entry falls in the switch's default case
readFromDisk ==
    /\ ~up
    /\ up' = TRUE
    /\ encrKey' = store["perm"]
    /\ UNCHANGED <<store, dec, privDec, pc, call, staged, err, changes, crashes>>

\* mutant: the lock starts without the default key
initAfterLock_noDefault ==
    /\ up /\ pc \in {"idle", "outer"} /\ dec = NoLock
    /\ dec' = {}
    /\ UNCHANGED <<store, up, encrKey, privDec, pc, call, staged, err,
                   changes, crashes>>

\* ReentrantLock on an unlocked container: initAfterLock
initAfterLock ==
    /\ up /\ pc \in {"idle", "outer"} /\ dec = NoLock
    /\ dec' = {DefaultKey}
    /\ UNCHANGED <<store, up, encrKey, privDec, pc, call, staged, err,
                   changes, crashes>>

\* release of the last lock: cleanUpBeforeUnlock
cleanUpBeforeUnlock ==
    /\ up /\ pc \in {"idle", "outer"} /\ dec # NoLock
    /\ dec' = NoLock
    /\ privDec' = FALSE
    /\ UNCHANGED <<store, up, encrKey, pc, call, staged, err, changes, crashes>>

\* getDecryptedPrivateData of data encrypted with the master key; a thrown
\* exception leaves the container as it was
getDecryptedPrivateData(typed) ==
    /\ up /\ pc \in {"idle", "outer"} /\ dec # NoLock /\ ~privDec
    /\ LET r == populateEncryptionKey(EncrMap, {MasterKey}, dec, typed)
       IN  \/ /\ r.err = None
              /\ dec' = r.dec
              /\ privDec' = TRUE
              /\ err' = None
           \/ /\ r.err \notin {None, "retry"}
              /\ err' = r.err
              /\ UNCHANGED <<dec, privDec>>
    /\ UNCHANGED <<store, up, encrKey, pc, call, staged, changes, crashes>>

(* encryptEncryptionKey(MasterKey, kdf, new, replace) up to its first write  *)
(* transaction: SingleLock (no lock may be held), populate the master key,  *)
(* pick the decrypted key that has a cipher, insert the new key, remove the *)
(* picked cipher if replace, add the new one.  A throw leaves the in-memory *)
(* key as far as the code got and the SingleLock released.                  *)
encryptEncryptionKey(new, replace, typed, nested) ==
    /\ up /\ pc = "idle" /\ dec = NoLock
    /\ changes < MaxChanges
    /\ nested => NestedInCallerTx
    /\ LET r      == populateEncryptionKey(EncrMap, {MasterKey}, {DefaultKey}, typed)
           picked == CHOOSE u \in r.dec \cap encrKey : TRUE
           kept   == IF replace THEN encrKey \ {picked} ELSE encrKey
       IN  \/ /\ r.err = None
              /\ new \notin kept
              /\ encrKey' = kept \cup {new}
              /\ dec' = r.dec \cup {new}
              /\ pc' = "temp"
              /\ call' = [new |-> new, replace |-> replace, nested |-> nested]
              /\ err' = None
           \/ /\ r.err = None
              /\ new \in kept
              /\ encrKey' = kept
              /\ err' = "cipher data already present in encryption key"
              /\ UNCHANGED <<dec, pc, call>>
           \/ /\ r.err \notin {None, "retry"}
              /\ err' = r.err
              /\ UNCHANGED <<encrKey, dec, pc, call>>
    /\ changes' = changes + 1
    /\ UNCHANGED <<store, up, privDec, staged, crashes>>

\* first transaction: the new encrypted key under the temp key
WriteTemp ==
    /\ pc = "temp"
    /\ WriteTx(updateKeyOnDiskNoPrefix("temp"))
    /\ pc' = "perm"
    /\ UNCHANGED <<up, encrKey, dec, privDec, call, err, changes, crashes>>

\* second transaction: wipe and rewrite the permanent key
WritePerm ==
    /\ pc = "perm"
    /\ WriteTx(PermOps)
    /\ pc' = "deltemp"
    /\ UNCHANGED <<up, encrKey, dec, privDec, call, err, changes, crashes>>

\* third transaction: wipe the temp key; the SingleLock goes out of scope
DelTemp ==
    /\ pc = "deltemp"
    /\ WriteTx(<<Del("temp")>>)
    /\ pc' = IF call.nested THEN "outer" ELSE "idle"
    /\ dec' = NoLock
    /\ call' = IF call.nested THEN call ELSE NoCall
    /\ UNCHANGED <<up, encrKey, privDec, err, changes, crashes>>

\* updateOnDisk: rewrite the master key's entry if it differs from memory;
\* deleteKeyFromDisk refuses a container that is not locked
updateOnDisk ==
    /\ up /\ pc \in {"idle", "outer"}
    /\ View("perm") # encrKey
    /\ \/ /\ View("perm") = Absent \/ dec # NoLock
          /\ WriteTx(updateKeyOnDiskNoPrefix("perm"))
          /\ err' = None
       \/ /\ View("perm") # Absent /\ dec = NoLock
          /\ err' = "unlocked/does not own lock"
          /\ UNCHANGED <<store, staged>>
    /\ UNCHANGED <<up, encrKey, dec, privDec, pc, call, changes, crashes>>

\* the last operation staged for each store key (the commit loop of
\* ~WalletIfaceTransaction keeps one entry per key)
LastOps == {staged[i] : i \in {i \in 1 .. Len(staged) :
                \A j \in i + 1 .. Len(staged) : staged[j].key # staged[i].key}}

\* the caller closes its write transaction: an erase of a key the file does
\* not hold throws from the destructor, which ends the process
CloseOuter ==
    /\ pc = "outer"
    /\ IF \E o \in LastOps : ~o.write /\ store[o.key] = Absent
       THEN /\ up' = FALSE
            /\ err' = "key marked for deletion when it does not exist"
            /\ dec' = NoLock
            /\ privDec' = FALSE
            /\ UNCHANGED store
       ELSE /\ store' = [k \in StoreKeys |->
                    IF \E o \in LastOps : o.key = k
                    THEN (CHOOSE o \in LastOps : o.key = k).val
                    ELSE store[k]]
            /\ UNCHANGED <<up, err, dec, privDec>>
    /\ pc' = "idle"
    /\ call' = NoCall
    /\ staged' = <<>>
    /\ UNCHANGED <<encrKey, changes, crashes>>

\* the process dies between two steps: uncommitted work and memory are lost
Crash ==
    /\ up
    /\ crashes < MaxCrashes
    /\ up' = FALSE
    /\ encrKey' = {}
    /\ dec' = NoLock
    /\ privDec' = FALSE
    /\ pc' = "idle"
    /\ call' = NoCall
    /\ staged' = <<>>
    /\ err' = None
    /\ crashes' = crashes + 1
    /\ UNCHANGED <<store, changes>>

Typed == Passphrases \cup {NoPass}

Next ==
    \/ readFromDisk
    \/ initAfterLock
    \/ cleanUpBeforeUnlock
    \/ \E typed \in Typed : getDecryptedPrivateData(typed)
    \/ \E new \in Passphrases, replace, nested \in BOOLEAN, typed \in Typed :
          encryptEncryptionKey(new, replace, typed, nested)
    \/ WriteTemp
    \/ WritePerm
    \/ DelTemp
    \/ updateOnDisk
    \/ CloseOuter
    \/ Crash

Spec == Init /\ [][Next]_vars

-----------------------------------------------------------------------------
(* Properties *)

\* Type invariant.  A live lock always holds the default key that
\* initAfterLock copies in.
TypeOK ==
    /\ store \in [StoreKeys -> SUBSET Unlockers \cup {Absent}]
    /\ up \in BOOLEAN
    /\ encrKey \in SUBSET Unlockers
    /\ dec = NoLock \/ (dec \subseteq Unlockers \cup {MasterKey} /\ DefaultKey \in dec)
    /\ privDec \in BOOLEAN
    /\ pc \in {"idle", "temp", "perm", "deltemp", "outer"}
    /\ staged \in Seq(Op)
    /\ changes \in 0 .. MaxChanges /\ crashes \in 0 .. MaxCrashes

\* after readFromDisk of the entry S, answering the prompt with u (or
\* nothing, for the default key) makes populateEncryptionKey decrypt the
\* master key
Unlocks(S, u) ==
    populateEncryptionKey([k \in {MasterKey} |-> S], {MasterKey}, {DefaultKey},
                          IF u = DefaultKey THEN NoPass ELSE u).err = None

\* Whatever the interleaving of passphrase changes, crashes between their
\* three transactions and failed calls, the permanent entry of the master key
\* is present on disk and every unlocker it lists opens the master key again
\* after a reload.
Unlockable ==
    /\ store["perm"] \notin {Absent, {}}
    /\ \A u \in store["perm"] : Unlocks(store["perm"], u)

\* encryptEncryptionKey with replace = false adds a passphrase: a commit it
\* makes to the permanent entry never drops an unlocker that was on disk.
AddKeepsUnlockers ==
    [][ (pc # "idle" /\ ~call.replace /\ store["perm"] # Absent
            /\ store'["perm"] # store["perm"])
        => store["perm"] \subseteq store'["perm"] ]_vars

\* The caller's write transaction that encryptEncryptionKey runs in commits
\* (each high-level operation is one outermost transaction).
CallerTxCommits ==
    err # "key marked for deletion when it does not exist"
=============================================================================
