-------------------------- MODULE MetaDataAccount --------------------------
(***************************************************************************)
(* MetaDataAccount with its Comments and AuthPeers conversions             *)
(* (src/cppForSwig/Accounts.cpp): assets_ keyed by an index, the           *)
(* needsCommit flag of each asset, updateOnDisk, which writes the flagged  *)
(* assets and drops the cleared ones, index allocation by assets_.size(),  *)
(* and readFromDisk after a restart.                                       *)
(*                                                                         *)
(* An asset is its kind, its key (the comment's key, or the peer's public  *)
(* key) and its value (the comment, the peer's names, the root key's       *)
(* description or the signature), or Empty once clear() wiped it, so that  *)
(* serialize() returns nothing.  The database is used at the level of      *)
(* WalletKV, as in DDC: `disk` maps <<account, index>> to what is stored.  *)
(* A commit whose last effect on a key erases a key the file does not     *)
(* hold throws from ~WalletIfaceTransaction, which ends the process.       *)
(***************************************************************************)
EXTENDS Naturals, FiniteSets, FiniteSetsExt, TLC

CONSTANTS
    Keys,              \* comment keys and peer public keys
    Values,            \* comments, peer names, descriptions, signatures
    Empty,             \* the value of a cleared asset
    NestedInCallerTx,  \* operations run inside a caller's transaction
    CommitCalled,      \* a caller also uses MetaDataAccount::commit
    MaxAssets,         \* bound on the assets of the AuthPeers account
    MaxCrashes         \* bound on process crashes

ASSUME /\ Empty \notin Values /\ NestedInCallerTx \in BOOLEAN /\ CommitCalled \in BOOLEAN
       /\ MaxAssets \in Nat /\ MaxCrashes \in Nat

VARIABLES
    assets,     \* assets_ of each account: index -> asset with needsCommit
    disk,       \* the committed store: <<account, index>> -> asset
    staged,     \* the caller's transaction: <<account, index>> -> asset or Del
    up,         \* the process runs and has read both accounts
    ret,        \* what the last index-returning call handed back
    thrown,     \* a commit threw and ended the process
    crashes

vars == <<assets, disk, staged, up, ret, thrown, crashes>>

Metas == {"comments", "authpeers"}
Del == [kind |-> "del", key |-> Empty, val |-> Empty]   \* an erase
None == -1
NoRet == [op |-> "none", m |-> "comments", idx |-> 0, key |-> Empty, val |-> Empty]

\* what serialize() writes: the asset without its needsCommit flag
Stored(a) == [kind |-> a.kind, key |-> a.key, val |-> a.val]

-----------------------------------------------------------------------------
(* The store *)

\* the store with the operations of a transaction applied
Apply(st, ops) ==
    [x \in (DOMAIN st \cup {y \in DOMAIN ops : ops[y] # Del})
             \ {y \in DOMAIN ops : ops[y] = Del} |->
        IF x \in DOMAIN ops THEN ops[x] ELSE st[x]]

\* later operations on a key replace earlier ones of the same transaction
Stage(ops, new) ==
    [x \in DOMAIN ops \cup DOMAIN new |->
        IF x \in DOMAIN new THEN new[x] ELSE ops[x]]

\* the commit in ~WalletIfaceTransaction throws for an erase of a key the
\* file does not hold
CommitThrows(ops) == \E x \in DOMAIN ops : ops[x] = Del /\ x \notin DOMAIN disk

\* the outermost transaction of ops closes: written, or the process ends
Commit(ops) ==
    IF CommitThrows(ops)
    THEN /\ up' = FALSE /\ thrown' = TRUE /\ UNCHANGED disk
    ELSE /\ disk' = Apply(disk, ops) /\ UNCHANGED <<up, thrown>>

\* one write transaction: its own outermost one, or staged in the caller's
Write(ops) ==
    IF NestedInCallerTx
    THEN /\ staged' = Stage(staged, ops) /\ UNCHANGED <<disk, up, thrown>>
    ELSE /\ Commit(ops) /\ UNCHANGED staged

-----------------------------------------------------------------------------
(* MetaDataAccount *)

\* mutant: the in-memory object, needsCommit flag included, is written
WriteOps_rawAsset(m, a) ==
    [x \in {<<m, i>> : i \in {j \in DOMAIN a : a[j].dirty}} |->
        IF a[x[2]].val = Empty THEN Del ELSE a[x[2]]]

\* mutant: a cleared asset is inserted with its empty serialization
WriteOps_insertEmpty(m, a) ==
    [x \in {<<m, i>> : i \in {j \in DOMAIN a : a[j].dirty}} |->
        Stored(a[x[2]])]

\* writeAssetToDisk for each asset that needsCommit: insert what it
\* serializes to, or erase it when that is empty
WriteOps(m, a) ==
    [x \in {<<m, i>> : i \in {j \in DOMAIN a : a[j].dirty}} |->
        IF a[x[2]].val = Empty THEN Del ELSE Stored(a[x[2]])]

\* updateOnDisk: nothing without an asset that needsCommit; otherwise one
\* write transaction, the flags cleared, and the erased assets dropped
updateOnDiskMap(a) ==
    [i \in {j \in DOMAIN a : ~(a[j].dirty /\ a[j].val = Empty)} |->
        [a[i] EXCEPT !.dirty = FALSE]]

UpdateOnDisk(m, a) ==
    IF \A i \in DOMAIN a : ~a[i].dirty
    THEN /\ assets' = [assets EXCEPT ![m] = a]
         /\ UNCHANGED <<disk, staged, up, thrown>>
    ELSE /\ assets' = [assets EXCEPT ![m] = updateOnDiskMap(a)]
         /\ Write(WriteOps(m, a))

\* commit's write transactions, one per flagged asset in index order (the
\* order of assets_), each its own outermost one: those before the first
\* erase of a key the file does not hold are written, and that one throws
CommitEach(m, a) ==
    LET ops  == WriteOps(m, a)
        bad  == {x \in DOMAIN ops : ops[x] = Del /\ x \notin DOMAIN disk}
        done == {x \in DOMAIN ops : \A y \in bad : x[2] < y[2]}
    IN  /\ disk' = Apply(disk, [x \in done |-> ops[x]])
        /\ IF bad = {} THEN UNCHANGED <<up, thrown>>
                       ELSE up' = FALSE /\ thrown' = TRUE

\* mutant: commit resets the flags but its writeAssetToDisk loop writes
\* nothing
commitMap_noWrite(m, a) ==
    /\ assets' = [assets EXCEPT ![m] = [i \in DOMAIN a |-> [a[i] EXCEPT !.dirty = FALSE]]]
    /\ UNCHANGED <<disk, staged, up, thrown>>

\* MetaDataAccount::commit: writeAssetToDisk for every asset, each in a
\* write transaction of its own (staged in the caller's, if one is open),
\* with needsCommit reset; unlike updateOnDisk it keeps a cleared asset in
\* assets_.  The account record it writes last is the account's type and
\* is left out.
commitMap(m, a) ==
    /\ assets' = [assets EXCEPT ![m] = [i \in DOMAIN a |-> [a[i] EXCEPT !.dirty = FALSE]]]
    /\ IF NestedInCallerTx
       THEN /\ staged' = Stage(staged, WriteOps(m, a))
            /\ UNCHANGED <<disk, up, thrown>>
       ELSE /\ CommitEach(m, a)
            /\ UNCHANGED staged

\* the index a new asset gets: assets_.size()
NextIndex(m) == Cardinality(DOMAIN assets[m])

\* assets_.emplace(index, asset): nothing when the index is taken
Emplace(a, i, x) == IF i \in DOMAIN a THEN a ELSE a @@ (i :> x)

-----------------------------------------------------------------------------
Init ==
    /\ assets = [m \in Metas |-> <<>>]
    /\ disk = <<>>
    /\ staged = <<>>
    /\ up = TRUE
    /\ ret = NoRet
    /\ thrown = FALSE
    /\ crashes = 0

\* getByKey: the first comment asset with that key, or none
getByKey(k) ==
    LET a == assets["comments"]
        hits == {i \in DOMAIN a : a[i].kind = "comment" /\ a[i].key = k}
    IN  IF hits = {} THEN None ELSE Min(hits)

\* CommentAssetConversion::setAsset(key, comment), comment not empty: the
\* asset of the key, else a new one at assets_.size(); setValue,
\* flagForCommit, updateOnDisk, and its index is returned
setAsset(k, v) ==
    LET a   == assets["comments"]
        i   == IF getByKey(k) # None THEN getByKey(k) ELSE NextIndex("comments")
        obj == [kind |-> "comment", key |-> k, val |-> v, dirty |-> TRUE]
        a2  == IF getByKey(k) # None THEN [a EXCEPT ![i] = obj]
               ELSE Emplace(a, i, obj)
    IN  /\ up
        /\ UpdateOnDisk("comments", a2)
        /\ ret' = [op |-> "set", m |-> "comments", idx |-> i, key |-> k, val |-> v]
        /\ UNCHANGED crashes

\* CommentAssetConversion::deleteAsset(key): clear the asset of the key
\* and updateOnDisk; -1 when there is none
deleteAsset(k) ==
    LET i == getByKey(k)
    IN  /\ up
        /\ i # None
        /\ UpdateOnDisk("comments",
              [assets["comments"] EXCEPT ![i].val = Empty, ![i].dirty = TRUE])
        /\ ret' = NoRet
        /\ UNCHANGED crashes

\* AuthPeerAssetConversion::addAsset (a peer), addRootPeer (a root key)
\* and addRootSignature: a new asset at assets_.size(), flagForCommit and
\* updateOnDisk
AddPeerAsset(kind, k, v) ==
    LET i   == NextIndex("authpeers")
        obj == [kind |-> kind, key |-> k, val |-> v, dirty |-> TRUE]
    IN  /\ up
        /\ i < MaxAssets
        /\ UpdateOnDisk("authpeers", Emplace(assets["authpeers"], i, obj))
        /\ ret' = [op |-> kind, m |-> "authpeers", idx |-> i, key |-> k, val |-> v]
        /\ UNCHANGED crashes

addAsset(k, v) == AddPeerAsset("peer", k, v)
addRootPeer(k, v) == AddPeerAsset("rootkey", k, v)
addRootSignature(k, v) == AddPeerAsset("rootsig", k, v)

\* MetaDataAccount::eraseMetaDataByIndex: clear() the asset, if any; the
\* erase reaches the disk at the next updateOnDisk
eraseMetaDataByIndex(m, i) ==
    /\ up
    /\ i \in DOMAIN assets[m]
    /\ assets' = [assets EXCEPT ![m][i].val = Empty, ![m][i].dirty = TRUE]
    /\ ret' = NoRet
    /\ UNCHANGED <<disk, staged, up, thrown, crashes>>

\* a caller's MetaDataAccount::updateOnDisk
updateOnDisk(m) ==
    /\ up
    /\ UpdateOnDisk(m, assets[m])
    /\ ret' = NoRet
    /\ UNCHANGED crashes

\* a caller's MetaDataAccount::commit
commit(m) ==
    /\ up /\ CommitCalled
    /\ commitMap(m, assets[m])
    /\ ret' = NoRet
    /\ UNCHANGED crashes

\* the caller's outermost transaction closes
CommitOuter ==
    /\ NestedInCallerTx /\ up /\ staged # <<>>
    /\ Commit(staged)
    /\ staged' = <<>>
    /\ ret' = NoRet
    /\ UNCHANGED <<assets, crashes>>

\* the process dies; uncommitted writes are lost
Crash ==
    /\ up /\ crashes < MaxCrashes
    /\ up' = FALSE
    /\ staged' = <<>>
    /\ ret' = NoRet
    /\ crashes' = crashes + 1
    /\ UNCHANGED <<assets, disk, thrown>>

\* MetaDataAccount::readFromDisk of each account: reset(), then every
\* stored asset under the account's prefix, keyed by its index
readFromDisk ==
    /\ ~up
    /\ up' = TRUE
    /\ assets' = [m \in Metas |->
                    [i \in {x[2] : x \in {y \in DOMAIN disk : y[1] = m}} |->
                        [kind  |-> disk[<<m, i>>].kind,
                         key   |-> disk[<<m, i>>].key,
                         val   |-> disk[<<m, i>>].val,
                         dirty |-> FALSE]]]
    /\ staged' = <<>>
    /\ ret' = NoRet
    /\ UNCHANGED <<disk, thrown, crashes>>

Next ==
    \/ \E k \in Keys, v \in Values :
          \/ setAsset(k, v)
          \/ addAsset(k, v) \/ addRootPeer(k, v) \/ addRootSignature(k, v)
    \/ \E k \in Keys : deleteAsset(k)
    \/ \E m \in Metas, i \in 0 .. MaxAssets - 1 : eraseMetaDataByIndex(m, i)
    \/ \E m \in Metas : updateOnDisk(m)
    \/ \E m \in Metas : commit(m)
    \/ CommitOuter
    \/ Crash
    \/ readFromDisk

Spec == Init /\ [][Next]_vars

-----------------------------------------------------------------------------
(* Properties *)

Kinds == {"comment", "peer", "rootkey", "rootsig"}
StoredAsset == [kind : Kinds, key : Keys, val : Values \cup {Empty}]
Index == 0 .. MaxAssets

TypeOK ==
    /\ \A m \in Metas :
          /\ DOMAIN assets[m] \subseteq Index
          /\ \A i \in DOMAIN assets[m] :
                assets[m][i] \in [kind : Kinds, key : Keys,
                                  val : Values \cup {Empty}, dirty : BOOLEAN]
    /\ DOMAIN disk \subseteq Metas \X Index
    /\ \A x \in DOMAIN disk : disk[x] \in StoredAsset
    /\ DOMAIN staged \subseteq Metas \X Index
    /\ \A x \in DOMAIN staged : staged[x] \in StoredAsset \cup {Del}
    /\ up \in BOOLEAN /\ thrown \in BOOLEAN /\ crashes \in 0 .. MaxCrashes

\* what the accounts in memory serialize to: a cleared asset, which commit
\* keeps in assets_, serializes to nothing
Persisted ==
    [x \in UNION {{<<m, i>> : i \in {j \in DOMAIN assets[m] :
                                          assets[m][j].val # Empty}} : m \in Metas} |->
        Stored(assets[x[1]][x[2]])]

\* Whenever no asset needsCommit and no caller's transaction is open, the
\* committed store holds exactly what the accounts hold in memory:
\* updateOnDisk wrote every flagged asset, erased every cleared one and
\* dropped it from assets_, so a restart (readFromDisk) loads the same
\* comments and peers.
DiskMatchesMemory ==
    (up /\ staged = <<>> /\ \A m \in Metas : \A i \in DOMAIN assets[m] :
                                                ~assets[m][i].dirty)
        => disk = Persisted

\* The index setAsset, addAsset or addRootPeer returns names the asset it
\* just stored: getMetaDataByIndex of it gives that key and value.
IndexNamesAsset ==
    (up /\ ret.op # "none") =>
        /\ ret.idx \in DOMAIN assets[ret.m]
        /\ assets[ret.m][ret.idx].key = ret.key
        /\ assets[ret.m][ret.idx].val = ret.val

\* No commit of the accounts' writes throws: an erase that updateOnDisk
\* writes for a cleared asset always finds the asset in the file.  Not
\* checked by a run: inside a caller's transaction (NestedInCallerTx) an
\* asset set and deleted before the commit stages an erase of a key the
\* file does not hold, and ~WalletIfaceTransaction throws (README).
NoCommitThrows == ~thrown
=============================================================================
