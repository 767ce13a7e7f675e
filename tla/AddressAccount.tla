--------------------------- MODULE AddressAccount ---------------------------
(***************************************************************************)
(* AddressAccount and its AssetAccounts (src/cppForSwig/Accounts.cpp): the *)
(* asset chain of each asset account, lastUsedIndex_, extension of the     *)
(* public and the private chain, allocation (getNewAsset), peeking, the    *)
(* address-type overrides, the address hash caches with their cursors,     *)
(* persistence and reload.                                                 *)
(*                                                                         *)
(* Asset indices are unsigned 32-bit in the code; the model keeps the      *)
(* wrap-around with a Modulus (2^32 in the code, smaller in the cfg) and   *)
(* RootIdx = Modulus - 1, the index of the root asset and the initial      *)
(* lastUsedIndex_ (UINT32_MAX).  An asset is its index with a flag saying  *)
(* whether it carries a private key; derivation itself is abstracted.      *)
(*                                                                         *)
(* The database is used at the level of WalletKV.  `view` is what the      *)
(* account's write transactions see and `disk` what is committed.  When    *)
(* NestedInCallerTx holds, every high-level operation runs inside one      *)
(* outermost transaction of its caller (as the specification requires),    *)
(* committed by CommitOuter; otherwise each nested beginWriteTransaction   *)
(* of the code is an outermost one and commits on its own.                 *)
(***************************************************************************)
EXTENDS Naturals, FiniteSets, FiniteSetsExt

CONSTANTS
    Accounts,          \* asset accounts of the address account
    Outer, Inner,      \* outerAccount_ and innerAccount_
    Types,             \* addressTypes_
    DefaultType,       \* defaultAddressEntryType_
    Lookup,            \* the account's lookup window (getLookup())
    TypeIds,           \* asset ids a caller sets the address type of
    Modulus,           \* 2^32 for unsigned int
    MaxIndex,          \* bound on the asset indices the model computes
    NestedInCallerTx,  \* operations run inside a caller's transaction
    MaxCrashes         \* bound on process crashes

ASSUME /\ {Outer, Inner} \subseteq Accounts /\ DefaultType \in Types
       /\ Lookup \in Nat \ {0} /\ MaxIndex + Lookup < Modulus - 1
       /\ NestedInCallerTx \in BOOLEAN /\ MaxCrashes \in Nat
       /\ TypeIds \subseteq Accounts \X (0 .. MaxIndex)

VARIABLES
    assets,        \* assets_: [a -> (index -> has private key)]
    lastUsed,      \* lastUsedIndex_ of each asset account
    lastHashed,    \* lastHashedAsset_ of each asset account
    assetHashes,   \* addrHashMap_ of each asset account: <<a, i, type>>
    topHashed,     \* AddressAccount::topHashedAssetId_
    addrHashes,    \* AddressAccount::addressHashes_: <<a, i, type>>
    addresses,     \* addresses_: asset id <<a, i>> -> non-default type
    view,          \* the store as the account's write transactions see it
    disk,          \* the committed store
    up,            \* the account is loaded in a running process
    pc, call,      \* getNewAsset between its transactions, and its caller
    peek,          \* index the last peek of each account returned, or None
    crashes

vars == <<assets, lastUsed, lastHashed, assetHashes, topHashed, addrHashes,
          addresses, view, disk, up, pc, call, peek, crashes>>

None == -1
RootIdx == Modulus - 1
U(x) == x % Modulus                    \* unsigned arithmetic
Idx == 0 .. MaxIndex
AssetId == Accounts \X Idx

\* the persisted entries of the account: ASSETENTRY records, ASSET_COUNT,
\* ASSET_TOP_INDEX and ADDRESS_TYPE records
IsChain(f) == DOMAIN f \subseteq Idx /\ \A i \in DOMAIN f : f[i] \in BOOLEAN
IsTypeMap(m) == DOMAIN m \subseteq AssetId /\ \A x \in DOMAIN m : m[x] \in Types
IsStore(st) ==
    /\ DOMAIN st = {"assets", "count", "top", "types"}
    /\ \A a \in Accounts : /\ IsChain(st.assets[a])
                          /\ st.count[a] \in 0 .. MaxIndex + 1
                          /\ st.top[a] \in Idx \cup {RootIdx}
    /\ IsTypeMap(st.types)

-----------------------------------------------------------------------------
(* The asset chain *)

\* getLastComputedIndex: -1 for an empty chain
getLastComputedIndex(f) == IF DOMAIN f = {} THEN -1 ELSE Max(DOMAIN f)

\* the index the public chain extends from: the last asset, else the root
ChainTip(f) == IF DOMAIN f = {} THEN RootIdx ELSE Max(DOMAIN f)

\* indices start+1 .. start+count, in unsigned arithmetic
NewIndices(start, count) == {U(start + k) : k \in 1 .. count}

\* extendPublicChain(assetPtr, count): new public assets, existing kept
ExtendPublic(f, start, count) ==
    [i \in DOMAIN f \cup NewIndices(start, count) |->
        IF i \in DOMAIN f THEN f[i] ELSE FALSE]

\* extendPrivateChain(ddc, assetPtr, count): new private assets; an asset
\* without a private key is replaced, one with a private key is kept
ExtendPrivate(f, start, count) ==
    [i \in DOMAIN f \cup NewIndices(start, count) |->
        IF i \in NewIndices(start, count) THEN TRUE ELSE f[i]]

\* getLastAssetWithPrivateKey, or None when it throws
LastPrivate(f) ==
    IF \E i \in DOMAIN f : f[i] THEN Max({i \in DOMAIN f : f[i]}) ELSE None

\* the extension stays within the bound of the model
InBound(f, start, count) == \A i \in NewIndices(start, count) : i <= MaxIndex

\* mutant: a cursor that is not an asset index hashes nothing
HashFrom_cursorNotFound(a) ==
    IF lastHashed[a] \in DOMAIN assets[a]
    THEN {i \in DOMAIN assets[a] : i > lastHashed[a]}
    ELSE {}

\* getAddressHashMap(typeSet) of account a: hash every type of the assets
\* after the cursor lastHashedAsset_ (all of them when the cursor is not an
\* asset index), and move the cursor to the last asset hashed
HashFrom(a) ==
    IF lastHashed[a] \in DOMAIN assets[a]
    THEN {i \in DOMAIN assets[a] : i > lastHashed[a]}
    ELSE DOMAIN assets[a]

-----------------------------------------------------------------------------
(* The store *)

\* updateOnDiskAssets: the asset entries and updateAssetCount in one
\* transaction
PutAssets(v, a, f) ==
    [v EXCEPT !.assets[a] = f, !.count[a] = Cardinality(DOMAIN f)]

\* updateHighestUsedIndex
PutTop(v, a, n) == [v EXCEPT !.top[a] = n]

\* writeAddressType and eraseInstantiatedAddressType
PutType(v, id, t) ==
    [v EXCEPT !.types = [x \in DOMAIN v.types \cup {id} |->
                            IF x = id THEN t ELSE v.types[x]]]
EraseType(v, id) ==
    [v EXCEPT !.types = [x \in DOMAIN v.types \ {id} |-> v.types[x]]]

\* one write transaction of the account: committed by itself, or staged in
\* the caller's transaction
Write(v) ==
    /\ view' = v
    /\ disk' = IF NestedInCallerTx THEN disk ELSE v

\* getUsedAddressMap: getAssetForIndex for every index up to the highest
\* used one, which throws "unknown asset index" for a missing asset
UsedAddressMapResolves(st) ==
    \A a \in Accounts :
        st.top[a] # RootIdx => 0 .. st.top[a] \subseteq DOMAIN st.assets[a]

\* AssetAccount::loadFromDisk's count check
CountMatches(st) ==
    \A a \in Accounts : st.count[a] = Cardinality(DOMAIN st.assets[a])

-----------------------------------------------------------------------------
NoCall == [op |-> "none", acc |-> Outer, type |-> DefaultType, idx |-> 0]

\* a freshly created BIP32 account as make_new leaves it after
\* AddressAccount::commit (the only call of commit): root assets only,
\* empty chains, nothing used yet
Init ==
    LET st == [assets |-> [a \in Accounts |-> <<>>],
               count  |-> [a \in Accounts |-> 0],
               top    |-> [a \in Accounts |-> RootIdx],
               types  |-> <<>>]
    IN  /\ assets = [a \in Accounts |-> <<>>]
        /\ lastUsed = [a \in Accounts |-> RootIdx]
        /\ lastHashed = [a \in Accounts |-> RootIdx]
        /\ assetHashes = {}
        /\ topHashed = [a \in Accounts |-> None]
        /\ addrHashes = {}
        /\ addresses = <<>>
        /\ view = st
        /\ disk = st
        /\ up = TRUE
        /\ pc = "idle"
        /\ call = NoCall
        /\ peek = [a \in Accounts |-> None]
        /\ crashes = 0

Caches == <<lastHashed, assetHashes, topHashed, addrHashes>>

\* AssetAccount::extendPublicChain(count), count > 0: from the last asset,
\* or the root of an empty chain
extendPublicChain(a, n) ==
    /\ up /\ pc = "idle"
    /\ InBound(assets[a], ChainTip(assets[a]), n)
    /\ assets' = [assets EXCEPT ![a] = ExtendPublic(@, ChainTip(@), n)]
    /\ Write(PutAssets(view, a, assets'[a]))
    /\ UNCHANGED <<lastUsed, Caches, addresses, up, pc, call, peek, crashes>>

\* mutant: one asset fewer than the code extends by
extendPublicChainToIndex_short(a, c) ==
    LET lc == IF getLastComputedIndex(assets[a]) > 0
              THEN getLastComputedIndex(assets[a]) ELSE 0
        f  == ExtendPublic(assets[a], ChainTip(assets[a]), c - lc - 1)
    IN  /\ up /\ pc = "idle"
        /\ IF lc >= c
           THEN UNCHANGED <<assets, view, disk>>
           ELSE /\ InBound(assets[a], ChainTip(assets[a]), c - lc - 1)
                /\ assets' = [assets EXCEPT ![a] = f]
                /\ Write(PutAssets(view, a, f))
        /\ UNCHANGED <<lastUsed, Caches, addresses, up, pc, call, peek, crashes>>

\* AssetAccount::extendPublicChainToIndex(count): "make address chain at
\* least count long", from max(getLastComputedIndex(), 0)
extendPublicChainToIndex(a, c) ==
    LET lc == IF getLastComputedIndex(assets[a]) > 0
              THEN getLastComputedIndex(assets[a]) ELSE 0
        f  == ExtendPublic(assets[a], ChainTip(assets[a]), c - lc)
    IN  /\ up /\ pc = "idle"
        /\ IF lc >= c
           THEN UNCHANGED <<assets, view, disk>>
           ELSE /\ InBound(assets[a], ChainTip(assets[a]), c - lc)
                /\ assets' = [assets EXCEPT ![a] = f]
                /\ Write(PutAssets(view, a, f))
        /\ UNCHANGED <<lastUsed, Caches, addresses, up, pc, call, peek, crashes>>

\* AssetAccount::extendPrivateChain(ddc, assetPtr, count) from `start`
PrivateStep(a, start, n) ==
    /\ InBound(assets[a], start, n)
    /\ assets' = [assets EXCEPT ![a] = ExtendPrivate(@, start, n)]
    /\ Write(PutAssets(view, a, assets'[a]))

\* the private chain extends from the last asset with a private key, or
\* from UINT32_MAX when getLastAssetWithPrivateKey throws
PrivateTip(f) == IF LastPrivate(f) = None THEN RootIdx ELSE LastPrivate(f)

\* AssetAccount::extendPrivateChain(ddc, count), count > 0
extendPrivateChain(a, n) ==
    /\ up /\ pc = "idle"
    /\ PrivateStep(a, PrivateTip(assets[a]), n)
    /\ UNCHANGED <<lastUsed, Caches, addresses, up, pc, call, peek, crashes>>

\* AssetAccount::extendPrivateChainToIndex(ddc, id): topIndex is 0 when no
\* asset has a private key
extendPrivateChainToIndex(a, id) ==
    LET topIndex == IF LastPrivate(assets[a]) = None
                    THEN 0 ELSE LastPrivate(assets[a])
    IN  /\ up /\ pc = "idle"
        /\ IF id > topIndex
           THEN PrivateStep(a, PrivateTip(assets[a]), id - topIndex)
           ELSE UNCHANGED <<assets, view, disk>>
        /\ UNCHANGED <<lastUsed, Caches, addresses, up, pc, call, peek, crashes>>

\* AssetAccount::fillPrivateKey(ddc, id) of an asset in the map: the closest
\* previous asset with a private key, or the root, and a private extension
\* of assetID - prevIndex (unsigned) entries
fillPrivateKey(a, i) ==
    LET prev == IF \E j \in DOMAIN assets[a] : j < i /\ assets[a][j]
                THEN Max({j \in DOMAIN assets[a] : j < i /\ assets[a][j]})
                ELSE RootIdx
    IN  /\ up /\ pc = "idle"
        /\ i \in DOMAIN assets[a]
        /\ IF assets[a][i]
           THEN UNCHANGED <<assets, view, disk>>
           ELSE PrivateStep(a, prev, U(i - prev))
        /\ UNCHANGED <<lastUsed, Caches, addresses, up, pc, call, peek, crashes>>

\* the extension getNewAsset/peekNextAsset make for a missing index
LookupExtension(a) == ExtendPublic(assets[a], ChainTip(assets[a]), Lookup)

\* AddressAccount::getNewAddress(account, aeType) (op "new", for
\* getNewAddress and getNewChangeAddress) and peekNextChangeAddress (op
\* "peekChange", inner account): AssetAccount::getNewAsset starts with
\* getAndBumpHighestUsedIndex, which persists the bumped index in its own
\* write transaction
getAndBumpHighestUsedIndex(a, op, t) ==
    LET idx == U(lastUsed[a] + 1)
    IN  /\ up /\ pc = "idle"
        /\ idx <= MaxIndex
        /\ idx \in DOMAIN assets[a] \/ InBound(assets[a], ChainTip(assets[a]), Lookup)
        /\ lastUsed' = [lastUsed EXCEPT ![a] = idx]
        /\ Write(PutTop(view, a, idx))
        /\ pc' = "extend"
        /\ call' = [op |-> op, acc |-> a, type |-> t, idx |-> idx]
        /\ peek' = [peek EXCEPT ![a] = None]
        /\ UNCHANGED <<assets, Caches, addresses, up, crashes>>

\* the end of an operation: what it hands back
Return(op, a, idx) ==
    /\ pc' = "idle"
    /\ call' = NoCall
    /\ peek' = IF op = "new" THEN peek ELSE [peek EXCEPT ![a] = idx]

\* the rest of getNewAsset: extend the public chain by the lookup window
\* when the index has no asset (updateOnDiskAssets, a second transaction);
\* a still missing index throws "requested index overflows max lookup"
getNewAsset ==
    LET a   == call.acc
        idx == call.idx
        f   == IF idx \in DOMAIN assets[a] THEN assets[a] ELSE LookupExtension(a)
    IN  /\ up /\ pc = "extend"
        /\ assets' = [assets EXCEPT ![a] = f]
        /\ IF idx \in DOMAIN assets[a]
           THEN UNCHANGED <<view, disk>>
           ELSE Write(PutAssets(view, a, f))
        /\ IF idx \notin DOMAIN f
           THEN /\ pc' = "idle" /\ call' = NoCall
                /\ UNCHANGED peek
           ELSE IF call.op = "new" /\ call.type # DefaultType
                THEN /\ pc' = "type"
                     /\ UNCHANGED <<call, peek>>
                ELSE Return(call.op, a, idx)
        /\ UNCHANGED <<lastUsed, Caches, addresses, up, crashes>>

\* AddressAccount::updateInstantiatedAddressType(id, aeType)
UpdateType(id, t) ==
    IF id \in DOMAIN addresses /\ addresses[id] = t
    THEN UNCHANGED <<addresses, view, disk>>
    ELSE IF id \in DOMAIN addresses /\ t = DefaultType
    THEN /\ addresses' = [x \in DOMAIN addresses \ {id} |-> addresses[x]]
         /\ Write(EraseType(view, id))
    ELSE /\ addresses' = [x \in DOMAIN addresses \cup {id} |->
                            IF x = id THEN t ELSE addresses[x]]
         /\ Write(PutType(view, id, t))

\* getNewAddress records a non-default type, then returns the address
instantiateAddressType ==
    /\ up /\ pc = "type"
    /\ UpdateType(<<call.acc, call.idx>>, call.type)
    /\ Return(call.op, call.acc, call.idx)
    /\ UNCHANGED <<assets, lastUsed, Caches, up, crashes>>

\* a caller sets the type of an address of the account
updateInstantiatedAddressType(id, t) ==
    /\ up /\ pc = "idle"
    /\ id[2] \in DOMAIN assets[id[1]]
    /\ UpdateType(id, t)
    /\ UNCHANGED <<assets, lastUsed, Caches, up, pc, call, peek, crashes>>

\* AssetAccount::peekNextAsset: the asset after lastUsedIndex_, extending
\* the chain if needed, without bumping
peekNextAsset(a) ==
    LET idx == U(lastUsed[a] + 1)
        f   == IF idx \in DOMAIN assets[a] THEN assets[a] ELSE LookupExtension(a)
    IN  /\ up /\ pc = "idle"
        /\ idx <= MaxIndex
        /\ idx \in DOMAIN assets[a] \/ InBound(assets[a], ChainTip(assets[a]), Lookup)
        /\ assets' = [assets EXCEPT ![a] = f]
        /\ IF idx \in DOMAIN assets[a]
           THEN UNCHANGED <<view, disk>>
           ELSE Write(PutAssets(view, a, f))
        /\ peek' = [peek EXCEPT ![a] = idx]
        /\ UNCHANGED <<lastUsed, Caches, addresses, up, pc, call, crashes>>

\* getAddressEntryForID(ID) throws UnrequestedAddressException for an index
\* above getHighestUsedIndex() (UINT32_MAX, so never, while nothing is
\* used), and getAssetForIndex throws "unknown asset index" for a missing
\* asset
EntryRefused(a, i) == i > lastUsed[a] \/ i \notin DOMAIN assets[a]

\* AddressAccount::getAddressEntryForID(ID) of a loaded, idle account
\* returns an entry (of the addresses_ override type, else the default):
\* a lookup that changes nothing, so no step of its own
getAddressEntryForID(a, i) == up /\ pc = "idle" /\ ~EntryRefused(a, i)

\* addrHashMap_ of every asset account after its getAddressHashMap(
\* addressTypes_)
NewAssetHashes ==
    assetHashes \cup UNION {{<<a, i, t>> : i \in HashFrom(a), t \in Types} : a \in Accounts}

\* the asset indices of account a's map, which topHashedAssetId_ follows
HashKeys(a) == {h[2] : h \in {h \in NewAssetHashes : h[1] = a}}

\* addressHashes_ with the entries of those maps after topHashedAssetId_
NewAddrHashes ==
    LET after(a) == IF topHashed[a] = None THEN HashKeys(a)
                    ELSE {i \in HashKeys(a) : i > topHashed[a]}
    IN  addrHashes \cup {h \in NewAssetHashes : h[2] \in after(h[1])}

\* AddressAccount::updateAddressHashMap: both maps and both cursors move
updateAddressHashMap ==
    /\ up /\ pc = "idle"
    /\ assetHashes' = NewAssetHashes
    /\ lastHashed' = [a \in Accounts |->
                        IF HashFrom(a) = {} THEN lastHashed[a] ELSE Max(HashFrom(a))]
    /\ addrHashes' = NewAddrHashes
    /\ topHashed' = [a \in Accounts |->
                        IF HashKeys(a) = {} THEN topHashed[a] ELSE Max(HashKeys(a))]
    /\ UNCHANGED <<assets, lastUsed, addresses, view, disk, up, pc, call, peek, crashes>>

\* the caller's outermost transaction commits between two operations
CommitOuter ==
    /\ NestedInCallerTx
    /\ up /\ pc = "idle" /\ view # disk
    /\ disk' = view
    /\ UNCHANGED <<assets, lastUsed, Caches, addresses, view, up, pc, call,
                   peek, crashes>>

\* the process dies; uncommitted writes are lost
Crash ==
    /\ up
    /\ crashes < MaxCrashes
    /\ up' = FALSE
    /\ view' = disk
    /\ pc' = "idle"
    /\ call' = NoCall
    /\ peek' = [a \in Accounts |-> None]
    /\ crashes' = crashes + 1
    /\ UNCHANGED <<assets, lastUsed, Caches, addresses, disk>>

\* mutant: lastUsedIndex_ taken from the asset count
readFromDisk_countAsTop ==
    /\ ~up
    /\ CountMatches(disk)
    /\ up' = TRUE
    /\ assets' = disk.assets
    /\ lastUsed' = disk.count
    /\ addresses' = disk.types
    /\ lastHashed' = [a \in Accounts |-> RootIdx]
    /\ assetHashes' = {}
    /\ topHashed' = [a \in Accounts |-> None]
    /\ addrHashes' = {}
    /\ UNCHANGED <<view, disk, pc, call, peek, crashes>>

\* AddressAccount::readFromDisk with AssetAccount::loadFromDisk for each
\* asset account: fresh objects, so the caches and cursors start empty; a
\* count that does not match the asset entries throws
readFromDisk ==
    /\ ~up
    /\ CountMatches(disk)
    /\ up' = TRUE
    /\ assets' = disk.assets
    /\ lastUsed' = disk.top
    /\ addresses' = disk.types
    /\ lastHashed' = [a \in Accounts |-> RootIdx]
    /\ assetHashes' = {}
    /\ topHashed' = [a \in Accounts |-> None]
    /\ addrHashes' = {}
    /\ UNCHANGED <<view, disk, pc, call, peek, crashes>>

Next ==
    \/ \E a \in Accounts, n \in 1 .. Lookup :
          extendPublicChain(a, n) \/ extendPrivateChain(a, n)
    \/ \E a \in Accounts, i \in Idx :
          \/ extendPublicChainToIndex(a, i)
          \/ extendPrivateChainToIndex(a, i)
          \/ fillPrivateKey(a, i)
    \/ \E t \in Types :
          \/ getAndBumpHighestUsedIndex(Outer, "new", t)
          \/ getAndBumpHighestUsedIndex(Inner, "new", t)
          \/ getAndBumpHighestUsedIndex(Inner, "peekChange", t)
    \/ getNewAsset
    \/ instantiateAddressType
    \/ \E id \in TypeIds, t \in Types : updateInstantiatedAddressType(id, t)
    \/ \E a \in Accounts : peekNextAsset(a)
    \/ updateAddressHashMap
    \/ CommitOuter
    \/ Crash
    \/ readFromDisk

Spec == Init /\ [][Next]_vars

-----------------------------------------------------------------------------
(* Properties *)

TypeOK ==
    /\ DOMAIN assets = Accounts /\ \A a \in Accounts : IsChain(assets[a])
    /\ lastUsed \in [Accounts -> Idx \cup {RootIdx}]
    /\ lastHashed \in [Accounts -> Idx \cup {RootIdx}]
    /\ assetHashes \subseteq Accounts \X Idx \X Types
    /\ topHashed \in [Accounts -> Idx \cup {None}]
    /\ addrHashes \subseteq Accounts \X Idx \X Types
    /\ IsTypeMap(addresses)
    /\ IsStore(view) /\ IsStore(disk)
    /\ pc \in {"idle", "extend", "type"}
    /\ peek \in [Accounts -> Idx \cup {None}]
    /\ crashes \in 0 .. MaxCrashes

\* Wherever the process crashed, the committed store loads again:
\* AssetAccount::loadFromDisk's count check passes, and every index up to
\* the persisted lastUsedIndex has an asset entry, so getUsedAddressMap and
\* getAddressEntryForID resolve every used address after the restart.
ReloadSucceeds ==
    ~up => CountMatches(disk) /\ UsedAddressMapResolves(disk)

\* What a completed request promises: extendPublicChainToIndex(c) leaves a
\* chain at least c long (its comment); fillPrivateKey(id) leaves the asset
\* with a private key; a getNewAddress or getNewChangeAddress that returns
\* an asset (rather than throwing) hands out lastUsedIndex_.
PostConditions ==
    [][/\ \A a \in Accounts, c \in Idx :
          extendPublicChainToIndex(a, c) => Cardinality(DOMAIN assets'[a]) >= c
       /\ \A a \in Accounts, i \in Idx :
          fillPrivateKey(a, i) => i \in DOMAIN assets'[a] /\ assets'[a][i]
       /\ (/\ up' /\ pc \in {"extend", "type"} /\ pc' = "idle" /\ call.op = "new"
           /\ call.idx \in DOMAIN assets'[call.acc])
          => call.idx = lastUsed'[call.acc]]_vars

\* Whenever updateAddressHashMap may be called, the addressHashes_ it
\* leaves holds every address type of every asset of every asset account,
\* although both cursors let it skip the assets hashed by earlier calls.
HashMapComplete ==
    (up /\ pc = "idle") =>
        NewAddrHashes = {<<a, i, t>> \in Accounts \X Idx \X Types :
                            i \in DOMAIN assets[a]}

\* extendPrivateChainToIndex(id) leaves the asset at index id with a
\* private key, as it does when some asset already has one.
PrivateChainReachesIndex ==
    [][\A a \in Accounts, id \in Idx :
          extendPrivateChainToIndex(a, id) => id \in DOMAIN assets'[a] /\ assets'[a][id]]_vars

\* A peek (peekNextAsset, peekNextChangeAddress) names the asset the next
\* allocation of that account will hand out: lastUsedIndex_ + 1.
PeekIsNext ==
    \A a \in Accounts : peek[a] # None => peek[a] = U(lastUsed[a] + 1)

\* getAddressEntryForID returns an entry only for an index some getNewAddress
\* (or getNewChangeAddress) handed out: at most lastUsedIndex_, and never
\* while nothing is used; above it the call fails with UnrequestedAddress.
UnrequestedFails ==
    \A a \in Accounts, i \in Idx :
        getAddressEntryForID(a, i) => lastUsed[a] # RootIdx /\ i <= lastUsed[a]
=============================================================================
