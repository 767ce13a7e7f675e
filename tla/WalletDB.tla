----------------------------- MODULE WalletDB -----------------------------
(***************************************************************************)
(* One encrypted wallet database: DBInterface (the decrypted in-memory     *)
(* copy, the dbKey allocator, loadAllEntries) and the per-thread           *)
(* transactions of WalletIfaceTransaction that stage inserts and erases    *)
(* and write them at the close of the outermost write transaction.         *)
(* Source: src/cppForSwig/WalletFileInterface.cpp.                         *)
(*                                                                         *)
(* The LMDB file is `disk`, a function from integer dbKeys to records.     *)
(* Encryption and the HMAC are abstracted to the number of the session key *)
(* a record was written with (`sess`): readDataPacket fails with "mac      *)
(* mismatch" exactly when a record is read with another key.               *)
(***************************************************************************)
EXTENDS Integers, Sequences, FiniteSets

CONSTANTS
    DataKeys, Values, NoValue, Threads,
    MaxDbKey,          \* dbKeys are 0..MaxDbKey (bound on the allocator)
    MaxDepth,          \* bound on transaction nesting per thread
    MaxOps,            \* bound on operations staged in one transaction
    MaxLoads           \* bound on loadAllEntries calls (process starts)

ASSUME /\ MaxDbKey \in Nat /\ MaxDepth \in Nat \ {0}
       /\ MaxOps \in Nat /\ MaxLoads \in Nat
       /\ NoValue \notin Values

VARIABLES
    disk,            \* LMDB contents: dbKey -> record
    open,            \* the DBInterface is in dbMap_ (entries loaded)
    dataMap,         \* DBInterface::dataMap_
    dataKeyToDbKey,  \* DBInterface::dataKeyToDbKey_
    dbKeyCounter,    \* DBInterface::dbKeyCounter_
    sessKey,         \* decrKeyCounter of the key encrPubKey_/macKey_ belong to
    txs,             \* txMap_[dbName]: thread -> ParentTx (depth 0 = absent)
    insertVec,       \* the parent transaction's insertVec_, per thread
    loads,           \* loadAllEntries calls so far
    loadError        \* exception thrown by the last loadAllEntries

vars == <<disk, open, dataMap, dataKeyToDbKey, dbKeyCounter, sessKey,
          txs, insertVec, loads, loadError>>

DbKeys == 0..MaxDbKey
NoSlot == -1
NoError == "none"

Rec(kind, k, v, ref, s) == [kind |-> kind, key |-> k, val |-> v, ref |-> ref, sess |-> s]
Free == Rec("free", NoValue, NoValue, NoSlot, 0)
\* Mutation: data packets encrypted with the key after the session's own.
DataRec_nextKey(k, v, s) == Rec("data", k, v, NoSlot, s + 1)
\* createDataPacket(dbKey, dataKey, value, ...)
DataRec(k, v, s) == Rec("data", k, v, NoSlot, s)
\* erasure place holder: "erased" | varint(4) | old dbKey, empty data key
ErasedRec(old, s) == Rec("erased", NoValue, NoValue, old, s)
\* Mutation: the flag encrypted after the key was cycled for the session.
FlagRec_cycledKey(s) == Rec("flag", NoValue, NoValue, NoSlot, s + 1)
\* keyCycleFlag_, empty data key
FlagRec(s) == Rec("flag", NoValue, NoValue, NoSlot, s)

\* InsertData: write_ = FALSE marks an erase
Op == [key : DataKeys, write : BOOLEAN, val : Values \cup {NoValue}]

EmptyMap == [k \in DataKeys |-> NoValue]
NoDbKeys == [k \in DataKeys |-> NoSlot]
NoTx == [depth |-> 0, commit |-> FALSE]

-----------------------------------------------------------------------------
(* loadAllEntries: scan the records in dbKey order.                        *)

ScanStart == [gaps |-> {}, cnt |-> 0, prev |-> -1, map |-> EmptyMap,
              k2db |-> NoDbKeys, err |-> NoError]

\* Mutation: prevDbKey advanced only for data entries (set after the
\* meta data `continue`).
ReadEntry_prevAfterMeta(d, i, acc) ==
    LET r    == d[i]
        gaps == acc.gaps \cup (acc.prev + 1 .. i - 1)
        a    == [acc EXCEPT !.gaps = gaps]
    IN  CASE r.sess # acc.cnt           -> [a EXCEPT !.err = "mac mismatch"]
          [] r.kind = "erased" /\ r.ref \notin gaps
                 -> [a EXCEPT !.err = "erasure place holder for missing gap"]
          [] r.kind = "erased"           -> [a EXCEPT !.gaps = gaps \ {r.ref}]
          [] r.kind = "flag"             -> [a EXCEPT !.cnt = @ + 1]
          [] a.k2db[r.key] # NoSlot      -> [a EXCEPT !.err = "duplicated db entry"]
          [] OTHER -> [a EXCEPT !.k2db[r.key] = i, !.map[r.key] = r.val, !.prev = i]

\* one iteration of the read loop, on the record at dbKey i
ReadEntry(d, i, acc) ==
    LET r    == d[i]
        gaps == acc.gaps \cup (acc.prev + 1 .. i - 1)
        a    == [acc EXCEPT !.gaps = gaps, !.prev = i]
    IN  CASE r.sess # acc.cnt           -> [a EXCEPT !.err = "mac mismatch"]
          [] r.kind = "erased" /\ r.ref \notin gaps
                 -> [a EXCEPT !.err = "erasure place holder for missing gap"]
          [] r.kind = "erased"           -> [a EXCEPT !.gaps = gaps \ {r.ref}]
          [] r.kind = "flag"             -> [a EXCEPT !.cnt = @ + 1]
          [] a.k2db[r.key] # NoSlot      -> [a EXCEPT !.err = "duplicated db entry"]
          [] OTHER -> [a EXCEPT !.k2db[r.key] = i, !.map[r.key] = r.val]

RECURSIVE Scan(_, _, _)
Scan(d, i, acc) ==
    IF i > MaxDbKey \/ acc.err # NoError THEN acc
    ELSE Scan(d, i + 1, IF d[i] = Free THEN acc ELSE ReadEntry(d, i, acc))

\* the outcome of loadAllEntries on disk d, before the key cycling flag
Reload(d) ==
    LET s == Scan(d, 0, ScanStart)
    IN  IF s.err = NoError /\ s.gaps # {}
        THEN [s EXCEPT !.err = "unfilled dbkey gaps!"] ELSE s

-----------------------------------------------------------------------------
(* ~WalletIfaceTransaction: write the last effect of every staged key.     *)

\* Mutation: the first staged operation on a key taken as its effect.
LastEffects_first(vec) ==
    LET isFirst(i) == \A j \in 1 .. i - 1 : vec[j].key # vec[i].key
        idx == SelectSeq([i \in 1 .. Len(vec) |-> i], isFirst)
    IN  [m \in 1 .. Len(idx) |-> vec[idx[m]]]

\* the operations of vec that are the last effect on their key, in order
LastEffects(vec) ==
    LET isLast(i) == \A j \in i + 1 .. Len(vec) : vec[j].key # vec[i].key
        idx == SelectSeq([i \in 1 .. Len(vec) |-> i], isLast)
    IN  [m \in 1 .. Len(idx) |-> vec[idx[m]]]

\* one iteration of the commit loop: resolveDataKey, then either wipe +
\* erasure place holder (+ fresh dbKey for the write), or a fresh dbKey
WriteEffect(o, st) ==
    LET old == st.k2db[o.key]
        n   == st.ctr
    IN  IF old # NoSlot
        THEN IF ~o.write
             THEN [st EXCEPT !.disk = [@ EXCEPT ![old] = Free,
                                                ![n] = ErasedRec(old, sessKey)],
                             !.k2db[o.key] = NoSlot, !.ctr = n + 1]
             ELSE [st EXCEPT !.disk = [@ EXCEPT ![old] = Free,
                                                ![n] = ErasedRec(old, sessKey),
                                                ![n + 1] = DataRec(o.key, o.val, sessKey)],
                             !.k2db[o.key] = n + 1, !.ctr = n + 2]
        ELSE IF ~o.write
             THEN [st EXCEPT !.ctr = n + 1,
                             !.err = "key marked for deletion when it does not exist"]
             ELSE [st EXCEPT !.disk[n] = DataRec(o.key, o.val, sessKey),
                             !.k2db[o.key] = n, !.ctr = n + 1]

RECURSIVE WriteEffects(_, _)
WriteEffects(ops, st) ==
    IF ops = <<>> \/ st.err # NoError THEN st
    ELSE WriteEffects(Tail(ops), WriteEffect(Head(ops), st))

\* Mutation: DBInterface::update skips erase operations.
RECURSIVE update_keepErased(_, _)
update_keepErased(m, vec) ==
    IF vec = <<>> THEN m
    ELSE LET o == Head(vec)
         IN  update_keepErased(IF o.write THEN [m EXCEPT ![o.key] = o.val] ELSE m,
                               Tail(vec))

\* DBInterface::update: apply every staged operation to dataMap_
RECURSIVE update(_, _)
update(m, vec) ==
    IF vec = <<>> THEN m
    ELSE LET o == Head(vec)
         IN  update([m EXCEPT ![o.key] = IF o.write THEN o.val ELSE NoValue],
                    Tail(vec))

\* WalletIfaceTransaction::getDataRef on a write transaction
TxView(t, k) ==
    LET hits == {i \in 1 .. Len(insertVec[t]) : insertVec[t][i].key = k}
    IN  IF hits = {} THEN dataMap[k]
        ELSE LET o == insertVec[t][CHOOSE i \in hits : \A j \in hits : j <= i]
             IN  IF o.write THEN o.val ELSE NoValue
-----------------------------------------------------------------------------
(* Actions                                                                 *)

Init ==
    /\ disk = [i \in DbKeys |-> Free]
    /\ open = FALSE
    /\ dataMap = EmptyMap
    /\ dataKeyToDbKey = NoDbKeys
    /\ dbKeyCounter = 0
    /\ sessKey = 0
    /\ txs = [t \in Threads |-> NoTx]
    /\ insertVec = [t \in Threads |-> <<>>]
    /\ loads = 0
    /\ loadError = NoError

\* WalletDBInterface::openDB -> DBInterface::loadAllEntries: read every
\* record, then append a key cycling flag at a fresh dbKey (own RW tx) and
\* encrypt this session's writes with the next key.  A throw leaves the db
\* out of dbMap_.
loadAllEntries ==
    /\ ~open /\ loadError = NoError /\ loads < MaxLoads
    /\ LET r == Reload(disk)
           flagKey == r.prev + 1
       IN  IF r.err # NoError
           THEN /\ loadError' = r.err
                /\ UNCHANGED <<disk, open, dataMap, dataKeyToDbKey,
                               dbKeyCounter, sessKey>>
           ELSE /\ flagKey <= MaxDbKey
                /\ disk' = [disk EXCEPT ![flagKey] = FlagRec(r.cnt)]
                /\ dataMap' = r.map
                /\ dataKeyToDbKey' = r.k2db
                /\ dbKeyCounter' = flagKey + 1
                /\ sessKey' = r.cnt + 1
                /\ open' = TRUE
                /\ UNCHANGED loadError
    /\ loads' = loads + 1
    /\ UNCHANGED <<txs, insertVec>>

\* WalletIfaceTransaction constructor -> insertTx: a thread's first
\* transaction creates its ParentTx, a later one nests in it when its mode
\* matches (a mismatch throws "failed to create db tx" and changes nothing).
insertTx(t, mode) ==
    /\ open
    /\ \/ /\ txs[t].depth = 0
          /\ txs' = [txs EXCEPT ![t] = [depth |-> 1, commit |-> mode]]
          /\ insertVec' = [insertVec EXCEPT ![t] = <<>>]
       \/ /\ 0 < txs[t].depth /\ txs[t].depth < MaxDepth
          /\ txs[t].commit = mode
          /\ txs' = [txs EXCEPT ![t].depth = @ + 1]
          /\ UNCHANGED insertVec
    /\ UNCHANGED <<disk, open, dataMap, dataKeyToDbKey, dbKeyCounter,
                   sessKey, loads, loadError>>

WriteTxOpen(t) == open /\ txs[t].depth > 0 /\ txs[t].commit
                  /\ Len(insertVec[t]) < MaxOps

\* WalletIfaceTransaction::insert -> insertLbd_
insert(t, k, v) ==
    /\ WriteTxOpen(t)
    /\ insertVec' = [insertVec EXCEPT ![t] =
                        Append(@, [key |-> k, write |-> TRUE, val |-> v])]
    /\ UNCHANGED <<disk, open, dataMap, dataKeyToDbKey, dbKeyCounter,
                   sessKey, txs, loads, loadError>>

\* WalletIfaceTransaction::erase / wipe -> eraseLbd_.  Callers erase a key
\* they see through the transaction (getDataRef non-empty), as
\* updateKeyOnDiskNoPrefix, updateInstantiatedAddressType and
\* MetaDataAccount::updateOnDisk do.
erase(t, k) ==
    /\ WriteTxOpen(t)
    /\ TxView(t, k) # NoValue
    /\ insertVec' = [insertVec EXCEPT ![t] =
                        Append(@, [key |-> k, write |-> FALSE, val |-> NoValue])]
    /\ UNCHANGED <<disk, open, dataMap, dataKeyToDbKey, dbKeyCounter,
                   sessKey, txs, loads, loadError>>

\* ~WalletIfaceTransaction on a nested or read-only transaction: eraseTx
\* decrements the nesting counter or drops the ParentTx; nothing is written.
closeTx(t) ==
    /\ open /\ txs[t].depth > 0
    /\ txs[t].depth > 1 \/ ~txs[t].commit
    /\ txs' = [txs EXCEPT ![t] = IF @.depth > 1 THEN [@ EXCEPT !.depth = @ - 1]
                                 ELSE NoTx]
    /\ UNCHANGED <<disk, open, dataMap, dataKeyToDbKey, dbKeyCounter,
                   sessKey, insertVec, loads, loadError>>

\* the DBInterface object is destroyed with everything it held in memory
Forget ==
    /\ open' = FALSE
    /\ dataMap' = EmptyMap
    /\ dataKeyToDbKey' = NoDbKeys
    /\ dbKeyCounter' = 0
    /\ sessKey' = 0

\* ~WalletIfaceTransaction on the outermost write transaction: eraseTx drops
\* the ParentTx, the last effects are written in one LMDB RW transaction,
\* then DBInterface::update refreshes dataMap_.  If the loop throws, the
\* destructor (noexcept(false)) has no caller under src/ that catches it:
\* the two-phase unwinder calls std::terminate before any destructor runs,
\* the process ends and LMDB drops the uncommitted transaction.
commitTx(t) ==
    /\ open /\ txs[t].depth = 1 /\ txs[t].commit
    /\ dbKeyCounter + 2 * Len(insertVec[t]) <= MaxDbKey + 1
    /\ LET st == WriteEffects(LastEffects(insertVec[t]),
                     [disk |-> disk, k2db |-> dataKeyToDbKey,
                      ctr |-> dbKeyCounter, err |-> NoError])
       IN  \/ /\ st.err = NoError
              /\ disk' = st.disk
              /\ dataKeyToDbKey' = st.k2db
              /\ dbKeyCounter' = st.ctr
              /\ dataMap' = update(dataMap, insertVec[t])
              /\ txs' = [txs EXCEPT ![t] = NoTx]
              /\ insertVec' = [insertVec EXCEPT ![t] = <<>>]
              /\ UNCHANGED <<open, sessKey>>
           \/ /\ st.err # NoError
              /\ UNCHANGED disk
              /\ Forget
              /\ txs' = [u \in Threads |-> NoTx]
              /\ insertVec' = [u \in Threads |-> <<>>]
    /\ UNCHANGED <<loads, loadError>>

\* WalletDBInterface::shutdown: refused while any transaction is live
shutdown ==
    /\ open
    /\ \A t \in Threads : txs[t].depth = 0
    /\ Forget
    /\ UNCHANGED <<disk, txs, insertVec, loads, loadError>>

\* The process dies: memory and open transactions are lost, LMDB keeps
\* every committed transaction.
Crash ==
    /\ open
    /\ Forget
    /\ txs' = [t \in Threads |-> NoTx]
    /\ insertVec' = [t \in Threads |-> <<>>]
    /\ UNCHANGED <<disk, loads, loadError>>

Next ==
    \/ loadAllEntries
    \/ \E t \in Threads, mode \in BOOLEAN : insertTx(t, mode)
    \/ \E t \in Threads, k \in DataKeys, v \in Values : insert(t, k, v)
    \/ \E t \in Threads, k \in DataKeys : erase(t, k)
    \/ \E t \in Threads : closeTx(t) \/ commitTx(t)
    \/ shutdown
    \/ Crash

Spec == Init /\ [][Next]_vars

-----------------------------------------------------------------------------
(* Properties                                                              *)

\* records whose key number is at most n (the keys n loads can have selected)
Records(n) ==
    [kind : {"data"}, key : DataKeys, val : Values, ref : {NoSlot}, sess : 0..n]
    \cup [kind : {"erased"}, key : {NoValue}, val : {NoValue}, ref : DbKeys,
          sess : 0..n]
    \cup [kind : {"flag"}, key : {NoValue}, val : {NoValue}, ref : {NoSlot},
          sess : 0..n]
    \cup {Free}

\* Types; a record and the session key never carry a key number above the
\* number of loadAllEntries calls so far.
TypeOK ==
    /\ disk \in [DbKeys -> Records(loads)]
    /\ open \in BOOLEAN
    /\ dataMap \in [DataKeys -> Values \cup {NoValue}]
    /\ dataKeyToDbKey \in [DataKeys -> DbKeys \cup {NoSlot}]
    /\ dbKeyCounter \in 0..MaxDbKey + 1
    /\ sessKey \in 0..loads
    /\ txs \in [Threads -> [depth : 0..MaxDepth, commit : BOOLEAN]]
    /\ insertVec \in [Threads -> Seq(Op)]
    /\ loads \in 0..MaxLoads

\* The file as the committed LMDB transactions left it always loads again:
\* loadAllEntries finds no unfilled dbKey gap, no erasure place holder
\* without its gap, no duplicated data key and no record encrypted with a
\* key other than the one the key cycling flags before it select.
Recoverable == Reload(disk).err = NoError

\* While the db is open, dataMap_ and dataKeyToDbKey_ are exactly what a
\* reload of the file would produce: commits, the erasure path and
\* DBInterface::update keep the in-memory copy and the file in step.
CacheCoherent ==
    open => /\ dataMap = Reload(disk).map
            /\ dataKeyToDbKey = Reload(disk).k2db

\* No step ever overwrites a record in place: getNewDbKey hands out dbKeys
\* above every record, including the key cycling flag written at load, and
\* a record only ever leaves the file by the wipe of an overwrite or erase.
NoOverwrite ==
    [][\A i \in DbKeys : disk[i] # Free => disk'[i] \in {disk[i], Free}]_vars

\* the value of the data record of each data key in file d (where a
\* reloadable file holds at most one)
DiskView(d) ==
    [k \in DataKeys |->
        LET at == {i \in DbKeys : d[i].kind = "data" /\ d[i].key = k}
        IN  IF at = {} THEN NoValue ELSE d[CHOOSE i \in at : TRUE].val]

\* The database implements WalletKV: what a reload of the file yields is the
\* committed map, changed only by an outermost write transaction applying
\* its staged operations in order.
KV == INSTANCE WalletKV
    WITH kv <- DiskView(disk),
         pending <- [t \in Threads |->
                       IF txs[t].depth > 0 /\ txs[t].commit
                       THEN insertVec[t] ELSE <<>>]

KVRefinement == KV!Spec
=============================================================================
