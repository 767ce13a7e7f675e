------------------------------ MODULE WalletEnv ------------------------------
(***************************************************************************)
(* WalletDBInterface (src/cppForSwig/WalletFileInterface.cpp): the LMDB    *)
(* environment of a wallet file with its control database, its header      *)
(* database and one database per wallet header; setupEnv, addHeader,       *)
(* getFreeDbCount, setDbCount, which closes and reopens the environment    *)
(* with more named databases, and shutdown.  Other threads run write       *)
(* transactions on the wallet databases meanwhile.                         *)
(*                                                                         *)
(* A transaction is seen at the granularity of its locks: insertTx         *)
(* registers it in txMap_ under txMutex_; the destructor removes it        *)
(* (eraseTx) and opens the LMDB transaction under txMutex_, then writes    *)
(* without it.  hasTx() reads txMap_.  The contents of the databases are   *)
(* WalletDB's subject and are left out here.                               *)
(***************************************************************************)
EXTENDS Naturals, FiniteSets

CONSTANTS
    Threads,     \* threads using the wallet file
    Wallets,     \* wallet headers (databases) that may be added
    HeaderDb,    \* WALLETHEADER_DBNAME
    NoThread,    \* setupMutex_ is free
    MaxCount,    \* bound on the count a caller passes to setDbCount
    MaxOpens     \* bound on the environments opened: setupEnv (two opens),
                 \* setDbCount and shutdown, which lead to opens, are taken
                 \* only while those opens fit

ASSUME /\ HeaderDb \notin Wallets /\ NoThread \notin Threads
       /\ MaxCount \in Nat /\ MaxOpens \in Nat

VARIABLES
    env,         \* dbEnv_: "none", "open", "closed" (closed, not reset) or
                 \* "null" (close was called through a null dbEnv_)
    gen,         \* which environment is the current one (one per open)
    maxDbs,      \* the named-database count the environment was opened with
    dbCount,     \* dbCount_
    dbs,         \* dbMap_: the open wallet databases and the header database
    headers,     \* headerMap_
    fileHeaders, \* the header records in the header database of the file
    controlSet,  \* the file has a control database with its header and seed
    controlLock, \* controlLock_: the control container is locked (decrypted)
    mutex,       \* the holder of setupMutex_
    pc,          \* what each thread is doing
    txGen,       \* the environment a committing thread's LMDB transaction is on
    arg          \* the count a thread's setDbCount is raising dbCount_ to

vars == <<env, gen, maxDbs, dbCount, dbs, headers, fileHeaders, controlSet,
          controlLock, mutex, pc, txGen, arg>>

\* pc: "idle"; "tx": a write transaction is open (in txMap_); "rtx": a read
\* transaction is open (in txMap_); "commit": the write transaction's
\* destructor has left txMap_ and writes; "dbcount": setDbCount has passed
\* its checks; "reopen": setDbCount holds setupMutex_ with the environment
\* closed; "setup": setupEnv holds setupMutex_ before its setDbCount
PCs == {"idle", "tx", "rtx", "commit", "dbcount", "reopen", "setup"}

\* DBIfaceTransaction::hasTx: some thread has a transaction in txMap_
hasTx == \E t \in Threads : pc[t] \in {"tx", "rtx"}

-----------------------------------------------------------------------------
Init ==
    /\ env = "none"
    /\ gen = 0
    /\ maxDbs = 0
    /\ dbCount = 0
    /\ dbs = {}
    /\ headers = {}
    /\ fileHeaders = {}
    /\ controlSet = FALSE
    /\ controlLock = FALSE
    /\ mutex = NoThread
    /\ pc = [t \in Threads |-> "idle"]
    /\ txGen = [t \in Threads |-> 0]
    /\ arg = [t \in Threads |-> 0]

\* WalletDBInterface::loadControlHeader: getDataRefForKey throws
\* NoEntryInWalletException when the control database has no header, which
\* setupEnv takes for a fresh file
ControlHeaderMissing == ~controlSet

\* WalletDBInterface::setupControlDB: the seed, the control header and the
\* control container written in one transaction of the control database
setupControlDB == controlSet' = TRUE

\* WalletDBInterface::lockControlContainer / unlockControlContainer: each
\* throws when the lock is not in the state it expects
lockControlContainer == ~controlLock /\ controlLock' = TRUE

unlockControlContainer == controlLock /\ controlLock' = FALSE

\* WalletDBInterface::setupEnv: under setupMutex_, nothing if dbEnv_ is
\* set; otherwise open an environment for 2 databases and the control
\* database, set the control database up when loadControlHeader finds no
\* header (setupControlDB writes the seed, the header and the container in
\* one transaction), lockControlContainer and open the header database.
\* The count of the later setDbCount is fixed here: 3 on a fresh file,
\* else one per header record (loadHeaders) + 2.
setupEnv(t) ==
    /\ pc[t] = "idle" /\ mutex = NoThread
    /\ env = "none"
    /\ gen + 2 <= MaxOpens
    /\ env' = "open"
    /\ gen' = gen + 1
    /\ maxDbs' = 2
    /\ IF ControlHeaderMissing THEN setupControlDB ELSE UNCHANGED controlSet
    /\ lockControlContainer
    /\ dbs' = {HeaderDb}
    /\ mutex' = t
    /\ pc' = [pc EXCEPT ![t] = "setup"]
    /\ arg' = [arg EXCEPT ![t] = IF ControlHeaderMissing THEN 3
                                  ELSE Cardinality(fileHeaders) + 2]
    /\ UNCHANGED <<dbCount, headers, fileHeaders, txGen>>

\* WalletDBInterface::loadHeaders: every header record of the file goes
\* into headerMap_ (an insert keeps an entry already there)
loadHeaders == headers \cup fileHeaders

\* WalletDBInterface::openDB for each listed header: a database already in
\* dbMap_ is kept
openDBs(S) == dbs \cup S

\* the rest of setupEnv: loadHeaders on an existing file (a fresh file has
\* no header records, so it would add nothing), then
\* setDbCount(count, false), which throws when another thread has a
\* transaction (the header database is in dbMap_ by now) and otherwise
\* reopens the environment with the count; then openDB for every header
\* and unlockControlContainer.  The throw leaves the 2-database
\* environment, the loaded headerMap_ and the locked control container.
setupDbs(t) ==
    /\ pc[t] = "setup"
    /\ headers' = loadHeaders
    /\ pc' = [pc EXCEPT ![t] = "idle"]
    /\ mutex' = NoThread
    /\ IF hasTx
       THEN UNCHANGED <<env, gen, maxDbs, dbCount, dbs, controlLock>>
       ELSE /\ gen' = gen + 1
            /\ maxDbs' = arg[t]
            /\ dbCount' = arg[t]
            /\ dbs' = openDBs(headers')
            /\ unlockControlContainer
            /\ UNCHANGED env
    /\ UNCHANGED <<fileHeaders, controlSet, txGen, arg>>

\* WalletDBInterface::addHeader: under setupMutex_; throws when the header
\* is in headerMap_ or dbMap_.size() + 2 > dbCount_; otherwise the new
\* database is opened and loaded, putHeader writes its header record, and
\* both maps get it

AddHeaderRefused(w) == w \in headers \/ Cardinality(dbs) + 2 > dbCount

\* WalletDBInterface::putHeader: the header record, in a write transaction
\* of the header database
putHeader(w) == fileHeaders' = fileHeaders \cup {w}

addHeader(t, w) ==
    /\ pc[t] = "idle" /\ mutex = NoThread /\ env = "open"
    /\ ~AddHeaderRefused(w)
    /\ dbs' = dbs \cup {w}
    /\ headers' = headers \cup {w}
    /\ putHeader(w)
    /\ UNCHANGED <<controlLock, env, gen, maxDbs, dbCount, controlSet, mutex, pc, txGen, arg>>

\* mutant: the free count taken from dbMap_ instead of headerMap_
FreeDbCount_dbMap ==
    IF Cardinality(dbs) + 2 >= dbCount THEN 0
    ELSE dbCount - (Cardinality(dbs) + 2)

\* WalletDBInterface::getFreeDbCount
FreeDbCount ==
    IF Cardinality(headers) + 2 >= dbCount THEN 0
    ELSE dbCount - (Cardinality(headers) + 2)

\* mutant: the 2 extra databases added by both overloads
setDbCount_twice(t, c) ==
    /\ pc[t] = "idle" /\ env = "open"
    /\ gen < MaxOpens
    /\ ~hasTx
    /\ c + 4 > dbCount
    /\ pc' = [pc EXCEPT ![t] = "dbcount"]
    /\ arg' = [arg EXCEPT ![t] = c + 4]
    /\ UNCHANGED <<controlLock, env, gen, maxDbs, dbCount, dbs, headers, fileHeaders,
                   controlSet, mutex, txGen>>

\* WalletDBInterface::setDbCount(count): count + 2 databases.  It throws
\* when hasTx() and returns when the count is not larger, both before it
\* takes setupMutex_.  Callers use it on an interface set up by setupEnv
\* (before that it would close a null dbEnv_).
setDbCount(t, c) ==
    /\ pc[t] = "idle" /\ env = "open"
    /\ gen < MaxOpens
    /\ ~hasTx
    /\ c + 2 > dbCount
    /\ pc' = [pc EXCEPT ![t] = "dbcount"]
    /\ arg' = [arg EXCEPT ![t] = c + 2]
    /\ UNCHANGED <<controlLock, env, gen, maxDbs, dbCount, dbs, headers, fileHeaders,
                   controlSet, mutex, txGen>>

\* it takes setupMutex_ and closes the control database, every database
\* of dbMap_ and the environment; a shutdown since its checks has reset
\* dbEnv_, which it then dereferences
closeEnv(t) ==
    /\ pc[t] = "dbcount" /\ mutex = NoThread
    /\ mutex' = t
    /\ env' = IF env = "open" THEN "closed" ELSE "null"
    /\ pc' = [pc EXCEPT ![t] = "reopen"]
    /\ UNCHANGED <<controlLock, gen, maxDbs, dbCount, dbs, headers, fileHeaders,
                   controlSet, txGen, arg>>

\* then it reopens the environment with the new count, resets every
\* database of dbMap_ onto it, sets dbCount_ and releases setupMutex_
reopenEnv(t) ==
    /\ pc[t] = "reopen"
    /\ env' = "open"
    /\ gen' = gen + 1
    /\ maxDbs' = arg[t]
    /\ dbCount' = arg[t]
    /\ mutex' = NoThread
    /\ pc' = [pc EXCEPT ![t] = "idle"]
    /\ UNCHANGED <<controlLock, dbs, headers, fileHeaders, controlSet, txGen, arg>>

\* WalletDBInterface::shutdown: under setupMutex_, throws when hasTx();
\* closes everything, resets controlLock_ and clears dbMap_ and dbCount_
shutdown(t) ==
    /\ pc[t] = "idle" /\ mutex = NoThread /\ env = "open"
    /\ gen + 2 <= MaxOpens
    /\ ~hasTx
    /\ env' = "none"
    /\ dbs' = {}
    /\ dbCount' = 0
    /\ controlLock' = FALSE
    /\ UNCHANGED <<gen, maxDbs, headers, fileHeaders, controlSet, mutex,
                   pc, txGen, arg>>

\* beginWriteTransaction(dbName): the database must be in dbMap_; insertTx
\* registers the transaction under txMutex_
beginWriteTransaction(t, d) ==
    /\ pc[t] = "idle"
    /\ d \in dbs
    /\ pc' = [pc EXCEPT ![t] = "tx"]
    /\ UNCHANGED <<controlLock, env, gen, maxDbs, dbCount, dbs, headers, fileHeaders,
                   controlSet, mutex, txGen, arg>>

\* beginReadTransaction(dbName): as beginWriteTransaction, for reading
beginReadTransaction(t, d) ==
    /\ pc[t] = "idle"
    /\ d \in dbs
    /\ pc' = [pc EXCEPT ![t] = "rtx"]
    /\ UNCHANGED <<controlLock, env, gen, maxDbs, dbCount, dbs, headers,
                   fileHeaders, controlSet, mutex, txGen, arg>>

\* ~WalletIfaceTransaction of a read transaction: eraseTx under txMutex_,
\* and it returns, as it does not commit
endReadTransaction(t) ==
    /\ pc[t] = "rtx"
    /\ pc' = [pc EXCEPT ![t] = "idle"]
    /\ UNCHANGED <<controlLock, env, gen, maxDbs, dbCount, dbs, headers,
                   fileHeaders, controlSet, mutex, txGen, arg>>

\* ~WalletIfaceTransaction: under txMutex_, eraseTx and the LMDB write
\* transaction on the database's environment, the current one
eraseTx(t) ==
    /\ pc[t] = "tx"
    /\ pc' = [pc EXCEPT ![t] = "commit"]
    /\ txGen' = [txGen EXCEPT ![t] = gen]
    /\ UNCHANGED <<controlLock, env, gen, maxDbs, dbCount, dbs, headers, fileHeaders,
                   controlSet, mutex, arg>>

\* the commit loop and DBInterface::update, without txMutex_
commitTx(t) ==
    /\ pc[t] = "commit"
    /\ pc' = [pc EXCEPT ![t] = "idle"]
    /\ UNCHANGED <<controlLock, env, gen, maxDbs, dbCount, dbs, headers, fileHeaders,
                   controlSet, mutex, txGen, arg>>

Next ==
    \E t \in Threads :
        \/ setupEnv(t)
        \/ setupDbs(t)
        \/ \E w \in Wallets : addHeader(t, w)
        \/ \E c \in 1 .. MaxCount : setDbCount(t, c)
        \/ closeEnv(t)
        \/ reopenEnv(t)
        \/ shutdown(t)
        \/ \E d \in Wallets \cup {HeaderDb} : beginWriteTransaction(t, d)
        \/ \E d \in Wallets \cup {HeaderDb} : beginReadTransaction(t, d)
        \/ endReadTransaction(t)
        \/ eraseTx(t)
        \/ commitTx(t)

Spec == Init /\ [][Next]_vars

-----------------------------------------------------------------------------
TypeOK ==
    /\ env \in {"none", "open", "closed", "null"}
    /\ gen \in 0 .. MaxOpens
    /\ maxDbs \in Nat /\ dbCount \in Nat
    /\ dbs \subseteq Wallets \cup {HeaderDb}
    /\ headers \subseteq Wallets /\ fileHeaders \subseteq Wallets
    /\ controlSet \in BOOLEAN /\ controlLock \in BOOLEAN
    /\ mutex \in Threads \cup {NoThread}
    /\ pc \in [Threads -> PCs]
    /\ txGen \in [Threads -> 0 .. MaxOpens]
    /\ arg \in [Threads -> 0 .. MaxCount + 2]

\* The LMDB environment is opened with room for every named database the
\* interface holds open on it: the control database and all of dbMap_.
\* addHeader's "dbCount is too low" check and setDbCount's "count <=
\* dbCount_" return are what keep it so; mdb_dbi_open fails otherwise.
\* Not checked by a run: with two threads a setDbCount whose check is
\* stale reopens with fewer databases than dbMap_ holds (README).
NamedDbsFit ==
    env = "open" => Cardinality(dbs) + 1 <= maxDbs

\* getFreeDbCount, computed from headerMap_, reports a free database exactly
\* when addHeader, which checks dbMap_, accepts a new header: the two maps
\* stay one header database apart through setupEnv, addHeader, setDbCount
\* and shutdown.
FreeCountAgrees ==
    (env = "open" /\ mutex = NoThread) =>
        \A w \in Wallets \ headers : (FreeDbCount > 0) = ~AddHeaderRefused(w)

\* Once setupEnv has returned, the control container it locked to decrypt
\* the control seed is unlocked again (unlockControlContainer), so the
\* decrypted root key and the passphrase prompt do not outlive the setup.
\* Not checked by a run: with two threads, another thread's header-db
\* transaction makes setupEnv's setDbCount throw and leaves it locked.
ControlUnlocked ==
    mutex = NoThread => ~controlLock

\* A commit in ~WalletIfaceTransaction writes through the LMDB transaction
\* it opened, after eraseTx, on the environment that is still the open
\* one; and setDbCount never closes an environment shutdown has reset.
\* setDbCount and shutdown rely on hasTx() for this.
EnvInUseIsOpen ==
    /\ env # "null"
    /\ \A t \in Threads : pc[t] = "commit" => env = "open" /\ txGen[t] = gen

=============================================================================
