# TLA+ models of BlockSettleDB's wallet storage, key tree and configuration

This directory holds TLA+ models of the wallet side of BlockSettleDB
(`src/cppForSwig`) and of the database process's configuration parsing. Each model comes with TLC configurations that check it.
Every module is translated from the C++ source and cites the functions it
models. `PROJECT.json` lists the components, runs, mutants and hazards, and
maps every definition to the source lines it stands for.

## The system

The wallet code in `src/cppForSwig` has these parts. Arrows show what each
part uses.

| part | source | role |
|---|---|---|
| Encrypted wallet database | `WalletFileInterface.cpp`: `DBInterface`, `WalletIfaceTransaction`, `DBIfaceTransaction` | Keeps one wallet sub-database in an LMDB file as append-only records keyed by 4-byte dbKeys. Each record is encrypted with a session key that changes on every load. `loadAllEntries` decrypts the whole database into `dataMap_`. Per-thread, possibly nested write transactions stage inserts and erases. The outermost one writes them at its close. |
| Wallet environment | `WalletFileInterface.cpp`: `WalletDBInterface` | Opens the LMDB environment, the control database and the header database. Opens one `DBInterface` per header and manages the database count. |
| Decrypted data container (DDC) | `DecryptedDataContainer.cpp` | Holds the encryption keys and KDFs. It decrypts private data under a lock: it unwraps encryption keys recursively and prompts for a passphrase when none is decrypted. It also adds or replaces a passphrase (`encryptEncryptionKey`). → encrypted database |
| Asset and address accounts | `Accounts.cpp`: `AssetAccount`, `AddressAccount`, `MetaDataAccount` | The key tree. Tracks the derived asset chain, `lastUsedIndex` and the look-ahead window. Maintains the address-hash map and the address types, and persists all of these. → encrypted database, DDC |
| Script recipients | `ScriptRecipient.cpp` | Classifies output scripts, reports their sizes and serializes them. |
| Signer | `Signer.h` (no `.cpp` in the repository) | Spender and recipient bookkeeping and signed-state evaluation. |
| Configuration | `BlockDataManagerConfig.cpp`: `BlockDataManagerConfig`, `ConfigFile` | A launcher may merge `armorydb.conf` into the database's command line (`fleshOutArgs`). The database process parses its command line and its data directory's `armorydb.conf` (`parseArgs`), and in cookie mode writes `.cookie_` with its listen port, which a client reads back (`getPortFromCookie`). |

## Modules

| module | models | status |
|---|---|---|
| `WalletKV` | The abstract store: a map changed only by a thread's outermost write transaction, which applies its staged operations in order. A restart drops staged operations. | done |
| `WalletDB` | `DBInterface` and `WalletIfaceTransaction`. It implements `WalletKV`. | done |
| `MC_WalletDB` | The TLC instance of `WalletDB`, with symmetry sets. | done |
| `DDC` | `DecryptedDataContainer`: key unwrapping, the lock, passphrase changes, over the `WalletKV` view of the database. | done (KDFs and other encrypted data left out) |
| `MC_DDC` | The TLC instance of `DDC`. | done |
| `AddressAccount` | `AssetAccount` and `AddressAccount`: the asset chains, `lastUsedIndex_`, allocation, peeking, public and private extension, `fillPrivateKey`, address types, the two address-hash cursors, persistence and reload, with crashes. | done for BIP32 accounts (derivation, ECDH salts and the account-type switch of `make_new` left out) |
| `MC_AddressAccount` | The TLC instance: indices modulo 2^16 and the address a caller retypes. | done |
| `WalletEnv` | `WalletDBInterface`: `setupEnv`, `addHeader`, `getFreeDbCount`, `setDbCount` with its close and reopen, `shutdown`, and other threads' write transactions at the granularity of `txMutex_`. Its cfgs give the constants directly. | done for the environment's lifecycle (passphrase prompts, control passphrase changes and database contents left out) |
| `MetaDataAccount` | `MetaDataAccount` with the Comments and AuthPeers conversions: index allocation, `updateOnDisk`, `commit`, erases, reload. Its cfgs give the constants directly. | done (`copy` and the read-only conversions left out) |
| `ScriptRecipient` | `ScriptRecipient.cpp`: the seven recipient classes, their output scripts, `serialize`, `getSize`, `fromScript`, `addBip32Path`, and the exchange through `toProtobuf` and `fromProtobuf`, over byte sequences. | partly (`fromPSBT`/`toPSBT` left out) |
| `MC_ScriptRecipient` | The TLC instance: concrete 20- and 32-byte hashes, a compressed and an uncompressed key, messages of the lengths where the encoding changes, two Universal scripts. | done |
| `BDMConfig` | `BlockDataManagerConfig.cpp`: `tokenizeLine`, `getKeyValFromLine`, `stripQuotes`, `getLines`, `ConfigFile`, `selectNetwork`, `processArgs`, `parseArgs`, `fleshOutArgs` with `keyValToArgv`, `createCookie` and `getPortFromCookie`, over strings as sequences of words. | partly (sockets, `mkdir_p`, help text left out) |
| `MC_BDMConfig` | The TLC instance: eleven arguments, conf files in four data directories, two existing block directories. | done |

### WalletDB: how its state and actions match the code

State:

- **`disk`**: the LMDB database, a map from dbKey to record. A record is one of:
  - data: key, value and session key number;
  - erasure place holder: the dbKey it accounts for, and the session key number;
  - key cycling flag: the session key number;
  - `Free`.

  Encryption and the HMAC reduce to the key number. `readDataPacket` fails with "mac mismatch" exactly when a record is read with another key.
- **`dataMap`, `dataKeyToDbKey`, `dbKeyCounter`**: `DBInterface`'s members of the same names.
- **`sessKey`**: the key number of `encrPubKey_`/`macKey_`.
- **`txs`**: `txMap_[db]`. For each thread, the depth of its `ParentTx` and its commit flag.
- **`insertVec`**: the parent transaction's `insertVec_`.

Actions:

- **`loadAllEntries`**: the whole of `openDB → loadAllEntries`, as one step:
  - the read loop (`Scan`/`ReadEntry`): gap marking, place-holder/gap matching, key cycling, duplicate detection;
  - the final gap check;
  - the key cycling flag written at a fresh dbKey;
  - the switch to the next session key.

  A throw leaves the database closed, with the error in `loadError`.
- **`insertTx(t, mode)`**: the transaction constructor. A mode mismatch with the parent throws and changes nothing, so it is no step.
- **`insert`, `erase`**: the insert and erase lambdas.
  - Callers erase only keys they see through the transaction (`getDataRef` non-empty), as `updateKeyOnDiskNoPrefix`, `updateInstantiatedAddressType` and `MetaDataAccount::updateOnDisk` do.
- **`closeTx`**: the destructor of a nested or read-only transaction.
- **`commitTx`**: the destructor of the outermost write transaction:
  - `eraseTx`;
  - the commit loop, which writes each key's last effect (`LastEffects`, `WriteEffect`);
  - `DBInterface::update`.

  The loop can throw "key marked for deletion when it does not exist" after `getNewDbKey`. The destructor is `noexcept(false)`, but no caller under `src/` catches what it throws. So the Itanium unwinder calls `std::terminate` before any destructor runs, the process ends, and LMDB drops the transaction. The model takes that step as a crash.
- **`shutdown`**: `WalletDBInterface::shutdown`, refused while a transaction is live.
- **`Crash`**: the process dies at any point between steps.

### DDC: how its state and actions match the code

The database is seen at the level of `WalletKV`, which `WalletDB` implements: `store` maps the permanent entry (`ENCRYPTIONKEY_PREFIX`|id) and the temp entry (`ENCRYPTIONKEY_PREFIX_TEMP`|id) of the master key to the set of unlockers its cipher data lists. An unlocker is the default key or a passphrase; the key id a passphrase derives to stands for the passphrase.

State:

- **`encrKey`**: `encryptionKeyMap_[masterKey]`, as the set of unlockers of its ciphers.
- **`dec`**: the key ids in `lockedDecryptedData_->encryptionKeys_`, or `NoLock` when `lockedDecryptedData_` is null. **`privDec`**: the master-key data is in `privateData_`.
- **`pc`, `call`**: where `encryptEncryptionKey` is between its write transactions, and its arguments.
- **`staged`**: the operations staged in a caller's write transaction, when the caller runs `encryptEncryptionKey` inside one.
- **`err`**: the last exception a call threw. **`up`**: the process runs and has read the container.

Actions:

- **`populateEncryptionKey`** is a RECURSIVE operator with the code's three phases in order: a key already decrypted; an encrypted key found in `encryptionKeyMap_`, whose cipher keys are populated first (recursion) and which is decrypted with any cipher whose key is then decrypted, else "failed to decrypt key"; the prompt. The prompt (`promptPassphrase`) fails on an empty answer and asks again on a wrong one, so a wrong answer is no step.
- **`readFromDisk`**: the start-up read. Only `ENCRYPTIONKEY_PREFIX` entries are read; the temp entry falls into the default case of the switch.
- **`initAfterLock`, `cleanUpBeforeUnlock`**: the first lock (the default key is copied in) and the last unlock.
- **`getDecryptedPrivateData(typed)`**: private data encrypted by the master key.
- **`encryptEncryptionKey(new, replace, typed, nested)`**: everything up to the first write transaction: the `SingleLock` (no lock may be held), populating the master key, picking the decrypted key that has a cipher, the replace removal and `addCipherData`. Both throws leave memory as far as the code got.
- **`WriteTemp`, `WritePerm`, `DelTemp`**: the three write transactions, through `updateKeyOnDiskNoPrefix` and `deleteKeyFromDisk`. Each commits on its own, or stages into the caller's transaction when `nested`.
- **`updateOnDisk`**: rewrites the master key's entry if memory differs; `deleteKeyFromDisk` throws when the container is not locked.
- **`CloseOuter`**: the caller's outermost transaction closes. As in `WalletDB`, an erase of a key not in the file makes the destructor throw, which ends the process.
- **`Crash`**: the process dies between two steps.

### AddressAccount: how its state and actions match the code

An asset is its index and a flag that says whether it carries a private key. Indices are unsigned 32-bit in the code. The model computes them modulo `Modulus`, and `RootIdx = Modulus - 1` stands for `UINT32_MAX`, the index of the BIP32 root asset and the initial `lastUsedIndex_`. The database is seen, as in `DDC`, at the `WalletKV` level: `disk` is the committed store and `view` what the account's write transactions see. With `NestedInCallerTx` every operation runs in a caller's outermost transaction, as the specification asks, and `CommitOuter` commits it. Otherwise every `beginWriteTransaction` of the code commits on its own.

State:

- **`assets`**: `assets_` of each asset account. **`lastUsed`**: `lastUsedIndex_`.
- **`lastHashed`, `assetHashes`**: `lastHashedAsset_` and `addrHashMap_`. `lastHashedAsset_`'s initial value is set in the header, which is not in the repository. The model starts it at `UINT32_MAX`, which is not an asset index, so the first update starts at `begin()` as any value that is not an index would.
- **`topHashed`, `addrHashes`**: `topHashedAssetId_` and `addressHashes_` of the address account. **`addresses`**: `addresses_`, the address type overrides.
- **`view`, `disk`**: the `ASSETENTRY`, `ASSET_COUNT`, `ASSET_TOP_INDEX` and `ADDRESS_TYPE` records.
- **`pc`, `call`**: `getNewAsset` between its two transactions, and `getNewAddress` before its type write. **`peek`**: the index the last peek returned. Postconditions are action properties over the step of the call, so no variable records the last request.

Actions:

- **`extendPublicChain`, `extendPublicChainToIndex`**: from the last asset, or from the root of an empty chain. `ToIndex` clamps the last computed index -1 to 0.
- **`extendPrivateChain`, `extendPrivateChainToIndex`, `fillPrivateKey`**: from the last asset with a private key, or from `UINT32_MAX` when `getLastAssetWithPrivateKey` throws. An asset without a key is replaced and one with a key is kept. `fillPrivateKey` extends by `assetID - prevIndex` in unsigned arithmetic.
- **`getAndBumpHighestUsedIndex` then `getNewAsset`**: the bump and `updateHighestUsedIndex` form one write transaction. The extension by the lookup window, if the index has no asset, is a second one. The disjuncts of `Next` are `getNewAddress` on the outer account, `getNewChangeAddress` on the inner one and `peekNextChangeAddress` on the inner one. The last also goes through `getNewAsset`, as the code does.
- **`instantiateAddressType`**: `getNewAddress`'s `updateInstantiatedAddressType` for a non-default type, a third write. **`updateInstantiatedAddressType`**: the same for an address a caller retypes.
- **`peekNextAsset`**: the asset after `lastUsedIndex_`, which may extend the chain but does not bump.
- **`getAddressEntryForID(a, i)`**: a lookup that changes nothing, so it is a predicate (the call returns an entry), not a step. It succeeds in a loaded, idle account unless `EntryRefused` holds: either the index is above `lastUsedIndex_` (the `UnrequestedAddressException` check) or `getAssetForIndex` has no asset at that index. The returned entry's type is not tracked.
- **`updateAddressHashMap`**: each asset account hashes the assets after its cursor, or all of them when the cursor is not an index. The address account then copies the entries after `topHashedAssetId_`.
- **`readFromDisk`**: a restart. The objects are fresh, so the caches and cursors are empty, and `loadFromDisk`'s asset count check must pass.
- **`Crash`, `CommitOuter`**: as in `DDC`. `AddressAccount::commit` is called only by `make_new`. `Init` is the state it commits: a BIP32 account with empty chains and nothing used.

### MetaDataAccount: how its state and actions match the code

State:

- **`assets`**: `assets_` of the Comments and the AuthPeers account. Each asset has its kind, its key, its value and `needsCommit_`. The value is `Empty` after `clear()`, so that `serialize()` returns nothing. The `MetaData` classes are declared in a header that is not in the repository. The model takes from the code that uses them what `clear()` must do: `deleteAsset` expects the following `updateOnDisk` to erase the asset, so `clear()` empties the data and flags the asset for commit.
- **`disk`, `staged`**: the committed records (`METADATA_*_PREFIX`|account|index) and the operations staged in a caller's transaction, last effect per key.
- **`ret`**: what the last index-returning call handed back. **`thrown`**: a commit threw and ended the process.

Actions:

- **`setAsset`, `deleteAsset`**: `CommentAssetConversion`. `setAsset` with an empty comment returns before any change, so it is no step. `deleteAsset` of an unknown key returns -1, and that is no step either.
- **`addAsset`, `addRootPeer`, `addRootSignature`**: `AuthPeerAssetConversion`, through `AddPeerAsset`. Each takes index `assets_.size()`, and `emplace` does nothing when that index is taken.
- **`eraseMetaDataByIndex`**: `clear()` only. **`updateOnDisk`**: one write transaction if any asset needs a commit. Each flagged asset is inserted, or erased and dropped from `assets_`.
- **`commit`**: `MetaDataAccount::commit`, taken only when `CommitCalled` is set (the nested run). Each flagged asset gets a write transaction of its own, in index order (`CommitEach`). Outside a caller's transaction, the ones before the first erase of a missing record are written, and that erase throws. Every flag is reset, but a cleared asset stays in `assets_`. The account record `commit` writes last holds only the account type, and it is left out.
- **`CommitOuter`, `Crash`, `readFromDisk`**: as in `DDC`. A commit whose erase finds no record throws and ends the process.

### WalletEnv: how its state and actions match the code

State:

- **`env`, `gen`, `maxDbs`**: `dbEnv_` is none, open or closed; which environment is current; and the count of named databases it was opened with (`LMDBEnv(count)`). `env` is `"null"` once `dbEnv_->close()` has been called through a null `dbEnv_`.
- **`dbCount`, `dbs`, `headers`**: `dbCount_`, the names in `dbMap_` (the header database and one per wallet), and the wallets in `headerMap_`. `shutdown` clears `dbMap_` but not `headerMap_`, as the code does.
- **`fileHeaders`, `controlSet`**: the header records in the file and whether the control database is set up.
- **`controlLock`**: `controlLock_`, the lock `setupEnv` holds on the control container while it decrypts the control seed.
- **`mutex`**: the holder of `setupMutex_`.
- **`pc`**: per thread, one of these:
  - `"idle"`;
  - `"tx"`, `"rtx"`: a write or read transaction is registered in `txMap_`;
  - `"commit"`: the destructor has left `txMap_` and writes;
  - `"dbcount"`: `setDbCount` has passed its checks;
  - `"reopen"`: `setDbCount` holds the mutex with the environment closed;
  - `"setup"`: `setupEnv` holds the mutex before its inner `setDbCount`.
- **`txGen`**: the environment a committing thread's LMDB transaction is on.
- **`arg`**: the count a pending `setDbCount` is raising `dbCount_` to.

Actions:

- **`setupEnv`, `setupDbs`**: `setupEnv` under `setupMutex_`, in two steps split at its inner `setDbCount(count, false)`. That call checks `hasTx()`, and by then another thread can have begun a transaction on the header database.
  - `setupEnv` does the first part. It opens a 2-database environment and the control database. It runs `setupControlDB` when `loadControlHeader` finds no header (`ControlHeaderMissing`), that is, on a fresh file. It then runs `lockControlContainer` and opens the header database. It fixes the count: 3 on a fresh file, or one per header record plus 2.
  - `setupDbs` does the rest. `loadHeaders` fills `headerMap_`. Then `setDbCount` runs, and it always reopens, because `dbCount_` is 0. Then `openDB` opens each header, and `unlockControlContainer` runs.
  - When `hasTx()` holds, the `setDbCount` throws. `setupEnv` then returns with the 2-database environment, with `headerMap_` loaded and the container still locked.
- **`addHeader`**: refused (`AddHeaderRefused`) when the header is known or `dbMap_.size() + 2 > dbCount_`. Otherwise it opens the database, writes the header record and fills both maps.
- **`setDbCount`, `closeEnv`, `reopenEnv`**: the three parts of `setDbCount`, split where other threads can interleave.
  - `setDbCount` makes the `hasTx()` and `count <= dbCount_` checks, without the lock.
  - `closeEnv` takes `setupMutex_` and closes.
  - `reopenEnv` opens an environment with the new count, resets every database onto it and sets `dbCount_`.
- **`shutdown`**: refused when `hasTx()`, under `setupMutex_`.
- **`beginWriteTransaction`, `eraseTx`, `commitTx`**: a thread's write transaction.
  - `beginWriteTransaction` requires a name in `dbMap_`.
  - `eraseTx` is the destructor's locked part: it leaves `txMap_` and opens the LMDB transaction on the current environment.
  - `commitTx` is the unlocked commit loop.
  - `beginReadTransaction` and `endReadTransaction` are a read transaction. It is in `txMap_` too, so it holds off `setDbCount` and `shutdown`. Its destructor only calls `eraseTx`.
- **Helpers named after the code**: `loadHeaders`, `openDBs` (`openDB`, which keeps a database already open), `putHeader`, and `lockControlContainer`/`unlockControlContainer`. Each of the last two is guarded by the state whose absence makes it throw.
- `MaxOpens` bounds the environments opened. `setupEnv` opens two. `setupEnv`, `setDbCount` and `shutdown` are taken only while the opens they lead to fit, so the bound never leaves a thread stuck, and deadlock is checked.
- The model calls `setDbCount` only on an environment that is set up. This is the callers' precondition, not a check in the code.

### ScriptRecipient: how its state and actions match the code

Data:
- A serialization is a `Seq` of bytes `0..255`. `LE(v, n)` is `put_uint64_t`/`put_uint16_t`, `VarInt` is `put_var_int`, and `Put8` is `put_uint8_t`, which keeps the low byte only.
- The script builders (`P2PKHScript` and the others) are the `getSerializedScript` bodies of each class. `OutputScript` picks them per class. `OpReturnPush` is `Recipient_OPRETURN::serialize`'s push: a direct push below 76 bytes, else `OP_PUSHDATA1` and a one-byte length.
- `serialize` is the 8-byte value followed by the length-prefixed script. `getSize` is each class's `getSize`, as written.
- `fromScript` follows `ScriptRecipient::fromScript`: it reads the value and the first bytes, and tests the P2PKH, P2WPKH, P2SH, P2WSH and OP_RETURN shapes in the code's order. A read past the end, or a script of no known shape, is `Refused` (the code throws). P2PK has no branch.

State:
- `local` is the recipient `Signer::addRecipient` holds, with its BIP32 paths. `wire` is the protobuf message, and `remote` is what the other side rebuilt.
- `addBip32Path` adds a path under a public key. It refuses a second, different path for a key already present, as the code does.
- `toProtobuf` writes the serialized recipient and the paths. `fromProtobuf` runs `fromScript` on the serialization and then re-adds the paths.

### BDMConfig: how its state and actions match the code

Data:
- A string is a `Seq` of symbols. The separators `-`, `=`, space, quotes, `#`, `/` and the newline stand for themselves. An option name or a word of a value (`testnet`, `a`, `9`) is one symbol, so it never contains a separator the parsers look for.
- `tokenizeLine` is the code's 0-based scan as a RECURSIVE operator (`TokLoop`, `ScanEnd`, `TokenEnd`), including its rule that keeps the line's last character only when no space stopped the scan. `getKeyValFromLine` splits at the first `=`, and `stripQuotes` drops one quote at each end.
- A map of arguments is a function from keys to values. `InsertAll` is `map::insert`, where the first insert of a key wins. `ConfigFile(d)` is the conf file of directory `d` (`ConfOf`), read with `getLines` and with comment and empty-key lines skipped.
- `Constructed` is the constructor's state: `selectNetwork(MAINNET)` on the defaults. `selectNetwork` sets the rpc port, and the listen and node ports unless a custom one was set. The ports are the symbols `rpc_main` and so on.
- `processArgs(c, a, only)` is `NetworkArgs` (listen port, node port, network, rpc port; a listen port outside 1..65535 empties it without clearing `customListenPort_`) followed, unless `only`, by `OtherArgs` (init mode, db type, paths, cookie, public, fullbip150). An unknown db type prints the help and calls `exit(0)`: the `exited` field.

State:
- `argv`: the database process's arguments. `fleshed`: the launcher has merged the conf file into them.
- `status`: `new` before `parseArgs`, then `ok`, `error` (a `DbErrorMsg`) or `exit`. `cfg`: the `BlockDataManagerConfig` members.
- `cookies`: the `.cookie_` file of each data directory. `clientSaw`: what a client's `getPortFromCookie` returned.

Actions:
- **`fleshOutArgs`**: `ConfigFile::fleshOutArgs` on the arguments: the conf file is found through `--testnet`, `--regtest` or a non-empty `--datadir` as given, its keys that the arguments lack are added, and `keyValToArgv` rebuilds the arguments. An empty or missing conf file leaves them as they are.
- **`parseArgs`**: the whole of `parseArgs` in one step: the command line (`CliMap`), its network pass, the data directory, the conf file (`DbErrorMsg` if it names `datadir`), the conf pass and the command-line pass (`ParsedCfg`), then `parseOutcome`: the db and block directory defaults, `blocks` appended, a missing block directory (`Existing`) as an error, and the random cookie-mode port. `mkdir_p` is taken to succeed. Each intermediate value is bound once (`\E x \in {e}`), so that TLC computes it once.
- **`createCookie`**: in cookie mode, after a successful parse, `.cookie_` holds the cookie, a newline and the listen port.
- **`getPortFromCookie`**: a client given the same data directory reads the second of exactly two lines.

## Runs

| run | cfg | expect | what it shows |
|---|---|---|---|
| `walletdb` | `MC_WalletDB.cfg` | pass | Two threads, two data keys, nesting depth 2, up to 2 staged operations, 2 loads, dbKeys 0..6. It covers overwrites, erases, inserts and erases in one transaction, commits in both orders, shutdown, crash and reload. Checked: `TypeOK`; `Recoverable` (the file always loads again); `CacheCoherent` (`dataMap_`/`dataKeyToDbKey_` equal a reload); `NoOverwrite` (no record is ever overwritten in place); `KVRefinement` (`WalletKV!Spec`, with `kv` mapped to the live data records of the file and `pending` to the staged operations of open write transactions). |
| `ddc` | `MC_DDC.cfg` | pass | Passphrases {a, b} besides the default key, 3 passphrase changes (add or replace, alone or nested in a caller's transaction, with any typed answer), 2 crashes. Checked: `TypeOK` (a live lock always holds the default key); `Unlockable`: the permanent entry is always on disk and every unlocker it lists opens the master key after a reload, through crashes between the three transactions, failed calls and `updateOnDisk`. |
| `ddc_add_drops_unlocker` | `MC_DDC_add.cfg` | violation | `AddKeepsUnlockers` fails in 10 steps: add `a` to a default-key wallet; replace the default key by `a` fails with "cipher data already present" after removing the default key's cipher in memory; add `b` then writes {a, b}, and the default key no longer unlocks the wallet. |
| `metadata` | `MC_MetaDataAccount.cfg` | pass | Two keys, two values, two AuthPeers assets, one crash, each `updateOnDisk` on its own. 167,000 states. Checked: `TypeOK`; `DiskMatchesMemory` (with nothing flagged and no transaction open, the store holds exactly what memory holds). |
| `metadata_nested` | `MC_MetaDataAccount_nested.cfg` | pass | One key and one value, inside a caller's transaction, with `commit` as well (`CommitCalled = TRUE`). 341,000 states. Checked: `DiskMatchesMemory` (`TypeOK` is the `metadata` run's), where a cleared asset that `commit` keeps in memory counts as absent, since it serializes to nothing. |
| `metadata_index` | `MC_MetaDataAccount_index.cfg` | violation | `IndexNamesAsset` fails in a trace of 5 states: set `k1` (index 0) and `k2` (index 1), delete `k1`, then set `k1` again. It gets index 1, which `k2` holds, so the new comment is lost. |
| `address_account` | `MC_AddressAccount.cfg` | pass | One asset account used as both outer and inner account, indices 0..2, lookup 2, two address types, one crash, inside a caller's transaction. 202,515 states (about a minute). Checked: `TypeOK`; `PostConditions`, an action property (every `extendPublicChainToIndex(c)` step leaves at least c assets, every `fillPrivateKey` step leaves the asset private, and a `getNewAddress` that returns an asset hands out `lastUsedIndex_`); `HashMapComplete` (from every state where `updateAddressHashMap` may be called, the `addressHashes_` it leaves holds every type of every asset, whatever the two cursors skipped). |
| `address_account_crash` | `MC_AddressAccount_crash.cfg` | violation | The same bounds with `NestedInCallerTx = FALSE`, which is how `SignerTests.cpp:3401` calls `getNewAddress`. `ReloadSucceeds` (after a crash the asset count check passes and every index up to the stored `lastUsedIndex` has an asset) fails in 3 states. `getNewAddress` bumps and persists `lastUsedIndex` to 0, and the process dies before the lookup extension commits. |
| `wallet_env` | `MC_WalletEnv.cfg` | pass | One thread, three wallets, counts up to 3 (+2), 6 environment opens. 1,430 states. Every action fires, including a fresh and a reloaded `setupEnv`, a raise of the count and a shutdown. Checked: `TypeOK`; `FreeCountAgrees` (`getFreeDbCount`, computed from `headerMap_`, is positive exactly when `addHeader`, which checks `dbMap_`, accepts a header). |
| `wallet_env_race` | `MC_WalletEnv_race.cfg` | violation | Two threads, one wallet, 5 opens. `EnvInUseIsOpen` fails in a trace of 5 states. One thread starts `setupEnv`. The other begins a write transaction on the header database and enters its commit. The first thread's inner `setDbCount` does not see it, and reopens the environment under it. The threads are symmetric, so which of `t1` and `t2` plays which part depends on TLC's search order. |
| `script_recipient` | `MC_ScriptRecipient.cfg` | pass | Every class with values 0 and 300, a compressed and an uncompressed key, OP_RETURN messages of 0, 1, 75, 76, 252 and 253 bytes, two Universal scripts, two paths. 1,826 states. Checked: `TypeOK` (every serialization is bytes); `ExchangeRefusals` (a typed recipient is refused exactly when it is P2PK or an OP_RETURN whose message is empty or longer than 252 bytes). |
| `bdm_config` | `MC_BDMConfig.cfg` | pass | Every command line of up to two of eleven arguments, with and without the launcher's merge, against conf files in four data directories. 718 states. Checked: `TypeOK`; `CliWins` (after a successful parse, the network, a valid listen or rpc port, the node port and the data directory given on the command line are in effect, whatever the conf file says); `TokenizeSplitsWords` (`tokenizeLine` returns exactly the `--` options of every well-formed line of up to five characters, and of every argument); `CookieRoundTrip` (a client that finds `.cookie_` reads the port the database listens on, including the random one). |

The bounds are enough for every path of the code to occur:

- **Overwrite path.** It needs 2 dbKeys per key. Two commits of two keys plus load flags fit in 0..6.
- **Erase-after-insert in one transaction.** It needs 2 staged operations.
- **Two threads.** They give both commit orders and an erase that another thread's commit made stale.
- **2 loads.** They give a file with two key cycling flags, and records of two session keys are read back with the keys the flags select; a write between the loads and another after the second load puts records of both session keys in one file.

For `DDC`, two passphrases and the default key give every case of the pick and of the replace path: a wallet unlocked by the default key or by a prompt, a replace of the key that unlocked it, and an add of a key already present. Three changes let a failed call be followed by a successful one, and two crashes let a temp entry left by a crash meet a later nested call, whose commit then succeeds.

For `AddressAccount`, the asset accounts of an address account share no state: each has its own chain, index, cursor and records. The hash map and the type table are keyed by account. So one asset account, playing both the outer and the inner role, shows every interleaving that matters, and two would only multiply the states. Indices 0..2 with lookup 2 give an extension that the first allocation triggers, a second one that the third allocation triggers, a chain that reaches past the used index, and assets after the hash cursors. Modulus 2^16 keeps the wrap-around of `UINT32_MAX + 1` and of `assetID - UINT32_MAX` exact. Only the first address is retyped directly, and `getNewAddress` types the others.

For `WalletEnv`, three wallets fill an environment reopened with count 5, and the run sets up fresh and reloaded files, adds headers, raises the count and shuts down. The pass run has one thread, and it checks only what one thread decides: whether `getFreeDbCount` and `addHeader` agree. Every property about concurrent calls fails with two threads. `wallet_env_race` is the violation run kept for them, and three more fail under the `wallet_env` bounds with `Threads = {t1, t2}`:
- `NamedDbsFit` fails in 11 states. A `setDbCount` whose checks passed before the count was raised reopens last, with fewer named databases than `addHeader` has filled in the meantime.
- `ControlUnlocked` fails in 4 states. Another thread's transaction on the header database makes `setupEnv`'s inner `setDbCount` throw.
- `FreeCountAgrees` fails in 8 states. A `setDbCount` whose checks passed before a `shutdown` reopens the environment that `shutdown` reset. `dbMap_` is then empty while `headerMap_` still lists a header.

For `MetaDataAccount`, the collision needs one erase below the top and one more add. Two keys in the Comments account and two AuthPeers assets reach it in both accounts. The nested run keeps one key and one value: a caller's transaction left open multiplies every combination of memory, staged and committed records, and one key already gives an add and an erase in one transaction and every kind of AuthPeers asset.
For `BDMConfig`, the eleven arguments give each option kind a value on each side of its checks: a valid and an invalid listen port, a valid rpc port, two networks, `--help`, an unknown db type, two data directories (one with a space), cookie mode and a block directory that does not exist. Two arguments combine any two of them, such as a network with a data directory, or a port with a conf file that sets another. The conf files cover each branch of the conf pass: the mainnet directory's sets an rpc port and has a comment line, the regtest directory's selects testnet, directory `a`'s sets a listen port and cookie mode, and the testnet directory's names `datadir`, which `parseArgs` refuses. `TokenizeSplitsWords` also checks every well-formed line among the 364 sequences of up to five of `-`, space and `a`. These include one-character values, two options in one line, and lines that end right after `--`.
For `ScriptRecipient`, the message lengths are the edges of the OP_RETURN encoding: 0 (nothing to read back), 1, 75 and 76 (direct push against `OP_PUSHDATA1`), 252 and 253 (where the one-byte script length of `serialize` and the var-int of the script differ). Values 0 and 300 make the 8-byte little-endian value carry into its second byte. The keys are one compressed (33 bytes) and one uncompressed (65 bytes). One Universal script has a P2PKH shape and one has none.

## Fairness

Every run checks safety properties only, so no run assumes fairness. The one liveness question the code raises is whether `setupEnv`, `setDbCount` and a commit that has started always return. With one thread this is automatic. With two threads it depends on the order in which threads take `setupMutex_`, and the code does not fix that order.

`CHECK_DEADLOCK FALSE` is set because the library really may stop: after the last load a wallet may stay closed forever, and the bounds end every behaviour that way. In `bdm_config`, the process parses its configuration once, and nothing happens after the cookie is written and read.

## Findings

- **Inserting and erasing a key in one transaction ends the process.** `WalletFileInterface.cpp:1250` throws "key marked for deletion when it does not exist" from `~WalletIfaceTransaction`, after `getNewDbKey` has already consumed a dbKey. No caller under `src/` catches the exception, so the process terminates and LMDB drops the transaction. `Recoverable` shows that the file still loads afterwards. The throw follows ordinary sequences:
  - a key inserted and erased in one outermost transaction;
  - `encryptEncryptionKey` with its temp key, when it runs inside an outer write transaction;
  - two threads erasing the same key.
- **A passphrase add drops another unlocker** (`ddc_add_drops_unlocker`, `code_bug`). `DecryptedDataContainer.cpp:633` throws "cipher data already present" after line 627 has removed the picked cipher from the in-memory key. Nothing restores it. The next change that succeeds writes the in-memory key, so an add loses an unlocker the user never asked to remove.
- **Nested passphrase change cannot commit** (`spec_code_divergence`, no longer a run of its own). The specification wraps each high-level operation in one outermost transaction. `encryptEncryptionKey` inside one stages an insert and an erase of the temp key, and the outermost commit throws (`DecryptedDataContainer.cpp:659`). This is the erase check of `WalletFileInterface.cpp:1250`. To reproduce it, check `DDC`'s `CallerTxCommits` with `MC_DDC.cfg`'s constants, `NestedInCallerTx = TRUE`, and `CHECK_DEADLOCK FALSE`; it fails in 7 states.
- **`setDbCount` closes the environment under a commit, a shutdown or a larger count** (`wallet_env_race`, `code_bug`). `setDbCount` relies on `hasTx()` (`WalletFileInterface.cpp:978`) to close the environment only when no transaction is live. Four ways this fails:
  - `~WalletIfaceTransaction` leaves `txMap_` (line 1170) before its commit writes, so `hasTx()` cannot see a commit in progress. `setDbCount`, including the one inside `setupEnv`, then closes and reopens the environment under that commit. This is the trace TLC reports; `shutdown` has the same window.
  - The checks run before `setupMutex_` is taken. A `shutdown` in between makes `setDbCount` close a null `dbEnv_`.
  - A concurrent `setDbCount` to a larger count can reopen first. This one then reopens with fewer named databases than `dbMap_` holds.
  - A transaction begun on the header database during `setupEnv` makes its inner `setDbCount` throw. That leaves the control container locked and no wallet database open.

- **A crash inside `getNewAsset` leaves an unloadable index** (`address_account_crash`, `code_bug`). At `Accounts.cpp:526`, the bump of `lastUsedIndex_` is persisted in its own write transaction before the chain extension. Unless a caller's outer transaction wraps the call, a crash between them leaves a stored highest used index with no asset entry, and `getUsedAddressMap` throws "unknown asset index" on every later load. The same early bump makes a failed `getNewAsset` ("requested index overflows max lookup") leave a used index with no asset. `address_account_crash` shows it in 3 states: `getNewAddress` bumps and persists `lastUsedIndex` to 0, and the process dies before the chain extension commits. Inside a caller's transaction, which is what the `address_account` run uses, the crash rolls both steps back.
- **`extendPrivateChainToIndex` stops one short on a public-only chain** (`code_bug`, no longer a run of its own). To reproduce it, check `PrivateChainReachesIndex` (a `PROPERTY`) with `MC_AddressAccount.cfg`'s constants; it fails in 2 states: from an empty chain, `extendPrivateChainToIndex(acc, 1)` creates asset 0 only. At `Accounts.cpp:385`, `topIndex` defaults to 0 and the extension starts from `UINT32_MAX`, so it covers 0..id-1 instead of reaching id.
- **`getAddressEntryForID` returns addresses nobody requested** (`spec_code_divergence`, observation). The specification says an index above `lastUsedIndex` fails with `UnrequestedAddress`. The check at `Accounts.cpp:1734` compares the index with `getHighestUsedIndex()`. That value is UINT32_MAX while no address has been handed out, so the check never fires. To reproduce it, check `UnrequestedFails` with `MC_AddressAccount.cfg`'s constants. It fails in 2 states: `extendPublicChain` creates asset 0, and `getAddressEntryForID(acc, 0)` would then return it. It stays an observation because every run slot is taken.
- **Peeking a change address bumps** (`spec_code_divergence`, observation). The specification says peeking does not bump. `peekNextChangeAddress` (`Accounts.cpp:1341`) calls `getNewAsset`, not `peekNextAsset`. To reproduce it, check `PeekIsNext` with `MC_AddressAccount.cfg`'s constants. It fails in 3 states: the peek returns index 0 and leaves `lastUsedIndex_` at 0, so the next change address is 1.
- **A P2PK recipient cannot be exchanged** (observation). `ScriptRecipient::fromScript` (`ScriptRecipient.cpp:24`) has no P2PK branch, so `fromProtobuf` throws on a recipient that `Signer::toProtobuf` wrote. The same holds for an empty OP_RETURN (line 64 reads past the script) and for a message over 252 bytes, whose script length `serialize` truncates to one byte (line 339). `ExchangeRefusals` states exactly this set. To see a trace, check `ExchangeRestores` with `MC_ScriptRecipient.cfg`'s constants; it fails in 3 states.
- **A Universal script comes back as another script** (observation). A Universal script that starts like P2PKH (`OP_DUP OP_HASH160 20 <hash>`) is parsed as P2PKH by its first bytes, and its tail is dropped. To see it, check `NoSilentChange` with `Scripts <- MCScriptsAll`; it fails in 3 states, with a script ending `OP_EQUALVERIFY OP_CHECKSIGVERIFY`.
- **`getSize` is one byte short** (observation). For P2PK, `getSize` returns 10 + key length but `serialize` writes 11 + key length (`ScriptRecipient.cpp:355`); OP_RETURN's `getSize` omits one byte the same way. Fee estimates that sum `getSize` undercount. `SizeIsSerializedLength` is violated by the initial state (43 against 44).

- **A new comment or peer silently overwrites nothing and is lost** (`metadata_index`, `code_bug`). `Accounts.cpp:2523` (and 2425, 2449, 2468) take `assets_.size()` as the new index. `updateOnDisk` drops deleted assets from `assets_`, so after deleting anything but the last asset the size names a taken index. `emplace` keeps the old asset, nothing is written, and the call returns the other asset's index. The sizes are the same after a reload, so the collision persists.
- **Adding and deleting a comment in one caller transaction cannot commit.** This is the path of the nested passphrase change again. The erase that `writeAssetToDisk` stages (`Accounts.cpp:2157`) targets a key the file does not hold, and the commit throws from `~WalletIfaceTransaction`. No caller catches the exception, so the process terminates. To reproduce it, check `NoCommitThrows` with `MC_MetaDataAccount_nested.cfg`'s constants. It fails in 4 states (`setAsset(k1)`, `deleteAsset(k1)`, the commit). It stays an observation because every run slot is taken.

- **Deleting a comment again after `commit` throws** (observation). `MetaDataAccount::commit` (`Accounts.cpp:2130`) writes each flagged asset in its own transaction. Unlike `updateOnDisk`, it keeps a cleared asset in `assets_`, and `getByKey` still finds it by its key. A later `deleteAsset` of that key flags it again. `updateOnDisk` then erases a record the file no longer holds, and the commit throws from `~WalletIfaceTransaction`. Until a restart, `getCommentMap` also lists the cleared comment with an empty value. To reproduce it, check `NoCommitThrows` with `MC_MetaDataAccount.cfg`'s constants and `CommitCalled = TRUE`. It fails in 5 states: `setAsset`, `eraseMetaDataByIndex`, `commit`, `deleteAsset`. It stays an observation because every run slot is taken.

- **The conf file's network and rpc port never apply** (observation). `parseArgs` processes the conf file and then the command line again (`BlockDataManagerConfig.cpp:443-446`). Each `processArgs` pass calls `selectNetwork`, which resets `rpcPort_` and picks mainnet unless that pass names another network. So an `armorydb.conf` with `testnet` or `satoshirpc-port` has no effect on a command line without them. To reproduce it, check `ConfApplies` with `MC_BDMConfig.cfg`'s constants. It fails in 2 states: no arguments, the mainnet conf file's `satoshirpc-port=7`, and `rpc_main` in effect.
- **An invalid listen port leaves none at all** (observation). At `BlockDataManagerConfig.cpp:560-564`, an out-of-range listen port sets `listenPort_ = ""`, "falling back to default", but leaves `customListenPort_` as an earlier pass set it. When the conf file gave a valid port, `selectNetwork` keeps the empty one. To reproduce it, check `ListenPortSet` with `MC_BDMConfig.cfg`'s constants. It fails in 2 states: `--listen-port=0 --datadir=a`, where directory `a`'s conf file says `listen-port=9`.
- **Regtest reads testnet's blocks** (observation). Without `satoshi-datadir`, the block directory is the mainnet default or else the testnet one (`BlockDataManagerConfig.cpp:459-469`), although regtest has its own data directory and `defaultRegtestBlkFileLocation_` exists. To reproduce it, check `BlkDirOfNetwork` with `MC_BDMConfig.cfg`'s constants; `--regtest` violates it in 2 states.
- **A value with a space is cut** (observation). `tokenizeLine` ends an option at the first space (`BlockDataManagerConfig.cpp:817`), quotes or not, so `--datadir=a b` selects directory `a`. A trailing space is kept in the value. `TokenizeSplitsWords` therefore checks lines without a space inside a value.

## Plan (remaining, in order)

1. **`DDC` extensions**: KDF entries and `lockOther`; a composition with `WalletDB` instead of the `WalletKV` view.
2. **`AddressAccount` extensions**: the legacy derivation scheme, where `make_new` inserts asset 0 and `fillPrivateKey` walks back; `getAddressEntryForID`'s `UnrequestedAddress` check; and composition with `DDC` for the private extensions.
3. **`WalletEnv` extensions**: the control container lock and `changeControlPassphrase`, and `loadHeaders`' `shouldLoad` filter.
4. **`ScriptRecipient`**: `fromPSBT` and `toPSBT`, if `BtcUtils::getPSBTDataPairs` becomes available.
5. **`MetaDataAccount`**: `copy`.
6. **`Signer`**: spender-status merge, from the specification, since `Signer.cpp` is not in the repository.

## Not modelled

- **DDC:** the KDF map (one KDF is assumed), `lockOther`, `encryptData` for data other than the master key.
- **Cryptography:**
  - IES encryption, HMAC and the KDFs are reduced to key numbers;
  - key derivation (`Assets.cpp`, `EncryptionUtils`) is not in the repository.
- **LMDB itself:** the model assumes its documented behaviour. A write transaction is atomic, write transactions are serialized, and a crash loses only uncommitted ones.
- **Reader data races:** `getDataRef` reading `dataMap_` during a commit is below the model's granularity. The model makes each commit one atomic step.
- **`BlockDataManagerConfig`:** `hasLocalDB` and `testConnection` open sockets, and the random port's retry loop depends on them; `mkdir_p` is taken to succeed; `printHelp` and `getDbModeStr` are text; the thread-count, ram-usage, checkchain, clear-mempool and encrypt-wallet options set members nothing in the repository reads; `BDV_Error_Struct` serialization is not used by the configuration. The launcher that calls `fleshOutArgs` is not in the repository; the model lets it run or not before `parseArgs`.
- **PSBT:** `ScriptRecipient::fromPSBT` and `toPSBT` rest on `BtcUtils::getPSBTDataPairs`, which is neither in the repository nor in the specification. `toPSBT` writes every key with a hard-coded length of 34 (`ScriptRecipient.cpp:130`), which is wrong for an uncompressed key; this is listed as a hazard.
- **`Signer.h`:** only the header is in the repository. Its inline members hold no logic beyond accessors.
- **`SignerTests.cpp`:** test code.
- **Accounts:** key derivation itself, and the ECDH account type and its salts. `lastHashedAsset_`'s initial value comes from the header, which is missing (see the `AddressAccount` section). The unlocked read of `lastHashedAsset_` in `AssetAccount::updateAddressHashMap` races with a concurrent extension. The model makes the update one step.
