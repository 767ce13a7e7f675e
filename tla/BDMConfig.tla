------------------------------ MODULE BDMConfig ------------------------------
(***************************************************************************)
(* BlockDataManagerConfig and ConfigFile                                   *)
(* (src/cppForSwig/BlockDataManagerConfig.cpp): the database process's     *)
(* configuration.  A launcher may merge armorydb.conf into the command     *)
(* line (ConfigFile::fleshOutArgs); the process then parses its command    *)
(* line and its data directory's armorydb.conf (parseArgs, processArgs),   *)
(* and writes a cookie file with its listen port (createCookie), which a  *)
(* client reads back (getPortFromCookie).                                  *)
(*                                                                         *)
(* A string is a sequence of symbols.  "-", "=", " ", "'", "#", "/" and    *)
(* NL stand for themselves; an option name (testnet, datadir, ...) and a   *)
(* word of a value (a path component, a port) is one symbol each, so a     *)
(* name never contains the separators the parsers look for.               *)
(***************************************************************************)
EXTENDS Naturals, Sequences, SequencesExt

CONSTANTS
    Args,        \* the command-line arguments a user may give
    MaxArgs,     \* bound on the number of arguments
    ConfOf,      \* data directory -> the lines of its armorydb.conf
    Existing,    \* the paths that exist on disk
    GoodPorts,   \* the values stringstream >> int reads as 1..65535
    Cookie,      \* the random cookie_ of the constructor
    RandomPort   \* the port the cookie mode draws from rand()

ASSUME MaxArgs \in Nat

NL == "\n"
Quotes == {"'", "\""}
Nets == {"main", "test", "reg"}

\* the literal defaults (portToString of the *_PORT_* constants, the
\* default directories of the build's platform), one symbol per word
RpcDefault    == [n \in Nets |-> <<"rpc_" \o n>>]
ListenDefault == [n \in Nets |-> <<"listen_" \o n>>]
NodeDefault   == [n \in Nets |-> <<"node_" \o n>>]
DataDefault   == [main |-> <<"~", "/", "blocksettledb">>,
                  test |-> <<"~", "/", "blocksettledb", "/", "testnet3">>,
                  reg  |-> <<"~", "/", "blocksettledb", "/", "regtest">>]
BlkDefault    == [main |-> <<"~", "/", "bitcoin", "/", "blocks">>,
                  test |-> <<"~", "/", "bitcoin", "/", "testnet3", "/", "blocks">>,
                  reg  |-> <<"~", "/", "bitcoin", "/", "regtest", "/", "blocks">>]

\* DBUtils::appendPath (not in the repository): the two joined by "/"
appendPath(p, c) == p \o <<"/">> \o c

-----------------------------------------------------------------------------
(* String helpers *)

\* stripQuotes: one leading and one trailing quote removed.  On an empty
\* input it reads input[-1], which the build may see as anything; every
\* outcome gives the empty string.  A lone quote gives len = -1, which
\* wraps and makes substr return the empty rest.
stripQuotes(s) ==
    IF s = <<>> THEN <<>>
    ELSE LET start == IF s[1] \in Quotes THEN 1 ELSE 0
             len   == Len(s) - start - (IF s[Len(s)] \in Quotes THEN 1 ELSE 0)
         IN  IF len < 0 THEN <<>> ELSE SubSeq(s, start + 1, start + len)

\* getKeyValFromLine(line, '='): the text before the first '=', and the
\* rest after it (empty when there is none)
getKeyValFromLine(l) ==
    LET e == SelectInSeq(l, LAMBDA c : c = "=")
    IN  IF e = 0 THEN <<l, <<>>>> ELSE <<SubSeq(l, 1, e - 1), SubSeq(l, e + 1, Len(l))>>

\* tokenizeLine(line, "--"), translated from its 0-based loop: after "--"
\* at position i, the token runs from i+1 to the next space, scanning no
\* further than the last position, which is then kept whatever it is.
RECURSIVE ScanEnd(_, _)
ScanEnd(l, j) == IF j >= Len(l) - 1 \/ l[j + 1] = " " THEN j ELSE ScanEnd(l, j + 1)

\* mutant: the last character of the line is not kept
TokenEnd_dropLast(l, e) == e

TokenEnd(l, e) == IF e = Len(l) - 1 THEN e + 1 ELSE e

RECURSIVE TokLoop(_, _, _, _)
TokLoop(l, i, tk, acc) ==
    CASE i >= Len(l)           -> acc
      [] l[i + 1] # "-"        -> TokLoop(l, i + 1, 0, acc)
      [] tk = 0                -> TokLoop(l, i + 1, 1, acc)
      [] OTHER                 ->
            LET e == TokenEnd(l, ScanEnd(l, i + 1))
            IN  TokLoop(l, e + 1, 0, Append(acc, SubSeq(l, i + 2, e)))

tokenizeLine(l) == IF l = <<>> THEN <<>> ELSE TokLoop(l, 0, 0, <<>>)

\* map::insert of each pair in turn: a key already present keeps its value
RECURSIVE InsertAll(_, _)
InsertAll(m, kvs) ==
    IF kvs = <<>> THEN m
    ELSE InsertAll(IF Head(kvs)[1] \in DOMAIN m THEN m
                   ELSE [k \in DOMAIN m \cup {Head(kvs)[1]} |->
                            IF k \in DOMAIN m THEN m[k] ELSE Head(kvs)[2]],
                   Tail(kvs))

NoMap == [k \in {} |-> <<>>]

\* getLines: std::getline until the stream fails, so the pieces between
\* newlines, the last one included even when it is empty
RECURSIVE getLines(_)
getLines(s) ==
    LET e == SelectInSeq(s, LAMBDA c : c = NL)
    IN  IF e = 0 THEN <<s>> ELSE <<SubSeq(s, 1, e - 1)>> \o getLines(SubSeq(s, e + 1, Len(s)))

-----------------------------------------------------------------------------
(* BlockDataManagerConfig *)

\* the option names parseArgs and processArgs look up
Opt(n) == <<n>>
Dash2(n) == <<"-", "-", n>>

\* selectNetwork(mode): the network's rpc port, and its listen and node
\* ports unless a custom one was given
selectNetwork(c, n) ==
    [c EXCEPT !.net        = n,
              !.rpcPort    = RpcDefault[n],
              !.listenPort = IF c.customListen THEN c.listenPort ELSE ListenDefault[n],
              !.btcPort    = IF c.customBtc THEN c.btcPort ELSE NodeDefault[n]]

\* the constructor: selectNetwork(NETWORK_MODE_MAINNET) on the defaults
Constructed ==
    selectNetwork([net |-> "main", rpcPort |-> <<>>, listenPort |-> <<>>,
                   btcPort |-> <<>>, customListen |-> FALSE, customBtc |-> FALSE,
                   dataDir |-> <<>>, dbDir |-> <<>>, blkDir |-> <<>>,
                   initMode |-> "resume", dbType |-> "DB_SUPER",
                   useCookie |-> FALSE, oneWayAuth |-> FALSE, exited |-> FALSE],
                  "main")

\* the options processArgs reads from a map of arguments
Has(a, n) == Opt(n) \in DOMAIN a
Val(a, n) == stripQuotes(a[Opt(n)])

\* the network the testnet and regtest options select, testnet first
NetOf(a) == IF Has(a, "testnet") THEN "test" ELSE IF Has(a, "regtest") THEN "reg" ELSE "main"

\* mutant: the listen port is taken without its range check
NetworkArgs_noRange(c, a) ==
    LET c1 == IF ~Has(a, "listen-port") THEN c
              ELSE [c EXCEPT !.listenPort = Val(a, "listen-port"), !.customListen = TRUE]
        c2 == IF Has(a, "satoshi-port")
              THEN [c1 EXCEPT !.btcPort = Val(a, "satoshi-port"), !.customBtc = TRUE]
              ELSE c1
        c3 == selectNetwork(c2, NetOf(a))
    IN  IF Has(a, "satoshirpc-port") /\ Val(a, "satoshirpc-port") \in GoodPorts
        THEN [c3 EXCEPT !.rpcPort = Val(a, "satoshirpc-port")]
        ELSE c3

\* processArgs(args, onlyDetectNetwork), the server ports and network
\* part: a listen port outside 1..65535 empties listenPort_ and leaves
\* customListenPort_ as it was; selectNetwork always runs; an rpc port
\* outside the range is ignored
NetworkArgs(c, a) ==
    LET c1 == IF ~Has(a, "listen-port") THEN c
              ELSE IF Val(a, "listen-port") \in GoodPorts
                   THEN [c EXCEPT !.listenPort = Val(a, "listen-port"), !.customListen = TRUE]
                   ELSE [c EXCEPT !.listenPort = <<>>]
        c2 == IF Has(a, "satoshi-port")
              THEN [c1 EXCEPT !.btcPort = Val(a, "satoshi-port"), !.customBtc = TRUE]
              ELSE c1
        c3 == selectNetwork(c2, NetOf(a))
    IN  IF Has(a, "satoshirpc-port") /\ Val(a, "satoshirpc-port") \in GoodPorts
        THEN [c3 EXCEPT !.rpcPort = Val(a, "satoshirpc-port")]
        ELSE c3

DbTypes == {"DB_BARE", "DB_FULL", "DB_SUPER"}

\* the rest of processArgs: the init mode (rebuild over rescan over
\* rescanSSH), the db type (an unknown one prints the help and exits),
\* the paths, cookie, public and fullbip150.  checkchain, clear-mempool,
\* encrypt-wallet and the thread and ram counts set fields nothing else
\* reads and are left out.
OtherArgs(c, a) ==
    [c EXCEPT
       !.initMode   = IF Has(a, "rebuild") THEN "rebuild"
                      ELSE IF Has(a, "rescan") THEN "rescan"
                      ELSE IF Has(a, "rescanSSH") THEN "rescanSSH" ELSE @,
       !.dbType     = IF Has(a, "db-type") /\ a[Opt("db-type")] \in {<<t>> : t \in DbTypes}
                      THEN a[Opt("db-type")][1] ELSE @,
       !.exited     = @ \/ (Has(a, "db-type") /\ a[Opt("db-type")] \notin {<<t>> : t \in DbTypes}),
       !.dataDir    = IF Has(a, "datadir") THEN Val(a, "datadir") ELSE @,
       !.dbDir      = IF Has(a, "dbdir") THEN Val(a, "dbdir") ELSE @,
       !.blkDir     = IF Has(a, "satoshi-datadir") THEN Val(a, "satoshi-datadir") ELSE @,
       !.useCookie  = @ \/ Has(a, "cookie"),
       !.oneWayAuth = IF Has(a, "fullbip150") THEN FALSE
                      ELSE IF Has(a, "public") THEN TRUE ELSE @]

processArgs(c, a, onlyDetectNetwork) ==
    IF onlyDetectNetwork THEN NetworkArgs(c, a) ELSE OtherArgs(NetworkArgs(c, a), a)

\* parseArgs' reading of argv: tokenizeLine(line, "--") on each argument,
\* each token split at '=' and its value stripped of quotes, first one wins
ArgPairs(line) ==
    LET t == tokenizeLine(line)
    IN  [j \in 1 .. Len(t) |-> LET kv == getKeyValFromLine(t[j])
                               IN  <<kv[1], stripQuotes(kv[2])>>]

CliMap(argv) == InsertAll(NoMap, FlattenSeq([i \in 1 .. Len(argv) |-> ArgPairs(argv[i])]))

\* ConfigFile(path): every line split at '=', lines with an empty key or a
\* key starting with '#' skipped, values stripped of quotes, first one wins
ConfPairs(lines) ==
    LET kvs == [i \in 1 .. Len(lines) |-> getKeyValFromLine(lines[i])]
        ok  == SelectSeq(kvs, LAMBDA kv : kv[1] # <<>> /\ kv[1][1] # "#")
    IN  [i \in 1 .. Len(ok) |-> <<ok[i][1], stripQuotes(ok[i][2])>>]

ConfigFile(d) == IF d \in DOMAIN ConfOf THEN InsertAll(NoMap, ConfPairs(ConfOf[d])) ELSE NoMap

\* the map without one key (args.erase)
Erase(m, k) == [x \in DOMAIN m \ {k} |-> m[x]]

\* mutant: the command line's second pass runs before the conf file's
ParsedCfg_confLast(c1, args, cf) == processArgs(processArgs(c1, args, FALSE), cf, FALSE)

\* the conf file's options, then the command line's again, without datadir
ParsedCfg(c1, args, cf) == processArgs(processArgs(c1, cf, FALSE), args, FALSE)

\* the end of parseArgs, given the command line's network pass c1, the
\* data directory dd, its conf file cf and the two later passes c3:
\* "--help" exits; a datadir in the conf file throws DbErrorMsg; an
\* unknown db type exits; dbdir and the block directory default;
\* "blocks" is appended unless the path ends with it; the data and db
\* directories are created when missing (mkdir_p is taken to succeed)
\* and a missing block directory throws DbErrorMsg; in cookie mode without
\* a custom listen port, a random free port is drawn.
parseOutcome(argv, c1, dd, cf, c3) ==
    LET db   == IF c3.dbDir = <<>> THEN appendPath(dd, <<"databases">>) ELSE c3.dbDir
        blk0 == IF c3.blkDir # <<>> THEN c3.blkDir
                ELSE IF c3.net = "main" THEN BlkDefault.main ELSE BlkDefault.test
        blk  == IF IsSuffix(<<"blocks">>, blk0) THEN blk0 ELSE appendPath(blk0, <<"blocks">>)
        lp   == IF c3.useCookie /\ ~c3.customListen THEN <<RandomPort>> ELSE c3.listenPort
    IN  CASE \E i \in 1 .. Len(argv) : argv[i] = Dash2("help") -> [status |-> "exit", cfg |-> Constructed]
          [] Has(cf, "datadir")                          -> [status |-> "error", cfg |-> c1]
          [] c3.exited                                   -> [status |-> "exit", cfg |-> c3]
          [] blk \notin Existing                         -> [status |-> "error", cfg |-> c3]
          [] OTHER -> [status |-> "ok",
                       cfg |-> [c3 EXCEPT !.dbDir = db, !.blkDir = blk, !.listenPort = lp]]

-----------------------------------------------------------------------------
(* ConfigFile::fleshOutArgs and keyValToArgv *)

Prefixed(k) == IF IsPrefix(<<"-", "-">>, k) THEN k ELSE <<"-", "-">> \o k

\* the conf file's pairs merged into the arguments' map: a key the map
\* already has with the "--" prefix is skipped
RECURSIVE MergeConf(_, _)
MergeConf(m, kvs) ==
    IF kvs = <<>> THEN m
    ELSE MergeConf(IF Prefixed(Head(kvs)[1]) \in DOMAIN m THEN m
                   ELSE InsertAll(m, <<Head(kvs)>>),
                   Tail(kvs))

\* keyValToArgv: "--key" or "--key=value" for every pair, in map order
keyValToArgv(m) ==
    LET ks == SetToSeq(DOMAIN m)
    IN  [i \in 1 .. Len(ks) |->
           Prefixed(ks[i]) \o (IF m[ks[i]] = <<>> THEN <<>> ELSE <<"=">> \o m[ks[i]])]

\* fleshOutArgs("armorydb.conf", argv): the arguments split at '=' whole
\* (no tokenizing, no quote stripping); the conf file of the network's
\* default directory, or of a non-empty --datadir value as given; an
\* empty or missing conf file returns argv unchanged
FleshOut(argv) ==
    LET kv   == InsertAll(NoMap, [i \in 1 .. Len(argv) |-> getKeyValFromLine(argv[i])])
        base == IF Dash2("testnet") \in DOMAIN kv THEN DataDefault.test
                ELSE IF Dash2("regtest") \in DOMAIN kv THEN DataDefault.reg
                ELSE DataDefault.main
        path == IF Dash2("datadir") \in DOMAIN kv /\ kv[Dash2("datadir")] # <<>>
                THEN kv[Dash2("datadir")] ELSE base
        cf   == IF path \in DOMAIN ConfOf THEN ConfPairs(ConfOf[path]) ELSE <<>>
    IN  IF cf = <<>> THEN argv ELSE keyValToArgv(MergeConf(kv, cf))

-----------------------------------------------------------------------------
VARIABLES
    argv,        \* the arguments the database process is started with
    fleshed,     \* the launcher merged armorydb.conf into them
    status,      \* "new", then what parseArgs did: "ok", "error", "exit"
    cfg,         \* the BlockDataManagerConfig
    cookies,     \* data directory -> the contents of its .cookie_ file
    clientSaw    \* what a client's getPortFromCookie returned, and whether
                 \* the cookie file existed then

vars == <<argv, fleshed, status, cfg, cookies, clientSaw>>

NotRead == [existed |-> FALSE, port |-> <<"unread">>]

Init ==
    /\ argv \in BoundedSeq(Args, MaxArgs)
    /\ fleshed = FALSE
    /\ status = "new"
    /\ cfg = Constructed
    /\ cookies = NoMap
    /\ clientSaw = NotRead

\* the launcher passes the arguments through ConfigFile::fleshOutArgs
fleshOutArgs ==
    /\ status = "new" /\ ~fleshed
    /\ argv' = FleshOut(argv)
    /\ fleshed' = TRUE
    /\ UNCHANGED <<status, cfg, cookies, clientSaw>>

\* the database process runs BlockDataManagerConfig::parseArgs: the
\* command line is read and its network detected; datadir comes from it
\* or from the network's default; armorydb.conf there, if it exists, is
\* processed, then the command line again without datadir.  Each value
\* is bound once (\E x \in {e}) so that it is computed once.
parseArgs ==
    /\ status = "new"
    /\ \E args \in {CliMap(argv)} :
       \E c1 \in {processArgs(Constructed, args, TRUE)} :
       \E dd \in {IF Has(args, "datadir") THEN args[Opt("datadir")] ELSE DataDefault[c1.net]} :
       \E cf \in {ConfigFile(dd)} :
       \E c3 \in {ParsedCfg([c1 EXCEPT !.dataDir = dd], Erase(args, Opt("datadir")), cf)} :
       \E o \in {parseOutcome(argv, c1, dd, cf, c3)} :
          /\ status' = o.status
          /\ cfg' = o.cfg
    /\ UNCHANGED <<argv, fleshed, cookies, clientSaw>>

\* mutant: the listen port is followed by endl as the cookie is
CookieText_endl(c) == <<Cookie, NL>> \o c.listenPort \o <<NL>>

\* createCookie: nothing unless in cookie mode; else .cookie_ in the data
\* directory holds the cookie, endl, and the listen port
CookieText(c) == <<Cookie, NL>> \o c.listenPort

createCookie ==
    /\ status = "ok" /\ cfg.useCookie
    /\ cfg.dataDir \notin DOMAIN cookies
    /\ cookies' = [d \in DOMAIN cookies \cup {cfg.dataDir} |->
                     IF d = cfg.dataDir THEN CookieText(cfg) ELSE cookies[d]]
    /\ UNCHANGED <<argv, fleshed, status, cfg, clientSaw>>

\* getPortFromCookie(datadir) of a client given the same data directory:
\* the second of exactly two lines, else empty; a missing file reads as
\* no lines
PortFromCookie(d) ==
    LET lines == IF d \in DOMAIN cookies THEN getLines(cookies[d]) ELSE <<>>
    IN  IF Len(lines) # 2 THEN <<>> ELSE lines[2]

getPortFromCookie ==
    /\ status = "ok"
    /\ clientSaw' = [existed |-> cfg.dataDir \in DOMAIN cookies,
                      port |-> PortFromCookie(cfg.dataDir)]
    /\ UNCHANGED <<argv, fleshed, status, cfg, cookies>>

Next == fleshOutArgs \/ parseArgs \/ createCookie \/ getPortFromCookie

Spec == Init /\ [][Next]_vars

-----------------------------------------------------------------------------
(* Properties *)

ListenPorts == GoodPorts \cup {ListenDefault[n] : n \in Nets} \cup {<<RandomPort>>, <<>>}

TypeOK ==
    /\ status \in {"new", "ok", "error", "exit"}
    /\ fleshed \in BOOLEAN
    /\ cfg.net \in Nets
    /\ cfg.listenPort \in ListenPorts
    /\ cfg.initMode \in {"resume", "rescanSSH", "rescan", "rebuild"}
    /\ cfg.dbType \in DbTypes
    /\ clientSaw.existed \in BOOLEAN

\* Whatever armorydb.conf says, an option given on the database's command
\* line is the one in effect once parseArgs has returned: the network,
\* a valid listen or rpc port, the node port and the data directory.  The
\* command line is processed before the conf file (to find it) and again
\* after it, so that it overrides it.
CliWins ==
    status = "ok" =>
        LET a == CliMap(argv)
        IN  /\ (Has(a, "testnet") \/ Has(a, "regtest")) => cfg.net = NetOf(a)
            /\ (Has(a, "listen-port") /\ Val(a, "listen-port") \in GoodPorts)
                   => cfg.listenPort = Val(a, "listen-port")
            /\ (Has(a, "satoshirpc-port") /\ Val(a, "satoshirpc-port") \in GoodPorts)
                   => cfg.rpcPort = Val(a, "satoshirpc-port")
            /\ Has(a, "satoshi-port") => cfg.btcPort = Val(a, "satoshi-port")
            /\ Has(a, "datadir") => cfg.dataDir = a[Opt("datadir")]

\* An option the conf file gives and the command line does not is in
\* effect: the conf file's network and rpc port.  (TLC finds this
\* violated; see the README.)
ConfApplies ==
    status = "ok" =>
        LET a == CliMap(argv)
            f == ConfigFile(cfg.dataDir)
        IN  /\ (NetOf(f) # "main" /\ ~Has(a, "testnet") /\ ~Has(a, "regtest"))
                   => cfg.net = NetOf(f)
            /\ (Has(f, "satoshirpc-port") /\ Val(f, "satoshirpc-port") \in GoodPorts
                /\ ~Has(a, "satoshirpc-port"))
                   => cfg.rpcPort = Val(f, "satoshirpc-port")

\* the words of a line, split at spaces
RECURSIVE Words(_)
Words(l) ==
    LET e == SelectInSeq(l, LAMBDA c : c = " ")
    IN  CASE e = 0 -> IF l = <<>> THEN <<>> ELSE <<l>>
          [] e = 1 -> Words(Tail(l))
          [] OTHER -> <<SubSeq(l, 1, e - 1)>> \o Words(SubSeq(l, e + 1, Len(l)))

DashDash == <<"-", "-">>
HasDashDash(w) == \E j \in 1 .. Len(w) - 1 : w[j] = "-" /\ w[j + 1] = "-"

\* a command-line argument of "--key" and "--key=value" words: no
\* trailing space, and "--" only where an option begins
WellFormed(l) ==
    /\ l # <<>> => l[Len(l)] # " "
    /\ \A j \in 1 .. Len(Words(l)) :
          ~IsPrefix(DashDash, Words(l)[j]) => ~HasDashDash(Words(l)[j])

\* what tokenizeLine is for: each option word without its "--"
OptionWords(l) ==
    LET ws == SelectSeq(Words(l), LAMBDA w : IsPrefix(DashDash, w))
    IN  [j \in 1 .. Len(ws) |-> SubSeq(ws[j], 3, Len(ws[j]))]

TokenLines == BoundedSeq({"-", " ", "a"}, 5)

\* tokenizeLine's 0-based scan, with its special case for the last
\* character of the line, returns exactly the option words of every
\* well-formed line of up to 5 characters, and of every well-formed
\* argument the database process is started with.
TokenizeSplitsWords ==
    \A l \in TokenLines \cup ToSet(argv) : WellFormed(l) => tokenizeLine(l) = OptionWords(l)

\* A client that reads .cookie_ after createCookie wrote it gets the port
\* the database listens on: createCookie's format (cookie, endl, port)
\* and getLines' splitting agree that the port is the second of two lines.
CookieRoundTrip ==
    clientSaw.existed => clientSaw.port = cfg.listenPort
\* Once parseArgs has returned, the server has a port to listen on.
\* (TLC finds this violated; see the README.)
ListenPortSet == status = "ok" => cfg.listenPort # <<>>

\* Unless a block directory is given, the one parseArgs picks is the
\* selected network's.  (TLC finds this violated; see the README.)
BlkDirOfNetwork ==
    (status = "ok" /\ ~Has(CliMap(argv), "satoshi-datadir")
                   /\ ~Has(ConfigFile(cfg.dataDir), "satoshi-datadir"))
        => cfg.blkDir = BlkDefault[cfg.net]
=============================================================================
