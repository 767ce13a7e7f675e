---------------------------- MODULE MC_BDMConfig ----------------------------
EXTENDS BDMConfig

\* an argument "--name" or "--name=value"
Arg(n, v) == <<"-", "-", n>> \o (IF v = <<>> THEN <<>> ELSE <<"=">> \o v)

MCArgs ==
    { Arg("testnet", <<>>), Arg("regtest", <<>>), Arg("help", <<>>),
      Arg("listen-port", <<"9">>), Arg("listen-port", <<"0">>),
      Arg("satoshirpc-port", <<"7">>), Arg("datadir", <<"a">>),
      Arg("datadir", <<"a", " ", "b">>), Arg("cookie", <<>>),
      Arg("db-type", <<"DB_X">>), Arg("satoshi-datadir", <<"z">>) }

\* the conf files: the mainnet directory's sets an rpc port (and has a
\* comment), the regtest directory's selects testnet, directory a's sets
\* a listen port and the cookie mode, the testnet directory's names a
\* datadir, which parseArgs refuses
MCConfOf ==
    (DataDefault.main :> << <<"satoshirpc-port", "=", "7">>, <<"#", "x">> >>)
    @@ (DataDefault.reg :> << <<"testnet">> >>)
    @@ (<<"a">> :> << <<"listen-port", "=", "9">>, <<"cookie">> >>)
    @@ (DataDefault.test :> << <<"datadir", "=", "a">> >>)

MCExisting == {BlkDefault.main, BlkDefault.test}

MCGoodPorts == {<<"9">>, <<"7">>}
====
