------------------------- MODULE MC_ScriptRecipient -------------------------
(* Small instances of ScriptRecipient: one filler byte for every hash, key *)
(* and message; message lengths at the edges of the encodings.            *)
EXTENDS ScriptRecipient

Fill(n) == [i \in 1 .. n |-> 7]

MCHashes == {Fill(20)}
MCHashes32 == {Fill(32)}
\* a compressed and an uncompressed public key
MCPubKeys == {<<2>> \o Fill(32), <<4>> \o Fill(64)}
\* empty, one byte, the last direct push, the first OP_PUSHDATA1, the
\* longest and the first too long for the script length byte
MCMessages == {Fill(n) : n \in {0, 1, 75, 76, 252, 253}}
\* the P2PKH script itself, and OP_1 OP_1 OP_ADD, a script of no template
MCScripts == {P2PKHScript(Fill(20)), <<81, 81, 147>>}
\* a P2PKH lookalike ending in OP_CHECKSIGVERIFY
MCScriptsAll == MCScripts \cup {<<OP_DUP, OP_HASH160, 20>> \o Fill(20) \o <<136, 173>>}
MCPaths == {<<44, 0>>, <<44, 1>>}
====
