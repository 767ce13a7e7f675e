-------------------------- MODULE ScriptRecipient --------------------------
(***************************************************************************)
(* ScriptRecipient (src/cppForSwig/ScriptRecipient.cpp): the outputs of a  *)
(* signer, their byte serialization (value, script length, script), their  *)
(* size estimate, and fromScript, which turns a serialized output back     *)
(* into a recipient when another signing party reads a signer state        *)
(* (toProtobuf / fromProtobuf) or a PSBT output (toPSBT / fromPSBT).       *)
(*                                                                         *)
(* Bytes are the integers 0..255 and a serialization is a sequence of      *)
(* them, built exactly as the BinaryWriter calls build it.  Hashes, public *)
(* keys and messages are runs of one filler byte: the parser only reads    *)
(* them at fixed offsets, so their content never steers it.                *)
(*                                                                         *)
(* The state is one recipient `local` of a signer, the last message `wire` *)
(* it sent to another party, and what that party made of it (`remote`).    *)
(***************************************************************************)
EXTENDS Naturals, Sequences, FiniteSets

CONSTANTS
    Values,        \* output values in satoshi
    Hashes,        \* 20-byte hashes (hash160)
    Hashes32,      \* 32-byte hashes (P2WSH)
    PubKeys,       \* public keys of P2PK outputs and of BIP32 paths
    Messages,      \* OP_RETURN messages
    Scripts,       \* binScript_ of Universal recipients
    Paths,         \* BIP32 derivation paths, sequences of uint32 steps
    None           \* nothing sent or received yet

Byte == 0 .. 255
Bytes == Seq(Byte)

ASSUME /\ Values \subseteq Nat
       /\ \A h \in Hashes : Len(h) = 20
       /\ \A h \in Hashes32 : Len(h) = 32
       /\ \A s \in PubKeys \cup Messages \cup Scripts : s \in Bytes

\* opcodes (BtcUtils)
OP_0 == 0
OP_PUSHDATA1 == 76
OP_RETURN == 106
OP_DUP == 118
OP_EQUAL == 135
OP_EQUALVERIFY == 136
OP_HASH160 == 169
OP_CHECKSIG == 172

Types == {"P2PKH", "P2PK", "P2WPKH", "P2SH", "P2WSH", "OPRETURN", "Universal"}

-----------------------------------------------------------------------------
(* Encodings of BinaryWriter and BinaryRefReader *)

\* put_uint64_t / put_uint32_t: n little-endian bytes
RECURSIVE LE(_, _)
LE(v, n) == IF n = 0 THEN <<>> ELSE <<v % 256>> \o LE(v \div 256, n - 1)

\* get_uint64_t / get_uint32_t
RECURSIVE ReadLE(_)
ReadLE(s) == IF s = <<>> THEN 0 ELSE Head(s) + 256 * ReadLE(Tail(s))

\* mutant: the length byte written without truncation
Put8_noTruncate(n) == <<n>>

\* put_uint8_t keeps the low byte of its argument
Put8(n) == <<n % 256>>

\* put_var_int
VarInt(n) ==
    IF n < 253 THEN <<n>>
    ELSE IF n < 65536 THEN <<253>> \o LE(n, 2)
    ELSE <<254>> \o LE(n, 4)

\* the standard output scripts of BtcUtils
P2PKHScript(h) == <<OP_DUP, OP_HASH160, 20>> \o h \o <<OP_EQUALVERIFY, OP_CHECKSIG>>
P2PKScript(pk) == <<Len(pk)>> \o pk \o <<OP_CHECKSIG>>
P2WPKHScript(h) == <<OP_0, 20>> \o h
P2SHScript(h) == <<OP_HASH160, 20>> \o h \o <<OP_EQUAL>>
P2WSHScript(h) == <<OP_0, 32>> \o h

-----------------------------------------------------------------------------
(* Recipients *)

\* a recipient: its class, value, the hash, key, message or script it was
\* built from, and bip32Paths_ (public key -> path)
Rec(t, v, d) == [type |-> t, value |-> v, data |-> d, paths |-> <<>>]

Recipients ==
    {Rec("P2PKH", v, h) : v \in Values, h \in Hashes}
    \cup {Rec("P2PK", v, k) : v \in Values, k \in PubKeys}
    \cup {Rec("P2WPKH", v, h) : v \in Values, h \in Hashes}
    \cup {Rec("P2SH", v, h) : v \in Values, h \in Hashes}
    \cup {Rec("P2WSH", v, h) : v \in Values, h \in Hashes32}
    \cup {Rec("OPRETURN", 0, m) : m \in Messages}
    \cup {Rec("Universal", v, s) : v \in Values, s \in Scripts}

\* the output script of a templated recipient
OutputScript(r) ==
    CASE r.type = "P2PKH"     -> P2PKHScript(r.data)
      [] r.type = "P2PK"      -> P2PKScript(r.data)
      [] r.type = "P2WPKH"    -> P2WPKHScript(r.data)
      [] r.type = "P2SH"      -> P2SHScript(r.data)
      [] r.type = "P2WSH"     -> P2WSHScript(r.data)
      [] r.type = "Universal" -> r.data

\* Recipient_OPRETURN::serialize: the push of the message, OP_PUSHDATA1
\* above 75 bytes and nothing for an empty one; the script length is one
\* put_uint8_t of the push plus OP_RETURN
OpReturnPush(m) ==
    (IF Len(m) > 75 THEN <<OP_PUSHDATA1>> \o Put8(Len(m))
     ELSE IF Len(m) > 0 THEN <<Len(m)>> ELSE <<>>) \o m

\* serialize() of every recipient class: value, var_int script length,
\* script
serialize(r) ==
    IF r.type = "OPRETURN"
    THEN LE(0, 8) \o Put8(Len(OpReturnPush(r.data)) + 1) \o <<OP_RETURN>>
            \o OpReturnPush(r.data)
    ELSE LE(r.value, 8) \o VarInt(Len(OutputScript(r))) \o OutputScript(r)

\* getSize() of every recipient class, the estimate coin selection uses
getSize(r) ==
    CASE r.type = "P2PKH"    -> 34
      [] r.type = "P2PK"     -> 10 + Len(r.data)
      [] r.type = "P2WPKH"   -> 31
      [] r.type = "P2SH"     -> 32
      [] r.type = "P2WSH"    -> 43
      [] r.type = "OPRETURN" ->
            9 + Len(r.data) + (IF Len(r.data) > 75 THEN 2
                               ELSE IF Len(r.data) > 0 THEN 1 ELSE 0)
      [] r.type = "Universal" ->
            8 + Len(r.data) + (IF Len(r.data) >= 253 THEN 3 ELSE 1)

-----------------------------------------------------------------------------
(* ScriptRecipient::fromScript *)

\* the outcome of a throw: ScriptRecipientException or the reader's
Refused == Rec("refused", 0, <<>>)

\* the bytes from..to of s, when the reader does not run past the end
\* (BinaryRefReader throws when it does)
Reads(s, to) == to <= Len(s)

\* the OP_RETURN branch: byte0 is the script length, byte2 the push (or
\* OP_PUSHDATA1 and the length in the next byte)
ReadOpReturn(s) ==
    LET pd    == s[3] = OP_PUSHDATA1
        n     == IF pd THEN s[4] ELSE s[3]
        start == IF pd THEN 5 ELSE 4
    IN  IF (pd /\ ~Reads(s, 4)) \/ ~Reads(s, start + n - 1) THEN Refused
        ELSE Rec("OPRETURN", 0, SubSeq(s, start, start + n - 1))

\* mutant: the OP_RETURN length byte compared with the whole script size
fromScript_lenOffByOne(d) ==
    LET v  == ReadLE(SubSeq(d, 1, 8))
        s  == SubSeq(d, 9, Len(d))
        hashed(t, from, to) ==
            IF Reads(s, to) THEN Rec(t, v, SubSeq(s, from, to)) ELSE Refused
    IN  IF Len(s) < 3 THEN Refused
        ELSE IF s[1] = 25 /\ s[2] = OP_DUP /\ s[3] = OP_HASH160
        THEN IF Len(s) < 4 \/ s[4] # 20 THEN Refused
             ELSE hashed("P2PKH", 5, 24)
        ELSE IF s[1] = 22 /\ s[2] = 0 /\ s[3] = 20 THEN hashed("P2WPKH", 4, 23)
        ELSE IF s[1] = 23 /\ s[2] = OP_HASH160 /\ s[3] = 20
        THEN hashed("P2SH", 4, 23)
        ELSE IF s[1] = 34 /\ s[2] = 0 /\ s[3] = 32 THEN hashed("P2WSH", 4, 35)
        ELSE IF s[1] = Len(s) /\ s[2] = OP_RETURN THEN ReadOpReturn(s)
        ELSE Refused

\* fromScript(dataRef): the value, then the script with its length byte;
\* three bytes are read before any branch, an unmatched script throws
\* "unexpected recipient script"
fromScript(d) ==
    LET v  == ReadLE(SubSeq(d, 1, 8))
        s  == SubSeq(d, 9, Len(d))
        hashed(t, from, to) ==
            IF Reads(s, to) THEN Rec(t, v, SubSeq(s, from, to)) ELSE Refused
    IN  IF Len(s) < 3 THEN Refused
        ELSE IF s[1] = 25 /\ s[2] = OP_DUP /\ s[3] = OP_HASH160
        THEN IF Len(s) < 4 \/ s[4] # 20 THEN Refused
             ELSE hashed("P2PKH", 5, 24)
        ELSE IF s[1] = 22 /\ s[2] = 0 /\ s[3] = 20 THEN hashed("P2WPKH", 4, 23)
        ELSE IF s[1] = 23 /\ s[2] = OP_HASH160 /\ s[3] = 20
        THEN hashed("P2SH", 4, 23)
        ELSE IF s[1] = 34 /\ s[2] = 0 /\ s[3] = 32 THEN hashed("P2WSH", 4, 35)
        ELSE IF s[1] = Len(s) - 1 /\ s[2] = OP_RETURN THEN ReadOpReturn(s)
        ELSE Refused

-----------------------------------------------------------------------------
VARIABLES
    local,    \* the signer's recipient
    wire,     \* the last message sent: the sender's recipient and its form
    remote    \* what the other party built from it, with what was sent

vars == <<local, wire, remote>>

Init ==
    /\ local \in Recipients
    /\ wire = None
    /\ remote = None

\* ScriptRecipient::addBip32Path: a new public key gets its path, the same
\* path again changes nothing, another path throws "bip32Path conflict"
PathConflict(paths, pk, path) == pk \in DOMAIN paths /\ paths[pk] # path
AddPath(paths, pk, path) ==
    [k \in DOMAIN paths \cup {pk} |-> IF k = pk THEN path ELSE paths[k]]

addBip32Path(pk, path) ==
    /\ ~PathConflict(local.paths, pk, path)
    /\ local' = [local EXCEPT !.paths = AddPath(@, pk, path)]
    /\ UNCHANGED <<wire, remote>>

\* toProtobuf: the serialized script and the bip32 paths
toProtobuf ==
    /\ wire' = [form |-> "proto", of |-> local, data |-> serialize(local),
                paths |-> local.paths]
    /\ UNCHANGED <<local, remote>>

\* fromProtobuf: fromScript of the data, then addBip32Path for each path
fromProtobuf ==
    LET r == fromScript(wire.data)
    IN  /\ wire # None /\ wire.form = "proto"
        /\ remote' = [of |-> wire.of,
                      got |-> IF r = Refused THEN Refused
                              ELSE [r EXCEPT !.paths = wire.paths]]
        /\ UNCHANGED <<local, wire>>

Next ==
    \/ \E pk \in PubKeys, p \in Paths : addBip32Path(pk, p)
    \/ toProtobuf
    \/ fromProtobuf

Spec == Init /\ [][Next]_vars

-----------------------------------------------------------------------------
(* Properties *)

TypeOK ==
    /\ local \in [type : Types, value : Values \cup {0}, data : Bytes,
                  paths : UNION {[K -> Paths] : K \in SUBSET PubKeys}]
    /\ wire = None \/ \A i \in DOMAIN wire.data : wire.data[i] \in Byte
    /\ remote = None \/ remote.got = Refused \/ remote.got.type \in Types

\* What another signing party reads back from a recipient is that
\* recipient: fromScript either refuses the serialized output or returns
\* one that serializes to the same bytes, with the same bip32 paths.  Not
\* checked by a run: fromScript classifies by fixed offsets and ignores the
\* tail, so a Universal script shaped like P2PKH (MCScriptsAll) comes back
\* as a P2PKH recipient with other bytes (README).
NoSilentChange ==
    remote # None /\ remote.got # Refused =>
        /\ serialize(remote.got) = serialize(remote.of)
        /\ remote.got.paths = remote.of.paths

\* Of the typed recipients, the state exchange refuses exactly those that
\* fromScript has no branch for: P2PK, and an OP_RETURN whose message is
\* empty (three bytes are read before any branch) or too long for the
\* one-byte script length serialize writes; every P2PKH, P2WPKH, P2SH and
\* P2WSH output and every OP_RETURN of 1 to 252 bytes, across the
\* OP_PUSHDATA1 boundary at 75, comes back.
ExchangeRefusals ==
    remote # None /\ remote.of.type # "Universal" =>
        ((remote.got = Refused) <=>
            \/ remote.of.type = "P2PK"
            \/ remote.of.type = "OPRETURN" /\ Len(remote.of.data) \notin 1 .. 252)

\* Every recipient of a signer survives the exchange of the signer state
\* that the specification describes.
ExchangeRestores ==
    remote # None =>
        /\ remote.got # Refused
        /\ serialize(remote.got) = serialize(remote.of)

\* getSize() is the number of bytes serialize() writes for the output,
\* value and script length included, as the P2PKH, P2WPKH, P2SH, P2WSH
\* and Universal estimates count them.
SizeIsSerializedLength == Len(serialize(local)) = getSize(local)
=============================================================================
