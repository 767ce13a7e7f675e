-------------------------- MODULE MC_AddressAccount --------------------------
(* AddressAccount for TLC: indices modulo 2^16 keep the unsigned wrap-around *)
(* of the code without enumerating 2^32 values.                            *)
EXTENDS AddressAccount, TLC

MCModulus == 2^16

\* the address a caller retypes directly: the first one of the outer account
MCTypeIds == {<<Outer, 0>>}
=============================================================================
