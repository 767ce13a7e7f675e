------------------------------- MODULE MC_DDC -------------------------------
(* TLC instance of DDC: three user passphrases, the default key, one master *)
(* key.                                                                      *)
EXTENDS DDC, TLC
=============================================================================
