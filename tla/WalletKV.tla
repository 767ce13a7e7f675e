---------------------------- MODULE WalletKV ----------------------------
(***************************************************************************)
(* What a wallet database (DBInterface behind WalletIfaceTransaction)      *)
(* promises its callers: a map from data keys to values, changed only by   *)
(* the outermost write transaction of a thread, which applies that         *)
(* thread's staged inserts and erases all at once, in the order they were  *)
(* staged.  A process restart discards staged operations and never the    *)
(* committed map.                                                          *)
(***************************************************************************)
EXTENDS Sequences

CONSTANTS
    DataKeys,   \* data keys (asset ids, encryption key ids, ...)
    Values,     \* payloads
    NoValue,    \* "no entry for this key"
    Threads     \* threads that open transactions

VARIABLES
    kv,         \* the committed map
    pending     \* per thread: operations staged in its open write transaction

Op == [key : DataKeys, write : BOOLEAN, val : Values \cup {NoValue}]

\* The effect of a staged sequence of operations on a map: the last
\* operation on a key wins, an erase removes the key.
RECURSIVE ApplyOps(_, _)
ApplyOps(m, ops) ==
    IF ops = <<>> THEN m
    ELSE LET o == Head(ops)
         IN  ApplyOps([m EXCEPT ![o.key] = IF o.write THEN o.val ELSE NoValue],
                      Tail(ops))

Init ==
    /\ kv = [k \in DataKeys |-> NoValue]
    /\ pending = [t \in Threads |-> <<>>]

Stage(t, o) ==
    /\ pending' = [pending EXCEPT ![t] = Append(@, o)]
    /\ UNCHANGED kv

Commit(t) ==
    /\ kv' = ApplyOps(kv, pending[t])
    /\ pending' = [pending EXCEPT ![t] = <<>>]

Restart ==
    /\ pending' = [t \in Threads |-> <<>>]
    /\ UNCHANGED kv

Next ==
    \/ \E t \in Threads, o \in Op : Stage(t, o)
    \/ \E t \in Threads : Commit(t)
    \/ Restart

Spec == Init /\ [][Next]_<<kv, pending>>
=============================================================================
