------------------------- MODULE TransactionalStore -------------------------
(***************************************************************************)
(* The promise a database makes to the users of its connections: a         *)
(* transaction is open on one connection, at most one connection has       *)
(* uncommitted rows, a commit makes all of them durable in one step, and   *)
(* nothing else changes what is durable.  No locks, no statements.         *)
(***************************************************************************)
CONSTANTS Conns, Txns, NoTxn

VARIABLES inTxn, dirty, stored, fate

vars == <<inTxn, dirty, stored, fate>>

Init ==
    /\ inTxn = [c \in Conns |-> NoTxn]
    /\ dirty = [c \in Conns |-> {}]
    /\ stored = {}
    /\ fate = [t \in Txns |-> "unused"]

SoleWriter(c) == \A d \in Conns \ {c} : dirty[d] = {}

Begin(c, t) ==
    /\ inTxn[c] = NoTxn /\ fate[t] = "unused"
    /\ inTxn' = [inTxn EXCEPT ![c] = t]
    /\ fate' = [fate EXCEPT ![t] = "open"]
    /\ UNCHANGED <<dirty, stored>>

Write(c) ==
    /\ SoleWriter(c)
    /\ dirty' = [dirty EXCEPT ![c] = @ \cup {inTxn[c]}]
    /\ UNCHANGED <<inTxn, stored, fate>>

\* A row written outside a transaction, with what is still uncommitted.
WriteThrough(c) ==
    /\ SoleWriter(c) /\ inTxn[c] = NoTxn
    /\ stored' = stored \cup dirty[c] \cup {NoTxn}
    /\ dirty' = [dirty EXCEPT ![c] = {}]
    /\ UNCHANGED <<inTxn, fate>>

\* The transaction of c is over; all its rows are stored, or none is.
Finish(c, f, kept) ==
    /\ inTxn[c] # NoTxn
    /\ inTxn' = [inTxn EXCEPT ![c] = NoTxn]
    /\ fate' = [fate EXCEPT ![inTxn[c]] = f]
    /\ stored' = stored \cup kept
    /\ dirty' = [dirty EXCEPT ![c] = {}]

Commit(c) == Finish(c, "committed", dirty[c])
Abandon(c) == Finish(c, "abandoned", {})

\* Rows written outside a transaction and still uncommitted are given up.
Drop(c) ==
    /\ inTxn[c] = NoTxn
    /\ dirty' = [dirty EXCEPT ![c] = {}]
    /\ UNCHANGED <<inTxn, stored, fate>>

Next ==
    \E c \in Conns :
        \/ \E t \in Txns : Begin(c, t)
        \/ Write(c) \/ WriteThrough(c)
        \/ Commit(c) \/ Abandon(c) \/ Drop(c)

Spec == Init /\ [][Next]_vars
=============================================================================
