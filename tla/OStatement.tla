----------------------------- MODULE OStatement -----------------------------
(***************************************************************************)
(* eggs::sqlite::ostatement over an INSERT with parameters 1..Columns: the *)
(* bindings and the state of the VM behind a wrapper whose _status never   *)
(* leaves status_code::reset.  A bind that the VM refuses is not noticed:  *)
(* raw_traits ignores the result of sqlite3_bind_*.                        *)
(***************************************************************************)
EXTENDS Naturals

CONSTANTS
    Columns,    \* number of parameters of the statement
    Values,     \* what a client can bind
    Null        \* a parameter that is not bound

ASSUME ColumnsAssumption == Columns \in Nat /\ Null \notin Values

VARIABLES
    vm,         \* "ready" | "busy" (stuck in SQLITE_BUSY) | "halted" by an error
    rc,         \* TRUE if Vdbe.rc is an error that sqlite3_reset will return
    bound,      \* bound[i]: Vdbe.aVar
    asked,      \* what the client believes is bound (history)
    thrown,     \* a call has thrown and no call has returned since (history)
    dubious,    \* a call has thrown since the last successful reset (history)
    last        \* the last row a client that resets after a throw has stored,
                \* beside the row it asked for (history)

vars == <<vm, rc, bound, asked, thrown, dubious, last>>

Cols == 1 .. Columns
Rows == [Cols -> Values \cup {Null}]
Unbound == [i \in Cols |-> Null]
Stored == [got : Rows, asked : Rows]

Init ==
    /\ vm = "ready" /\ rc = FALSE
    /\ bound = Unbound /\ asked = Unbound
    /\ thrown = FALSE /\ dubious = FALSE
    /\ last = [got |-> Unbound, asked |-> Unbound]

-----------------------------------------------------------------------------
\* vdbeUnbind: SQLITE_MISUSE for every VM that is not at its start.
Bindable == vm = "ready"

\* ostatement::put of the values r[i] for the columns i in S.
Bind(S, r) ==
    LET with(b) == [i \in Cols |-> IF i \in S THEN r[i] ELSE b[i]]
    IN  /\ bound' = IF Bindable THEN with(bound) ELSE bound
        /\ asked' = with(asked)

\* Mutant: step() does not reset the VM.
StepDoneBug ==
    /\ vm' = "halted" /\ rc' = FALSE /\ thrown' = FALSE
    /\ last' = IF dubious THEN last ELSE [got |-> bound', asked |-> asked']
    /\ UNCHANGED dubious

(***************************************************************************)
(* ostatement::step: detail::step, then detail::reset, which leaves the    *)
(* bindings alone.  A VM stuck in SQLITE_BUSY goes on, a halted one is     *)
(* reset by sqlite3_step; both use the bindings they have.                 *)
(***************************************************************************)
StepDone ==
    /\ vm' = "ready" /\ rc' = FALSE /\ thrown' = FALSE
    /\ last' = IF dubious THEN last ELSE [got |-> bound', asked |-> asked']
    /\ UNCHANGED dubious

\* SQLITE_BUSY, or an error such as SQLITE_CONSTRAINT: detail::step throws.
StepThrows ==
    /\ vm' \in {"busy", "halted"}
    /\ rc' = TRUE /\ thrown' = TRUE /\ dubious' = TRUE
    /\ UNCHANGED last

-----------------------------------------------------------------------------
Put(i, v) ==
    /\ Bind({i}, [j \in {i} |-> v])
    /\ UNCHANGED <<vm, rc, thrown, dubious, last>>

Step ==
    /\ UNCHANGED <<bound, asked>>
    /\ StepDone \/ StepThrows

\* operator << and ostatement_iterator::increment: insert() and step().  A row
\* object has any number k of values, a Fusion sequence has all.
Insert(k, r) ==
    /\ Bind(1 .. k, r)
    /\ StepDone \/ StepThrows

\* Mutant: reset() does not clear the bindings.
ResetBug ==
    /\ vm' = "ready" /\ rc' = FALSE /\ thrown' = rc
    /\ UNCHANGED <<bound, last>>
    /\ IF rc THEN UNCHANGED <<asked, dubious>>
             ELSE asked' = Unbound /\ dubious' = FALSE

\* Mutant: the state of the VM is mistaken for a status_code.
ResetTypeBug ==
    /\ vm' = "reset" /\ rc' = FALSE /\ thrown' = rc
    /\ UNCHANGED <<bound, asked, dubious, last>>

(***************************************************************************)
(* statement_base::reset.  sqlite3_reset returns the error of the last     *)
(* step once more; detail::reset then throws before clear_bindings.        *)
(***************************************************************************)
Reset ==
    /\ vm' = "ready" /\ rc' = FALSE /\ thrown' = rc
    /\ IF rc THEN UNCHANGED <<bound, asked, dubious>>
             ELSE bound' = Unbound /\ asked' = Unbound /\ dubious' = FALSE
    /\ UNCHANGED last

Next ==
    \/ \E i \in Cols, v \in Values : Put(i, v)
    \/ Step
    \/ \E k \in 0 .. Columns, r \in [Cols -> Values] : Insert(k, r)
    \/ Reset

Spec == Init /\ [][Next]_vars

-----------------------------------------------------------------------------
\* The VM is in one of its states and every binding, put or cleared, is a value
\* or NULL.
TypeOK ==
    /\ vm \in {"ready", "busy", "halted"} /\ rc \in BOOLEAN
    /\ bound \in Rows /\ asked \in Rows
    /\ thrown \in BOOLEAN /\ dubious \in BOOLEAN
    /\ last \in Stored

\* After every call that returns, the VM takes bindings and has no error left
\* to report, even if the call before it threw: step() leaves no trace of an
\* earlier failure, nor does reset().
ReadyUnlessThrown == ~thrown => vm = "ready" /\ ~rc

\* A client that calls reset() until it returns normally whenever a call has
\* thrown stores exactly what it bound, column by column, with the values of
\* the row before in the columns a short row leaves out.
StoredAsAsked ==
    /\ last.got = last.asked
    /\ ~dubious => bound = asked /\ ~thrown

=============================================================================
