----------------------------- MODULE IStatement -----------------------------
(***************************************************************************)
(* eggs::sqlite::istatement over a query with result rows 1..rows: the     *)
(* wrapper's _status beside the state of the VM it stands for, and the     *)
(* ways of the library to read a result, which a client may mix as it      *)
(* likes: step() and get(); operator >> (a get() that steps by itself when *)
(* the statement is reset, then a step()); any number of                   *)
(* istatement_iterators, each with a row of its own; and the loop over     *)
(* operator >> that invoke_pragma reads the list of a pragma with.         *)
(*                                                                         *)
(* The ways share one statement and disagree on whether the row it is on   *)
(* has been read: step() with get() has read it, operator >> has stepped   *)
(* past all it has read, an iterator holds a copy of it.  So a client that *)
(* changes from one to another may read a row twice, or never; way and     *)
(* switches keep the account.                                              *)
(*                                                                         *)
(* A copy of an iterator is one more iterator made on the same row.  The   *)
(* iterator over the statement itself, istatement_iterator<istatement>,    *)
(* keeps no row and reads as get() does; it is not modelled apart.         *)
(*                                                                         *)
(* BOOST_ASSERT is compiled out of a release build; the model goes on as a *)
(* release build does and records in asserted that a debug build stops.    *)
(***************************************************************************)
EXTENDS Naturals, Sequences, FiniteSets

CONSTANTS
    Iters,          \* istatement_iterator<Row> objects of the client
    MaxRows,        \* bound on the size of a result
    MaxFailures,    \* bound on the calls of sqlite3_step that fail
    MaxPasses,      \* bound on the times the client resets the statement
    MaxSwitches     \* bound on the changes of way within a pass

ASSUME BoundsAssumption ==
    /\ MaxRows \in Nat /\ MaxFailures \in Nat
    /\ MaxPasses \in Nat /\ MaxSwitches \in Nat

ASSUME ItersAssumption == Iters \cap {"none", "get", "extract"} = {}

VARIABLES
    client,     \* "reader", or "list": the loop of invoke_pragma
    rows,       \* the size of the result
    status,     \* _status
    vm,         \* "ready" | "busy" (stuck in SQLITE_BUSY) | "row" | "halted"
    pos,        \* the row the VM is on; 0 if on none, where columns read NULL
    rc,         \* TRUE if Vdbe.rc is an error that sqlite3_reset will return
    call,       \* "extracting" between get() and step() of operator >>;
                \* "returned" when invoke_pragma is over
    iter,       \* each iterator: "none" (not made), "unread" or "read" (its row
                \* has been dereferenced), "end" (_statement = 0)
    val,        \* each iterator's _value, as the number of a row
    taken,      \* the rows handed to the client in this pass (history)
    way,        \* the way that read last in this pass: "none" | "get" |
                \* "extract" | an iterator (history)
    switches,   \* changes of way in this pass that may cost a row (history)
    failed,     \* a call has thrown since the last successful reset (history)
    asserted,   \* a BOOST_ASSERT has failed in this pass (history)
    failures,   \* number of failed steps
    passes      \* number of resets

vars == <<client, rows, status, vm, pos, rc, call, iter, val, taken, way,
          switches, failed, asserted, failures, passes>>
stmtVars == <<status, vm, pos, rc, failed, failures>>
fixedVars == <<client, rows>>
wayVars == <<way, switches>>

Init ==
    /\ client \in {"reader", "list"}
    /\ rows \in 0 .. MaxRows
    /\ status = "reset" /\ vm = "ready" /\ pos = 0 /\ rc = FALSE
    /\ call = "idle"
    /\ iter = [i \in Iters |-> "none"] /\ val = [i \in Iters |-> 0]
    /\ taken = <<>> /\ way = "none" /\ switches = 0
    /\ failed = FALSE /\ asserted = FALSE
    /\ failures = 0 /\ passes = 0

-----------------------------------------------------------------------------
(***************************************************************************)
(* sqlite3_step under detail::step.  A VM that is not running is reset and *)
(* starts over; SQLITE_BUSY only meets a VM that starts.                   *)
(***************************************************************************)
NextPos == IF vm = "row" THEN pos + 1 ELSE 1

StepRow ==
    /\ NextPos <= rows
    /\ vm' = "row" /\ pos' = NextPos /\ rc' = FALSE
    /\ status' = "row"
    /\ UNCHANGED <<failed, failures>>

\* Mutant: SQLITE_OK is cast to a status_code.
StepDoneBug ==
    /\ NextPos > rows
    /\ vm' = "halted" /\ pos' = 0 /\ rc' = FALSE
    /\ status' = "ok"
    /\ UNCHANGED <<failed, failures>>

StepDone ==
    /\ NextPos > rows
    /\ vm' = "halted" /\ pos' = 0 /\ rc' = FALSE
    /\ status' = "done"
    /\ UNCHANGED <<failed, failures>>

\* detail::step throws, _status keeps its value.
StepThrows ==
    /\ failures < MaxFailures
    /\ vm' \in IF vm = "row" THEN {"halted"} ELSE {"busy", "halted"}
    /\ pos' = 0 /\ rc' = TRUE
    /\ failed' = TRUE
    /\ failures' = failures + 1
    /\ UNCHANGED status

\* istatement::step begins with BOOST_ASSERT(( _status != done )), get() with
\* BOOST_ASSERT(( _status == row )).
Asserts(holds) == asserted' = (asserted \/ ~holds)

\* The client reads by way w; it costs nothing to go on from the ways in free.
Uses(w, free) ==
    /\ way' = w
    /\ switches' = IF way \in free THEN switches ELSE switches + 1
    /\ switches' <= MaxSwitches

-----------------------------------------------------------------------------
(* step(), and get() of the row it reached                                 *)
CoreStep ==
    /\ client = "reader" /\ call = "idle" /\ status # "done"
    /\ \/ StepRow /\ taken' = Append(taken, pos')
       \/ (StepDone \/ StepThrows) /\ UNCHANGED taken
    /\ Uses("get", {"none", "get"})
    /\ UNCHANGED <<fixedVars, call, iter, val, asserted, passes>>

(***************************************************************************)
(* The condition of invoke_pragma's loop over a list,                      *)
(*     while( !pragma_statement.status() == status_code::done )            *)
(* with the values of the enumeration: the negation is done first.         *)
(***************************************************************************)
StatusCode == CASE status = "reset" -> 0 [] status = "row" -> 100
                [] status = "done" -> 101
LoopContinues == (IF StatusCode = 0 THEN 1 ELSE 0) = 101

MayExtract == client = "reader" \/ (client = "list" /\ LoopContinues)

ListReturns ==
    /\ client = "list" /\ call = "idle" /\ ~LoopContinues
    /\ call' = "returned"
    /\ UNCHANGED <<fixedVars, stmtVars, wayVars, iter, val, taken, asserted,
                   passes>>

(* operator >>                                                             *)
AutoStep ==
    /\ MayExtract /\ call = "idle" /\ status = "reset"
    /\ \/ (StepRow \/ StepDone) /\ call' = "extracting"
       \/ StepThrows /\ UNCHANGED call
    /\ Uses("extract", {"none", "extract"})
    /\ UNCHANGED <<fixedVars, iter, val, taken, asserted, passes>>

\* Mutant: operator >> steps before it extracts.
ExtractRowBug ==
    /\ MayExtract
    /\ call = "extracting" \/ (call = "idle" /\ status = "row")
    /\ Asserts(status = "row")
    /\ call' = "idle"
    /\ StepRow \/ StepDone \/ StepThrows
    /\ taken' = Append(taken, pos')
    /\ Uses("extract", {"none", "extract"})
    /\ UNCHANGED <<fixedVars, iter, val, passes>>

ExtractRow ==
    /\ MayExtract
    /\ call = "extracting" \/ (call = "idle" /\ status = "row")
    /\ Asserts(status = "row")
    /\ taken' = Append(taken, pos)
    /\ call' = "idle"
    /\ StepRow \/ StepDone \/ StepThrows
    /\ Uses("extract", {"none", "extract"})
    /\ UNCHANGED <<fixedVars, iter, val, passes>>

(***************************************************************************)
(* istatement_iterator.  It extracts the row the statement is on and does  *)
(* not step past it: a new iterator goes on from operator >>, which leaves *)
(* the statement on a row not yet read, at no cost.                        *)
(***************************************************************************)
Holds(i, state, n) ==
    iter' = [iter EXCEPT ![i] = state] /\ val' = [val EXCEPT ![i] = n]

\* Mutant: the iterator does not become the end iterator.
StepOnBug(i) ==
    \/ StepRow /\ Holds(i, "unread", pos')
    \/ StepDone /\ Holds(i, "unread", val[i])

\* The part of constructor and increment() that steps, unless it throws.
StepOn(i) ==
    \/ StepRow /\ Holds(i, "unread", pos')
    \/ StepDone /\ Holds(i, "end", val[i])

\* Mutant: the constructor steps a statement that is already on a row.
IteratorConstructBug(i) ==
    /\ client = "reader" /\ call = "idle"
    /\ \/ status # "done" /\ StepOn(i) /\ Uses(i, {"none", "extract"})
       \/ status # "done" /\ StepThrows /\ UNCHANGED <<iter, val, wayVars>>
       \/ /\ status = "done" /\ Holds(i, "end", val[i]) /\ UNCHANGED stmtVars
          /\ Uses(i, {"none", "extract"})
    /\ UNCHANGED <<fixedVars, call, taken, asserted, passes>>

\* A new iterator, or one assigned to an old one, which a constructor that
\* throws leaves as it was.
IteratorConstruct(i) ==
    /\ client = "reader" /\ call = "idle"
    /\ \/ /\ \/ status = "reset" /\ StepOn(i)
             \/ status = "row" /\ Holds(i, "unread", pos) /\ UNCHANGED stmtVars
             \/ status = "done" /\ Holds(i, "end", val[i]) /\ UNCHANGED stmtVars
          /\ Uses(i, {"none", "extract"})
       \/ status = "reset" /\ StepThrows /\ UNCHANGED <<iter, val, wayVars>>
    /\ UNCHANGED <<fixedVars, call, taken, asserted, passes>>

\* The client reads each row of an iterator once.
IteratorDereference(i) ==
    /\ client = "reader" /\ call = "idle" /\ iter[i] = "unread"
    /\ Holds(i, "read", val[i])
    /\ taken' = Append(taken, val[i])
    /\ Uses(i, {i})
    /\ UNCHANGED <<fixedVars, stmtVars, call, asserted, passes>>

IteratorIncrement(i) ==
    /\ client = "reader" /\ call = "idle" /\ iter[i] = "read"
    /\ Asserts(status # "done")
    /\ StepOn(i) \/ (StepThrows /\ UNCHANGED <<iter, val>>)
    /\ Uses(i, {i})
    /\ UNCHANGED <<fixedVars, call, taken, passes>>

\* Mutant: reset() forgets _status.
ResetBug ==
    /\ client # "list" /\ call = "idle" /\ passes < MaxPasses
    /\ vm' = "ready" /\ pos' = 0 /\ rc' = FALSE
    /\ passes' = passes + 1
    /\ IF rc THEN UNCHANGED <<taken, wayVars, failed, asserted>>
             ELSE /\ taken' = <<>> /\ way' = "none" /\ switches' = 0
                  /\ failed' = FALSE /\ asserted' = FALSE
    /\ UNCHANGED <<fixedVars, status, call, iter, val, failures>>

(***************************************************************************)
(* statement_base::reset.  sqlite3_reset always resets the VM, but returns *)
(* the error of the last step once more: detail::reset then throws, and    *)
(* _status keeps its value.  A reset that returns begins a pass; iterators *)
(* know nothing of it.                                                     *)
(***************************************************************************)
Reset ==
    /\ client # "list" /\ call = "idle" /\ passes < MaxPasses
    /\ vm' = "ready" /\ pos' = 0 /\ rc' = FALSE
    /\ passes' = passes + 1
    /\ IF rc THEN UNCHANGED <<status, taken, wayVars, failed, asserted>>
             ELSE /\ status' = "reset"
                  /\ taken' = <<>> /\ way' = "none" /\ switches' = 0
                  /\ failed' = FALSE /\ asserted' = FALSE
    /\ UNCHANGED <<fixedVars, call, iter, val, failures>>

IteratorReads(i) ==
    IteratorConstruct(i) \/ IteratorDereference(i) \/ IteratorIncrement(i)

Advance == \/ CoreStep \/ AutoStep \/ ExtractRow \/ ListReturns
           \/ \E i \in Iters : IteratorReads(i)

Next == Advance \/ Reset

Spec == Init /\ [][Next]_vars

\* A client that reads on until it is told that it is done.
FairSpec == Spec /\ WF_vars(Advance)

-----------------------------------------------------------------------------
\* _status is one of the three status codes, whatever sqlite3_step returns, and
\* the VM in one of its states.
TypeOK ==
    /\ client \in {"reader", "list"} /\ rows \in Nat
    /\ status \in {"reset", "row", "done"}
    /\ vm \in {"ready", "busy", "row", "halted"}
    /\ pos \in Nat
    /\ rc \in BOOLEAN /\ failed \in BOOLEAN /\ asserted \in BOOLEAN
    /\ call \in {"idle", "extracting", "returned"}
    /\ iter \in [Iters -> {"none", "unread", "read", "end"}]
    /\ val \in [Iters -> Nat]
    /\ taken \in Seq(Nat)
    /\ way \in {"none", "get", "extract"} \cup Iters /\ switches \in Nat
    /\ failures \in Nat /\ passes \in Nat

\* As long as no call has thrown, _status says what the VM is at, and the VM
\* is on a row of the result exactly when it says so.
StatusTracksVm ==
    ~failed =>
        /\ status = "row" <=> vm = "row"
        /\ status = "reset" <=> vm = "ready"
        /\ vm = "row" <=> pos \in 1 .. rows
        /\ ~rc

\* A pass that keeps to step() and get(), to operator >>, to one iterator, or
\* to >> and from some row on to an iterator made there, is handed each row
\* once and in order, and reports done after the last one only - as long as no
\* call throws and the >> of an empty result is left out.
ReadsAllInOrder ==
    ~failed /\ ~asserted /\ switches = 0 =>
        /\ \A k \in DOMAIN taken : taken[k] = k
        /\ Len(taken) <= rows
        /\ status = "done" /\ call = "idle" => Len(taken) = rows

Taken == {taken[k] : k \in DOMAIN taken}

\* The rows before the one the statement is on, all of them when it is done.
Behind == IF status = "row" THEN pos - 1 ELSE IF status = "done" THEN rows ELSE 0

\* Whatever ways of reading a client mixes on a statement - operator >> beside
\* live iterators, several iterators, step() after either - each change of way
\* repeats at most one row and leaves out at most one.
OneRowPerSwitch ==
    ~failed /\ ~asserted =>
        /\ Len(taken) <= Cardinality(Taken) + switches
        /\ Cardinality((1 .. Behind) \ Taken) <= switches

\* A client that looks at status() before it steps, extracts or makes an
\* iterator can trip an assertion only by the operator >> on a reset statement
\* whose result turns out to be empty, or by an iterator it comes back to when
\* another way of reading has finished the statement.
AssertsOnEmptyOnly == asserted => rows = 0 \/ switches > 0

\* With finitely many failures, resets and changes of way, reading on always
\* gets to the end.
Drains == client # "list" /\ status # "done" ~> status = "done"

\* invoke_pragma returns every element of the list (the std::vector that
\* pragma_value_list and pragma_function_list promise).
ListIsRead == call = "returned" => Len(taken) = rows

=============================================================================
