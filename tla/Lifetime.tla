------------------------------ MODULE Lifetime ------------------------------
(***************************************************************************)
(* Who owns what: database objects and the connections they close,         *)
(* statement objects (statement_base) and the prepared statements they     *)
(* finalize, and the parameter maps that hold a handle of their own.       *)
(*                                                                         *)
(* Connections and prepared statements are never reused: Conns and Handles *)
(* bound how many are opened and prepared in all.                          *)
(***************************************************************************)
CONSTANTS
    Dbs,        \* database objects
    Stmts,      \* statement objects
    Conns,      \* sqlite3 handles
    Handles,    \* sqlite3_stmt handles
    Null        \* the null handle

ASSUME NullAssumption == Null \notin Conns \cup Handles \cup Dbs

VARIABLES
    conn,       \* conn[c]: "unused" | "open" | "closed"
    dbAlive,    \* the database objects that exist
    dbHandle,   \* dbHandle[d]: database::_handle
    vm,         \* vm[h]: "unused" | "live" | "finalized"
    on,         \* on[h]: the connection h was prepared on
    alive,      \* the statement objects that exist
    db,         \* db[s]: statement_base::_db
    handle,     \* handle[s]: statement_base::_handle
    params,     \* params[s]: the handle in statement_base::_params
    dropped     \* handles that execute(), copy assignment and
                \* constructors that throw forget (history)

connVars == <<conn, dbAlive, dbHandle>>
stmtVars == <<vm, on, alive, db, handle, params, dropped>>
vars == <<connVars, stmtVars>>

Init ==
    /\ conn = [c \in Conns |-> "unused"]
    /\ dbAlive = {} /\ dbHandle = [d \in Dbs |-> Null]
    /\ vm = [h \in Handles |-> "unused"] /\ on = [h \in Handles |-> Null]
    /\ alive = {} /\ dropped = {}
    /\ db = [s \in Stmts |-> Null]
    /\ handle = [s \in Stmts |-> Null]
    /\ params = [s \in Stmts |-> Null]

-----------------------------------------------------------------------------
(* database                                                                *)

\* Mutants: a connection is closed under its statements; it is kept aside.
CloseBug(c) == conn' = [x \in Conns |-> IF x = c THEN "closed" ELSE conn[x]]
CloseTypeBug(c) == conn' = [x \in Conns |-> IF x = c THEN "busy" ELSE conn[x]]

\* sqlite3_close, whose result nobody looks at: SQLITE_BUSY, and no change, as
\* long as there are prepared statements; nothing at all for a null handle.
Close(c) ==
    conn' = [x \in Conns |->
                IF x = c /\ ~\E h \in Handles : vm[h] = "live" /\ on[h] = c
                THEN "closed" ELSE conn[x]]

Open(d, c) ==
    /\ d \notin dbAlive /\ conn[c] = "unused"
    /\ conn' = [conn EXCEPT ![c] = "open"]
    /\ dbAlive' = dbAlive \cup {d}
    /\ dbHandle' = [dbHandle EXCEPT ![d] = c]
    /\ UNCHANGED stmtVars

\* detail::open closes the handle of a failed sqlite3_open_v2 and throws ...
OpenThrows(c) ==
    /\ conn[c] = "unused"
    /\ conn' = [conn EXCEPT ![c] = "closed"]
    /\ UNCHANGED <<dbAlive, dbHandle, stmtVars>>

\* ... but does not close it if it reports the error in an error_code: open()
\* makes a database of a null handle (a build with assertions ends there).
OpenReports(d, c) ==
    /\ d \notin dbAlive /\ conn[c] = "unused"
    /\ conn' = [conn EXCEPT ![c] = "open"]
    /\ dbAlive' = dbAlive \cup {d}
    /\ dbHandle' = [dbHandle EXCEPT ![d] = Null]
    /\ UNCHANGED stmtVars

\* Mutant: the object moved from keeps its handle.
TakeDbBug(d, e) == dbHandle' = [dbHandle EXCEPT ![d] = dbHandle[e]]
TakeDb(d, e) == dbHandle' = [dbHandle EXCEPT ![d] = dbHandle[e], ![e] = Null]

MoveDb(d, e) ==
    /\ d \notin dbAlive /\ e \in dbAlive
    /\ TakeDb(d, e)
    /\ dbAlive' = dbAlive \cup {d}
    /\ UNCHANGED <<conn, stmtVars>>

MoveAssignDb(d, e) ==
    /\ {d, e} \subseteq dbAlive /\ d # e
    /\ Close(dbHandle[d])
    /\ TakeDb(d, e)
    /\ UNCHANGED <<dbAlive, stmtVars>>

DestroyDb(d) ==
    /\ d \in dbAlive
    /\ Close(dbHandle[d])
    /\ dbAlive' = dbAlive \ {d}
    /\ dbHandle' = [dbHandle EXCEPT ![d] = Null]
    /\ UNCHANGED stmtVars

-----------------------------------------------------------------------------
(* statement_base                                                          *)

\* detail::prepare on the database object d; a null handle is a MISUSE.
CanPrepare(d) == d \in dbAlive /\ dbHandle[d] # Null

NewVm(h, d) ==
    /\ vm[h] = "unused"
    /\ vm' = [vm EXCEPT ![h] = "live"]
    /\ on' = [on EXCEPT ![h] = dbHandle[d]]

Finalize(h) == vm' = [x \in Handles |-> IF x = h THEN "finalized" ELSE vm[x]]

\* execute(): the handle is forgotten.
Execute(d, h) ==
    /\ CanPrepare(d) /\ NewVm(h, d)
    /\ dropped' = dropped \cup {h}
    /\ UNCHANGED <<connVars, alive, db, handle, params>>

\* parameter_map of the new handle.
Prepare(s, d, h) ==
    /\ s \notin alive
    /\ CanPrepare(d) /\ NewVm(h, d)
    /\ alive' = alive \cup {s}
    /\ db' = [db EXCEPT ![s] = d]
    /\ handle' = [handle EXCEPT ![s] = h]
    /\ params' = [params EXCEPT ![s] = h]
    /\ UNCHANGED <<connVars, dropped>>

\* A constructor that runs out of memory in its parameter map, that of a copy
\* too: no destructor will run for _handle.
ConstructThrows(d, h) ==
    /\ CanPrepare(d) /\ NewVm(h, d)
    /\ dropped' = dropped \cup {h}
    /\ UNCHANGED <<connVars, alive, db, handle, params>>

\* sqlite3_sql(right.native_handle()) prepared again on *right._db.  It needs
\* both: the text of a null handle is a null pointer, that of a moved-from
\* object is looked for in a null _db, and the program ends there.
CanCopy(r) == r \in alive /\ handle[r] # Null /\ CanPrepare(db[r])

\* The copy prepares a statement of its own and copies the parameter map.
CopyStmt(s, r, h) ==
    /\ s \notin alive
    /\ CanCopy(r) /\ NewVm(h, db[r])
    /\ alive' = alive \cup {s}
    /\ db' = [db EXCEPT ![s] = db[r]]
    /\ handle' = [handle EXCEPT ![s] = h]
    /\ params' = [params EXCEPT ![s] = params[r]]
    /\ UNCHANGED <<connVars, dropped>>

\* Copy assignment, also to itself, overwrites _handle ...
CopyAssign(s, r, h) ==
    /\ s \in alive
    /\ CanCopy(r) /\ NewVm(h, db[r])
    /\ db' = [db EXCEPT ![s] = db[r]]
    /\ handle' = [handle EXCEPT ![s] = h]
    /\ params' = [params EXCEPT ![s] = params[r]]
    /\ dropped' = dropped \cup ({handle[s]} \cap Handles)
    /\ UNCHANGED <<connVars, alive>>

\* ... and has already overwritten _db if prepare throws: the text no longer
\* compiles, or the database object is alive but was moved from.
CopyAssignThrows(s, r) ==
    /\ {s, r} \subseteq alive /\ db[r] \in dbAlive
    /\ CanCopy(r) \/ dbHandle[db[r]] = Null
    /\ db' = [db EXCEPT ![s] = db[r]]
    /\ UNCHANGED <<connVars, vm, on, alive, handle, params, dropped>>

\* Mutant: the object moved from keeps its handle.
TakeStmtBug(s, r) ==
    /\ db' = [db EXCEPT ![s] = db[r], ![r] = Null]
    /\ handle' = [handle EXCEPT ![s] = handle[r]]
    /\ params' = [params EXCEPT ![s] = params[r]]

\* boost::move of a std::map copies it before C++11 and empties it since.
TakeStmt(s, r) ==
    /\ db' = [db EXCEPT ![s] = db[r], ![r] = Null]
    /\ handle' = [handle EXCEPT ![s] = handle[r], ![r] = Null]
    /\ \E left \in {params[r], Null} :
          params' = [params EXCEPT ![s] = params[r], ![r] = left]

MoveStmt(s, r) ==
    /\ s \notin alive /\ r \in alive
    /\ TakeStmt(s, r)
    /\ alive' = alive \cup {s}
    /\ UNCHANGED <<connVars, vm, on, dropped>>

\* Mutant: move assignment does not finalize.
MoveAssignStmtBug(s, r) ==
    /\ {s, r} \subseteq alive /\ s # r
    /\ TakeStmt(s, r)
    /\ UNCHANGED <<connVars, vm, on, alive, dropped>>

MoveAssignStmt(s, r) ==
    /\ {s, r} \subseteq alive /\ s # r
    /\ Finalize(handle[s])
    /\ TakeStmt(s, r)
    /\ UNCHANGED <<connVars, on, alive, dropped>>

DestroyStmt(s) ==
    /\ s \in alive
    /\ Finalize(handle[s])
    /\ alive' = alive \ {s}
    /\ db' = [db EXCEPT ![s] = Null]
    /\ handle' = [handle EXCEPT ![s] = Null]
    /\ params' = [params EXCEPT ![s] = Null]
    /\ UNCHANGED <<connVars, on, dropped>>

-----------------------------------------------------------------------------
DbNext ==
    \/ \E d \in Dbs, c \in Conns : Open(d, c) \/ OpenReports(d, c)
    \/ \E c \in Conns : OpenThrows(c)
    \/ \E d, e \in Dbs : MoveDb(d, e) \/ MoveAssignDb(d, e)
    \/ \E d \in Dbs : DestroyDb(d)

StmtNext ==
    \/ \E d \in Dbs, h \in Handles :
          \/ Execute(d, h) \/ ConstructThrows(d, h)
          \/ \E s \in Stmts : Prepare(s, d, h)
    \/ \E s, r \in Stmts :
          \/ \E h \in Handles : CopyStmt(s, r, h) \/ CopyAssign(s, r, h)
          \/ CopyAssignThrows(s, r) \/ MoveStmt(s, r) \/ MoveAssignStmt(s, r)
    \/ \E s \in Stmts : DestroyStmt(s)

Next == DbNext \/ StmtNext

Spec == Init /\ [][Next]_vars

-----------------------------------------------------------------------------
\* Fields hold handles of their own kind, or null.
TypeOK ==
    /\ conn \in [Conns -> {"unused", "open", "closed"}]
    /\ dbAlive \subseteq Dbs /\ dbHandle \in [Dbs -> Conns \cup {Null}]
    /\ vm \in [Handles -> {"unused", "live", "finalized"}]
    /\ on \in [Handles -> Conns \cup {Null}]
    /\ alive \subseteq Stmts /\ dropped \subseteq Handles
    /\ db \in [Stmts -> Dbs \cup {Null}]
    /\ handle \in [Stmts -> Handles \cup {Null}]
    /\ params \in [Stmts -> Handles \cup {Null}]

\* Through every move and assignment, a connection is closed at most once and
\* by its only owner, and no database object has a handle that was closed
\* (database::operator=, ~database).
DbsOwnOpen ==
    /\ \A d \in dbAlive : dbHandle[d] # Null => conn[dbHandle[d]] = "open"
    /\ \A d, e \in dbAlive :
          d # e /\ dbHandle[d] # Null => dbHandle[d] # dbHandle[e]

\* Through every copy, move and assignment, a prepared statement is finalized
\* at most once and by its only owner (~statement_base, operator=).
StmtsOwnLive ==
    /\ \A s \in alive : handle[s] # Null => vm[handle[s]] = "live"
    /\ \A s, r \in alive : s # r /\ handle[s] # Null => handle[s] # handle[r]

\* A statement outlives the connection it was prepared on in no order of
\* destruction, not even if its database object is gone (sqlite3_close).
LiveOnOpen ==
    \A h \in Handles : vm[h] = "live" => on[h] # Null /\ conn[on[h]] = "open"

\* Only execute(), copy assignment and a constructor that throws leak: every
\* other live statement has an object whose destructor finalizes it.
LeaksAreKnown ==
    \A h \in Handles :
        vm[h] = "live" => h \in dropped \/ \E s \in alive : handle[s] = h

\* Binding a parameter by its name uses a statement that is not finalized.
ParamsAreLive ==
    \A s \in alive : handle[s] # Null /\ params[s] # Null => vm[params[s]] = "live"

=============================================================================
