-------------------------------- MODULE Mutex --------------------------------
(***************************************************************************)
(* eggs::sqlite::mutex beside the databases and statements of Lifetime:    *)
(* objects that free the sqlite3_mutex they hold, whether they allocated   *)
(* it or got it from database_mutex, and the mutex of each connection,     *)
(* which the engine enters in every call and frees in sqlite3_close.       *)
(*                                                                         *)
(* A mutex that is used after it was freed, or freed twice, is undefined   *)
(* behaviour: the model records it in misused and ends there.  Who waits   *)
(* for whom is the business of sqlite3_mutex and not modelled.             *)
(***************************************************************************)
EXTENDS Lifetime

CONSTANTS
    MutexObjs,  \* mutex objects
    Mutexes     \* sqlite3_mutex handles that mutex objects allocate; the
                \* mutex of a connection is named by the connection

ASSUME MutexAssumption == Null \notin Mutexes /\ Mutexes \cap Conns = {}

VARIABLES
    mtx,        \* mtx[x]: "unused" | "live" | "freed"
    mxAlive,    \* the mutex objects that exist
    mxHandle,   \* mxHandle[m]: mutex::_handle
    wrapped,    \* connections whose mutex database_mutex gave out (history)
    misused     \* mutexes used or freed after they were freed (history)

mutexVars == <<mtx, mxAlive, mxHandle, wrapped, misused>>
allVars == <<vars, mutexVars>>

AllMutexes == Conns \cup Mutexes

MutexInit ==
    /\ Init
    /\ mtx = [x \in AllMutexes |-> "unused"]
    /\ mxAlive = {} /\ mxHandle = [m \in MutexObjs |-> Null]
    /\ wrapped = {} /\ misused = {}

\* The calls of sqlite3_mutex on the mutexes of a set; a null handle is left
\* alone by all of them.
Uses(xs) == misused' = {x \in xs \ {Null} : mtx[x] # "live"}
Free(x) == mtx' = [y \in AllMutexes |-> IF y = x THEN "freed" ELSE mtx[y]]

-----------------------------------------------------------------------------
(***************************************************************************)
(* A step of Lifetime: openDatabase allocates the connection's mutex,      *)
(* sqlite3_prepare, sqlite3_finalize and sqlite3_close enter it, and       *)
(* sqlite3_close frees it unless it answers SQLITE_BUSY.                   *)
(***************************************************************************)
Owned(handles) == {handles[d] : d \in Dbs} \ {Null}
Touched == (Owned(dbHandle) \ Owned(dbHandle')) \cup
           {on'[h] : h \in {g \in Handles : vm'[g] # vm[g]}}

ConnMutex(c) == CASE conn'[c] = conn[c] -> mtx[c]
                  [] conn'[c] = "open"  -> "live"
                  [] OTHER              -> "freed"

EngineStep ==
    /\ Next
    /\ Uses(Touched)
    /\ mtx' = [x \in AllMutexes |-> IF x \in Conns THEN ConnMutex(x) ELSE mtx[x]]
    /\ UNCHANGED <<mxAlive, mxHandle, wrapped>>

\* Every other call on a connection or on a statement of it enters the mutex.
Call ==
    /\ \E c \in Owned(dbHandle) \cup {on[handle[s]] : s \in {r \in alive : handle[r] # Null}} :
          Uses({c})
    /\ UNCHANGED <<vars, mtx, mxAlive, mxHandle, wrapped>>

-----------------------------------------------------------------------------
(* mutex                                                                   *)

\* A mutex object of x appears in the storage m.
Appears(m, x) ==
    /\ m \notin mxAlive
    /\ mxAlive' = mxAlive \cup {m}
    /\ mxHandle' = [mxHandle EXCEPT ![m] = x]
    /\ UNCHANGED <<vars, misused>>

\* sqlite3_mutex_alloc, which may be out of memory.
Alloc(m) ==
    /\ \/ \E x \in Mutexes :
             /\ mtx[x] = "unused" /\ Appears(m, x)
             /\ mtx' = [mtx EXCEPT ![x] = "live"]
       \/ Appears(m, Null) /\ UNCHANGED mtx
    /\ UNCHANGED wrapped

\* database_mutex: sqlite3_db_mutex reads the field of the connection.
DatabaseMutex(m, d) ==
    /\ d \in dbAlive /\ dbHandle[d] # Null
    /\ Appears(m, dbHandle[d])
    /\ wrapped' = wrapped \cup {dbHandle[d]}
    /\ UNCHANGED mtx

\* Mutant: the object moved from keeps its handle.
TakeMutexBug(m, n) == mxHandle' = [mxHandle EXCEPT ![m] = mxHandle[n]]
TakeMutex(m, n) == mxHandle' = [mxHandle EXCEPT ![m] = mxHandle[n], ![n] = Null]

MoveMutex(m, n) ==
    /\ m \notin mxAlive /\ n \in mxAlive
    /\ TakeMutex(m, n)
    /\ mxAlive' = mxAlive \cup {m}
    /\ UNCHANGED <<vars, mtx, wrapped, misused>>

\* Mutant: assignment does not free.
MoveAssignMutexBug(m, n) ==
    /\ {m, n} \subseteq mxAlive /\ m # n
    /\ TakeMutex(m, n)
    /\ UNCHANGED <<vars, mtx, mxAlive, wrapped, misused>>

MoveAssignMutex(m, n) ==
    /\ {m, n} \subseteq mxAlive /\ m # n
    /\ Uses({mxHandle[m]}) /\ Free(mxHandle[m])
    /\ TakeMutex(m, n)
    /\ UNCHANGED <<vars, mxAlive, wrapped>>

DestroyMutex(m) ==
    /\ m \in mxAlive
    /\ Uses({mxHandle[m]}) /\ Free(mxHandle[m])
    /\ mxAlive' = mxAlive \ {m}
    /\ mxHandle' = [mxHandle EXCEPT ![m] = Null]
    /\ UNCHANGED <<vars, wrapped>>

\* lock, try_lock and unlock.
LockMutex(m) ==
    /\ m \in mxAlive
    /\ Uses({mxHandle[m]})
    /\ UNCHANGED <<vars, mtx, mxAlive, mxHandle, wrapped>>

-----------------------------------------------------------------------------
MutexNext ==
    /\ misused = {}
    /\ \/ EngineStep \/ Call
       \/ \E m \in MutexObjs :
             \/ Alloc(m) \/ DestroyMutex(m) \/ LockMutex(m)
             \/ \E d \in Dbs : DatabaseMutex(m, d)
             \/ \E n \in MutexObjs : MoveMutex(m, n) \/ MoveAssignMutex(m, n)

MutexSpec == MutexInit /\ [][MutexNext]_allVars

-----------------------------------------------------------------------------
\* Through every move, assignment and order of destruction, the only mutexes
\* that are used after they were freed or freed twice are those of connections
\* that database_mutex has given to an object (~mutex, sqlite3_close).
OnlyWrappedMisused == misused \subseteq wrapped

\* No mutex is lost: one that is live belongs to an object that will free it,
\* or to a connection that is not closed, and an open connection lacks its
\* mutex only if database_mutex gave it out.
MutexesAreKept ==
    /\ \A x \in Mutexes : mtx[x] = "live" => \E m \in mxAlive : mxHandle[m] = x
    /\ \A c \in Conns : mtx[c] = "live" => conn[c] = "open"
    /\ \A c \in Conns : conn[c] = "open" => mtx[c] = "live" \/ c \in wrapped

=============================================================================
