----------------------------- MODULE Transaction -----------------------------
(***************************************************************************)
(* eggs::sqlite::transaction: objects that begin a transaction in their    *)
(* constructor, may be moved, commit or roll back on request, and roll     *)
(* back in their destructor as long as _pending is set.  Neither commit()  *)
(* nor rollback() clears _pending.                                         *)
(***************************************************************************)
EXTENDS Connection

CONSTANTS
    Objs,       \* transaction objects
    NoConn      \* the null _db of an object that was moved from

ASSUME NoConnAssumption == NoConn \notin Conns

VARIABLES
    alive,      \* the objects that exist
    db,         \* db[o]: _db
    pending,    \* pending[o]: _pending
    tag         \* tag[o]: the transaction o's constructor began (history)

objVars == <<alive, db, pending, tag>>
vars == <<connVars, objVars>>

Init ==
    /\ ConnInit
    /\ alive = {}
    /\ db = [o \in Objs |-> NoConn]
    /\ pending = [o \in Objs |-> FALSE]
    /\ tag = [o \in Objs |-> NoTxn]

\* Storage o holds an object equal to the one described.
Holds(o, c, p, t) ==
    /\ db' = [db EXCEPT ![o] = c]
    /\ pending' = [pending EXCEPT ![o] = p]
    /\ tag' = [tag EXCEPT ![o] = t]

\* Mutant: the object moved from stays pending.
TakeOverBug(o, r) ==
    /\ db' = [db EXCEPT ![o] = db[r]]
    /\ pending' = [pending EXCEPT ![o] = pending[r]]
    /\ tag' = [tag EXCEPT ![o] = tag[r]]

\* o takes over the fields of r, which is left without _db and _pending.
TakeOver(o, r) ==
    /\ db' = [db EXCEPT ![o] = db[r], ![r] = NoConn]
    /\ pending' = [pending EXCEPT ![o] = pending[r], ![r] = FALSE]
    /\ tag' = [tag EXCEPT ![o] = tag[r], ![r] = NoTxn]

Construct(o, c, m) ==
    /\ o \notin alive
    /\ \E t \in Txns : Begin(c, t, m) /\ Holds(o, c, TRUE, t)
    /\ alive' = alive \cup {o}

\* The constructor throws: there is no object and no destructor will run.
ConstructThrows(o, c, m) ==
    /\ o \notin alive
    /\ BeginBusy(c, m) \/ BeginNested(c, m)
    /\ UNCHANGED objVars

MoveConstruct(o, r) ==
    /\ o \notin alive /\ r \in alive
    /\ TakeOver(o, r)
    /\ alive' = alive \cup {o}
    /\ UNCHANGED connVars

\* Assignment first rolls back what the object still calls pending ...
MoveAssign(o, r) ==
    /\ {o, r} \subseteq alive /\ o # r
    /\ IF pending[o] THEN Rollback(db[o]) ELSE UNCHANGED connVars
    /\ TakeOver(o, r)
    /\ UNCHANGED alive

\* ... and moves nothing if that throws.
MoveAssignThrows(o, r) ==
    /\ {o, r} \subseteq alive /\ o # r
    /\ pending[o] /\ NothingToEnd(db[o])
    /\ UNCHANGED objVars

\* transaction::commit and its exceptions; BOOST_ASSERT(( _pending )).
CommitObj(o) ==
    /\ o \in alive /\ pending[o]
    /\ \/ Commit(db[o])
       \/ CommitBusy(db[o])
       \/ CommitFails(db[o])
       \/ CommitRefused(db[o])
       \/ NothingToEnd(db[o])
    /\ UNCHANGED objVars

\* transaction::rollback and its exception; BOOST_ASSERT(( _pending )).
RollbackObj(o) ==
    /\ o \in alive /\ pending[o]
    /\ Rollback(db[o]) \/ NothingToEnd(db[o])
    /\ UNCHANGED objVars

\* Mutant: a destructor that does nothing.
DestroyBug(o) ==
    /\ o \in alive
    /\ UNCHANGED connVars
    /\ alive' = alive \ {o}
    /\ Holds(o, NoConn, FALSE, NoTxn)

\* The destructor.  The object is gone even if its rollback() throws.
Destroy(o) ==
    /\ o \in alive
    /\ IF pending[o] THEN Rollback(db[o]) \/ NothingToEnd(db[o])
                     ELSE UNCHANGED connVars
    /\ alive' = alive \ {o}
    /\ Holds(o, NoConn, FALSE, NoTxn)

Next ==
    \/ \E o \in Objs, c \in Conns, m \in Modes :
          Construct(o, c, m) \/ ConstructThrows(o, c, m)
    \/ \E o, r \in Objs :
          MoveConstruct(o, r) \/ MoveAssign(o, r) \/ MoveAssignThrows(o, r)
    \/ \E o \in Objs : CommitObj(o) \/ RollbackObj(o) \/ Destroy(o)
    \/ \E c \in Conns : Statement(c) /\ UNCHANGED objVars

Spec == Init /\ [][Next]_vars

\* Scopes end: while a connection has a pending object, one is destroyed
\* sooner or later, however often it is moved before.
Leave(c) == \E o \in alive : pending[o] /\ db[o] = c /\ Destroy(o)

FairSpec == Spec /\ \A c \in Conns : WF_vars(Leave(c))

-----------------------------------------------------------------------------
\* A transaction object keeps _db, _pending and what it began in their types.
TypeOK ==
    /\ ConnTypeOK
    /\ alive \subseteq Objs
    /\ db \in [Objs -> Conns \cup {NoConn}]
    /\ pending \in [Objs -> BOOLEAN]
    /\ tag \in [Objs -> Tags]

\* No transaction is ever orphaned: the object whose constructor began it, or
\* the one it was moved to, is alive, still pending and on that connection,
\* so that some destructor will end it.
OpenHasOwner ==
    \A c \in Conns : ~AutoCommit(c) =>
        \E o \in alive : pending[o] /\ db[o] = c /\ tag[o] = inTxn[c]

\* A transaction belongs to one object: moves never leave two objects that
\* would both end it, and an object moved from has no connection.
UniqueOwner ==
    /\ \A o, r \in alive : pending[o] /\ pending[r] /\ o # r => tag[o] # tag[r]
    /\ \A o \in alive : pending[o] <=> db[o] # NoConn

\* The discipline of a client that keeps one object per connection, and what
\* it earns: a pending object only ever ends its own transaction, or nothing.
OneObjPerConn ==
    \A o, r \in alive : db[o] = db[r] /\ db[o] # NoConn => o = r
EndsOwnOnly ==
    \A o \in alive : pending[o] => inTxn[db[o]] \in {tag[o], NoTxn}

\* _pending says that there is a transaction to end: the assertions of
\* commit() and rollback() read it that way.
PendingMeansOpen ==
    \A o \in alive : pending[o] => inTxn[db[o]] = tag[o]

\* Every transaction that is begun ends, by commit or by rollback.
TransactionsEnd ==
    \A t \in Txns : fate[t] = "open" ~> fate[t] \in {"committed", "abandoned"}

\* A connection whose istatement and ostatement are at rest and that has no
\* transaction holds no lock on the file and has no row waiting.
IdleConnectionReleased ==
    \A c \in Conns : AutoCommit(c) /\ active[c] \cap {"istmt", "ostmt"} = {} =>
        lock[c] = "none" /\ dirty[c] = {}
=============================================================================
