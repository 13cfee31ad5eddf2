----------------------------- MODULE Connection -----------------------------
(***************************************************************************)
(* The SQLite connections of one database file, as the wrapper drives      *)
(* them: autocommit flag, B-tree transaction, file lock and the running    *)
(* statements (VMs) of each connection.  One action is one call of         *)
(* sqlite3_step, sqlite3_reset or sqlite3_finalize.                        *)
(*                                                                         *)
(* eggs::sqlite::execute prepares and steps a statement and never          *)
(* finalizes it, so a VM that sqlite3_step leaves running runs for ever.   *)
(* "leakedReader" and "leakedWriter" stand for those VMs; "istmt" and      *)
(* "ostmt" are the running istatement and the ostatement that is stuck in  *)
(* SQLITE_BUSY (at most one of each per connection: a bound).              *)
(***************************************************************************)
EXTENDS Naturals, FiniteSets

CONSTANTS
    Conns,      \* the open connections to the file
    Txns,       \* identities of explicit transactions
    NoTxn       \* autocommit mode, and the tag of rows written in it

ASSUME NoTxnAssumption == NoTxn \notin Txns

VARIABLES
    inTxn,      \* inTxn[c]: the explicit transaction of c; db->autoCommit is 0
    trans,      \* trans[c]: Btree.inTrans
    lock,       \* lock[c]: the lock c holds on the file
    active,     \* active[c]: kinds of VM counted by db->activeVdbeCnt
    dirty,      \* dirty[c]: tags of the rows c wrote and has not committed
    stored,     \* tags of the rows in the database file
    fate,       \* fate[t]: what became of transaction t (history)
    wrote       \* transactions in which a write step reported success (history)

connVars == <<inTxn, trans, lock, active, dirty, stored, fate, wrote>>

Readers == {"istmt", "leakedReader"}
Writers == {"ostmt", "leakedWriter"}
Modes   == {"deferred", "immediate", "exclusive"}
Locks   == {"none", "shared", "reserved", "pending", "exclusive"}
Reserving == {"reserved", "pending", "exclusive"}

Tags == Txns \cup {NoTxn}

AutoCommit(c) == inTxn[c] = NoTxn

-----------------------------------------------------------------------------
(* winLock: which locks c can get, given what the other connections hold.  *)

MayShare(c)   == \A d \in Conns \ {c} : lock[d] \notin {"pending", "exclusive"}
\* Mutant: RESERVED does not exclude RESERVED.
MayReserveBug(c) == MayShare(c)
MayReserve(c) == lock[c] \in Reserving
                    \/ \A d \in Conns \ {c} : lock[d] \notin Reserving
\* Mutant: readers do not hold up EXCLUSIVE.
MayExcludeBug(c) == \A d \in Conns \ {c} : lock[d] \notin Reserving
MayExclude(c) == \A d \in Conns \ {c} : lock[d] = "none"

(***************************************************************************)
(* sqlite3BtreeBeginTrans(wr), with wr one of "read", "write" and          *)
(* "exclusive" (wrflag 0, 1, 2).  No busy handler is ever installed.       *)
(***************************************************************************)
AlreadyBegun(c, wr) == trans[c] = "write" \/ (trans[c] = "read" /\ wr = "read")

CanBegin(c, wr) ==
    \/ AlreadyBegun(c, wr)
    \/ /\ trans[c] = "read" \/ MayShare(c)
       /\ wr # "read" => MayReserve(c)
       /\ wr = "exclusive" => MayExclude(c)

TransAfterBegin(c, wr) ==
    IF AlreadyBegun(c, wr) THEN trans[c]
    ELSE IF wr = "read" THEN "read" ELSE "write"

LockAfterBegin(c, wr) ==
    IF AlreadyBegun(c, wr) THEN lock[c]
    ELSE IF wr = "read" THEN "shared"
    ELSE IF wr = "exclusive" THEN "exclusive"
    ELSE IF lock[c] \in Reserving THEN lock[c] ELSE "reserved"

\* A failed attempt gives the locks back only if no transaction was open:
\* inside a read transaction a failed upgrade to EXCLUSIVE leaves PENDING.
LockAfterBusy(c, wr) ==
    IF trans[c] = "read" /\ wr = "exclusive" /\ MayReserve(c)
    THEN "pending" ELSE lock[c]

(***************************************************************************)
(* btreeEndTransaction after a commit or rollback, for a transaction in    *)
(* state t with lock l: as long as other VMs of the connection are active  *)
(* the connection stays in a read transaction.                             *)
(***************************************************************************)
\* Mutants: the transaction state is mistaken for a lock; it is never left.
TransAfterEndBug(t, others) == IF t = "none" \/ others = {} THEN "none" ELSE "shared"
TransAfterEndStays(t, others) == IF t = "none" THEN "none" ELSE "read"

TransAfterEnd(t, others) == IF t = "none" \/ others = {} THEN "none" ELSE "read"

LockAfterEnd(t, l, others) ==
    IF t = "none" \/ others = {} THEN "none"
    ELSE IF t = "write" THEN "shared" ELSE l

\* Mutant: a rollback that leaves the changed pages in the cache.
EndBug(c, t, l, others) ==
    /\ trans' = [trans EXCEPT ![c] = TransAfterEnd(t, others)]
    /\ lock' = [lock EXCEPT ![c] = LockAfterEnd(t, l, others)]
    /\ UNCHANGED dirty

End(c, t, l, others) ==
    /\ trans' = [trans EXCEPT ![c] = TransAfterEnd(t, others)]
    /\ lock' = [lock EXCEPT ![c] = LockAfterEnd(t, l, others)]
    /\ dirty' = [dirty EXCEPT ![c] = {}]

\* Mutant: autocommit is not turned on again.
CloseTxnBug(c, f) ==
    /\ UNCHANGED inTxn
    /\ fate' = [t \in Txns |-> IF t = inTxn[c] THEN f ELSE fate[t]]

\* The transaction of c, if any, is over and f is what became of it.
CloseTxn(c, f) ==
    /\ inTxn' = [inTxn EXCEPT ![c] = NoTxn]
    /\ fate' = [t \in Txns |-> IF t = inTxn[c] THEN f ELSE fate[t]]

\* Mutant: halting never ends the B-tree transaction.
HaltWithoutChangeBug(c, others) == UNCHANGED <<trans, lock, dirty>>

(***************************************************************************)
(* sqlite3VdbeHalt of a read-only VM, or of a writer that failed without   *)
(* changing anything: outside a transaction, and when no other writer is   *)
(* active, it ends the B-tree transaction.                                 *)
(***************************************************************************)
HaltWithoutChange(c, others) ==
    IF AutoCommit(c) /\ others \cap Writers = {}
    THEN End(c, trans[c], lock[c], others)
    ELSE UNCHANGED <<trans, lock, dirty>>

-----------------------------------------------------------------------------
ConnInit ==
    /\ inTxn = [c \in Conns |-> NoTxn]
    /\ trans = [c \in Conns |-> "none"]
    /\ lock = [c \in Conns |-> "none"]
    /\ active = [c \in Conns |-> {}]
    /\ dirty = [c \in Conns |-> {}]
    /\ stored = {}
    /\ fate = [t \in Txns |-> "unused"]
    /\ wrote = {}

WrFlag(m) == IF m = "immediate" THEN "write" ELSE "exclusive"

GetsLocks(c, m) == m = "deferred" \/ CanBegin(c, WrFlag(m))

\* The locks after the OP_Transaction of a BEGIN of mode m that gets them.
Acquire(c, m) ==
    /\ trans' = [trans EXCEPT ![c] =
                    IF m = "deferred" THEN @ ELSE TransAfterBegin(c, WrFlag(m))]
    /\ lock' = [lock EXCEPT ![c] =
                    IF m = "deferred" THEN @ ELSE LockAfterBegin(c, WrFlag(m))]

(***************************************************************************)
(* execute(db, "BEGIN ..."): the locks first, the autocommit flag second.  *)
(***************************************************************************)
Begin(c, t, m) ==
    /\ AutoCommit(c)
    /\ fate[t] = "unused"
    /\ GetsLocks(c, m)
    /\ Acquire(c, m)
    /\ inTxn' = [inTxn EXCEPT ![c] = t]
    /\ fate' = [fate EXCEPT ![t] = "open"]
    /\ UNCHANGED <<active, dirty, stored, wrote>>

\* SQLITE_BUSY from OP_Transaction: the VM is left running, as a writer.
BeginBusy(c, m) ==
    /\ ~GetsLocks(c, m)
    /\ lock' = [lock EXCEPT ![c] = LockAfterBusy(c, WrFlag(m))]
    /\ active' = [active EXCEPT ![c] = @ \cup {"leakedWriter"}]
    /\ UNCHANGED <<inTxn, trans, dirty, stored, fate, wrote>>

\* "cannot start a transaction within a transaction", after the locks.
BeginNested(c, m) ==
    /\ ~AutoCommit(c)
    /\ GetsLocks(c, m)
    /\ Acquire(c, m)
    /\ UNCHANGED <<inTxn, active, dirty, stored, fate, wrote>>

(***************************************************************************)
(* execute(db, "COMMIT TRANSACTION")                                       *)
(***************************************************************************)
Commit(c) ==
    /\ ~AutoCommit(c)
    /\ active[c] \cap Writers = {}
    /\ trans[c] = "write" => MayExclude(c)
    /\ stored' = stored \cup dirty[c]
    /\ End(c, trans[c], lock[c], active[c])
    /\ CloseTxn(c, "committed")
    /\ UNCHANGED <<active, wrote>>

\* Another connection still reads: SQLITE_BUSY, the transaction stays open,
\* PENDING keeps new readers out, and the COMMIT's VM is left running.
CommitBusy(c) ==
    /\ ~AutoCommit(c)
    /\ active[c] \cap Writers = {}
    /\ trans[c] = "write" /\ ~MayExclude(c)
    /\ lock' = [lock EXCEPT ![c] = "pending"]
    /\ active' = [active EXCEPT ![c] = @ \cup {"leakedReader"}]
    /\ UNCHANGED <<inTxn, trans, dirty, stored, fate, wrote>>

\* The commit itself fails (SQLITE_IOERR, SQLITE_FULL): rolled back.
CommitFails(c) ==
    /\ ~AutoCommit(c)
    /\ active[c] \cap Writers = {}
    /\ trans[c] = "write" /\ MayExclude(c)
    /\ End(c, trans[c], lock[c], active[c])
    /\ CloseTxn(c, "abandoned")
    /\ UNCHANGED <<active, stored, wrote>>

\* "cannot commit transaction - SQL statements in progress"
CommitRefused(c) ==
    /\ ~AutoCommit(c)
    /\ active[c] \cap Writers # {}
    /\ UNCHANGED connVars

(***************************************************************************)
(* execute(db, "ROLLBACK TRANSACTION"): OP_AutoCommit leaves by            *)
(* vdbe_return without halting the VM, which so stays active.              *)
(***************************************************************************)
Rollback(c) ==
    /\ ~AutoCommit(c)
    /\ End(c, trans[c], lock[c], active[c])
    /\ CloseTxn(c, "abandoned")
    /\ active' = [active EXCEPT ![c] = @ \cup {"leakedReader"}]
    /\ UNCHANGED <<stored, wrote>>

\* COMMIT or ROLLBACK: "... - no transaction is active".
NothingToEnd(c) ==
    /\ AutoCommit(c)
    /\ HaltWithoutChange(c, active[c])
    /\ UNCHANGED <<inTxn, active, stored, fate, wrote>>

(***************************************************************************)
(* A SELECT.  v is "istmt", or "leakedReader" for execute(db, "SELECT").   *)
(***************************************************************************)
ReadStep(c, v) ==
    /\ CanBegin(c, "read")
    /\ trans' = [trans EXCEPT ![c] = TransAfterBegin(c, "read")]
    /\ lock' = [lock EXCEPT ![c] = LockAfterBegin(c, "read")]
    /\ active' = [active EXCEPT ![c] = @ \cup {v}]
    /\ UNCHANGED <<inTxn, dirty, stored, fate, wrote>>

ReadBusy(c, v) ==
    /\ ~CanBegin(c, "read")
    /\ active' = [active EXCEPT ![c] = @ \cup {v}]
    /\ UNCHANGED <<inTxn, trans, lock, dirty, stored, fate, wrote>>

\* The istatement is done, fails, is reset or is destroyed.
ReadEnd(c) ==
    /\ "istmt" \in active[c]
    /\ HaltWithoutChange(c, active[c] \ {"istmt"})
    /\ active' = [active EXCEPT ![c] = @ \ {"istmt"}]
    /\ UNCHANGED <<inTxn, stored, fate, wrote>>

(***************************************************************************)
(* A write step of a statement that gets its locks.  others are the other  *)
(* active VMs: all of them, or all but the stuck statement that retries.   *)
(***************************************************************************)
OtherVms(c) == {active[c], active[c] \ {"ostmt"}}

\* Outside a transaction the last active writer commits when it halts ...
WriteCommits(c, others) ==
    /\ AutoCommit(c) /\ others \cap Writers = {}
    /\ CanBegin(c, "write")
    /\ MayExclude(c)
    /\ stored' = stored \cup dirty[c] \cup {NoTxn}
    /\ End(c, "write", LockAfterBegin(c, "write"), others)
    /\ active' = [active EXCEPT ![c] = others]
    /\ UNCHANGED <<inTxn, fate, wrote>>

\* ... and rolls back, if the commit finds other connections reading, or if
\* the statement itself failed (a constraint).
WriteRollsBack(c, others) ==
    /\ AutoCommit(c) /\ others \cap Writers = {}
    /\ CanBegin(c, "write")
    /\ End(c, "write", LockAfterBegin(c, "write"), others)
    /\ active' = [active EXCEPT ![c] = others]
    /\ UNCHANGED <<inTxn, stored, fate, wrote>>

\* In a transaction, or beside another active writer, the row waits.
WriteWaits(c, others) ==
    /\ ~AutoCommit(c) \/ others \cap Writers # {}
    /\ CanBegin(c, "write")
    /\ trans' = [trans EXCEPT ![c] = "write"]
    /\ lock' = [lock EXCEPT ![c] = LockAfterBegin(c, "write")]
    /\ dirty' = [dirty EXCEPT ![c] = @ \cup {inTxn[c]}]
    /\ wrote' = wrote \cup ({inTxn[c]} \cap Txns)
    /\ active' = [active EXCEPT ![c] = others]
    /\ UNCHANGED <<inTxn, stored, fate>>

\* Mutant: a failed statement undoes the whole transaction.
WriteFailsBug(c, others) ==
    /\ ~AutoCommit(c) \/ others \cap Writers # {}
    /\ CanBegin(c, "write")
    /\ trans' = [trans EXCEPT ![c] = "write"]
    /\ lock' = [lock EXCEPT ![c] = LockAfterBegin(c, "write")]
    /\ dirty' = [dirty EXCEPT ![c] = {}]
    /\ active' = [active EXCEPT ![c] = others]
    /\ UNCHANGED <<inTxn, stored, fate, wrote>>

\* There a statement that fails undoes only its own changes.
WriteFails(c, others) ==
    /\ ~AutoCommit(c) \/ others \cap Writers # {}
    /\ CanBegin(c, "write")
    /\ trans' = [trans EXCEPT ![c] = "write"]
    /\ lock' = [lock EXCEPT ![c] = LockAfterBegin(c, "write")]
    /\ active' = [active EXCEPT ![c] = others]
    /\ UNCHANGED <<inTxn, dirty, stored, fate, wrote>>

\* SQLITE_BUSY from OP_Transaction: the VM of the ostatement, or the one of
\* execute(db, "INSERT"), is left running.
WriteBusy(c, v) ==
    /\ ~CanBegin(c, "write")
    /\ active' = [active EXCEPT ![c] = @ \cup {v}]
    /\ UNCHANGED <<inTxn, trans, lock, dirty, stored, fate, wrote>>

\* The stuck ostatement is reset or destroyed.
WriteEnd(c) ==
    /\ "ostmt" \in active[c]
    /\ HaltWithoutChange(c, active[c] \ {"ostmt"})
    /\ active' = [active EXCEPT ![c] = @ \ {"ostmt"}]
    /\ UNCHANGED <<inTxn, stored, fate, wrote>>

(***************************************************************************)
(* SQLITE_IOERR in a running statement: sqlite3VdbeHalt rolls back the     *)
(* whole transaction and turns autocommit on, behind the back of the       *)
(* transaction object.                                                     *)
(***************************************************************************)
SpecialError(c, wr, others) ==
    /\ CanBegin(c, wr)
    /\ End(c, TransAfterBegin(c, wr), LockAfterBegin(c, wr), others)
    /\ CloseTxn(c, "abandoned")
    /\ active' = [active EXCEPT ![c] = others]
    /\ UNCHANGED <<stored, wrote>>

IOError(c) ==
    \/ SpecialError(c, "read", active[c] \ {"istmt"})
    \/ \E others \in OtherVms(c) : SpecialError(c, "write", others)

\* The statements an application runs on c; none of them begins or ends an
\* explicit transaction by SQL.
Statement(c) ==
    \/ \E v \in Readers : ReadStep(c, v) \/ ReadBusy(c, v)
    \/ ReadEnd(c)
    \/ \E others \in OtherVms(c) :
          \/ WriteCommits(c, others)
          \/ WriteRollsBack(c, others)
          \/ WriteWaits(c, others)
          \/ WriteFails(c, others)
    \/ \E v \in Writers : WriteBusy(c, v)
    \/ WriteEnd(c)
    \/ IOError(c)

ConnNext ==
    \E c \in Conns :
        \/ \E m \in Modes : \/ \E t \in Txns : Begin(c, t, m)
                            \/ BeginBusy(c, m)
                            \/ BeginNested(c, m)
        \/ Commit(c) \/ CommitBusy(c) \/ CommitFails(c) \/ CommitRefused(c)
        \/ Rollback(c) \/ NothingToEnd(c)
        \/ Statement(c)

ConnSpec == ConnInit /\ [][ConnNext]_connVars

-----------------------------------------------------------------------------
\* The connections stay within the states of the engine: autocommit flag,
\* Btree.inTrans, lock level, active VMs.
ConnTypeOK ==
    /\ inTxn \in [Conns -> Tags]
    /\ trans \in [Conns -> {"none", "read", "write"}]
    /\ lock \in [Conns -> Locks]
    /\ active \in [Conns -> SUBSET (Readers \cup Writers)]
    /\ dirty \in [Conns -> SUBSET Tags]
    /\ stored \subseteq Tags
    /\ fate \in [Txns -> {"unused", "open", "committed", "abandoned"}]
    /\ wrote \subseteq Txns

\* The file lock of a connection fits its B-tree transaction
\* (sqlite3BtreeBeginTrans, btreeEndTransaction): no lock is kept without a
\* transaction, and uncommitted rows are only written under RESERVED or more.
LockFitsTrans ==
    \A c \in Conns :
        /\ trans[c] = "none" <=> lock[c] = "none"
        /\ trans[c] = "write" => lock[c] \in Reserving
        /\ dirty[c] # {} => trans[c] = "write"

\* Locks exclude each other across connections through every failed upgrade
\* and every leaked VM (winLock): one writer, and EXCLUSIVE means alone.
LockExclusion ==
    \A c, d \in Conns : c # d =>
        /\ ~(lock[c] \in Reserving /\ lock[d] \in Reserving)
        /\ lock[c] = "exclusive" => lock[d] = "none"

\* A connection that is outside a transaction and runs nothing holds no lock
\* and has lost or kept every row it wrote (sqlite3VdbeHalt); rows can only
\* wait in autocommit mode while some writer VM has not halted.
IdleHoldsNoLock ==
    \A c \in Conns : AutoCommit(c) =>
        /\ active[c] = {} => lock[c] = "none"
        /\ active[c] \cap Writers = {} => trans[c] # "write"

\* inTxn and fate agree: a transaction is open on exactly one connection,
\* and uncommitted rows belong to the connection's own open transaction or
\* were written in autocommit mode (OP_AutoCommit, sqlite3RollbackAll).
OpenOnOneConn ==
    /\ \A c \in Conns : inTxn[c] # NoTxn => fate[inTxn[c]] = "open"
    /\ \A t \in Txns : fate[t] = "open" => \E c \in Conns : inTxn[c] = t
    /\ \A c, d \in Conns : c # d /\ inTxn[c] = inTxn[d] => AutoCommit(c)
    /\ \A c \in Conns : dirty[c] \subseteq {inTxn[c], NoTxn}

\* A row that a step reported written is not lost while its transaction is
\* open, whatever else fails on the connection (sqlite3VdbeHalt rolls back the
\* failed statement only, sqlite3VdbeReset nothing but its own statement).
WroteIsKept ==
    \A t \in wrote :
        /\ fate[t] # "unused"
        /\ \A c \in Conns : inTxn[c] = t => t \in dirty[c]

\* All or nothing (vdbeCommit, sqlite3RollbackAll): the rows written in a
\* committed transaction are in the file, and no row of any other one is.
Atomicity ==
    \A t \in Txns :
        /\ fate[t] = "committed" /\ t \in wrote => t \in stored
        /\ t \in stored => fate[t] = "committed"

\* The file never changes under a connection that holds a lock on it: what a
\* running istatement has read stays true until it ends (the EXCLUSIVE lock
\* of vdbeCommit).
StoredIsStable ==
    [][stored' # stored =>
          \E c \in Conns : \A d \in Conns \ {c} : lock[d] = "none"]_connVars

\* What the wrapper relies on: connections with their VMs, locks and leaks
\* implement a store with serial, atomic writers.
Store == INSTANCE TransactionalStore
StoreSpec == Store!Spec

=============================================================================
