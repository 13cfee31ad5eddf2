----------------------------- MODULE StoreProofs -----------------------------
(***************************************************************************)
(* Connection implements TransactionalStore, and its transactions are      *)
(* atomic.  Every action is first shown to be one kind of step of the      *)
(* store; the invariants about rows are then proved on the kinds.          *)
(***************************************************************************)
EXTENDS ConnectionProofs

Stutters == UNCHANGED <<inTxn, dirty, stored, fate, wrote>>
Begins(c) == wrote' = wrote /\ \E t \in Txns : Store!Begin(c, t)
Writes(c) == wrote' = wrote \cup ({inTxn[c]} \cap Txns) /\ Store!Write(c)
WritesThrough(c) == wrote' = wrote /\ Store!WriteThrough(c)
Commits(c) == wrote' = wrote /\ Store!Commit(c)
Abandons(c) == wrote' = wrote /\ Store!Abandon(c)
Drops(c) == wrote' = wrote /\ Store!Drop(c)

StoreStep(c) ==
    \/ Stutters \/ Begins(c) \/ Writes(c) \/ WritesThrough(c)
    \/ Commits(c) \/ Abandons(c) \/ Drops(c)

\* A connection that can begin a write transaction is the only one with
\* uncommitted rows: this is where the lock protocol is needed.
LEMMA BeginIsSole ==
    ASSUME LockInv, NEW c \in Conns, CanBegin(c, "write")
    PROVE  Store!SoleWriter(c)
<1>1. \A d \in Conns \ {c} : dirty[d] # {} => lock[d] \in Reserving
  BY DEF LockInv, LockFitsTrans
<1>2. CASE trans[c] = "write"
  <2>1. lock[c] \in Reserving
    BY <1>2 DEF LockInv, LockFitsTrans
  <2>2. QED BY <1>1, <2>1 DEF LockInv, LockExclusion, Store!SoleWriter
<1>3. CASE trans[c] # "write"
  <2>1. MayReserve(c)
    BY <1>3 DEF CanBegin, AlreadyBegun
  <2>2. QED BY <1>1, <2>1 DEF LockInv, LockExclusion, MayReserve, Store!SoleWriter
<1>4. QED BY <1>2, <1>3

\* Turning autocommit on is the end of a transaction of the store.
LEMMA CloseIsFinish ==
    ASSUME ConnTypeOK, NEW c \in Conns, NEW f, ~AutoCommit(c), CloseTxn(c, f),
           dirty' = [dirty EXCEPT ![c] = {}], NEW kept, stored' = stored \cup kept
    PROVE  Store!Finish(c, f, kept)
<1>1. inTxn[c] \in Txns
  BY DEF ConnTypeOK, AutoCommit, Tags
<1>2. fate' = [fate EXCEPT ![inTxn[c]] = f]
  BY <1>1 DEF CloseTxn, ConnTypeOK
<1>3. QED BY <1>2 DEF CloseTxn, Store!Finish, AutoCommit

\* sqlite3VdbeHalt without a change drops waiting rows or does nothing.
LEMMA HaltIsDrop ==
    ASSUME NEW c \in Conns, NEW others, HaltWithoutChange(c, others),
           UNCHANGED <<inTxn, stored, fate, wrote>>
    PROVE  Stutters \/ Drops(c)
BY DEF HaltWithoutChange, End, AutoCommit, Stutters, Drops, Store!Drop

\* A special error abandons the transaction of the store.
LEMMA ErrorIsAbandon ==
    ASSUME ConnTypeOK, NEW c \in Conns, NEW wr, NEW others,
           SpecialError(c, wr, others)
    PROVE  Abandons(c) \/ Drops(c)
<1>1. /\ CloseTxn(c, "abandoned") /\ dirty' = [dirty EXCEPT ![c] = {}]
      /\ stored' = stored \cup {} /\ wrote' = wrote
  BY DEF SpecialError, End
<1>2. CASE ~AutoCommit(c)
  BY <1>1, <1>2, CloseIsFinish DEF Abandons, Store!Abandon
<1>3. CASE AutoCommit(c)
  <2>1. \A t \in Txns : t # inTxn[c]
    BY <1>3, NoTxnAssumption DEF AutoCommit
  <2>2. inTxn' = inTxn /\ fate' = fate
    BY <1>1, <1>3, <2>1 DEF CloseTxn, ConnTypeOK, AutoCommit
  <2>3. QED BY <1>1, <1>3, <2>2 DEF Drops, Store!Drop, AutoCommit
<1>4. QED BY <1>2, <1>3

\* Every statement is a step of the store, or none.
LEMMA StatementIsStoreStep ==
    ASSUME LockInv, NEW c \in Conns, Statement(c)
    PROVE  StoreStep(c)
<1>0. ConnTypeOK
  BY DEF LockInv
<1>1. ASSUME NEW v, ReadStep(c, v) \/ ReadBusy(c, v) \/ WriteBusy(c, v)
      PROVE  Stutters
  BY <1>1 DEF ReadStep, ReadBusy, WriteBusy, Stutters
<1>2. ASSUME ReadEnd(c) \/ WriteEnd(c)
      PROVE  Stutters \/ Drops(c)
  BY <1>2, HaltIsDrop DEF ReadEnd, WriteEnd
<1>3. ASSUME NEW others, WriteCommits(c, others)
      PROVE  WritesThrough(c)
  BY <1>3, BeginIsSole
  DEF WriteCommits, End, AutoCommit, WritesThrough, Store!WriteThrough
<1>4. ASSUME NEW others, WriteRollsBack(c, others)
      PROVE  Drops(c)
  BY <1>4 DEF WriteRollsBack, End, AutoCommit, Drops, Store!Drop
<1>5. ASSUME NEW others, WriteWaits(c, others)
      PROVE  Writes(c)
  BY <1>5, BeginIsSole DEF WriteWaits, Writes, Store!Write
<1>6. ASSUME NEW others, WriteFails(c, others)
      PROVE  Stutters
  BY <1>6 DEF WriteFails, Stutters
<1>7. ASSUME IOError(c)
      PROVE  Abandons(c) \/ Drops(c)
  BY <1>0, <1>7, ErrorIsAbandon DEF IOError
<1>8. QED
  BY <1>1, <1>2, <1>3, <1>4, <1>5, <1>6, <1>7 DEF Statement, StoreStep

\* Every call is a step of the store, or none.
LEMMA NextIsStoreStep ==
    ASSUME LockInv, ConnNext
    PROVE  \E c \in Conns : StoreStep(c)
<1>0. ConnTypeOK
  BY DEF LockInv
<1>1. PICK c \in Conns :
        \/ \E m \in Modes : \/ \E t \in Txns : Begin(c, t, m)
                            \/ BeginBusy(c, m)
                            \/ BeginNested(c, m)
        \/ Commit(c) \/ CommitBusy(c) \/ CommitFails(c) \/ CommitRefused(c)
        \/ Rollback(c) \/ NothingToEnd(c)
        \/ Statement(c)
  BY DEF ConnNext
<1>2. ASSUME NEW m, NEW t \in Txns, Begin(c, t, m)
      PROVE  Begins(c)
  BY <1>2 DEF Begin, Begins, Store!Begin, AutoCommit
<1>3. ASSUME NEW m, BeginBusy(c, m) \/ BeginNested(c, m)
      PROVE  Stutters
  BY <1>3 DEF BeginBusy, BeginNested, Stutters
<1>4. ASSUME Commit(c)
      PROVE  Commits(c)
  <2>1. /\ ~AutoCommit(c) /\ CloseTxn(c, "committed")
        /\ dirty' = [dirty EXCEPT ![c] = {}]
        /\ stored' = stored \cup dirty[c] /\ wrote' = wrote
    BY <1>4 DEF Commit, End
  <2>2. QED BY <1>0, <2>1, CloseIsFinish DEF Commits, Store!Commit
<1>5. ASSUME CommitFails(c) \/ Rollback(c)
      PROVE  Abandons(c)
  <2>1. /\ ~AutoCommit(c) /\ CloseTxn(c, "abandoned")
        /\ dirty' = [dirty EXCEPT ![c] = {}]
        /\ stored' = stored \cup {} /\ wrote' = wrote
    BY <1>5 DEF CommitFails, Rollback, End
  <2>2. QED BY <1>0, <2>1, CloseIsFinish DEF Abandons, Store!Abandon
<1>6. ASSUME CommitBusy(c) \/ CommitRefused(c)
      PROVE  Stutters
  BY <1>6 DEF CommitBusy, CommitRefused, connVars, Stutters
<1>7. ASSUME NothingToEnd(c)
      PROVE  Stutters \/ Drops(c)
  BY <1>7, HaltIsDrop DEF NothingToEnd
<1>8. StoreStep(c)
  BY <1>1, <1>2, <1>3, <1>4, <1>5, <1>6, <1>7, StatementIsStoreStep
  DEF StoreStep
<1>9. QED BY <1>8

\* Locks, leaked statements, busy commits and I/O errors included, the
\* connections implement a store with serial writers and atomic commits.
THEOREM ImplementsStore == ConnSpec => StoreSpec
<1>1. ConnInit => Store!Init
  BY DEF ConnInit, Store!Init
<1>2. LockInv /\ [ConnNext]_connVars => [Store!Next]_(Store!vars)
  <2> SUFFICES ASSUME LockInv, [ConnNext]_connVars
               PROVE  [Store!Next]_(Store!vars)
    OBVIOUS
  <2>1. CASE UNCHANGED connVars
    BY <2>1 DEF connVars, Store!vars
  <2>2. CASE ConnNext
    <3>1. PICK c \in Conns : StoreStep(c)
      BY <2>2, NextIsStoreStep
    <3>2. QED
      BY <3>1 DEF StoreStep, Stutters, Begins, Writes, WritesThrough, Commits,
                  Abandons, Drops, Store!Next, Store!vars
  <2>3. QED BY <2>1, <2>2
<1>3. QED BY <1>1, <1>2, LockInvHolds, PTL DEF ConnSpec, StoreSpec, Store!Spec
-----------------------------------------------------------------------------
(* The invariants about rows, on the kinds of store steps.                 *)

RowInv == OpenOnOneConn /\ WroteIsKept /\ Atomicity

\* Every call keeps the rows where their transactions say.
LEMMA StepKeepsRows ==
    ASSUME ConnTypeOK, ConnTypeOK', RowInv, NEW c \in Conns, StoreStep(c)
    PROVE  RowInv'
<1>0. \A d \in Conns : inTxn[d] = NoTxn \/ inTxn[d] \in Txns
  BY DEF ConnTypeOK, Tags
<1>1. CASE Stutters
  BY <1>1 DEF Stutters, RowInv, OpenOnOneConn, WroteIsKept, Atomicity, AutoCommit
<1>2. CASE Begins(c)
  <2>1. PICK t \in Txns : Store!Begin(c, t)
    BY <1>2 DEF Begins
  <2>2. /\ inTxn[c] = NoTxn /\ fate[t] = "unused"
        /\ inTxn'[c] = t /\ \A d \in Conns \ {c} : inTxn'[d] = inTxn[d]
        /\ fate'[t] = "open" /\ \A u \in Txns \ {t} : fate'[u] = fate[u]
        /\ UNCHANGED <<dirty, stored, wrote>>
    BY <1>2, <2>1 DEF Begins, Store!Begin, ConnTypeOK
  <2>3. /\ \A d \in Conns : inTxn[d] # t
        /\ t \notin wrote /\ t \notin stored
    BY <2>2, NoTxnAssumption DEF RowInv, OpenOnOneConn, WroteIsKept, Atomicity
  <2>4. OpenOnOneConn'
    BY <1>0, <2>2, <2>3, NoTxnAssumption DEF RowInv, OpenOnOneConn, AutoCommit
  <2>5. WroteIsKept'
    BY <2>2, <2>3 DEF RowInv, WroteIsKept, ConnTypeOK
  <2>6. Atomicity'
    BY <2>2, <2>3 DEF RowInv, Atomicity
  <2>7. QED BY <2>4, <2>5, <2>6 DEF RowInv
<1>3. CASE Writes(c)
  <2>1. /\ UNCHANGED <<inTxn, stored, fate>>
        /\ dirty'[c] = dirty[c] \cup {inTxn[c]}
        /\ \A d \in Conns \ {c} : dirty'[d] = dirty[d]
        /\ wrote' = wrote \cup ({inTxn[c]} \cap Txns)
    BY <1>3 DEF Writes, Store!Write, ConnTypeOK
  <2>2. OpenOnOneConn'
    BY <2>1 DEF RowInv, OpenOnOneConn, AutoCommit
  <2>3. WroteIsKept'
    BY <1>0, <2>1, NoTxnAssumption DEF RowInv, WroteIsKept, OpenOnOneConn, AutoCommit
  <2>4. Atomicity'
    BY <2>1, NoTxnAssumption DEF RowInv, Atomicity, OpenOnOneConn
  <2>5. QED BY <2>2, <2>3, <2>4 DEF RowInv
<1>4. CASE WritesThrough(c)
  <2>1. /\ inTxn[c] = NoTxn /\ UNCHANGED <<inTxn, fate, wrote>>
        /\ stored' = stored \cup dirty[c] \cup {NoTxn}
        /\ dirty'[c] = {} /\ \A d \in Conns \ {c} : dirty'[d] = dirty[d]
    BY <1>4 DEF WritesThrough, Store!WriteThrough, ConnTypeOK
  <2>2. dirty[c] \subseteq {NoTxn}
    BY <2>1 DEF RowInv, OpenOnOneConn
  <2>3. QED
    BY <2>1, <2>2, NoTxnAssumption
    DEF RowInv, OpenOnOneConn, WroteIsKept, Atomicity, AutoCommit, ConnTypeOK
<1>5. CASE Commits(c) \/ Abandons(c)
  <2> DEFINE t == inTxn[c]
  <2>1. /\ t \in Txns /\ inTxn'[c] = NoTxn /\ wrote' = wrote
        /\ \A d \in Conns \ {c} : inTxn'[d] = inTxn[d] /\ dirty'[d] = dirty[d]
        /\ dirty'[c] = {}
        /\ \A u \in Txns \ {t} : fate'[u] = fate[u]
        /\ \/ fate'[t] = "committed" /\ stored' = stored \cup dirty[c]
           \/ fate'[t] = "abandoned" /\ stored' = stored
    BY <1>0, <1>5 DEF Commits, Abandons, Store!Commit, Store!Abandon,
                      Store!Finish, ConnTypeOK
  <2>2. /\ fate[t] = "open" /\ t \notin stored
        /\ t \in wrote => t \in dirty[c]
        /\ dirty[c] \subseteq {t, NoTxn}
        /\ \A d \in Conns \ {c} : inTxn[d] # t
    BY <2>1, NoTxnAssumption
    DEF RowInv, OpenOnOneConn, WroteIsKept, Atomicity, AutoCommit
  <2> HIDE DEF t
  <2>3. OpenOnOneConn'
    BY <1>0, <2>1, <2>2, NoTxnAssumption
    DEF RowInv, OpenOnOneConn, AutoCommit, t
  <2>4. WroteIsKept'
    BY <2>1, <2>2, NoTxnAssumption DEF RowInv, WroteIsKept, ConnTypeOK
  <2>5. Atomicity'
    BY <2>1, <2>2, NoTxnAssumption DEF RowInv, Atomicity
  <2>6. QED BY <2>3, <2>4, <2>5 DEF RowInv
<1>6. CASE Drops(c)
  <2>1. /\ inTxn[c] = NoTxn /\ UNCHANGED <<inTxn, fate, wrote, stored>>
        /\ dirty'[c] = {} /\ \A d \in Conns \ {c} : dirty'[d] = dirty[d]
    BY <1>6 DEF Drops, Store!Drop, ConnTypeOK
  <2>2. QED
    BY <2>1, NoTxnAssumption
    DEF RowInv, OpenOnOneConn, WroteIsKept, Atomicity, AutoCommit, ConnTypeOK
<1>7. QED BY <1>1, <1>2, <1>3, <1>4, <1>5, <1>6 DEF StoreStep

\* The row invariant holds always.
LEMMA RowInvariant == ConnSpec => []RowInv
<1>1. ConnInit => RowInv
  BY NoTxnAssumption
  DEF ConnInit, RowInv, OpenOnOneConn, WroteIsKept, Atomicity, AutoCommit
<1>2. LockInv /\ LockInv' /\ RowInv /\ [ConnNext]_connVars => RowInv'
  <2> SUFFICES ASSUME LockInv, LockInv', RowInv, [ConnNext]_connVars
               PROVE  RowInv'
    OBVIOUS
  <2>1. CASE UNCHANGED connVars
    BY <2>1 DEF connVars, RowInv, OpenOnOneConn, WroteIsKept, Atomicity, AutoCommit
  <2>2. CASE ConnNext
    BY <2>2, NextIsStoreStep, StepKeepsRows DEF LockInv
  <2>3. QED BY <2>1, <2>2
<1>3. QED BY <1>1, <1>2, LockInvHolds, PTL DEF ConnSpec

\* Transactions are atomic: what was reported written in a committed one is
\* in the file, and nothing of any other one is.
THEOREM TransactionsAtomic == ConnSpec => []Atomicity
<1>1. RowInv => Atomicity
  BY DEF RowInv
<1>2. QED BY <1>1, RowInvariant, PTL

\* No failure on the connection loses a row of a transaction that stays open.
THEOREM OpenKeepsRows == ConnSpec => []WroteIsKept
<1>1. RowInv => WroteIsKept
  BY DEF RowInv
<1>2. QED BY <1>1, RowInvariant, PTL

\* A transaction is open on one connection, which holds only its rows and
\* rows of autocommit mode.
THEOREM OneConnPerTxn == ConnSpec => []OpenOnOneConn
<1>1. RowInv => OpenOnOneConn
  BY DEF RowInv
<1>2. QED BY <1>1, RowInvariant, PTL

\* The file changes only while no other connection holds a lock on it.
THEOREM FileIsStable == ConnSpec => StoredIsStable
<1> DEFINE A == stored' # stored =>
                   \E c \in Conns : \A d \in Conns \ {c} : lock[d] = "none"
<1>1. LockInv /\ [ConnNext]_connVars => [A]_connVars
  <2> SUFFICES ASSUME LockInv, ConnNext, stored' # stored
               PROVE  \E c \in Conns : \A d \in Conns \ {c} : lock[d] = "none"
    OBVIOUS
  <2>1. ASSUME NEW c \in Conns, Commit(c)
        PROVE  MayExclude(c)
    BY <2>1 DEF Commit, LockInv, LockFitsTrans
  <2>2. ASSUME NEW c \in Conns, NEW others, WriteCommits(c, others)
        PROVE  MayExclude(c)
    BY <2>2 DEF WriteCommits
  <2>3. \E c \in Conns : MayExclude(c)
    BY <2>1, <2>2
    DEF ConnNext, Begin, BeginBusy, BeginNested, CommitBusy, CommitFails,
        CommitRefused, Rollback, NothingToEnd, Statement, ReadStep, ReadBusy,
        ReadEnd, WriteRollsBack, WriteWaits, WriteFails, WriteBusy, WriteEnd,
        IOError, SpecialError, connVars
  <2>4. QED BY <2>3 DEF MayExclude
<1>2. QED BY <1>1, LockInvHolds, PTL DEF ConnSpec, StoredIsStable
=============================================================================
