-------------------------- MODULE ConnectionProofs --------------------------
(***************************************************************************)
(* Theorems about Connection, for any number of connections and of         *)
(* transactions.                                                           *)
(***************************************************************************)
EXTENDS Connection, TLAPS

WrFlags == {"read", "write", "exclusive"}
TransStates == {"none", "read", "write"}
Fates == {"unused", "open", "committed", "abandoned"}

\* A BEGIN that takes locks takes them for writing.
LEMMA WrFlagType == \A m \in Modes : WrFlag(m) \in {"write", "exclusive"}
BY DEF Modes, WrFlag

\* The operators on locks and B-tree transactions stay in their types.
LEMMA BeginType ==
    ASSUME ConnTypeOK, NEW c \in Conns, NEW wr \in WrFlags
    PROVE  /\ TransAfterBegin(c, wr) \in TransStates
           /\ LockAfterBegin(c, wr) \in Locks
           /\ LockAfterBusy(c, wr) \in Locks
<1>1. trans[c] \in TransStates /\ lock[c] \in Locks
  BY DEF ConnTypeOK, TransStates
<1>2. TransAfterBegin(c, wr) \in TransStates
  BY <1>1 DEF TransAfterBegin, TransStates
<1>3. LockAfterBegin(c, wr) \in Locks
  <2>1. CASE AlreadyBegun(c, wr)
    BY <1>1, <2>1 DEF LockAfterBegin
  <2>2. CASE ~AlreadyBegun(c, wr)
    BY <1>1, <2>2 DEF LockAfterBegin, Locks, WrFlags
  <2>3. QED BY <2>1, <2>2
<1>4. LockAfterBusy(c, wr) \in Locks
  BY <1>1 DEF LockAfterBusy, Locks
<1>5. QED BY <1>2, <1>3, <1>4

\* btreeEndTransaction leaves a legal transaction state and lock.
LEMMA EndType ==
    ASSUME NEW t \in TransStates, NEW l \in Locks, NEW others
    PROVE  /\ TransAfterEnd(t, others) \in TransStates
           /\ LockAfterEnd(t, l, others) \in Locks
BY DEF TransAfterEnd, LockAfterEnd, TransStates, Locks

\* The types after a commit or rollback.
LEMMA EndStepType ==
    ASSUME ConnTypeOK, NEW c \in Conns, NEW t \in TransStates, NEW l \in Locks,
           NEW others, End(c, t, l, others)
    PROVE  /\ trans' \in [Conns -> TransStates]
           /\ lock' \in [Conns -> Locks]
           /\ dirty' \in [Conns -> SUBSET Tags]
BY EndType DEF End, ConnTypeOK, TransStates

\* The types after autocommit is turned on again.
LEMMA CloseTxnType ==
    ASSUME ConnTypeOK, NEW c \in Conns, NEW f \in Fates, CloseTxn(c, f)
    PROVE  /\ inTxn' \in [Conns -> Tags]
           /\ fate' \in [Txns -> Fates]
BY DEF CloseTxn, ConnTypeOK, Tags, Fates

\* The types after sqlite3VdbeHalt of a VM that changed nothing.
LEMMA HaltType ==
    ASSUME ConnTypeOK, NEW c \in Conns, NEW others, HaltWithoutChange(c, others)
    PROVE  /\ trans' \in [Conns -> TransStates]
           /\ lock' \in [Conns -> Locks]
           /\ dirty' \in [Conns -> SUBSET Tags]
<1>1. trans[c] \in TransStates /\ lock[c] \in Locks
  BY DEF ConnTypeOK, TransStates
<1>2. CASE AutoCommit(c) /\ others \cap Writers = {}
  BY <1>1, <1>2, EndStepType DEF HaltWithoutChange
<1>3. CASE ~(AutoCommit(c) /\ others \cap Writers = {})
  BY <1>3 DEF HaltWithoutChange, ConnTypeOK, TransStates
<1>4. QED BY <1>2, <1>3
-----------------------------------------------------------------------------
(* Every statement keeps the types.                                        *)

\* The other VMs of a writer are VMs.
LEMMA OtherVmsType ==
    ASSUME ConnTypeOK, NEW c \in Conns, NEW others \in OtherVms(c)
    PROVE  others \in SUBSET (Readers \cup Writers)
BY DEF OtherVms, ConnTypeOK

\* The types after the rollback of sqlite3VdbeHalt on a special error.
LEMMA SpecialErrorType ==
    ASSUME ConnTypeOK, NEW c \in Conns, NEW wr \in WrFlags,
           NEW others \in SUBSET (Readers \cup Writers),
           SpecialError(c, wr, others)
    PROVE  ConnTypeOK'
<1>1. /\ TransAfterBegin(c, wr) \in TransStates
      /\ LockAfterBegin(c, wr) \in Locks
  BY BeginType
<1>2. "abandoned" \in Fates
  BY DEF Fates
<1>3. /\ trans' \in [Conns -> TransStates]
      /\ lock' \in [Conns -> Locks]
      /\ dirty' \in [Conns -> SUBSET Tags]
  BY <1>1, EndStepType DEF SpecialError
<1>4. inTxn' \in [Conns -> Tags] /\ fate' \in [Txns -> Fates]
  BY <1>2, CloseTxnType DEF SpecialError
<1>5. QED
  BY <1>3, <1>4 DEF SpecialError, ConnTypeOK, TransStates, Fates

\* The types after each outcome of a write step.
LEMMA WriteType ==
    ASSUME ConnTypeOK, NEW c \in Conns, NEW others \in OtherVms(c),
           \/ WriteCommits(c, others) \/ WriteRollsBack(c, others)
           \/ WriteWaits(c, others) \/ WriteFails(c, others)
    PROVE  ConnTypeOK'
<1> DEFINE l == LockAfterBegin(c, "write")
<1>1. l \in Locks /\ "write" \in TransStates /\ "write" \in WrFlags
  BY BeginType DEF WrFlags, TransStates
<1>2. others \in SUBSET (Readers \cup Writers)
  BY OtherVmsType
<1>3. NoTxn \in Tags /\ inTxn[c] \in Tags /\ dirty[c] \in SUBSET Tags
  BY DEF ConnTypeOK, Tags
<1>4. CASE WriteCommits(c, others) \/ WriteRollsBack(c, others)
  <2>1. End(c, "write", l, others)
    BY <1>4 DEF WriteCommits, WriteRollsBack
  <2>2. /\ trans' \in [Conns -> TransStates]
        /\ lock' \in [Conns -> Locks]
        /\ dirty' \in [Conns -> SUBSET Tags]
    BY <1>1, <2>1, EndStepType
  <2>3. QED
    BY <1>2, <1>3, <1>4, <2>2
    DEF WriteCommits, WriteRollsBack, ConnTypeOK, TransStates
<1>5. CASE WriteWaits(c, others)
  <2>1. /\ trans' = [trans EXCEPT ![c] = "write"]
        /\ lock' = [lock EXCEPT ![c] = l]
        /\ dirty' = [dirty EXCEPT ![c] = @ \cup {inTxn[c]}]
        /\ wrote' \subseteq wrote \cup Txns
        /\ active' = [active EXCEPT ![c] = others]
        /\ UNCHANGED <<inTxn, stored, fate>>
    BY <1>5 DEF WriteWaits
  <2>2. QED
    BY <1>1, <1>2, <1>3, <2>1 DEF ConnTypeOK, TransStates
<1>6. CASE WriteFails(c, others)
  BY <1>1, <1>2, <1>6 DEF WriteFails, ConnTypeOK, TransStates
<1>7. QED BY <1>4, <1>5, <1>6

\* The types after every statement of an application.
LEMMA StatementType ==
    ASSUME ConnTypeOK, NEW c \in Conns, Statement(c)
    PROVE  ConnTypeOK'
<1>0. "read" \in WrFlags /\ "write" \in WrFlags
  BY DEF WrFlags
<1>1. CASE \E v \in Readers : ReadStep(c, v) \/ ReadBusy(c, v)
  <2>1. PICK v \in Readers : ReadStep(c, v) \/ ReadBusy(c, v)
    BY <1>1
  <2>2. CASE ReadStep(c, v)
    <3>1. /\ TransAfterBegin(c, "read") \in TransStates
          /\ LockAfterBegin(c, "read") \in Locks
      BY <1>0, BeginType
    <3>2. QED BY <2>2, <3>1 DEF ReadStep, ConnTypeOK, TransStates
  <2>3. CASE ReadBusy(c, v)
    BY <2>3 DEF ReadBusy, ConnTypeOK
  <2>4. QED BY <2>1, <2>2, <2>3
<1>2. CASE ReadEnd(c)
  <2>1. HaltWithoutChange(c, active[c] \ {"istmt"})
    BY <1>2 DEF ReadEnd
  <2>2. QED BY <1>2, <2>1, HaltType DEF ReadEnd, ConnTypeOK, TransStates
<1>3. CASE \E others \in OtherVms(c) :
              \/ WriteCommits(c, others) \/ WriteRollsBack(c, others)
              \/ WriteWaits(c, others) \/ WriteFails(c, others)
  BY <1>3, WriteType
<1>4. CASE \E v \in Writers : WriteBusy(c, v)
  BY <1>4 DEF WriteBusy, ConnTypeOK
<1>5. CASE WriteEnd(c)
  <2>1. HaltWithoutChange(c, active[c] \ {"ostmt"})
    BY <1>5 DEF WriteEnd
  <2>2. QED BY <1>5, <2>1, HaltType DEF WriteEnd, ConnTypeOK, TransStates
<1>6. CASE IOError(c)
  <2>1. active[c] \ {"istmt"} \in SUBSET (Readers \cup Writers)
    BY DEF ConnTypeOK
  <2>2. CASE SpecialError(c, "read", active[c] \ {"istmt"})
    BY <1>0, <2>1, <2>2, SpecialErrorType
  <2>3. CASE \E others \in OtherVms(c) : SpecialError(c, "write", others)
    BY <1>0, <2>3, OtherVmsType, SpecialErrorType
  <2>4. QED BY <1>6, <2>2, <2>3 DEF IOError
<1>7. QED BY <1>1, <1>2, <1>3, <1>4, <1>5, <1>6 DEF Statement

\* The types after the OP_Transaction of a BEGIN.
LEMMA AcquireType ==
    ASSUME ConnTypeOK, NEW c \in Conns, NEW m \in Modes, Acquire(c, m)
    PROVE  trans' \in [Conns -> TransStates] /\ lock' \in [Conns -> Locks]
<1>1. WrFlag(m) \in WrFlags
  BY WrFlagType DEF WrFlags
<1>2. /\ TransAfterBegin(c, WrFlag(m)) \in TransStates
      /\ LockAfterBegin(c, WrFlag(m)) \in Locks
  BY <1>1, BeginType
<1>3. QED BY <1>2 DEF Acquire, ConnTypeOK, TransStates

\* Every call keeps the types.
LEMMA TypeStep == ConnTypeOK /\ [ConnNext]_connVars => ConnTypeOK'
<1> SUFFICES ASSUME ConnTypeOK, [ConnNext]_connVars PROVE ConnTypeOK'
  OBVIOUS
<1>1. CASE UNCHANGED connVars
  BY <1>1 DEF connVars, ConnTypeOK
<1>2. ASSUME NEW c \in Conns, NEW m \in Modes, NEW t \in Txns, Begin(c, t, m)
      PROVE  ConnTypeOK'
  <2>1. trans' \in [Conns -> TransStates] /\ lock' \in [Conns -> Locks]
    BY <1>2, AcquireType DEF Begin
  <2>2. QED BY <1>2, <2>1 DEF Begin, ConnTypeOK, Tags, TransStates
<1>3. ASSUME NEW c \in Conns, NEW m \in Modes, BeginBusy(c, m)
      PROVE  ConnTypeOK'
  <2>1. LockAfterBusy(c, WrFlag(m)) \in Locks
    BY WrFlagType, BeginType DEF WrFlags
  <2>2. "leakedWriter" \in Readers \cup Writers
    BY DEF Writers
  <2>3. QED BY <1>3, <2>1, <2>2 DEF BeginBusy, ConnTypeOK
<1>4. ASSUME NEW c \in Conns, NEW m \in Modes, BeginNested(c, m)
      PROVE  ConnTypeOK'
  <2>1. trans' \in [Conns -> TransStates] /\ lock' \in [Conns -> Locks]
    BY <1>4, AcquireType DEF BeginNested
  <2>2. QED BY <1>4, <2>1 DEF BeginNested, ConnTypeOK, TransStates
<1>5. ASSUME NEW c \in Conns, Commit(c) \/ CommitFails(c) \/ Rollback(c)
      PROVE  ConnTypeOK'
  <2>1. trans[c] \in TransStates /\ lock[c] \in Locks
    BY DEF ConnTypeOK, TransStates
  <2>2. /\ trans' \in [Conns -> TransStates]
        /\ lock' \in [Conns -> Locks]
        /\ dirty' \in [Conns -> SUBSET Tags]
    BY <1>5, <2>1, EndStepType DEF Commit, CommitFails, Rollback
  <2>3. "committed" \in Fates /\ "abandoned" \in Fates
    BY DEF Fates
  <2>4. inTxn' \in [Conns -> Tags] /\ fate' \in [Txns -> Fates]
    BY <1>5, <2>3, CloseTxnType DEF Commit, CommitFails, Rollback
  <2>5. "leakedReader" \in Readers \cup Writers
    BY DEF Readers
  <2>6. active' \in [Conns -> SUBSET (Readers \cup Writers)]
    BY <1>5, <2>5 DEF Commit, CommitFails, Rollback, ConnTypeOK
  <2>7. stored' \subseteq Tags /\ wrote' \subseteq Txns
    BY <1>5 DEF Commit, CommitFails, Rollback, ConnTypeOK
  <2>8. QED BY <2>2, <2>4, <2>6, <2>7 DEF ConnTypeOK, TransStates, Fates
<1>6. ASSUME NEW c \in Conns, CommitBusy(c)
      PROVE  ConnTypeOK'
  BY <1>6 DEF CommitBusy, ConnTypeOK, Locks, Readers
<1>7. ASSUME NEW c \in Conns, CommitRefused(c)
      PROVE  ConnTypeOK'
  BY <1>7 DEF CommitRefused, connVars, ConnTypeOK
<1>8. ASSUME NEW c \in Conns, NothingToEnd(c)
      PROVE  ConnTypeOK'
  BY <1>8, HaltType DEF NothingToEnd, ConnTypeOK, TransStates
<1>9. QED
  BY <1>1, <1>2, <1>3, <1>4, <1>5, <1>6, <1>7, <1>8, StatementType DEF ConnNext

\* Type correctness of the connections.
THEOREM ConnTypeCorrect == ConnSpec => []ConnTypeOK
<1>1. ConnInit => ConnTypeOK
  BY DEF ConnInit, ConnTypeOK, Tags, Locks
<1>2. QED BY <1>1, TypeStep, PTL DEF ConnSpec
-----------------------------------------------------------------------------
(***************************************************************************)
(* Locks.  Every action moves the lock of one connection, and every such   *)
(* move is legal with respect to what the other connections hold.          *)
(***************************************************************************)
LegalMove(c, x, y) ==
    /\ x \in TransStates /\ y \in Locks
    /\ x = "none" <=> y = "none"
    /\ x = "write" => y \in Reserving
    /\ y \in Reserving => MayReserve(c)
    /\ y = "exclusive" => lock[c] = "exclusive" \/ MayExclude(c)
    /\ y # "none" => lock[c] # "none"
                        \/ \A d \in Conns \ {c} : lock[d] # "exclusive"

LegalStep(c) ==
    \E x \in TransStates, y \in Locks, z \in SUBSET Tags :
        /\ LegalMove(c, x, y)
        /\ z # {} => x = "write"
        /\ trans' = [trans EXCEPT ![c] = x]
        /\ lock' = [lock EXCEPT ![c] = y]
        /\ dirty' = [dirty EXCEPT ![c] = z]

LockInv == ConnTypeOK /\ LockFitsTrans /\ LockExclusion

\* A connection may keep the lock it has.
LEMMA StayLegal ==
    ASSUME LockInv, NEW c \in Conns
    PROVE  LegalMove(c, trans[c], lock[c])
BY DEF LockInv, ConnTypeOK, LockFitsTrans, LegalMove, TransStates, MayReserve

\* What sqlite3BtreeBeginTrans acquires, winLock allows.
LEMMA BeginLegal ==
    ASSUME LockInv, NEW c \in Conns, NEW wr \in WrFlags, CanBegin(c, wr)
    PROVE  LegalMove(c, TransAfterBegin(c, wr), LockAfterBegin(c, wr))
<1>1. CASE AlreadyBegun(c, wr)
  BY <1>1, StayLegal DEF TransAfterBegin, LockAfterBegin
<1>2. CASE ~AlreadyBegun(c, wr)
  <2>1. /\ trans[c] \in TransStates /\ lock[c] \in Locks
        /\ trans[c] = "none" <=> lock[c] = "none"
    BY DEF LockInv, ConnTypeOK, LockFitsTrans, TransStates
  <2>2. /\ trans[c] = "read" \/ MayShare(c)
        /\ wr # "read" => MayReserve(c)
        /\ wr = "exclusive" => MayExclude(c)
    BY <1>2 DEF CanBegin
  <2>3. lock[c] # "none" \/ \A d \in Conns \ {c} : lock[d] # "exclusive"
    BY <2>1, <2>2 DEF MayShare
  <2>4. CASE wr = "read"
    BY <1>2, <2>1, <2>3, <2>4
    DEF LegalMove, TransAfterBegin, LockAfterBegin, TransStates, Locks, Reserving
  <2>5. CASE wr = "write"
    BY <1>2, <2>1, <2>2, <2>3, <2>5
    DEF LegalMove, TransAfterBegin, LockAfterBegin, TransStates, Locks, Reserving
  <2>6. CASE wr = "exclusive"
    BY <1>2, <2>1, <2>2, <2>3, <2>6
    DEF LegalMove, TransAfterBegin, LockAfterBegin, TransStates, Locks, Reserving
  <2>7. QED BY <2>4, <2>5, <2>6 DEF WrFlags
<1>3. QED BY <1>1, <1>2

\* What a failed sqlite3BtreeBeginTrans leaves, winLock allows.
LEMMA BusyLegal ==
    ASSUME LockInv, NEW c \in Conns, NEW wr \in WrFlags
    PROVE  LegalMove(c, trans[c], LockAfterBusy(c, wr))
<1>1. CASE trans[c] = "read" /\ wr = "exclusive" /\ MayReserve(c)
  BY <1>1 DEF LockInv, LockFitsTrans, LegalMove, LockAfterBusy, TransStates,
              Locks, Reserving
<1>2. CASE ~(trans[c] = "read" /\ wr = "exclusive" /\ MayReserve(c))
  BY <1>2, StayLegal DEF LockAfterBusy
<1>3. QED BY <1>1, <1>2

\* The end of a transaction only lowers the lock.
LEMMA EndLegal ==
    ASSUME NEW c \in Conns, NEW t, NEW l, LegalMove(c, t, l), NEW others
    PROVE  LegalMove(c, TransAfterEnd(t, others), LockAfterEnd(t, l, others))
BY DEF LegalMove, TransAfterEnd, LockAfterEnd, TransStates, Locks, Reserving

\* A commit or rollback from a legal lock keeps all locks exclusive.
LEMMA EndStepLegal ==
    ASSUME NEW c \in Conns, NEW t, NEW l, LegalMove(c, t, l), NEW others,
           End(c, t, l, others)
    PROVE  LegalStep(c)
<1> DEFINE x == TransAfterEnd(t, others)
           y == LockAfterEnd(t, l, others)
<1>1. LegalMove(c, x, y)
  BY EndLegal
<1>2. x \in TransStates /\ y \in Locks
  BY <1>1 DEF LegalMove
<1>3. {} \in SUBSET Tags
  OBVIOUS
<1>4. /\ trans' = [trans EXCEPT ![c] = x]
      /\ lock' = [lock EXCEPT ![c] = y]
      /\ dirty' = [dirty EXCEPT ![c] = {}]
  BY DEF End
<1> HIDE DEF x, y
<1>5. QED BY <1>1, <1>2, <1>3, <1>4 DEF LegalStep

\* A step that moves lock and transaction and keeps the rows.
LEMMA MoveStepLegal ==
    ASSUME LockInv, NEW c \in Conns, NEW x, NEW y, LegalMove(c, x, y),
           trans[c] = "write" => x = "write",
           trans' = [trans EXCEPT ![c] = x],
           lock' = [lock EXCEPT ![c] = y],
           dirty' = dirty
    PROVE  LegalStep(c)
<1>1. x \in TransStates /\ y \in Locks
  BY DEF LegalMove
<1>2. dirty[c] \in SUBSET Tags /\ dirty' = [dirty EXCEPT ![c] = dirty[c]]
  BY DEF LockInv, ConnTypeOK
<1>3. dirty[c] # {} => x = "write"
  BY DEF LockInv, LockFitsTrans
<1>4. QED BY <1>1, <1>2, <1>3 DEF LegalStep

\* A call that changes no lock keeps all locks exclusive.
LEMMA StutterLegal ==
    ASSUME LockInv, NEW c \in Conns, UNCHANGED <<trans, lock, dirty>>
    PROVE  LegalStep(c)
<1>1. /\ trans' = [trans EXCEPT ![c] = trans[c]]
      /\ lock' = [lock EXCEPT ![c] = lock[c]]
  BY DEF LockInv, ConnTypeOK
<1>2. QED BY <1>1, StayLegal, MoveStepLegal

\* sqlite3VdbeHalt of a VM that changed nothing keeps all locks exclusive.
LEMMA HaltLegal ==
    ASSUME LockInv, NEW c \in Conns, NEW others, HaltWithoutChange(c, others)
    PROVE  LegalStep(c)
BY StayLegal, EndStepLegal, StutterLegal DEF HaltWithoutChange

\* The locks of a BEGIN keep all locks exclusive.
LEMMA AcquireLegal ==
    ASSUME LockInv, NEW c \in Conns, NEW m \in Modes, GetsLocks(c, m),
           Acquire(c, m), dirty' = dirty
    PROVE  LegalStep(c)
<1>1. CASE m = "deferred"
  <2>1. trans' = trans /\ lock' = lock
    BY <1>1 DEF Acquire, LockInv, ConnTypeOK
  <2>2. QED BY <2>1, StutterLegal
<1>2. CASE m # "deferred"
  <2> DEFINE wr == WrFlag(m)
  <2>1. wr \in WrFlags /\ CanBegin(c, wr)
    BY <1>2, WrFlagType DEF GetsLocks, WrFlags
  <2>2. LegalMove(c, TransAfterBegin(c, wr), LockAfterBegin(c, wr))
    BY <2>1, BeginLegal
  <2>3. trans[c] = "write" => TransAfterBegin(c, wr) = "write"
    BY DEF TransAfterBegin, AlreadyBegun
  <2>4. /\ trans' = [trans EXCEPT ![c] = TransAfterBegin(c, wr)]
        /\ lock' = [lock EXCEPT ![c] = LockAfterBegin(c, wr)]
    BY <1>2 DEF Acquire
  <2>5. QED BY <2>2, <2>3, <2>4, MoveStepLegal
<1>3. QED BY <1>1, <1>2

\* A legal step keeps the exclusion of locks.
LEMMA LegalKeepsLocks ==
    ASSUME LockInv, NEW c \in Conns, LegalStep(c)
    PROVE  LockFitsTrans' /\ LockExclusion'
<1>1. PICK x \in TransStates, y \in Locks, z \in SUBSET Tags :
        /\ LegalMove(c, x, y)
        /\ z # {} => x = "write"
        /\ trans' = [trans EXCEPT ![c] = x]
        /\ lock' = [lock EXCEPT ![c] = y]
        /\ dirty' = [dirty EXCEPT ![c] = z]
  BY DEF LegalStep
<1>2. /\ trans'[c] = x /\ lock'[c] = y /\ dirty'[c] = z
      /\ \A d \in Conns \ {c} : /\ trans'[d] = trans[d] /\ lock'[d] = lock[d]
                                /\ dirty'[d] = dirty[d]
  BY <1>1 DEF LockInv, ConnTypeOK
<1>3. LockFitsTrans'
  BY <1>1, <1>2 DEF LockInv, LockFitsTrans, LegalMove
<1>4. ASSUME NEW d \in Conns \ {c}
      PROVE  /\ ~(y \in Reserving /\ lock[d] \in Reserving)
             /\ y = "exclusive" => lock[d] = "none"
             /\ lock[d] = "exclusive" => y = "none"
  <2>1. y \in Reserving => MayReserve(c)
    BY <1>1 DEF LegalMove
  <2>2. CASE lock[c] \in Reserving
    BY <1>1, <1>4, <2>2
    DEF LockInv, LockExclusion, LegalMove, MayExclude, Reserving
  <2>3. CASE lock[c] \notin Reserving
    BY <1>1, <1>4, <2>1, <2>3
    DEF LockInv, LockExclusion, LegalMove, MayReserve, MayExclude, Reserving
  <2>4. QED BY <2>2, <2>3
<1>5. LockExclusion'
  BY <1>2, <1>4 DEF LockInv, LockExclusion
<1>6. QED BY <1>3, <1>5
\* Every statement keeps all locks exclusive.
LEMMA StatementLegal ==
    ASSUME LockInv, NEW c \in Conns, Statement(c)
    PROVE  LegalStep(c)
<1>0. "read" \in WrFlags /\ "write" \in WrFlags
  BY DEF WrFlags
<1>1. ASSUME NEW v \in Readers, ReadStep(c, v)
      PROVE  LegalStep(c)
  <2>1. LegalMove(c, TransAfterBegin(c, "read"), LockAfterBegin(c, "read"))
    BY <1>0, <1>1, BeginLegal DEF ReadStep
  <2>2. trans[c] = "write" => TransAfterBegin(c, "read") = "write"
    BY DEF TransAfterBegin, AlreadyBegun
  <2>3. QED BY <1>1, <2>1, <2>2, MoveStepLegal DEF ReadStep
<1>2. ASSUME \/ \E v \in Readers : ReadBusy(c, v)
             \/ \E v \in Writers : WriteBusy(c, v)
      PROVE  LegalStep(c)
  BY <1>2, StutterLegal DEF ReadBusy, WriteBusy
<1>3. ASSUME ReadEnd(c) \/ WriteEnd(c)
      PROVE  LegalStep(c)
  BY <1>3, HaltLegal DEF ReadEnd, WriteEnd
<1>4. ASSUME NEW others, CanBegin(c, "write")
      PROVE  /\ LegalMove(c, "write", LockAfterBegin(c, "write"))
             /\ TransAfterBegin(c, "write") = "write"
  BY <1>0, <1>4, BeginLegal DEF TransAfterBegin, AlreadyBegun
<1>5. ASSUME NEW others, WriteCommits(c, others) \/ WriteRollsBack(c, others)
      PROVE  LegalStep(c)
  BY <1>4, <1>5, EndStepLegal DEF WriteCommits, WriteRollsBack
<1>6. ASSUME NEW others, WriteWaits(c, others)
      PROVE  LegalStep(c)
  <2> DEFINE y == LockAfterBegin(c, "write")
             z == dirty[c] \cup {inTxn[c]}
  <2>1. LegalMove(c, "write", y)
    BY <1>4, <1>6 DEF WriteWaits
  <2>2. "write" \in TransStates /\ y \in Locks
    BY <2>1 DEF LegalMove
  <2>3. z \in SUBSET Tags
    BY DEF LockInv, ConnTypeOK
  <2>4. /\ trans' = [trans EXCEPT ![c] = "write"]
        /\ lock' = [lock EXCEPT ![c] = y]
        /\ dirty' = [dirty EXCEPT ![c] = z]
    BY <1>6 DEF WriteWaits
  <2> HIDE DEF y, z
  <2>5. QED BY <2>1, <2>2, <2>3, <2>4 DEF LegalStep
<1>7. ASSUME NEW others, WriteFails(c, others)
      PROVE  LegalStep(c)
  BY <1>4, <1>7, MoveStepLegal DEF WriteFails
<1>8. ASSUME NEW wr \in WrFlags, NEW others, SpecialError(c, wr, others)
      PROVE  LegalStep(c)
  BY <1>8, BeginLegal, EndStepLegal DEF SpecialError
<1>9. QED
  BY <1>0, <1>1, <1>2, <1>3, <1>5, <1>6, <1>7, <1>8 DEF Statement, IOError

\* Every call keeps all locks exclusive.
LEMMA NextLegal ==
    ASSUME LockInv, ConnNext
    PROVE  \E c \in Conns : LegalStep(c)
<1>1. PICK c \in Conns :
        \/ \E m \in Modes : \/ \E t \in Txns : Begin(c, t, m)
                            \/ BeginBusy(c, m)
                            \/ BeginNested(c, m)
        \/ Commit(c) \/ CommitBusy(c) \/ CommitFails(c) \/ CommitRefused(c)
        \/ Rollback(c) \/ NothingToEnd(c)
        \/ Statement(c)
  BY DEF ConnNext
<1>2. ASSUME NEW m \in Modes, NEW t \in Txns, Begin(c, t, m)
      PROVE  LegalStep(c)
  BY <1>2, AcquireLegal DEF Begin
<1>3. ASSUME NEW m \in Modes, BeginBusy(c, m)
      PROVE  LegalStep(c)
  <2>1. LegalMove(c, trans[c], LockAfterBusy(c, WrFlag(m)))
    BY WrFlagType, BusyLegal DEF WrFlags
  <2>2. trans' = [trans EXCEPT ![c] = trans[c]]
    BY <1>3 DEF BeginBusy, LockInv, ConnTypeOK
  <2>3. QED BY <1>3, <2>1, <2>2, MoveStepLegal DEF BeginBusy
<1>4. ASSUME NEW m \in Modes, BeginNested(c, m)
      PROVE  LegalStep(c)
  BY <1>4, AcquireLegal DEF BeginNested
<1>5. CASE Commit(c) \/ CommitFails(c) \/ Rollback(c)
  BY <1>5, StayLegal, EndStepLegal DEF Commit, CommitFails, Rollback
<1>6. CASE CommitBusy(c)
  <2>1. LegalMove(c, trans[c], "pending")
    BY <1>6 DEF CommitBusy, LegalMove, LockInv, LockFitsTrans, MayReserve,
                TransStates, Locks, Reserving
  <2>2. trans' = [trans EXCEPT ![c] = trans[c]]
    BY <1>6 DEF CommitBusy, LockInv, ConnTypeOK
  <2>3. QED BY <1>6, <2>1, <2>2, MoveStepLegal DEF CommitBusy
<1>7. CASE CommitRefused(c)
  BY <1>7, StutterLegal DEF CommitRefused, connVars
<1>8. CASE NothingToEnd(c)
  BY <1>8, HaltLegal DEF NothingToEnd
<1>9. QED
  BY <1>1, <1>2, <1>3, <1>4, <1>5, <1>6, <1>7, <1>8, StatementLegal

\* The lock invariant is inductive.
LEMMA LockStep == LockInv /\ [ConnNext]_connVars => LockInv'
<1> SUFFICES ASSUME LockInv, [ConnNext]_connVars PROVE LockInv'
  OBVIOUS
<1>1. ConnTypeOK'
  BY TypeStep DEF LockInv
<1>2. CASE ConnNext
  BY <1>1, <1>2, NextLegal, LegalKeepsLocks DEF LockInv
<1>3. CASE UNCHANGED connVars
  BY <1>1, <1>3 DEF LockInv, LockFitsTrans, LockExclusion, connVars
<1>4. QED BY <1>2, <1>3

\* The invariant of the locks is inductive.
LEMMA LockInvHolds == ConnSpec => []LockInv
<1>1. ConnInit => LockInv
  BY DEF ConnInit, LockInv, ConnTypeOK, LockFitsTrans, LockExclusion, Tags,
         Locks, Reserving
<1>2. QED BY <1>1, LockStep, PTL DEF ConnSpec

\* Through every interleaving of failed upgrades, busy commits and leaked
\* statements, no two connections hold RESERVED or more, and EXCLUSIVE is alone
\* (winLock).
THEOREM LocksExclude == ConnSpec => []LockExclusion
<1>1. LockInv => LockExclusion
  BY DEF LockInv
<1>2. QED BY <1>1, LockInvHolds, PTL

\* A connection has a lock exactly as long as its B-tree transaction, and
\* uncommitted rows only under RESERVED or more (sqlite3BtreeBeginTrans,
\* btreeEndTransaction).
THEOREM LocksFit == ConnSpec => []LockFitsTrans
<1>1. LockInv => LockFitsTrans
  BY DEF LockInv
<1>2. QED BY <1>1, LockInvHolds, PTL

-----------------------------------------------------------------------------
(* What a connection keeps when it goes idle.                              *)

IdleAt(c) ==
    AutoCommit(c) => /\ active[c] = {} => lock[c] = "none"
                     /\ active[c] \cap Writers = {} => trans[c] # "write"

\* Only connection c takes part in the step.
OnlyAt(c) ==
    \A d \in Conns \ {c} :
        /\ inTxn'[d] = inTxn[d] /\ trans'[d] = trans[d]
        /\ lock'[d] = lock[d] /\ active'[d] = active[d]

\* With no other VM, the end of a transaction releases the lock.
LEMMA EndAt ==
    ASSUME ConnTypeOK, NEW c \in Conns, NEW t, NEW l, NEW others,
           End(c, t, l, others)
    PROVE  /\ others = {} => lock'[c] = "none"
           /\ trans'[c] # "write"
           /\ \A d \in Conns \ {c} : trans'[d] = trans[d] /\ lock'[d] = lock[d]
BY DEF End, ConnTypeOK, TransAfterEnd, LockAfterEnd

\* A VM that halts outside a transaction leaves an idle connection unlocked.
LEMMA HaltAt ==
    ASSUME ConnTypeOK, NEW c \in Conns, IdleAt(c),
           NEW others \in SUBSET (Readers \cup Writers),
           HaltWithoutChange(c, others),
           inTxn' = inTxn, active' = [active EXCEPT ![c] = others]
    PROVE  IdleAt(c)' /\ OnlyAt(c)
<1>1. /\ active'[c] = others
      /\ \A d \in Conns \ {c} : active'[d] = active[d]
  BY DEF ConnTypeOK
<1>2. CASE AutoCommit(c) /\ others \cap Writers = {}
  <2>1. End(c, trans[c], lock[c], others)
    BY <1>2 DEF HaltWithoutChange
  <2>2. QED BY <1>1, <2>1, EndAt DEF IdleAt, OnlyAt
<1>3. CASE ~(AutoCommit(c) /\ others \cap Writers = {})
  <2>1. UNCHANGED <<trans, lock, dirty>>
    BY <1>3 DEF HaltWithoutChange
  <2>2. AutoCommit(c)' => others \cap Writers # {}
    BY <1>3 DEF AutoCommit
  <2>3. QED BY <1>1, <2>1, <2>2 DEF IdleAt, OnlyAt
<1>4. QED BY <1>2, <1>3

\* Every statement leaves idle connections unlocked.
LEMMA StatementIdle ==
    ASSUME ConnTypeOK, NEW c \in Conns, IdleAt(c), Statement(c)
    PROVE  IdleAt(c)' /\ OnlyAt(c)
<1>0. active[c] \in SUBSET (Readers \cup Writers)
  BY DEF ConnTypeOK
<1>1. ASSUME NEW v \in Readers, ReadStep(c, v)
      PROVE  IdleAt(c)' /\ OnlyAt(c)
  <2>1. /\ active'[c] = active[c] \cup {v}
        /\ trans'[c] = TransAfterBegin(c, "read")
        /\ OnlyAt(c)
    BY <1>1 DEF ReadStep, OnlyAt, ConnTypeOK
  <2>2. trans'[c] = "write" => trans[c] = "write"
    BY <2>1 DEF TransAfterBegin, AlreadyBegun
  <2>3. AutoCommit(c)' => AutoCommit(c)
    BY <1>1 DEF ReadStep, AutoCommit
  <2>4. QED BY <2>1, <2>2, <2>3 DEF IdleAt
<1>2. ASSUME NEW v, ReadBusy(c, v) \/ WriteBusy(c, v)
      PROVE  IdleAt(c)' /\ OnlyAt(c)
  <2>1. /\ active'[c] = active[c] \cup {v}
        /\ UNCHANGED <<inTxn, trans, lock>>
        /\ OnlyAt(c)
    BY <1>2 DEF ReadBusy, WriteBusy, OnlyAt, ConnTypeOK
  <2>2. QED BY <2>1 DEF IdleAt, AutoCommit
<1>3. ASSUME ReadEnd(c) \/ WriteEnd(c)
      PROVE  IdleAt(c)' /\ OnlyAt(c)
  BY <1>0, <1>3, HaltAt DEF ReadEnd, WriteEnd
<1>4. ASSUME NEW others \in OtherVms(c),
             \/ WriteCommits(c, others) \/ WriteRollsBack(c, others)
             \/ SpecialError(c, "write", others)
      PROVE  IdleAt(c)' /\ OnlyAt(c)
  <2>1. /\ \E t, l : End(c, t, l, others)
        /\ active' = [active EXCEPT ![c] = others]
        /\ \A d \in Conns \ {c} : inTxn'[d] = inTxn[d]
    BY <1>4 DEF WriteCommits, WriteRollsBack, SpecialError, CloseTxn, ConnTypeOK
  <2>2. QED BY <2>1, EndAt DEF IdleAt, OnlyAt, ConnTypeOK
<1>5. ASSUME NEW others \in OtherVms(c),
             WriteWaits(c, others) \/ WriteFails(c, others)
      PROVE  IdleAt(c)' /\ OnlyAt(c)
  <2>1. /\ active'[c] = others /\ inTxn' = inTxn
        /\ ~AutoCommit(c) \/ others \cap Writers # {}
        /\ OnlyAt(c)
    BY <1>5 DEF WriteWaits, WriteFails, OnlyAt, ConnTypeOK
  <2>2. QED BY <2>1 DEF IdleAt, AutoCommit
<1>6. ASSUME SpecialError(c, "read", active[c] \ {"istmt"})
      PROVE  IdleAt(c)' /\ OnlyAt(c)
  <2>1. /\ \E t, l : End(c, t, l, active[c] \ {"istmt"})
        /\ active' = [active EXCEPT ![c] = active[c] \ {"istmt"}]
        /\ \A d \in Conns \ {c} : inTxn'[d] = inTxn[d]
    BY <1>6 DEF SpecialError, CloseTxn, ConnTypeOK
  <2>2. QED BY <2>1, EndAt DEF IdleAt, OnlyAt, ConnTypeOK
<1>7. QED
  BY <1>1, <1>2, <1>3, <1>4, <1>5, <1>6 DEF Statement, IOError

\* Every call leaves idle connections unlocked.
LEMMA NextIdle ==
    ASSUME ConnTypeOK, IdleHoldsNoLock, ConnNext
    PROVE  IdleHoldsNoLock'
<1>0. \A c \in Conns : IdleAt(c)
  BY DEF IdleHoldsNoLock, IdleAt
<1>1. PICK c \in Conns :
        \/ \E m \in Modes : \/ \E t \in Txns : Begin(c, t, m)
                            \/ BeginBusy(c, m)
                            \/ BeginNested(c, m)
        \/ Commit(c) \/ CommitBusy(c) \/ CommitFails(c) \/ CommitRefused(c)
        \/ Rollback(c) \/ NothingToEnd(c)
        \/ Statement(c)
  BY DEF ConnNext
<1>2. ASSUME NEW m \in Modes, NEW t \in Txns, Begin(c, t, m)
      PROVE  IdleAt(c)' /\ OnlyAt(c)
  <2>1. inTxn'[c] # NoTxn
    BY <1>2, NoTxnAssumption DEF Begin, ConnTypeOK
  <2>2. OnlyAt(c)
    BY <1>2 DEF Begin, Acquire, OnlyAt, ConnTypeOK
  <2>3. QED BY <2>1, <2>2 DEF IdleAt, AutoCommit
<1>3. ASSUME NEW m \in Modes, BeginBusy(c, m)
      PROVE  IdleAt(c)' /\ OnlyAt(c)
  <2>1. "leakedWriter" \in active'[c] \cap Writers /\ OnlyAt(c)
    BY <1>3 DEF BeginBusy, OnlyAt, ConnTypeOK, Writers
  <2>2. QED BY <2>1 DEF IdleAt
<1>4. ASSUME NEW m \in Modes, BeginNested(c, m)
      PROVE  IdleAt(c)' /\ OnlyAt(c)
  <2>1. ~AutoCommit(c)' /\ OnlyAt(c)
    BY <1>4 DEF BeginNested, Acquire, OnlyAt, ConnTypeOK, AutoCommit
  <2>2. QED BY <2>1 DEF IdleAt
<1>5. ASSUME Commit(c) \/ CommitFails(c)
      PROVE  IdleAt(c)' /\ OnlyAt(c)
  <2>1. /\ End(c, trans[c], lock[c], active[c]) /\ active' = active
        /\ \A d \in Conns \ {c} : inTxn'[d] = inTxn[d]
    BY <1>5 DEF Commit, CommitFails, CloseTxn, ConnTypeOK
  <2>2. QED BY <2>1, EndAt DEF IdleAt, OnlyAt
<1>6. ASSUME CommitBusy(c) \/ CommitRefused(c)
      PROVE  IdleAt(c)' /\ OnlyAt(c)
  <2>1. ~AutoCommit(c)' /\ OnlyAt(c)
    BY <1>6 DEF CommitBusy, CommitRefused, connVars, OnlyAt, ConnTypeOK, AutoCommit
  <2>2. QED BY <2>1 DEF IdleAt
<1>7. ASSUME Rollback(c)
      PROVE  IdleAt(c)' /\ OnlyAt(c)
  <2>1. /\ End(c, trans[c], lock[c], active[c])
        /\ "leakedReader" \in active'[c]
        /\ \A d \in Conns \ {c} : inTxn'[d] = inTxn[d] /\ active'[d] = active[d]
    BY <1>7 DEF Rollback, CloseTxn, ConnTypeOK
  <2>2. QED BY <2>1, EndAt DEF IdleAt, OnlyAt
<1>8. ASSUME NothingToEnd(c)
      PROVE  IdleAt(c)' /\ OnlyAt(c)
  <2>1. /\ active[c] \in SUBSET (Readers \cup Writers)
        /\ active' = [active EXCEPT ![c] = active[c]]
    BY <1>8 DEF NothingToEnd, ConnTypeOK
  <2>2. QED BY <1>0, <1>8, <2>1, HaltAt DEF NothingToEnd
<1>9. IdleAt(c)' /\ OnlyAt(c)
  BY <1>0, <1>1, <1>2, <1>3, <1>4, <1>5, <1>6, <1>7, <1>8, StatementIdle
<1>10. \A d \in Conns : IdleAt(d)'
  BY <1>0, <1>9 DEF OnlyAt, IdleAt, AutoCommit
<1>11. QED BY <1>10 DEF IdleHoldsNoLock, IdleAt

\* A connection that is outside a transaction and has no running statement
\* holds no lock, and rows wait in autocommit mode only beside a writer that
\* has not halted.
THEOREM IdleReleases == ConnSpec => []IdleHoldsNoLock
<1>1. ConnInit => IdleHoldsNoLock
  BY DEF ConnInit, IdleHoldsNoLock
<1>2. ConnTypeOK /\ IdleHoldsNoLock /\ [ConnNext]_connVars => IdleHoldsNoLock'
  <2>1. ASSUME IdleHoldsNoLock, UNCHANGED connVars PROVE IdleHoldsNoLock'
    BY <2>1 DEF IdleHoldsNoLock, AutoCommit, connVars
  <2>2. QED BY <2>1, NextIdle
<1>3. QED BY <1>1, <1>2, ConnTypeCorrect, PTL DEF ConnSpec
=============================================================================
