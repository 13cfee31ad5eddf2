--------------------------- MODULE LifetimeProofs ---------------------------
(***************************************************************************)
(* Ownership of connections, prepared statements and mutexes, for any      *)
(* number of objects and handles.                                          *)
(***************************************************************************)
EXTENDS Mutex, TLAPS

\* What is written in a destroyed object counts as null.
DeadHoldNothing ==
    /\ \A d \in Dbs : d \notin dbAlive => dbHandle[d] = Null
    /\ \A s \in Stmts : s \notin alive => handle[s] = Null

\* Ownership of connections, and of prepared statements as well.
DbInv == TypeOK /\ DeadHoldNothing /\ DbsOwnOpen /\ LiveOnOpen
OwnInv == DbInv /\ StmtsOwnLive /\ LeaksAreKnown

-----------------------------------------------------------------------------
(* Types                                                                   *)

\* Opening, moving and closing databases keeps the types.
LEMMA DbType ==
    ASSUME TypeOK, DbNext PROVE TypeOK'
<1>1. ASSUME NEW c \in Conns \cup {Null}, Close(c)
      PROVE  conn' \in [Conns -> {"unused", "open", "closed"}]
  BY <1>1 DEF TypeOK, Close
<1>2. ASSUME NEW d \in Dbs, NEW c \in Conns, Open(d, c) PROVE TypeOK'
  BY <1>2 DEF TypeOK, Open, stmtVars
<1>3. ASSUME NEW d \in Dbs, NEW c \in Conns, OpenReports(d, c) PROVE TypeOK'
  BY <1>3 DEF TypeOK, OpenReports, stmtVars
<1>4. ASSUME NEW c \in Conns, OpenThrows(c) PROVE TypeOK'
  BY <1>4 DEF TypeOK, OpenThrows, stmtVars
<1>5. ASSUME NEW d \in Dbs, NEW e \in Dbs, MoveDb(d, e) PROVE TypeOK'
  BY <1>5 DEF TypeOK, MoveDb, TakeDb, stmtVars
<1>6. ASSUME NEW d \in Dbs, NEW e \in Dbs, MoveAssignDb(d, e) PROVE TypeOK'
  <2>1. conn' \in [Conns -> {"unused", "open", "closed"}]
    BY <1>1, <1>6 DEF TypeOK, MoveAssignDb
  <2>2. QED
    BY <1>6, <2>1 DEF TypeOK, MoveAssignDb, TakeDb, stmtVars
<1>7. ASSUME NEW d \in Dbs, DestroyDb(d) PROVE TypeOK'
  <2>1. conn' \in [Conns -> {"unused", "open", "closed"}]
    BY <1>1, <1>7 DEF TypeOK, DestroyDb
  <2>2. QED
    BY <1>7, <2>1 DEF TypeOK, DestroyDb, stmtVars
<1>8. QED
  BY <1>2, <1>3, <1>4, <1>5, <1>6, <1>7 DEF DbNext

\* Preparing, copying, moving and finalizing statements keeps the types.
LEMMA StmtType ==
    ASSUME TypeOK, StmtNext PROVE TypeOK'
<1>1. ASSUME NEW d \in Dbs, NEW h \in Handles, NewVm(h, d)
      PROVE  /\ vm' \in [Handles -> {"unused", "live", "finalized"}]
             /\ on' \in [Handles -> Conns \cup {Null}]
  BY <1>1 DEF TypeOK, NewVm
<1>2. ASSUME NEW h \in Handles \cup {Null}, Finalize(h)
      PROVE  vm' \in [Handles -> {"unused", "live", "finalized"}]
  BY <1>2 DEF TypeOK, Finalize
<1>3. ASSUME NEW s \in Stmts, NEW r \in Stmts, TakeStmt(s, r)
      PROVE  /\ db' \in [Stmts -> Dbs \cup {Null}]
             /\ handle' \in [Stmts -> Handles \cup {Null}]
             /\ params' \in [Stmts -> Handles \cup {Null}]
  BY <1>3 DEF TypeOK, TakeStmt
<1>4. ASSUME NEW d \in Dbs, NEW h \in Handles, Execute(d, h) \/ ConstructThrows(d, h)
      PROVE  TypeOK'
  BY <1>1, <1>4 DEF TypeOK, Execute, ConstructThrows, connVars
<1>5. ASSUME NEW s \in Stmts, NEW d \in Dbs, NEW h \in Handles, Prepare(s, d, h)
      PROVE  TypeOK'
  BY <1>1, <1>5 DEF TypeOK, Prepare, connVars
<1>6. ASSUME NEW s \in Stmts, NEW r \in Stmts, NEW h \in Handles, CopyStmt(s, r, h)
      PROVE  TypeOK'
  <2>1. db[r] \in Dbs
    BY <1>6 DEF TypeOK, CopyStmt, CanCopy, CanPrepare
  <2>2. QED
    BY <1>1, <1>6, <2>1 DEF TypeOK, CopyStmt, connVars
<1>7. ASSUME NEW s \in Stmts, NEW r \in Stmts, NEW h \in Handles, CopyAssign(s, r, h)
      PROVE  TypeOK'
  <2>1. db[r] \in Dbs
    BY <1>7 DEF TypeOK, CopyAssign, CanCopy, CanPrepare
  <2>2. QED
    BY <1>1, <1>7, <2>1 DEF TypeOK, CopyAssign, connVars
<1>8. ASSUME NEW s \in Stmts, NEW r \in Stmts, CopyAssignThrows(s, r) PROVE TypeOK'
  BY <1>8 DEF TypeOK, CopyAssignThrows, connVars
<1>9. ASSUME NEW s \in Stmts, NEW r \in Stmts, MoveStmt(s, r) PROVE TypeOK'
  BY <1>3, <1>9 DEF TypeOK, MoveStmt, connVars
<1>10. ASSUME NEW s \in Stmts, NEW r \in Stmts, MoveAssignStmt(s, r) PROVE TypeOK'
  <2>1. vm' \in [Handles -> {"unused", "live", "finalized"}]
    BY <1>2, <1>10 DEF TypeOK, MoveAssignStmt
  <2>2. QED
    BY <1>3, <1>10, <2>1 DEF TypeOK, MoveAssignStmt, connVars
<1>11. ASSUME NEW s \in Stmts, DestroyStmt(s) PROVE TypeOK'
  <2>1. vm' \in [Handles -> {"unused", "live", "finalized"}]
    BY <1>2, <1>11 DEF TypeOK, DestroyStmt
  <2>2. QED
    BY <1>11, <2>1 DEF TypeOK, DestroyStmt, connVars
<1>12. QED
  BY <1>4, <1>5, <1>6, <1>7, <1>8, <1>9, <1>10, <1>11 DEF StmtNext

(***************************************************************************)
(* Types: no assignment puts a handle where it does not belong.            *)
(***************************************************************************)
THEOREM TypeCorrect == Spec => []TypeOK
<1>1. Init => TypeOK
  BY DEF Init, TypeOK
<1>2. TypeOK /\ [Next]_vars => TypeOK'
  <2>1. ASSUME TypeOK, UNCHANGED vars PROVE TypeOK'
    BY <2>1 DEF TypeOK, vars, connVars, stmtVars
  <2>2. QED
    BY <2>1, DbType, StmtType DEF Next
<1>3. QED
  BY <1>1, <1>2, PTL DEF Spec

-----------------------------------------------------------------------------
(* Connections                                                             *)

\* sqlite3_close through one owner closes the handle of no other, and never
\* under a live statement.
LEMMA CloseIsSafe ==
    ASSUME TypeOK, NEW c \in Conns \cup {Null}, Close(c)
    PROVE  /\ \A x \in Conns : x # c => conn'[x] = conn[x]
           /\ LiveOnOpen /\ UNCHANGED <<vm, on>> => LiveOnOpen'
<1>1. \A x \in Conns : x # c => conn'[x] = conn[x]
  BY DEF TypeOK, Close
<1>2. ASSUME LiveOnOpen, UNCHANGED <<vm, on>>, NEW h \in Handles, vm[h] = "live"
      PROVE  on[h] # Null /\ conn'[on[h]] = "open"
  <2>1. on[h] \in Conns /\ conn[on[h]] = "open"
    BY <1>2 DEF TypeOK, LiveOnOpen
  <2>2. conn'[on[h]] = conn[on[h]]
    BY <1>2, <2>1 DEF Close
  <2>3. QED
    BY <1>2, <2>1, <2>2 DEF LiveOnOpen
<1>3. QED
  BY <1>1, <1>2 DEF LiveOnOpen

\* Each operation of a database keeps its half of the invariant.
LEMMA DbKeepsDbInv ==
    ASSUME DbInv, DbNext PROVE DbInv'
<1>1. TypeOK'
  BY DbType DEF DbInv
<1>2. ASSUME NEW d \in Dbs, NEW c \in Conns, Open(d, c) \/ OpenReports(d, c)
      PROVE  DbInv'
  <2>1. LiveOnOpen'
    BY <1>2 DEF DbInv, TypeOK, LiveOnOpen, Open, OpenReports, stmtVars
  <2>2. DbsOwnOpen' /\ DeadHoldNothing'
    BY <1>2, NullAssumption
    DEF DbInv, TypeOK, DbsOwnOpen, DeadHoldNothing, Open, OpenReports, stmtVars
  <2>3. QED
    BY <1>1, <2>1, <2>2 DEF DbInv
<1>3. ASSUME NEW c \in Conns, OpenThrows(c) PROVE DbInv'
  <2>1. LiveOnOpen'
    BY <1>3 DEF DbInv, TypeOK, LiveOnOpen, OpenThrows, stmtVars
  <2>2. DbsOwnOpen' /\ DeadHoldNothing'
    BY <1>3 DEF DbInv, TypeOK, DbsOwnOpen, DeadHoldNothing, OpenThrows, stmtVars
  <2>3. QED
    BY <1>1, <2>1, <2>2 DEF DbInv
<1>4. ASSUME NEW d \in Dbs, NEW e \in Dbs, MoveDb(d, e) PROVE DbInv'
  <2>1. LiveOnOpen'
    BY <1>4 DEF DbInv, LiveOnOpen, MoveDb, stmtVars
  <2>2. DbsOwnOpen' /\ DeadHoldNothing'
    BY <1>4 DEF DbInv, TypeOK, DbsOwnOpen, DeadHoldNothing, MoveDb, TakeDb, stmtVars
  <2>3. QED
    BY <1>1, <2>1, <2>2 DEF DbInv
<1>5. ASSUME NEW d \in Dbs, NEW e \in Dbs, MoveAssignDb(d, e) PROVE DbInv'
  <2>1. /\ \A x \in Conns : x # dbHandle[d] => conn'[x] = conn[x]
        /\ LiveOnOpen'
    BY <1>5, CloseIsSafe DEF DbInv, TypeOK, MoveAssignDb, stmtVars
  <2>2. DbsOwnOpen' /\ DeadHoldNothing'
    BY <1>5, <2>1
    DEF DbInv, TypeOK, DbsOwnOpen, DeadHoldNothing, MoveAssignDb, TakeDb, stmtVars
  <2>3. QED
    BY <1>1, <2>1, <2>2 DEF DbInv
<1>6. ASSUME NEW d \in Dbs, DestroyDb(d) PROVE DbInv'
  <2>1. /\ \A x \in Conns : x # dbHandle[d] => conn'[x] = conn[x]
        /\ LiveOnOpen'
    BY <1>6, CloseIsSafe DEF DbInv, TypeOK, DestroyDb, stmtVars
  <2>2. DbsOwnOpen' /\ DeadHoldNothing'
    BY <1>6, <2>1 DEF DbInv, TypeOK, DbsOwnOpen, DeadHoldNothing, DestroyDb, stmtVars
  <2>3. QED
    BY <1>1, <2>1, <2>2 DEF DbInv
<1>7. QED
  BY <1>2, <1>3, <1>4, <1>5, <1>6 DEF DbNext

-----------------------------------------------------------------------------
(* Prepared statements                                                     *)

\* A new statement is on an open connection and nobody owned its handle.
LEMMA NewVmIsFresh ==
    ASSUME OwnInv, NEW d, NEW h \in Handles, CanPrepare(d), NewVm(h, d),
           UNCHANGED conn
    PROVE  /\ LiveOnOpen'
           /\ \A s \in Stmts : handle[s] # h
           /\ vm' = [vm EXCEPT ![h] = "live"]
<1>1. d \in Dbs /\ dbHandle[d] \in Conns /\ conn[dbHandle[d]] = "open"
  BY DEF OwnInv, DbInv, TypeOK, DbsOwnOpen, CanPrepare
<1>2. LiveOnOpen'
  BY <1>1, NullAssumption DEF OwnInv, DbInv, TypeOK, LiveOnOpen, NewVm
<1>3. ASSUME NEW s \in Stmts, handle[s] = h PROVE FALSE
  <2>1. s \in alive /\ handle[s] # Null
    BY <1>3, NullAssumption DEF OwnInv, DbInv, DeadHoldNothing
  <2>2. QED
    BY <1>3, <2>1 DEF OwnInv, StmtsOwnLive, NewVm
<1>4. QED
  BY <1>2, <1>3 DEF NewVm

\* sqlite3_finalize changes no other statement, and needs no open connection.
LEMMA FinalizeIsSafe ==
    ASSUME OwnInv, NEW h \in Handles \cup {Null}, Finalize(h), UNCHANGED <<conn, on>>
    PROVE  /\ LiveOnOpen'
           /\ \A x \in Handles : x # h => vm'[x] = vm[x]
           /\ \A x \in Handles : x = h => vm'[x] = "finalized"
BY DEF OwnInv, DbInv, TypeOK, LiveOnOpen, Finalize

\* Operations on statements leave the connections alone.
LEMMA StmtKeepsConns ==
    ASSUME StmtNext PROVE UNCHANGED connVars
BY DEF StmtNext, Execute, ConstructThrows, Prepare, CopyStmt,
       CopyAssign, CopyAssignThrows, MoveStmt, MoveAssignStmt, DestroyStmt

\* Each operation of a statement keeps the ownership of statements.
LEMMA StmtKeepsOwnInv ==
    ASSUME OwnInv, StmtNext PROVE OwnInv'
<1>1. TypeOK /\ TypeOK' /\ UNCHANGED connVars
  BY StmtType, StmtKeepsConns DEF OwnInv, DbInv
<1>2. SUFFICES DeadHoldNothing' /\ LiveOnOpen' /\ StmtsOwnLive' /\ LeaksAreKnown'
  BY <1>1 DEF OwnInv, DbInv, DbsOwnOpen, connVars
<1> DEFINE Goal == DeadHoldNothing' /\ LiveOnOpen' /\ StmtsOwnLive' /\ LeaksAreKnown'
<1>3. ASSUME NEW d \in Dbs, NEW h \in Handles, Execute(d, h) \/ ConstructThrows(d, h)
      PROVE  Goal
  <2>1. /\ LiveOnOpen' /\ \A s \in Stmts : handle[s] # h
        /\ vm' = [vm EXCEPT ![h] = "live"]
    BY <1>1, <1>3, NewVmIsFresh DEF Execute, ConstructThrows, connVars
  <2>2. DeadHoldNothing' /\ StmtsOwnLive' /\ LeaksAreKnown'
    BY <1>1, <1>3, <2>1
    DEF OwnInv, DbInv, TypeOK, DeadHoldNothing, StmtsOwnLive, LeaksAreKnown, Execute,
        ConstructThrows, connVars
  <2>3. QED
    BY <2>1, <2>2
<1>4. ASSUME NEW s \in Stmts, NEW d \in Dbs, NEW h \in Handles, Prepare(s, d, h)
      PROVE  Goal
  <2>1. /\ LiveOnOpen' /\ \A x \in Stmts : handle[x] # h
        /\ vm' = [vm EXCEPT ![h] = "live"]
    BY <1>1, <1>4, NewVmIsFresh DEF Prepare, connVars
  <2>2. DeadHoldNothing' /\ StmtsOwnLive' /\ LeaksAreKnown'
    BY <1>1, <1>4, <2>1
    DEF OwnInv, DbInv, TypeOK, DeadHoldNothing, StmtsOwnLive, LeaksAreKnown, Prepare, connVars
  <2>3. QED
    BY <2>1, <2>2
<1>5. ASSUME NEW s \in Stmts, NEW r \in Stmts, NEW h \in Handles, CopyStmt(s, r, h)
      PROVE  Goal
  <2>1. /\ LiveOnOpen' /\ \A x \in Stmts : handle[x] # h
        /\ vm' = [vm EXCEPT ![h] = "live"]
    BY <1>1, <1>5, NewVmIsFresh DEF CopyStmt, CanCopy, connVars
  <2>2. DeadHoldNothing' /\ StmtsOwnLive' /\ LeaksAreKnown'
    BY <1>1, <1>5, <2>1
    DEF OwnInv, DbInv, TypeOK, DeadHoldNothing, StmtsOwnLive, LeaksAreKnown, CopyStmt, connVars
  <2>3. QED
    BY <2>1, <2>2
<1>6. ASSUME NEW s \in Stmts, NEW r \in Stmts, NEW h \in Handles, CopyAssign(s, r, h)
      PROVE  Goal
  <2>1. /\ LiveOnOpen' /\ \A x \in Stmts : handle[x] # h
        /\ vm' = [vm EXCEPT ![h] = "live"]
    BY <1>1, <1>6, NewVmIsFresh DEF CopyAssign, CanCopy, connVars
  <2>2. DeadHoldNothing' /\ StmtsOwnLive'
    BY <1>1, <1>6, <2>1
    DEF OwnInv, DbInv, TypeOK, DeadHoldNothing, StmtsOwnLive, CopyAssign, connVars
  <2>3. ASSUME NEW x \in Handles, vm'[x] = "live"
        PROVE  x \in dropped' \/ \E y \in alive' : handle'[y] = x
    <3>1. CASE x = h
      BY <1>1, <1>6, <3>1 DEF TypeOK, CopyAssign
    <3>2. CASE x # h /\ x = handle[s]
      BY <1>1, <1>6, <3>2 DEF CopyAssign
    <3>3. CASE x # h /\ x # handle[s]
      <4>1. x \in dropped \/ \E y \in alive : handle[y] = x
        BY <1>1, <2>1, <2>3, <3>3 DEF TypeOK, OwnInv, LeaksAreKnown
      <4>2. QED
        BY <1>1, <1>6, <3>3, <4>1 DEF TypeOK, CopyAssign
    <3>4. QED
      BY <3>1, <3>2, <3>3
  <2>4. QED
    BY <2>1, <2>2, <2>3 DEF LeaksAreKnown
<1>7. ASSUME NEW s \in Stmts, NEW r \in Stmts, CopyAssignThrows(s, r) PROVE Goal
  BY <1>7 DEF OwnInv, DbInv, DeadHoldNothing, LiveOnOpen, StmtsOwnLive, LeaksAreKnown,
     CopyAssignThrows, connVars
<1>8. ASSUME NEW s \in Stmts, NEW r \in Stmts, MoveStmt(s, r) PROVE Goal
  <2>1. LiveOnOpen' /\ DeadHoldNothing'
    BY <1>1, <1>8
    DEF OwnInv, DbInv, TypeOK, DeadHoldNothing, LiveOnOpen, MoveStmt, TakeStmt, connVars
  <2>2. StmtsOwnLive'
    BY <1>1, <1>8 DEF OwnInv, TypeOK, StmtsOwnLive, MoveStmt, TakeStmt
  <2>3. LeaksAreKnown'
    BY <1>1, <1>8, NullAssumption
    DEF OwnInv, TypeOK, LeaksAreKnown, MoveStmt, TakeStmt
  <2>4. QED
    BY <2>1, <2>2, <2>3
<1>9. ASSUME NEW s \in Stmts, NEW r \in Stmts, MoveAssignStmt(s, r) PROVE Goal
  <2>1. /\ LiveOnOpen'
        /\ \A x \in Handles : x # handle[s] => vm'[x] = vm[x]
        /\ \A x \in Handles : x = handle[s] => vm'[x] = "finalized"
    BY <1>1, <1>9, FinalizeIsSafe DEF TypeOK, MoveAssignStmt, connVars
  <2>2. DeadHoldNothing' /\ StmtsOwnLive'
    BY <1>1, <1>9, <2>1
    DEF OwnInv, DbInv, TypeOK, DeadHoldNothing, StmtsOwnLive, MoveAssignStmt, TakeStmt, connVars
  <2>3. LeaksAreKnown'
    BY <1>1, <1>9, <2>1, NullAssumption
    DEF OwnInv, TypeOK, LeaksAreKnown, MoveAssignStmt, TakeStmt
  <2>4. QED
    BY <2>1, <2>2, <2>3
<1>10. ASSUME NEW s \in Stmts, DestroyStmt(s) PROVE Goal
  <2>1. /\ LiveOnOpen'
        /\ \A x \in Handles : x # handle[s] => vm'[x] = vm[x]
        /\ \A x \in Handles : x = handle[s] => vm'[x] = "finalized"
    BY <1>1, <1>10, FinalizeIsSafe DEF TypeOK, DestroyStmt, connVars
  <2>2. DeadHoldNothing' /\ StmtsOwnLive'
    BY <1>1, <1>10, <2>1
    DEF OwnInv, DbInv, TypeOK, DeadHoldNothing, StmtsOwnLive, DestroyStmt, connVars
  <2>3. LeaksAreKnown'
    BY <1>1, <1>10, <2>1 DEF OwnInv, TypeOK, LeaksAreKnown, DestroyStmt
  <2>4. QED
    BY <2>1, <2>2, <2>3
<1>11. QED
  BY <1>3, <1>4, <1>5, <1>6, <1>7, <1>8, <1>9, <1>10 DEF StmtNext

\* Operations on databases leave the statements alone.
LEMMA DbKeepsOwnInv ==
    ASSUME OwnInv, DbNext PROVE OwnInv'
<1>1. UNCHANGED stmtVars
  BY DEF DbNext, Open, OpenReports, OpenThrows, MoveDb, MoveAssignDb, DestroyDb
<1>2. StmtsOwnLive' /\ LeaksAreKnown'
  BY <1>1 DEF OwnInv, StmtsOwnLive, LeaksAreKnown, stmtVars
<1>3. QED
  BY <1>2, DbKeepsDbInv DEF OwnInv

\* The ownership invariant is inductive.
LEMMA OwnershipHolds == Spec => []OwnInv
<1>1. Init => OwnInv
  BY DEF Init, OwnInv, DbInv, TypeOK, DeadHoldNothing, DbsOwnOpen, LiveOnOpen,
         StmtsOwnLive, LeaksAreKnown
<1>2. OwnInv /\ [Next]_vars => OwnInv'
  <2>1. ASSUME OwnInv, UNCHANGED vars PROVE OwnInv'
    BY <2>1 DEF OwnInv, DbInv, TypeOK, DeadHoldNothing, DbsOwnOpen, LiveOnOpen,
                StmtsOwnLive, LeaksAreKnown, vars, connVars, stmtVars
  <2>2. QED
    BY <2>1, DbKeepsOwnInv, StmtKeepsOwnInv DEF Next
<1>3. QED
  BY <1>1, <1>2, PTL DEF Spec

(***************************************************************************)
(* database: every connection has at most one owner, and what an owner     *)
(* closes in ~database or operator= is open.                               *)
(***************************************************************************)
THEOREM ConnectionsOwned == Spec => []DbsOwnOpen
<1>1. OwnInv => DbsOwnOpen
  BY DEF OwnInv, DbInv
<1>2. QED
  BY <1>1, OwnershipHolds, PTL

(***************************************************************************)
(* statement_base: what ~statement_base or operator= finalizes is live and *)
(* finalized once.                                                         *)
(***************************************************************************)
THEOREM StatementsOwned == Spec => []StmtsOwnLive
<1>1. OwnInv => StmtsOwnLive
  BY DEF OwnInv
<1>2. QED
  BY <1>1, OwnershipHolds, PTL

(***************************************************************************)
(* sqlite3_close: in every order of destruction, live statements are those *)
(* of open connections.                                                    *)
(***************************************************************************)
THEOREM StatementsOnOpen == Spec => []LiveOnOpen
<1>1. OwnInv => LiveOnOpen
  BY DEF OwnInv, DbInv
<1>2. QED
  BY <1>1, OwnershipHolds, PTL

(***************************************************************************)
(* Without execute(), copy assignment and constructors that throw nothing  *)
(* leaks: every live statement has the object that finalizes it.           *)
(***************************************************************************)
THEOREM NothingElseLeaks == Spec => []LeaksAreKnown
<1>1. OwnInv => LeaksAreKnown
  BY DEF OwnInv
<1>2. QED
  BY <1>1, OwnershipHolds, PTL

-----------------------------------------------------------------------------
(* Mutexes                                                                 *)

MutexTypeOK ==
    /\ mtx \in [AllMutexes -> {"unused", "live", "freed"}]
    /\ mxAlive \subseteq MutexObjs
    /\ mxHandle \in [MutexObjs -> AllMutexes \cup {Null}]
    /\ wrapped \subseteq Conns

\* A mutex object owns what it allocated, and nothing else of that kind does;
\* what it holds of a connection came from database_mutex.
ObjectsOwnMutexes ==
    /\ \A m \in MutexObjs \ mxAlive : mxHandle[m] = Null
    /\ \A m \in mxAlive : mxHandle[m] \in Mutexes => mtx[mxHandle[m]] = "live"
    /\ \A m, n \in mxAlive :
          m # n /\ mxHandle[m] \in Mutexes => mxHandle[m] # mxHandle[n]
    /\ \A m \in mxAlive : mxHandle[m] \in Conns => mxHandle[m] \in wrapped

\* The inductive invariant.
MutexInv == MutexTypeOK /\ ObjectsOwnMutexes /\ MutexesAreKept /\ OnlyWrappedMisused

\* The program that uses mutexes uses databases and statements as any other.
LEMMA MutexImpliesSpec == MutexSpec => Spec
<1>1. MutexInit => Init
  BY DEF MutexInit
<1>2. [MutexNext]_allVars => [Next]_vars
  BY DEF MutexNext, EngineStep, Call, Alloc, Appears, DatabaseMutex, MoveMutex,
         MoveAssignMutex, DestroyMutex, LockMutex, allVars
<1>3. QED
  BY <1>1, <1>2, PTL DEF MutexSpec, Spec

\* What is finalized, prepared or closed belongs to an open connection.
LEMMA TouchedAreOpen ==
    ASSUME OwnInv, Next, NEW c \in Touched \ {Null}
    PROVE  c \in Conns /\ conn[c] = "open"
<1>1. CASE c \in Owned(dbHandle)
  BY <1>1 DEF Owned, OwnInv, DbInv, TypeOK, DeadHoldNothing, DbsOwnOpen
<1>2. CASE c \notin Owned(dbHandle)
  <2>1. PICK h \in Handles : vm'[h] # vm[h] /\ c = on'[h]
    BY <1>2 DEF Touched
  <2>2. StmtNext
    BY <2>1 DEF Next, DbNext, Open, OpenReports, OpenThrows, MoveDb, MoveAssignDb,
                DestroyDb, stmtVars
  <2>3. ASSUME NEW g \in Handles, NEW d, CanPrepare(d), NewVm(g, d)
        PROVE  c \in Conns /\ conn[c] = "open"
    BY <2>1, <2>3
    DEF OwnInv, DbInv, TypeOK, DbsOwnOpen, CanPrepare, NewVm
  <2>4. ASSUME NEW s \in alive, Finalize(handle[s]), UNCHANGED on
        PROVE  c \in Conns /\ conn[c] = "open"
    <3>1. h = handle[s]
      BY <2>1, <2>4 DEF OwnInv, DbInv, TypeOK, Finalize
    <3>2. vm[h] = "live"
      BY <3>1, <2>4, NullAssumption DEF OwnInv, StmtsOwnLive
    <3>3. QED
      BY <2>1, <2>4, <3>2 DEF OwnInv, DbInv, TypeOK, LiveOnOpen
  <2>5. UNCHANGED vm => FALSE
    BY <2>1
  <2>6. QED
    BY <2>2, <2>3, <2>4, <2>5
    DEF StmtNext, Execute, ConstructThrows, Prepare, CopyStmt,
        CopyAssign, CanCopy, CopyAssignThrows, MoveStmt, MoveAssignStmt, DestroyStmt
<1>3. QED
  BY <1>1, <1>2

\* The mutex of an open connection is missing only if it was given out.
LEMMA OpenUsesAreSafe ==
    ASSUME MutexesAreKept, NEW xs, Uses(xs),
           \A c \in xs \ {Null} : c \in Conns /\ conn[c] = "open"
    PROVE  misused' \subseteq wrapped
BY DEF MutexesAreKept, Uses

\* Opening and closing connections keeps their mutexes in step.
LEMMA EngineKeepsMutexes ==
    ASSUME OwnInv, OwnInv', MutexInv, EngineStep PROVE MutexInv'
<1>1. /\ \A x \in Mutexes : mtx'[x] = mtx[x]
      /\ \A c \in Conns : mtx'[c] = ConnMutex(c)
      /\ mtx' \in [AllMutexes -> {"unused", "live", "freed"}]
  BY MutexAssumption DEF EngineStep, AllMutexes, ConnMutex, MutexInv, MutexTypeOK
<1>2. MutexTypeOK' /\ ObjectsOwnMutexes'
  BY <1>1 DEF EngineStep, MutexInv, MutexTypeOK, ObjectsOwnMutexes
<1>3. MutexesAreKept'
  BY <1>1 DEF EngineStep, ConnMutex, MutexInv, MutexesAreKept
<1>4. OnlyWrappedMisused'
  BY TouchedAreOpen, OpenUsesAreSafe DEF EngineStep, MutexInv, OnlyWrappedMisused
<1>5. QED
  BY <1>2, <1>3, <1>4 DEF MutexInv

\* So does every other call of the engine.
LEMMA CallKeepsMutexes ==
    ASSUME OwnInv, MutexInv, Call PROVE MutexInv'
<1>1. ASSUME NEW c \in Owned(dbHandle) \cup
                          {on[handle[s]] : s \in {r \in alive : handle[r] # Null}}
      PROVE  c \in Conns /\ conn[c] = "open"
  <2>1. CASE c \in Owned(dbHandle)
    BY <2>1 DEF Owned, OwnInv, DbInv, TypeOK, DeadHoldNothing, DbsOwnOpen
  <2>2. ASSUME NEW s \in alive, handle[s] # Null, c = on[handle[s]]
        PROVE  c \in Conns /\ conn[c] = "open"
    BY <2>2 DEF OwnInv, DbInv, TypeOK, StmtsOwnLive, LiveOnOpen
  <2>3. QED
    BY <2>1, <2>2
<1>2. OnlyWrappedMisused'
  BY <1>1, OpenUsesAreSafe DEF Call, MutexInv, OnlyWrappedMisused
<1>3. QED
  BY <1>2
  DEF Call, MutexInv, MutexTypeOK, ObjectsOwnMutexes, MutexesAreKept, vars, connVars

\* What an object frees or locks is live, unless database_mutex gave it out.
LEMMA ObjectUsesAreSafe ==
    ASSUME MutexInv, NEW m \in mxAlive, Uses({mxHandle[m]})
    PROVE  misused' \subseteq wrapped
BY DEF MutexInv, MutexTypeOK, ObjectsOwnMutexes, AllMutexes, Uses

\* Mutex objects keep their own, and what they free is not anybody else's.
LEMMA ObjectsKeepMutexes ==
    ASSUME OwnInv, MutexInv, NEW m \in MutexObjs,
           \/ Alloc(m) \/ DestroyMutex(m) \/ LockMutex(m)
           \/ \E d \in Dbs : DatabaseMutex(m, d)
           \/ \E n \in MutexObjs : MoveMutex(m, n) \/ MoveAssignMutex(m, n)
    PROVE  MutexInv'
<1> USE DEF MutexInv
<1>1. ASSUME Alloc(m) PROVE MutexInv'
  BY <1>1, NullAssumption, MutexAssumption
  DEF Alloc, Appears, MutexTypeOK, ObjectsOwnMutexes, MutexesAreKept,
      OnlyWrappedMisused, AllMutexes, vars, connVars
<1>2. ASSUME NEW d \in Dbs, DatabaseMutex(m, d) PROVE MutexInv'
  <2>1. dbHandle[d] \in Conns
    BY <1>2 DEF DatabaseMutex, OwnInv, DbInv, TypeOK
  <2>2. QED
    BY <1>2, <2>1, MutexAssumption
    DEF DatabaseMutex, Appears, MutexTypeOK, ObjectsOwnMutexes, MutexesAreKept,
        OnlyWrappedMisused, AllMutexes, vars, connVars
<1>3. ASSUME NEW n \in MutexObjs, MoveMutex(m, n) PROVE MutexInv'
  <2>1. ObjectsOwnMutexes' /\ MutexTypeOK'
    BY <1>3, NullAssumption, MutexAssumption
    DEF MoveMutex, TakeMutex, MutexTypeOK, ObjectsOwnMutexes, AllMutexes
  <2>2. MutexesAreKept' /\ OnlyWrappedMisused'
    BY <1>3, MutexAssumption
    DEF MoveMutex, TakeMutex, MutexTypeOK, ObjectsOwnMutexes, MutexesAreKept,
        OnlyWrappedMisused, vars, connVars
  <2>3. QED
    BY <2>1, <2>2
<1>4. ASSUME NEW n \in MutexObjs, MoveAssignMutex(m, n) PROVE MutexInv'
  <2>1. MutexTypeOK' /\ \A x \in AllMutexes : x # mxHandle[m] => mtx'[x] = mtx[x]
    BY <1>4 DEF MoveAssignMutex, TakeMutex, Free, MutexTypeOK
  <2>2. ObjectsOwnMutexes'
    BY <1>4, <2>1, NullAssumption, MutexAssumption
    DEF MoveAssignMutex, TakeMutex, MutexTypeOK, ObjectsOwnMutexes, AllMutexes
  <2>3. MutexesAreKept'
    BY <1>4, <2>1, NullAssumption, MutexAssumption
    DEF MoveAssignMutex, TakeMutex, Free, MutexTypeOK, ObjectsOwnMutexes,
        MutexesAreKept, AllMutexes, vars, connVars
  <2>4. OnlyWrappedMisused'
    BY <1>4, ObjectUsesAreSafe DEF MoveAssignMutex, OnlyWrappedMisused
  <2>5. QED
    BY <2>1, <2>2, <2>3, <2>4
<1>5. ASSUME DestroyMutex(m) PROVE MutexInv'
  <2>1. MutexTypeOK' /\ \A x \in AllMutexes : x # mxHandle[m] => mtx'[x] = mtx[x]
    BY <1>5 DEF DestroyMutex, Free, MutexTypeOK
  <2>2. ObjectsOwnMutexes'
    BY <1>5, <2>1, NullAssumption, MutexAssumption
    DEF DestroyMutex, MutexTypeOK, ObjectsOwnMutexes, AllMutexes
  <2>3. MutexesAreKept'
    BY <1>5, <2>1, NullAssumption, MutexAssumption
    DEF DestroyMutex, Free, MutexTypeOK, ObjectsOwnMutexes, MutexesAreKept, AllMutexes,
        vars, connVars
  <2>4. OnlyWrappedMisused'
    BY <1>5, ObjectUsesAreSafe DEF DestroyMutex, OnlyWrappedMisused
  <2>5. QED
    BY <2>1, <2>2, <2>3, <2>4
<1>6. ASSUME LockMutex(m) PROVE MutexInv'
  <2>1. OnlyWrappedMisused'
    BY <1>6, ObjectUsesAreSafe DEF LockMutex, OnlyWrappedMisused
  <2>2. QED
    BY <1>6, <2>1
    DEF LockMutex, MutexTypeOK, ObjectsOwnMutexes, MutexesAreKept, vars, connVars
<1>7. QED
  BY <1>1, <1>2, <1>3, <1>4, <1>5, <1>6

\* The invariant of the mutexes is inductive beside that of the ownership.
LEMMA MutexesOwned == MutexSpec => []MutexInv
<1>1. MutexInit => MutexInv
  <2> SUFFICES ASSUME MutexInit PROVE MutexInv
    OBVIOUS
  <2>1. MutexTypeOK /\ ObjectsOwnMutexes
    BY DEF MutexInit, MutexTypeOK, ObjectsOwnMutexes
  <2>2. MutexesAreKept /\ OnlyWrappedMisused
    BY DEF MutexInit, Init, MutexesAreKept, OnlyWrappedMisused, AllMutexes
  <2>3. QED
    BY <2>1, <2>2 DEF MutexInv
<1>2. OwnInv /\ OwnInv' /\ MutexInv /\ [MutexNext]_allVars => MutexInv'
  <2>1. ASSUME MutexInv, UNCHANGED allVars PROVE MutexInv'
    BY <2>1 DEF MutexInv, MutexTypeOK, ObjectsOwnMutexes, MutexesAreKept,
                OnlyWrappedMisused, allVars, mutexVars, vars, connVars
  <2>2. QED
    BY <2>1, EngineKeepsMutexes, CallKeepsMutexes, ObjectsKeepMutexes DEF MutexNext
<1>3. MutexSpec => []OwnInv
  BY MutexImpliesSpec, OwnershipHolds, PTL
<1>4. QED
  BY <1>1, <1>2, <1>3, PTL DEF MutexSpec

(***************************************************************************)
(* mutex: through every move, assignment and order of destruction, what is *)
(* used or freed twice is the mutex of a connection that database_mutex    *)
(* gave to an object (~mutex, sqlite3_close).                              *)
(***************************************************************************)
THEOREM MutexesFreedOnce == MutexSpec => []OnlyWrappedMisused
<1>1. MutexInv => OnlyWrappedMisused
  BY DEF MutexInv
<1>2. QED
  BY <1>1, MutexesOwned, PTL

(***************************************************************************)
(* mutex and sqlite3_close: no mutex is lost, and an open connection has   *)
(* its own unless database_mutex gave it out.                              *)
(***************************************************************************)
THEOREM NoMutexLost == MutexSpec => []MutexesAreKept
<1>1. MutexInv => MutexesAreKept
  BY DEF MutexInv
<1>2. QED
  BY <1>1, MutexesOwned, PTL

=============================================================================
