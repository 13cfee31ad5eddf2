-------------------------- MODULE TransactionProofs --------------------------
(***************************************************************************)
(* Theorems about transaction objects, for any number of objects,          *)
(* connections and transactions and for both kinds of client.              *)
(***************************************************************************)
EXTENDS Transaction, StoreProofs

\* A pending object has a connection.
LEMMA PendingHasConn ==
    ASSUME TypeOK, UniqueOwner, NEW o \in alive, pending[o]
    PROVE  db[o] \in Conns
BY DEF TypeOK, UniqueOwner

\* What objects do to connections is what connections may do.
LEMMA NextIsConnNext ==
    ASSUME TypeOK, UniqueOwner, [Next]_vars
    PROVE  [ConnNext]_connVars
<1>1. CASE UNCHANGED vars
  BY <1>1 DEF vars, connVars
<1>2. ASSUME NEW o \in Objs, NEW c \in Conns, NEW m \in Modes,
             Construct(o, c, m) \/ ConstructThrows(o, c, m)
      PROVE  ConnNext
  BY <1>2 DEF Construct, ConstructThrows, ConnNext
<1>3. ASSUME NEW o \in Objs, NEW r \in Objs,
             \/ MoveConstruct(o, r) \/ MoveAssign(o, r)
             \/ MoveAssignThrows(o, r)
      PROVE  [ConnNext]_connVars
  <2>1. CASE MoveConstruct(o, r)
    BY <2>1 DEF MoveConstruct
  <2>2. CASE MoveAssign(o, r)
    <3>1. o \in alive
      BY <2>2 DEF MoveAssign
    <3>2. CASE pending[o]
      BY <2>2, <3>1, <3>2, PendingHasConn DEF MoveAssign, ConnNext
    <3>3. CASE ~pending[o]
      BY <2>2, <3>3 DEF MoveAssign
    <3>4. QED BY <3>2, <3>3
  <2>3. CASE MoveAssignThrows(o, r)
    BY <2>3, PendingHasConn DEF MoveAssignThrows, ConnNext
  <2>4. QED BY <1>3, <2>1, <2>2, <2>3
<1>4. ASSUME NEW o \in Objs, CommitObj(o) \/ RollbackObj(o)
      PROVE  ConnNext
  <2>1. o \in alive /\ db[o] \in Conns
    BY <1>4, PendingHasConn DEF CommitObj, RollbackObj
  <2>2. QED BY <1>4, <2>1 DEF CommitObj, RollbackObj, ConnNext
<1>5. ASSUME NEW o \in Objs, Destroy(o)
      PROVE  [ConnNext]_connVars
  <2>1. CASE pending[o]
    BY <1>5, <2>1, PendingHasConn DEF Destroy, ConnNext
  <2>2. CASE ~pending[o]
    BY <1>5, <2>2 DEF Destroy
  <2>3. QED BY <2>1, <2>2
<1>6. ASSUME NEW c \in Conns, Statement(c)
      PROVE  ConnNext
  BY <1>6 DEF ConnNext
<1>7. QED BY <1>1, <1>2, <1>3, <1>4, <1>5, <1>6 DEF Next

-----------------------------------------------------------------------------
(* The fields of objects keep their types.                                 *)

ObjTypeOK ==
    /\ alive \subseteq Objs
    /\ db \in [Objs -> Conns \cup {NoConn}]
    /\ pending \in [Objs -> BOOLEAN]
    /\ tag \in [Objs -> Tags]

\* What a move does to the two objects.
LEMMA TakeOverEffect ==
    ASSUME ObjTypeOK, NEW o \in Objs, NEW r \in Objs, o # r, TakeOver(o, r)
    PROVE  /\ db' \in [Objs -> Conns \cup {NoConn}]
           /\ pending' \in [Objs -> BOOLEAN]
           /\ tag' \in [Objs -> Tags]
           /\ db'[o] = db[r] /\ pending'[o] = pending[r] /\ tag'[o] = tag[r]
           /\ db'[r] = NoConn /\ pending'[r] = FALSE /\ tag'[r] = NoTxn
           /\ \A x \in Objs \ {o, r} : /\ db'[x] = db[x] /\ tag'[x] = tag[x]
                                       /\ pending'[x] = pending[x]
<1>1. /\ db' = [db EXCEPT ![o] = db[r], ![r] = NoConn]
      /\ tag' = [tag EXCEPT ![o] = tag[r], ![r] = NoTxn]
      /\ pending' = [pending EXCEPT ![o] = pending[r], ![r] = FALSE]
  BY DEF TakeOver
<1>2. NoTxn \in Tags
  BY DEF Tags
<1>3. /\ db' \in [Objs -> Conns \cup {NoConn}]
      /\ db'[o] = db[r] /\ db'[r] = NoConn
      /\ \A x \in Objs \ {o, r} : db'[x] = db[x]
  BY <1>1 DEF ObjTypeOK
<1>4. /\ tag' \in [Objs -> Tags]
      /\ tag'[o] = tag[r] /\ tag'[r] = NoTxn
      /\ \A x \in Objs \ {o, r} : tag'[x] = tag[x]
  BY <1>1, <1>2 DEF ObjTypeOK
<1>5. /\ pending' \in [Objs -> BOOLEAN]
      /\ pending'[o] = pending[r] /\ pending'[r] = FALSE
      /\ \A x \in Objs \ {o, r} : pending'[x] = pending[x]
  BY <1>1 DEF ObjTypeOK
<1>6. QED BY <1>3, <1>4, <1>5

\* What construction and destruction do to an object.
LEMMA HoldsEffect ==
    ASSUME ObjTypeOK, NEW o \in Objs, NEW c \in Conns \cup {NoConn},
           NEW p \in BOOLEAN, NEW t \in Tags, Holds(o, c, p, t)
    PROVE  /\ db' \in [Objs -> Conns \cup {NoConn}]
           /\ pending' \in [Objs -> BOOLEAN]
           /\ tag' \in [Objs -> Tags]
           /\ db'[o] = c /\ pending'[o] = p /\ tag'[o] = t
           /\ \A x \in Objs \ {o} : /\ db'[x] = db[x] /\ tag'[x] = tag[x]
                                    /\ pending'[x] = pending[x]
BY DEF Holds, ObjTypeOK

\* Every operation keeps the types of the objects.
LEMMA ObjTypeStep ==
    ASSUME ObjTypeOK, [Next]_vars
    PROVE  ObjTypeOK'
<1>0. NoTxn \in Tags /\ Txns \subseteq Tags
  BY DEF Tags
<1>1. CASE UNCHANGED objVars
  BY <1>1 DEF objVars, ObjTypeOK
<1>2. ASSUME NEW o \in Objs, NEW c \in Conns, NEW m \in Modes, Construct(o, c, m)
      PROVE  ObjTypeOK'
  <2>1. PICK t \in Txns : Holds(o, c, TRUE, t)
    BY <1>2 DEF Construct
  <2>2. QED BY <1>0, <1>2, <2>1, HoldsEffect DEF Construct, ObjTypeOK
<1>3. ASSUME NEW o \in Objs, NEW r \in Objs, MoveConstruct(o, r) \/ MoveAssign(o, r)
      PROVE  ObjTypeOK'
  <2>1. TakeOver(o, r) /\ o # r /\ alive' \subseteq Objs
    BY <1>3 DEF MoveConstruct, MoveAssign, ObjTypeOK
  <2>2. QED BY <2>1, TakeOverEffect DEF ObjTypeOK
<1>4. ASSUME NEW o \in Objs, Destroy(o)
      PROVE  ObjTypeOK'
  <2>1. Holds(o, NoConn, FALSE, NoTxn) /\ alive' \subseteq Objs
    BY <1>4 DEF Destroy, ObjTypeOK
  <2>2. QED BY <1>0, <2>1, HoldsEffect DEF ObjTypeOK
<1>5. QED
  BY <1>1, <1>2, <1>3, <1>4
  DEF Next, vars, objVars, ConstructThrows, MoveAssignThrows, CommitObj, RollbackObj

-----------------------------------------------------------------------------
(***************************************************************************)
(* Ownership.  OwnInv adds to the two ownership properties that the tag of *)
(* a pending object is a transaction that was begun: a fresh transaction   *)
(* has no owner yet.                                                       *)
(***************************************************************************)
TagWasBegun ==
    \A o \in alive : pending[o] => tag[o] \in Txns /\ fate[tag[o]] # "unused"

OwnInv == OpenHasOwner /\ UniqueOwner /\ TagWasBegun

Inv == TypeOK /\ OwnInv

\* c's transaction ends or stays, and no other connection is touched.
EndsAtMost(c) ==
    /\ inTxn'[c] \in {inTxn[c], NoTxn}
    /\ \A d \in Conns \ {c} : inTxn'[d] = inTxn[d]
    /\ \A t \in Txns : fate[t] # "unused" => fate'[t] # "unused"

\* A statement may end a transaction, but never begins one.
LEMMA EngineEndsAtMost ==
    ASSUME ConnTypeOK, NEW c \in Conns,
           \/ Statement(c) \/ Commit(c) \/ CommitBusy(c) \/ CommitFails(c)
           \/ CommitRefused(c) \/ Rollback(c) \/ NothingToEnd(c)
           \/ UNCHANGED connVars
           \/ \E m \in Modes : BeginBusy(c, m) \/ BeginNested(c, m)
    PROVE  EndsAtMost(c)
<1>1. ASSUME CloseTxn(c, "committed") \/ CloseTxn(c, "abandoned")
      PROVE  EndsAtMost(c)
  BY <1>1 DEF CloseTxn, EndsAtMost, ConnTypeOK
<1>2. ASSUME UNCHANGED <<inTxn, fate>>
      PROVE  EndsAtMost(c)
  BY <1>2 DEF EndsAtMost
<1>3. CASE Statement(c)
  BY <1>1, <1>2, <1>3
  DEF Statement, ReadStep, ReadBusy, ReadEnd, WriteCommits, WriteRollsBack,
      WriteWaits, WriteFails, WriteBusy, WriteEnd, IOError, SpecialError
<1>4. QED
  BY <1>1, <1>2, <1>3
  DEF Commit, CommitBusy, CommitFails, CommitRefused, Rollback, NothingToEnd,
      BeginBusy, BeginNested, connVars
\* Whatever only ends transactions keeps their owners.
LEMMA KeepOwn ==
    ASSUME Inv, UNCHANGED objVars, NEW c \in Conns, EndsAtMost(c)
    PROVE  OwnInv'
<1>1. \A d \in Conns : inTxn'[d] \in {inTxn[d], NoTxn}
  BY DEF EndsAtMost
<1>2. OpenHasOwner'
  BY <1>1 DEF Inv, OwnInv, OpenHasOwner, AutoCommit, objVars
<1>3. UniqueOwner'
  BY DEF Inv, OwnInv, UniqueOwner, objVars
<1>4. TagWasBegun'
  BY DEF Inv, OwnInv, TagWasBegun, EndsAtMost, objVars
<1>5. QED BY <1>2, <1>3, <1>4 DEF OwnInv

\* A constructor that returns owns what it began.
LEMMA ConstructOwn ==
    ASSUME Inv, NEW o \in Objs, NEW c \in Conns, NEW m \in Modes, Construct(o, c, m)
    PROVE  OwnInv'
<1>0. ObjTypeOK /\ NoConn \notin Conns /\ NoTxn \notin Txns
  BY NoConnAssumption, NoTxnAssumption DEF Inv, TypeOK, ObjTypeOK
<1>1. PICK t \in Txns : Begin(c, t, m) /\ Holds(o, c, TRUE, t)
  BY DEF Construct
<1>2. /\ inTxn[c] = NoTxn /\ inTxn'[c] = t
      /\ \A d \in Conns \ {c} : inTxn'[d] = inTxn[d]
      /\ fate[t] = "unused" /\ fate'[t] = "open"
      /\ \A u \in Txns \ {t} : fate'[u] = fate[u]
  BY <1>1 DEF Begin, AutoCommit, Inv, TypeOK, ConnTypeOK
<1>3. /\ db'[o] = c /\ pending'[o] = TRUE /\ tag'[o] = t
      /\ \A x \in Objs \ {o} : /\ db'[x] = db[x] /\ tag'[x] = tag[x]
                               /\ pending'[x] = pending[x]
  <2>1. t \in Tags /\ c \in Conns \cup {NoConn} /\ TRUE \in BOOLEAN
    BY DEF Tags
  <2>2. QED BY <1>0, <1>1, <2>1, HoldsEffect
<1>4. /\ alive' = alive \cup {o} /\ o \notin alive /\ alive \subseteq Objs \ {o}
  BY <1>0 DEF Construct, ObjTypeOK
<1>5. \A x \in alive : pending[x] => tag[x] # t
  BY <1>2 DEF Inv, OwnInv, TagWasBegun
<1>6. OpenHasOwner'
  <2>1. ASSUME NEW d \in Conns, inTxn'[d] # NoTxn
        PROVE  \E x \in alive' : pending'[x] /\ db'[x] = d /\ tag'[x] = inTxn'[d]
    <3>1. CASE d = c
      BY <1>2, <1>3, <1>4, <3>1
    <3>2. CASE d # c
      <4>1. PICK x \in alive : pending[x] /\ db[x] = d /\ tag[x] = inTxn[d]
        BY <1>2, <2>1, <3>2 DEF Inv, OwnInv, OpenHasOwner, AutoCommit
      <4>2. QED BY <1>2, <1>3, <1>4, <3>2, <4>1
    <3>3. QED BY <3>1, <3>2
  <2>2. QED BY <2>1 DEF OpenHasOwner, AutoCommit
<1>7. UniqueOwner'
  BY <1>0, <1>3, <1>4, <1>5 DEF Inv, OwnInv, UniqueOwner
<1>8. TagWasBegun'
  BY <1>2, <1>3, <1>4 DEF Inv, OwnInv, TagWasBegun
<1>9. QED BY <1>6, <1>7, <1>8 DEF OwnInv

\* A move to o, which holds nothing that is still open.
LEMMA TakeOverOwn ==
    ASSUME Inv, NEW o \in Objs, NEW r \in alive, o # r, TakeOver(o, r),
           alive' = alive \cup {o},
           \A d \in Conns : inTxn'[d] \in {inTxn[d], NoTxn},
           \A t \in Txns : fate[t] # "unused" => fate'[t] # "unused",
           o \in alive /\ pending[o] => inTxn'[db[o]] = NoTxn
    PROVE  OwnInv'
<1>0. ObjTypeOK /\ r \in Objs /\ alive \subseteq Objs /\ NoConn \notin Conns
  BY NoConnAssumption DEF Inv, TypeOK, ObjTypeOK
<1>1. /\ db'[o] = db[r] /\ pending'[o] = pending[r] /\ tag'[o] = tag[r]
      /\ db'[r] = NoConn /\ pending'[r] = FALSE /\ tag'[r] = NoTxn
      /\ \A x \in Objs \ {o, r} : /\ db'[x] = db[x] /\ tag'[x] = tag[x]
                                  /\ pending'[x] = pending[x]
  BY <1>0, TakeOverEffect
<1>2. OpenHasOwner'
  <2>1. ASSUME NEW d \in Conns, inTxn'[d] # NoTxn
        PROVE  \E x \in alive' : pending'[x] /\ db'[x] = d /\ tag'[x] = inTxn'[d]
    <3>1. inTxn'[d] = inTxn[d]
      BY <2>1
    <3>2. PICK x \in alive : pending[x] /\ db[x] = d /\ tag[x] = inTxn[d]
      BY <2>1, <3>1 DEF Inv, OwnInv, OpenHasOwner, AutoCommit
    <3>3. x # o
      BY <2>1, <3>2
    <3>4. CASE x = r
      BY <1>1, <3>1, <3>2, <3>4
    <3>5. CASE x # r
      BY <1>0, <1>1, <3>1, <3>2, <3>3, <3>5
    <3>6. QED BY <3>4, <3>5
  <2>2. QED BY <2>1 DEF OpenHasOwner, AutoCommit
<1>3. UniqueOwner'
  BY <1>0, <1>1 DEF Inv, OwnInv, UniqueOwner
<1>4. TagWasBegun'
  BY <1>0, <1>1 DEF Inv, OwnInv, TagWasBegun
<1>5. QED BY <1>2, <1>3, <1>4 DEF OwnInv

\* A destructor ends what its object owns.
LEMMA DestroyOwn ==
    ASSUME Inv, NEW o \in Objs, Destroy(o)
    PROVE  OwnInv'
<1>0. ObjTypeOK /\ o \in alive /\ alive \subseteq Objs
  BY DEF Inv, TypeOK, ObjTypeOK, Destroy
<1>1. /\ alive' = alive \ {o}
      /\ \A x \in alive' : /\ db'[x] = db[x] /\ tag'[x] = tag[x]
                           /\ pending'[x] = pending[x]
  <2>1. NoTxn \in Tags /\ Holds(o, NoConn, FALSE, NoTxn) /\ alive' = alive \ {o}
    BY DEF Tags, Destroy
  <2>2. QED BY <1>0, <2>1, HoldsEffect
<1>2. /\ \A d \in Conns : inTxn'[d] \in {inTxn[d], NoTxn}
      /\ \A t \in Txns : fate[t] # "unused" => fate'[t] # "unused"
      /\ pending[o] => inTxn'[db[o]] = NoTxn
  <2>1. CASE pending[o]
    <3>1. db[o] \in Conns /\ (Rollback(db[o]) \/ NothingToEnd(db[o]))
      BY <1>0, <2>1, PendingHasConn DEF Inv, OwnInv, Destroy
    <3>2. EndsAtMost(db[o])
      BY <3>1, EngineEndsAtMost DEF Inv, TypeOK
    <3>3. inTxn'[db[o]] = NoTxn
      BY <3>1 DEF Rollback, CloseTxn, NothingToEnd, AutoCommit, Inv, TypeOK, ConnTypeOK
    <3>4. QED BY <3>2, <3>3 DEF EndsAtMost
  <2>2. CASE ~pending[o]
    BY <2>2 DEF Destroy, connVars
  <2>3. QED BY <2>1, <2>2
<1>3. OpenHasOwner'
  <2>1. ASSUME NEW d \in Conns, inTxn'[d] # NoTxn
        PROVE  \E x \in alive' : pending'[x] /\ db'[x] = d /\ tag'[x] = inTxn'[d]
    <3>1. inTxn'[d] = inTxn[d]
      BY <1>2, <2>1
    <3>2. PICK x \in alive : pending[x] /\ db[x] = d /\ tag[x] = inTxn[d]
      BY <2>1, <3>1 DEF Inv, OwnInv, OpenHasOwner, AutoCommit
    <3>3. x # o
      BY <1>2, <2>1, <3>2
    <3>4. QED BY <1>1, <3>1, <3>2, <3>3
  <2>2. QED BY <2>1 DEF OpenHasOwner, AutoCommit
<1>4. UniqueOwner'
  BY <1>1 DEF Inv, OwnInv, UniqueOwner
<1>5. TagWasBegun'
  BY <1>1, <1>2 DEF Inv, OwnInv, TagWasBegun
<1>6. QED BY <1>3, <1>4, <1>5 DEF OwnInv

\* A move hands ownership over.
LEMMA MoveOwn ==
    ASSUME Inv, NEW o \in Objs, NEW r \in Objs, MoveConstruct(o, r) \/ MoveAssign(o, r)
    PROVE  OwnInv'
<1>1. r \in alive /\ o # r /\ TakeOver(o, r) /\ alive' = alive \cup {o}
  BY DEF MoveConstruct, MoveAssign
<1>2. CASE UNCHANGED connVars /\ (o \in alive => ~pending[o])
  BY <1>1, <1>2, TakeOverOwn DEF connVars
<1>3. CASE o \in alive /\ pending[o] /\ Rollback(db[o])
  <2>1. db[o] \in Conns
    BY <1>3, PendingHasConn DEF Inv, OwnInv
  <2>2. EndsAtMost(db[o])
    BY <1>3, <2>1, EngineEndsAtMost DEF Inv, TypeOK
  <2>3. inTxn'[db[o]] = NoTxn
    BY <1>3, <2>1 DEF Rollback, CloseTxn, Inv, TypeOK, ConnTypeOK
  <2>4. QED BY <1>1, <2>2, <2>3, TakeOverOwn DEF EndsAtMost
<1>4. QED BY <1>2, <1>3 DEF MoveConstruct, MoveAssign

\* Every operation keeps the owners.
LEMMA OwnStep ==
    ASSUME Inv, [Next]_vars
    PROVE  OwnInv'
<1>1. CASE UNCHANGED vars
  BY <1>1
  DEF vars, connVars, objVars, Inv, OwnInv, OpenHasOwner, UniqueOwner,
      TagWasBegun, AutoCommit
<1>2. ASSUME NEW o \in Objs, NEW c \in Conns, NEW m \in Modes,
             ConstructThrows(o, c, m)
      PROVE  OwnInv'
  BY <1>2, EngineEndsAtMost, KeepOwn DEF ConstructThrows, Inv, TypeOK
<1>3. ASSUME NEW o \in Objs, NEW r \in Objs, MoveAssignThrows(o, r)
      PROVE  OwnInv'
  <2>1. o \in alive /\ db[o] \in Conns
    BY <1>3, PendingHasConn DEF MoveAssignThrows, Inv, OwnInv
  <2>2. QED BY <1>3, <2>1, EngineEndsAtMost, KeepOwn
            DEF MoveAssignThrows, Inv, TypeOK
<1>4. ASSUME NEW o \in Objs, CommitObj(o) \/ RollbackObj(o)
      PROVE  OwnInv'
  <2>1. o \in alive /\ db[o] \in Conns
    BY <1>4, PendingHasConn DEF CommitObj, RollbackObj, Inv, OwnInv
  <2>2. EndsAtMost(db[o]) /\ UNCHANGED objVars
    BY <1>4, <2>1, EngineEndsAtMost DEF CommitObj, RollbackObj, Inv, TypeOK
  <2>3. QED BY <2>1, <2>2, KeepOwn
<1>5. ASSUME NEW c \in Conns, Statement(c) /\ UNCHANGED objVars
      PROVE  OwnInv'
  BY <1>5, EngineEndsAtMost, KeepOwn DEF Inv, TypeOK
<1>6. QED
  BY <1>1, <1>2, <1>3, <1>4, <1>5, ConstructOwn, MoveOwn, DestroyOwn DEF Next

\* The invariant of transaction objects holds always.
LEMMA Invariant == Spec => []Inv
<1>1. Init => Inv
  BY DEF Init, ConnInit, Inv, TypeOK, ConnTypeOK, OwnInv, OpenHasOwner,
         UniqueOwner, TagWasBegun, AutoCommit,
         Tags, Locks
<1>2. Inv /\ [Next]_vars => Inv'
  <2> SUFFICES ASSUME Inv, [Next]_vars PROVE Inv'
    OBVIOUS
  <2>1. [ConnNext]_connVars
    BY NextIsConnNext DEF Inv, OwnInv
  <2>2. ConnTypeOK'
    BY <2>1, TypeStep DEF Inv, TypeOK
  <2>3. ObjTypeOK'
    BY ObjTypeStep DEF Inv, TypeOK, ObjTypeOK
  <2>4. QED BY <2>2, <2>3, OwnStep DEF Inv, TypeOK, ObjTypeOK
<1>3. QED BY <1>1, <1>2, PTL DEF Spec

\* Type correctness of connections and transaction objects.
THEOREM TypeCorrect == Spec => []TypeOK
<1>1. Inv => TypeOK
  BY DEF Inv
<1>2. QED BY <1>1, Invariant, PTL

\* No client, however it moves, commits, rolls back and destroys transaction
\* objects and whatever throws, orphans an open transaction.
THEOREM Ownership == Spec => []OpenHasOwner
<1>1. Inv => OpenHasOwner
  BY DEF Inv, OwnInv
<1>2. QED BY <1>1, Invariant, PTL

\* No move leaves two objects that would both end one transaction, or a pending
\* object without a connection (transaction's move constructor, operator=).
THEOREM OneOwner == Spec => []UniqueOwner
<1>1. Inv => UniqueOwner
  BY DEF Inv, OwnInv
<1>2. QED BY <1>1, Invariant, PTL

\* For a client that keeps one object per connection, no object ever commits
\* or rolls back the transaction of another object.
THEOREM EndsOwn == Spec => [](OneObjPerConn => EndsOwnOnly)
<1>1. Inv => (OneObjPerConn => EndsOwnOnly)
  <2> SUFFICES ASSUME Inv, OneObjPerConn, NEW o \in alive, pending[o],
                      inTxn[db[o]] # NoTxn
               PROVE  inTxn[db[o]] = tag[o]
    BY DEF EndsOwnOnly
  <2>1. db[o] \in Conns
    BY PendingHasConn DEF Inv, OwnInv
  <2>2. PICK x \in alive : db[x] = db[o] /\ tag[x] = inTxn[db[o]]
    BY <2>1 DEF Inv, OwnInv, OpenHasOwner, AutoCommit
  <2>3. x = o
    BY <2>1, <2>2, NoConnAssumption DEF OneObjPerConn
  <2>4. QED BY <2>2, <2>3
<1>2. QED BY <1>1, Invariant, PTL

\* The transaction objects drive their connections as Connection allows, so
\* that everything proved of ConnSpec holds of the composed system.
THEOREM ImplementsConnection == Spec => ConnSpec
<1>1. Init => ConnInit
  BY DEF Init
<1>2. Inv /\ [Next]_vars => [ConnNext]_connVars
  BY NextIsConnNext DEF Inv, OwnInv
<1>3. QED BY <1>1, <1>2, Invariant, PTL DEF Spec, ConnSpec

\* In particular transactions written through transaction objects are atomic.
THEOREM ObjectsAtomic == Spec => []Atomicity
BY ImplementsConnection, TransactionsAtomic, PTL

-----------------------------------------------------------------------------
(***************************************************************************)
(* The steps behind TransactionsEnd.  That a scope ends is an assumption   *)
(* about the program; these two say that nothing else is needed.           *)
(***************************************************************************)

\* A transaction that has not ended is the one of a connection, and a pending
\* object on it remains to end it, whatever was moved, refused or thrown
\* (transaction's constructors and operator=).
THEOREM OpenIsOwned ==
    Spec => [](\A t \in Txns : fate[t] = "open" =>
                  \E o \in alive : pending[o] /\ tag[o] = t /\ inTxn[db[o]] = t)
<1> DEFINE Owned == \A t \in Txns : fate[t] = "open" =>
                        \E o \in alive : pending[o] /\ tag[o] = t /\ inTxn[db[o]] = t
<1>1. Inv /\ OpenOnOneConn => Owned
  <2> SUFFICES ASSUME Inv, OpenOnOneConn, NEW t \in Txns, fate[t] = "open"
               PROVE  \E o \in alive : pending[o] /\ tag[o] = t /\ inTxn[db[o]] = t
    OBVIOUS
  <2>1. PICK c \in Conns : inTxn[c] = t
    BY DEF OpenOnOneConn
  <2>2. ~AutoCommit(c)
    BY <2>1, NoTxnAssumption DEF AutoCommit
  <2>3. QED
    BY <2>1, <2>2 DEF Inv, OwnInv, OpenHasOwner
<1>2. QED
  BY <1>1, Invariant, ImplementsConnection, OneConnPerTxn, PTL

\* The end of a scope ends the transaction of its connection there and then,
\* whatever locks others hold and whatever statements still run
\* (transaction's destructor, OP_AutoCommit).
THEOREM ScopeEndsIt ==
    Spec => [][\A c \in Conns, t \in Txns : inTxn[c] = t /\ Leave(c) =>
                  fate'[t] = "abandoned" /\ inTxn'[c] = NoTxn]_vars
<1> DEFINE Ends == \A c \in Conns, t \in Txns : inTxn[c] = t /\ Leave(c) =>
                       fate'[t] = "abandoned" /\ inTxn'[c] = NoTxn
<1>1. Inv => Ends
  <2> SUFFICES ASSUME Inv, NEW c \in Conns, NEW t \in Txns, inTxn[c] = t, Leave(c)
               PROVE  fate'[t] = "abandoned" /\ inTxn'[c] = NoTxn
    OBVIOUS
  <2>1. PICK o \in alive : pending[o] /\ db[o] = c /\ Destroy(o)
    BY DEF Leave
  <2>2. ~AutoCommit(c)
    BY NoTxnAssumption DEF AutoCommit
  <2>3. Rollback(c)
    BY <2>1, <2>2 DEF Destroy, NothingToEnd
  <2>4. QED
    BY <2>3 DEF Rollback, CloseTxn, Inv, TypeOK, ConnTypeOK
<1>2. QED
  BY <1>1, Invariant, PTL DEF Spec
=============================================================================
