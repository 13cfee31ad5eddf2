-------------------------- MODULE OStatementProofs --------------------------
(***************************************************************************)
(* What an ostatement stores, for every number of parameters.              *)
(***************************************************************************)
EXTENDS OStatement, TLAPS

\* put() keeps the types, and on a ready VM binds what was asked.
LEMMA BindType ==
    ASSUME TypeOK, NEW S, NEW r, \A i \in S \cap Cols : r[i] \in Values,
           Bind(S, r)
    PROVE  /\ bound' \in Rows /\ asked' \in Rows
           /\ vm = "ready" /\ bound = asked => bound' = asked'
BY DEF TypeOK, Bind, Rows, Bindable

\* step() keeps the types, whether it throws or not.
LEMMA StepType ==
    ASSUME TypeOK, bound' \in Rows, asked' \in Rows, StepDone \/ StepThrows
    PROVE  TypeOK'
<1>1. [got |-> bound', asked |-> asked'] \in Stored
  BY DEF Stored
<1>2. last' \in Stored
  BY <1>1 DEF TypeOK, StepDone, StepThrows
<1>3. vm' \in {"ready", "busy", "halted"} /\ rc' \in BOOLEAN
  BY DEF TypeOK, StepDone, StepThrows
<1>4. thrown' \in BOOLEAN /\ dubious' \in BOOLEAN
  BY DEF TypeOK, StepDone, StepThrows
<1>5. QED
  BY <1>2, <1>3, <1>4 DEF TypeOK

\* The values a row object inserts are values.
LEMMA InsertRow ==
    ASSUME TypeOK, NEW k \in 0 .. Columns, NEW r \in [Cols -> Values]
    PROVE  \A i \in (1 .. k) \cap Cols : r[i] \in Values
BY DEF TypeOK

(***************************************************************************)
(* Types: sqlite3_reset and the bindings keep a statement in its domain.   *)
(***************************************************************************)
THEOREM TypeCorrect == Spec => []TypeOK
<1>1. Init => TypeOK
  <2>1. Unbound \in Rows
    BY DEF Unbound, Rows
  <2>2. [got |-> Unbound, asked |-> Unbound] \in Stored
    BY <2>1 DEF Stored
  <2>3. QED
    BY <2>1, <2>2 DEF Init, TypeOK
<1>2. ASSUME TypeOK, [Next]_vars PROVE TypeOK'
  <2>1. ASSUME NEW i \in Cols, NEW v \in Values, Put(i, v) PROVE TypeOK'
    <3>1. bound' \in Rows /\ asked' \in Rows
      BY <1>2, <2>1, BindType DEF Put
    <3>2. QED
      BY <1>2, <2>1, <3>1 DEF Put, TypeOK
  <2>2. CASE Step
    BY <1>2, <2>2, StepType DEF Step, TypeOK
  <2>3. ASSUME NEW k \in 0 .. Columns, NEW r \in [Cols -> Values], Insert(k, r)
        PROVE  TypeOK'
    <3>1. bound' \in Rows /\ asked' \in Rows
      BY <1>2, <2>3, InsertRow, BindType DEF Insert
    <3>2. QED
      BY <1>2, <2>3, <3>1, StepType DEF Insert
  <2>4. CASE Reset
    BY <1>2, <2>4 DEF Reset, TypeOK, Unbound, Rows
  <2>5. CASE UNCHANGED vars
    BY <1>2, <2>5 DEF vars, TypeOK
  <2>6. QED
    BY <1>2, <2>1, <2>2, <2>3, <2>4, <2>5 DEF Next
<1>3. QED
  BY <1>1, <1>2, PTL DEF Spec

\* The two facts about one statement support each other: a binding is accepted
\* because nothing was thrown, and nothing stays thrown in a clean statement.
StmtInv == ReadyUnlessThrown /\ StoredAsAsked

\* Every call keeps the two facts.
LEMMA StmtInvHolds == Spec => []StmtInv
<1> USE DEF StmtInv, ReadyUnlessThrown, StoredAsAsked
<1>1. Init => StmtInv
  BY DEF Init
<1>2. ASSUME TypeOK, StmtInv, [Next]_vars PROVE StmtInv'
  <2>1. ASSUME NEW i \in Cols, NEW v \in Values, Put(i, v) PROVE StmtInv'
    <3>1. vm = "ready" /\ bound = asked => bound' = asked'
      BY <1>2, <2>1, BindType DEF Put
    <3>2. QED
      BY <1>2, <2>1, <3>1 DEF Put
  <2>2. CASE Step
    BY <1>2, <2>2 DEF Step, StepDone, StepThrows, TypeOK
  <2>3. ASSUME NEW k \in 0 .. Columns, NEW r \in [Cols -> Values], Insert(k, r)
        PROVE  StmtInv'
    <3>1. vm = "ready" /\ bound = asked => bound' = asked'
      BY <1>2, <2>3, InsertRow, BindType DEF Insert
    <3>2. QED
      BY <1>2, <2>3, <3>1 DEF Insert, StepDone, StepThrows, TypeOK
  <2>4. CASE Reset
    BY <1>2, <2>4 DEF Reset, TypeOK
  <2>5. CASE UNCHANGED vars
    BY <1>2, <2>5 DEF vars
  <2>6. QED
    BY <1>2, <2>1, <2>2, <2>3, <2>4, <2>5 DEF Next
<1>3. QED
  BY <1>1, <1>2, TypeCorrect, PTL DEF Spec

(***************************************************************************)
(* A client that resets after every exception stores what it bound         *)
(* (ostatement::step, reset).                                              *)
(***************************************************************************)
THEOREM StoresWhatWasAsked == Spec => []StoredAsAsked
<1>1. StmtInv => StoredAsAsked
  BY DEF StmtInv
<1>2. QED
  BY <1>1, StmtInvHolds, PTL

(***************************************************************************)
(* A statement whose last call returned takes bindings and has no error    *)
(* left to report (ostatement::step, reset).                               *)
(***************************************************************************)
THEOREM ReadyAfterReturn == Spec => []ReadyUnlessThrown
<1>1. StmtInv => ReadyUnlessThrown
  BY DEF StmtInv
<1>2. QED
  BY <1>1, StmtInvHolds, PTL

=============================================================================
