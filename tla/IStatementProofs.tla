-------------------------- MODULE IStatementProofs --------------------------
(***************************************************************************)
(* What the ways of reading a result hand out, and what mixing them costs, *)
(* for a result of any size, any number of iterators, and any number of    *)
(* failures, resets and changes of way.                                    *)
(***************************************************************************)
EXTENDS IStatement, FiniteSetTheorems, TLAPS

-----------------------------------------------------------------------------
(***************************************************************************)
(* The account of a pass, apart from the statement: s is what the client   *)
(* was handed, p how many rows the statement has passed, w what the        *)
(* changes of way may have cost.                                           *)
(***************************************************************************)
Elements(s) == {s[k] : k \in DOMAIN s}
Settled(s, p) == Elements(s) \cap (1 .. p)

InOrder(s) == \A k \in 1 .. Len(s) : s[k] = k

Account(s, p, w) ==
    /\ p <= Cardinality(Settled(s, p)) + w
    /\ Len(s) <= Cardinality(Settled(s, p)) + w
    /\ w = 0 => Len(s) = p /\ InOrder(s)

\* Settled rows can be counted.
LEMMA SettledFinite ==
    ASSUME NEW s, NEW p \in Nat
    PROVE  IsFiniteSet(Settled(s, p)) /\ Cardinality(Settled(s, p)) \in Nat
<1>1. IsFiniteSet(1 .. p)
  BY FS_Interval
<1>2. IsFiniteSet(Settled(s, p))
  BY <1>1, FS_Intersection DEF Settled
<1>3. QED
  BY <1>2, FS_CardinalityType

\* One element more.
LEMMA OneMore ==
    ASSUME NEW S, NEW x, IsFiniteSet(S)
    PROVE  /\ IsFiniteSet(S \cup {x}) /\ Cardinality(S \cup {x}) \in Nat
           /\ Cardinality(S \cup {x}) <= Cardinality(S) + 1
<1>1. /\ IsFiniteSet(S \cup {x})
      /\ Cardinality(S \cup {x}) = IF x \in S THEN Cardinality(S)
                                    ELSE Cardinality(S) + 1
  BY FS_AddElement
<1>2. Cardinality(S \cup {x}) \in Nat /\ Cardinality(S) \in Nat
  BY <1>1, FS_CardinalityType
<1>3. QED
  BY <1>1, <1>2

\* What Append adds.
LEMMA AppendElements ==
    ASSUME NEW s \in Seq(Nat), NEW n \in Nat
    PROVE  /\ Append(s, n) \in Seq(Nat)
           /\ Elements(Append(s, n)) = Elements(s) \cup {n}
           /\ Len(Append(s, n)) = Len(s) + 1
<1>1. DOMAIN Append(s, n) = 1 .. Len(s) + 1 /\ DOMAIN s = 1 .. Len(s)
  OBVIOUS
<1>2. /\ \A k \in 1 .. Len(s) : Append(s, n)[k] = s[k]
      /\ Append(s, n)[Len(s) + 1] = n
  OBVIOUS
<1>3. 1 .. Len(s) + 1 = (1 .. Len(s)) \cup {Len(s) + 1}
  OBVIOUS
<1>4. Elements(Append(s, n)) = Elements(s) \cup {n}
  BY <1>1, <1>2, <1>3 DEF Elements
<1>5. QED
  BY <1>4

\* The rows settled at p are settled later, and stay so when more is handed
\* out.
LEMMA SettledGrows ==
    ASSUME NEW s \in Seq(Nat), NEW t \in Seq(Nat), NEW p \in Nat, NEW q \in Nat,
           Elements(s) \subseteq Elements(t), p <= q
    PROVE  Cardinality(Settled(s, p)) <= Cardinality(Settled(t, q))
<1>1. Settled(s, p) \in SUBSET Settled(t, q)
  BY DEF Settled
<1>2. QED
  BY <1>1, SettledFinite, FS_Subset

\* The next row is read.
LEMMA AccountNext ==
    ASSUME NEW s \in Seq(Nat), NEW p \in Nat, NEW w \in Nat, Account(s, p, w)
    PROVE  Account(Append(s, p + 1), p + 1, w)
<1> DEFINE t == Append(s, p + 1)
<1>1. t \in Seq(Nat) /\ Len(t) = Len(s) + 1
  BY AppendElements
<1>2. Settled(t, p + 1) = Settled(s, p) \cup {p + 1}
  <2>1. 1 .. p + 1 = (1 .. p) \cup {p + 1}
    OBVIOUS
  <2>2. Elements(t) = Elements(s) \cup {p + 1}
    BY AppendElements
  <2>3. QED
    BY <2>1, <2>2 DEF Settled
<1>3. p + 1 \notin Settled(s, p)
  BY DEF Settled
<1>4. Cardinality(Settled(t, p + 1)) = Cardinality(Settled(s, p)) + 1
  BY <1>2, <1>3, SettledFinite, FS_AddElement
<1>5. w = 0 => Len(t) = p + 1 /\ InOrder(t)
  BY DEF Account, InOrder
<1> HIDE DEF t
<1>6. Account(t, p + 1, w)
  BY <1>1, <1>4, <1>5, SettledFinite DEF Account
<1>7. QED
  BY <1>6 DEF t

\* A change of way and no row: the statement may have passed one row more, or
\* may be taken for one row back.
LEMMA AccountSwitch ==
    ASSUME NEW s \in Seq(Nat), NEW p \in Nat, NEW q \in Nat, NEW w \in Nat,
           Account(s, p, w), q <= p + 1, p <= q + 1
    PROVE  Account(s, q, w + 1)
<1>1. /\ Cardinality(Settled(s, p)) \in Nat /\ IsFiniteSet(Settled(s, p))
      /\ Cardinality(Settled(s, q)) \in Nat /\ IsFiniteSet(Settled(s, q))
  BY SettledFinite
<1>2. /\ p <= Cardinality(Settled(s, p)) + w
      /\ Len(s) <= Cardinality(Settled(s, p)) + w
  BY DEF Account
<1>3. CASE p <= q
  <2>1. Cardinality(Settled(s, p)) <= Cardinality(Settled(s, q))
    BY <1>3, SettledGrows
  <2>2. QED
    BY <1>1, <1>2, <2>1 DEF Account
<1>4. CASE p = q + 1
  <2>1. Settled(s, p) \in SUBSET (Settled(s, q) \cup {p})
    BY <1>4 DEF Settled
  <2>2. /\ IsFiniteSet(Settled(s, q) \cup {p})
        /\ Cardinality(Settled(s, q) \cup {p}) <= Cardinality(Settled(s, q)) + 1
        /\ Cardinality(Settled(s, q) \cup {p}) \in Nat
    BY <1>1, OneMore
  <2>3. Cardinality(Settled(s, p)) <= Cardinality(Settled(s, q)) + 1
    BY <1>1, <2>1, <2>2, FS_Subset
  <2>4. QED
    BY <1>1, <1>2, <1>4, <2>3 DEF Account
<1>5. QED
  BY <1>3, <1>4

\* A change of way and a row: the same one, the next one, or the one after it.
LEMMA AccountSwitchTake ==
    ASSUME NEW s \in Seq(Nat), NEW p \in Nat, NEW q \in Nat, NEW w \in Nat,
           NEW n \in Nat, Account(s, p, w),
           p <= q, q <= p + 1 \/ (q = p + 2 /\ n = q)
    PROVE  Account(Append(s, n), q, w + 1)
<1>1. /\ Cardinality(Settled(s, p)) \in Nat
      /\ Cardinality(Settled(Append(s, n), q)) \in Nat
  BY SettledFinite
<1>2. /\ p <= Cardinality(Settled(s, p)) + w
      /\ Len(s) <= Cardinality(Settled(s, p)) + w
  BY DEF Account
<1>3. /\ Append(s, n) \in Seq(Nat) /\ Len(Append(s, n)) = Len(s) + 1
      /\ Elements(Append(s, n)) = Elements(s) \cup {n}
  BY AppendElements
<1>4. Cardinality(Settled(s, p)) <= Cardinality(Settled(Append(s, n), q))
  BY <1>3, SettledGrows
<1>5. CASE q <= p + 1
  BY <1>1, <1>2, <1>3, <1>4, <1>5 DEF Account
<1>6. CASE q = p + 2 /\ n = q
  <2>1. (Settled(s, p) \cup {n}) \in SUBSET Settled(Append(s, n), q)
    BY <1>3, <1>6 DEF Settled
  <2>2. n \notin Settled(s, p)
    BY <1>6 DEF Settled
  <2>3. Cardinality(Settled(s, p) \cup {n}) = Cardinality(Settled(s, p)) + 1
    BY <2>2, SettledFinite, FS_AddElement
  <2>4. IsFiniteSet(Settled(Append(s, n), q))
    BY SettledFinite
  <2>5. Cardinality(Settled(s, p)) + 1 <= Cardinality(Settled(Append(s, n), q))
    BY <2>1, <2>3, <2>4, FS_Subset
  <2>6. QED
    BY <1>1, <1>2, <1>3, <1>6, <2>5 DEF Account
<1>7. QED
  BY <1>5, <1>6

\* What an account in order says: at most w repeats, at most w rows left out.
LEMMA AccountBounds ==
    ASSUME NEW s \in Seq(Nat), NEW p \in Nat, NEW w \in Nat, Account(s, p, w),
           NEW b \in Nat, b <= p
    PROVE  /\ Len(s) <= Cardinality(Elements(s)) + w
           /\ Cardinality((1 .. b) \ Elements(s)) <= w
<1>1. IsFiniteSet(Elements(s))
  <2>1. s \in Surjection(1 .. Len(s), Elements(s))
    BY DEF Surjection, Elements
  <2>2. IsFiniteSet(1 .. Len(s))
    BY FS_Interval
  <2>3. QED
    BY <2>1, <2>2, FS_Surjection
<1>2. Cardinality(Elements(s)) \in Nat /\ Cardinality(Settled(s, p)) \in Nat
  BY <1>1, SettledFinite, FS_CardinalityType
<1>3. Settled(s, p) \in SUBSET Elements(s)
  BY DEF Settled
<1>4. Cardinality(Settled(s, p)) <= Cardinality(Elements(s))
  BY <1>1, <1>3, FS_Subset
<1>5. Len(s) <= Cardinality(Elements(s)) + w
  BY <1>2, <1>4 DEF Account
<1>6. IsFiniteSet(1 .. p) /\ Cardinality(1 .. p) = p
  BY FS_Interval
<1>7. /\ IsFiniteSet((1 .. p) \ Elements(s))
      /\ Cardinality((1 .. p) \ Elements(s)) = p - Cardinality(Settled(s, p))
  <2>1. (1 .. p) \cap Elements(s) = Settled(s, p)
    BY DEF Settled
  <2>2. /\ IsFiniteSet((1 .. p) \ Elements(s))
        /\ Cardinality((1 .. p) \ Elements(s))
              = Cardinality(1 .. p) - Cardinality((1 .. p) \cap Elements(s))
    BY <1>6, FS_Difference
  <2>3. QED
    BY <1>6, <2>1, <2>2
<1>8. ((1 .. b) \ Elements(s)) \in SUBSET ((1 .. p) \ Elements(s))
  OBVIOUS
<1>9. /\ Cardinality((1 .. b) \ Elements(s)) <= Cardinality((1 .. p) \ Elements(s))
      /\ Cardinality((1 .. b) \ Elements(s)) \in Nat
  BY <1>7, <1>8, FS_Subset, FS_CardinalityType
<1>10. QED
  BY <1>2, <1>5, <1>7, <1>9 DEF Account

-----------------------------------------------------------------------------
StepAny == StepRow \/ StepDone \/ StepThrows

\* The next row has a number.
LEMMA NextPosType == TypeOK => NextPos \in Nat /\ NextPos >= 1
BY DEF TypeOK, NextPos

\* What one sqlite3_step under detail::step does to the types it can disturb.
LEMMA StepType ==
    ASSUME TypeOK, StepAny
    PROVE  /\ status' \in {"reset", "row", "done"}
           /\ vm' \in {"ready", "busy", "row", "halted"}
           /\ pos' \in Nat /\ failures' \in Nat
           /\ rc' \in BOOLEAN /\ failed' \in BOOLEAN
<1>1. status' \in {"reset", "row", "done"}
  BY DEF TypeOK, StepAny, StepRow, StepDone, StepThrows
<1>2. vm' \in {"ready", "busy", "row", "halted"}
  BY DEF TypeOK, StepAny, StepRow, StepDone, StepThrows
<1>3. pos' \in Nat /\ failures' \in Nat
  BY NextPosType DEF TypeOK, StepAny, StepRow, StepDone, StepThrows
<1>4. rc' \in BOOLEAN /\ failed' \in BOOLEAN
  BY DEF TypeOK, StepAny, StepRow, StepDone, StepThrows
<1>5. QED
  BY <1>1, <1>2, <1>3, <1>4

\* The account of the changes of way is well typed.
LEMMA UsesType ==
    ASSUME TypeOK, NEW w \in {"get", "extract"} \cup Iters, NEW free, Uses(w, free)
    PROVE  way' \in {"none", "get", "extract"} \cup Iters /\ switches' \in Nat
BY DEF Uses, TypeOK

\* So is the row an iterator holds.
LEMMA HoldsType ==
    ASSUME TypeOK, NEW i \in Iters, NEW n \in Nat,
           NEW state \in {"none", "unread", "read", "end"}, Holds(i, state, n)
    PROVE  /\ iter' \in [Iters -> {"none", "unread", "read", "end"}]
           /\ val' \in [Iters -> Nat]
BY DEF Holds, TypeOK

\* The condition of invoke_pragma's loop is false whatever the status is, so
\* operator >> is only ever called by the client that reads.
LEMMA OnlyReaderExtracts == MayExtract => client = "reader"
<1>1. ~LoopContinues
  BY DEF LoopContinues
<1>2. QED
  BY <1>1 DEF MayExtract

\* What the calls of an iterator that step do to the iterator.
LEMMA StepOnType ==
    ASSUME TypeOK, NEW i \in Iters, StepOn(i)
    PROVE  /\ StepAny
           /\ iter' \in [Iters -> {"none", "unread", "read", "end"}]
           /\ val' \in [Iters -> Nat]
<1>1. StepAny
  BY DEF StepOn, StepAny
<1>2. pos' \in Nat /\ val[i] \in Nat
  BY <1>1, StepType DEF TypeOK
<1>3. QED
  BY <1>1, <1>2, HoldsType DEF StepOn

\* A new istatement is well typed.
LEMMA InitType == Init => TypeOK
<1> SUFFICES ASSUME Init PROVE TypeOK
  OBVIOUS
<1>1. rows \in Nat
  BY BoundsAssumption DEF Init
<1>2. taken \in Seq(Nat)
  BY DEF Init
<1>3. rc \in BOOLEAN /\ failed \in BOOLEAN /\ asserted \in BOOLEAN
  BY DEF Init
<1>4. /\ iter \in [Iters -> {"none", "unread", "read", "end"}]
      /\ val \in [Iters -> Nat]
  BY DEF Init
<1>5. QED
  BY <1>1, <1>2, <1>3, <1>4 DEF Init, TypeOK

\* Every call of an iterator keeps the types.
LEMMA IteratorType ==
    ASSUME TypeOK, NEW i \in Iters, IteratorReads(i)
    PROVE  TypeOK'
<1>1. CASE IteratorConstruct(i)
  <2>1. CASE StepOn(i) /\ Uses(i, {"none", "extract"})
    BY <1>1, <2>1, StepOnType, StepType, UsesType
    DEF IteratorConstruct, TypeOK, fixedVars
  <2>2. CASE StepThrows /\ UNCHANGED <<iter, val, wayVars>>
    <3>1. StepAny
      BY <2>2 DEF StepAny
    <3>2. QED
      BY <1>1, <2>2, <3>1, StepType DEF IteratorConstruct, TypeOK, fixedVars, wayVars
  <2>3. CASE /\ Holds(i, "unread", pos) \/ Holds(i, "end", val[i])
             /\ UNCHANGED stmtVars /\ Uses(i, {"none", "extract"})
    <3>1. pos \in Nat /\ val[i] \in Nat
      BY DEF TypeOK
    <3>2. /\ iter' \in [Iters -> {"none", "unread", "read", "end"}]
          /\ val' \in [Iters -> Nat]
      BY <2>3, <3>1, HoldsType
    <3>3. QED
      BY <1>1, <2>3, <3>2, UsesType DEF IteratorConstruct, TypeOK, fixedVars, stmtVars
  <2>4. QED
    BY <1>1, <2>1, <2>2, <2>3 DEF IteratorConstruct
<1>2. CASE IteratorDereference(i)
  <2>1. val[i] \in Nat
    BY DEF TypeOK
  <2>2. taken' \in Seq(Nat)
    BY <1>2, <2>1, AppendElements DEF IteratorDereference, TypeOK
  <2>3. /\ iter' \in [Iters -> {"none", "unread", "read", "end"}]
        /\ val' \in [Iters -> Nat]
    BY <1>2, <2>1, HoldsType DEF IteratorDereference
  <2>4. QED
    BY <1>2, <2>2, <2>3, UsesType DEF IteratorDereference, TypeOK, fixedVars, stmtVars
<1>3. CASE IteratorIncrement(i)
  <2>1. asserted' \in BOOLEAN
    BY <1>3 DEF IteratorIncrement, Asserts, TypeOK
  <2>2. /\ StepAny
        /\ iter' \in [Iters -> {"none", "unread", "read", "end"}]
        /\ val' \in [Iters -> Nat]
    BY <1>3, StepOnType DEF IteratorIncrement, StepAny, TypeOK
  <2>3. QED
    BY <1>3, <2>1, <2>2, StepType, UsesType DEF IteratorIncrement, TypeOK, fixedVars
<1>4. QED
  BY <1>1, <1>2, <1>3 DEF IteratorReads

\* Every call keeps the types.
LEMMA NextType ==
    ASSUME TypeOK, [Next]_vars
    PROVE  TypeOK'
<1>1. CASE CoreStep
  <2>1. StepAny
    BY <1>1 DEF CoreStep, StepAny
  <2>2. taken' \in Seq(Nat)
    <3>1. pos' \in Nat /\ taken \in Seq(Nat)
      BY <2>1, StepType DEF TypeOK
    <3>2. taken' = Append(taken, pos') \/ taken' = taken
      BY <1>1 DEF CoreStep
    <3>3. QED
      BY <3>1, <3>2, AppendElements
  <2>3. QED
    BY <1>1, <2>1, <2>2, StepType, UsesType DEF CoreStep, TypeOK, fixedVars
<1>2. CASE AutoStep
  <2>1. StepAny
    BY <1>2 DEF AutoStep, StepAny
  <2>2. QED
    BY <1>2, <2>1, StepType, UsesType DEF AutoStep, TypeOK, fixedVars
<1>3. CASE ExtractRow
  <2>1. StepAny
    BY <1>3 DEF ExtractRow, StepAny
  <2>2. asserted' \in BOOLEAN
    BY <1>3 DEF ExtractRow, Asserts, TypeOK
  <2>3. taken' \in Seq(Nat)
    BY <1>3 DEF ExtractRow, TypeOK
  <2>4. QED
    BY <1>3, <2>1, <2>2, <2>3, StepType, UsesType DEF ExtractRow, TypeOK, fixedVars
<1>4. CASE \E i \in Iters : IteratorReads(i)
  BY <1>4, IteratorType
<1>5. CASE Reset
  <2>1. taken' = taken \/ taken' = <<>>
    BY <1>5 DEF Reset
  <2>2. <<>> \in Seq(Nat) /\ taken \in Seq(Nat)
    BY DEF TypeOK
  <2>3. taken' \in Seq(Nat)
    BY <2>1, <2>2, Zenon
  <2>4. /\ status' \in {"reset", "row", "done"}
        /\ way' \in {"none", "get", "extract"} \cup Iters /\ switches' \in Nat
    BY <1>5 DEF Reset, wayVars, TypeOK
  <2>5. rc' \in BOOLEAN /\ failed' \in BOOLEAN /\ asserted' \in BOOLEAN
    BY <1>5 DEF Reset, TypeOK
  <2>6. QED
    BY <1>5, <2>3, <2>4, <2>5 DEF Reset, TypeOK, fixedVars
<1>6. CASE ListReturns
  BY <1>6 DEF ListReturns, TypeOK, stmtVars, fixedVars, wayVars
<1>7. CASE UNCHANGED vars
  BY <1>7 DEF vars, TypeOK
<1>8. QED
  BY <1>1, <1>2, <1>3, <1>4, <1>5, <1>6, <1>7 DEF Next, Advance

(***************************************************************************)
(* Types of the wrapper's and the VM's state, for every client.            *)
(***************************************************************************)
THEOREM TypeCorrect == Spec => []TypeOK
BY InitType, NextType, PTL DEF Spec

-----------------------------------------------------------------------------
\* Every way of reading steps the VM once or leaves it alone.
LEMMA AdvanceSteps ==
    ASSUME Advance
    PROVE  rows' = rows /\ client' = client /\ (StepAny \/ UNCHANGED stmtVars)
<1>1. CASE CoreStep \/ AutoStep \/ ExtractRow \/ ListReturns
  BY <1>1 DEF CoreStep, AutoStep, ExtractRow, ListReturns, StepAny, fixedVars
<1>2. ASSUME NEW i \in Iters, IteratorReads(i)
      PROVE  rows' = rows /\ client' = client /\ (StepAny \/ UNCHANGED stmtVars)
  BY <1>2 DEF IteratorReads, IteratorConstruct, IteratorDereference,
              IteratorIncrement, StepOn, StepAny, fixedVars
<1>3. QED
  BY <1>1, <1>2 DEF Advance

\* sqlite3_step under detail::step keeps _status true.
LEMMA StepTracks ==
    ASSUME TypeOK, StatusTracksVm, StepAny, rows' = rows
    PROVE  StatusTracksVm'
<1>1. CASE StepRow
  BY <1>1, NextPosType DEF StepRow, NextPos, TypeOK, StatusTracksVm
<1>2. CASE StepDone
  BY <1>2 DEF StepDone, TypeOK, StatusTracksVm
<1>3. CASE StepThrows
  BY <1>3 DEF StepThrows, StatusTracksVm
<1>4. QED
  BY <1>1, <1>2, <1>3 DEF StepAny

(***************************************************************************)
(* As long as no call throws, _status tells the truth about the VM         *)
(* (istatement::step, statement_base::reset).                              *)
(***************************************************************************)
THEOREM StatusIsTrue == Spec => []StatusTracksVm
<1>1. Init => StatusTracksVm
  BY BoundsAssumption DEF Init, StatusTracksVm
<1>2. ASSUME TypeOK, StatusTracksVm, [Next]_vars PROVE StatusTracksVm'
  <2>1. CASE Advance
    <3>1. CASE StepAny
      BY <1>2, <2>1, <3>1, AdvanceSteps, StepTracks
    <3>2. CASE UNCHANGED stmtVars
      BY <1>2, <2>1, <3>2, AdvanceSteps DEF stmtVars, StatusTracksVm
    <3>3. QED
      BY <2>1, <3>1, <3>2, AdvanceSteps
  <2>2. CASE Reset
    BY <1>2, <2>2 DEF Reset, StatusTracksVm, TypeOK, fixedVars
  <2>3. CASE UNCHANGED vars
    BY <1>2, <2>3 DEF vars, StatusTracksVm
  <2>4. QED
    BY <1>2, <2>1, <2>2, <2>3 DEF Next
<1>3. QED
  BY <1>1, <1>2, TypeCorrect, PTL DEF Spec

-----------------------------------------------------------------------------
\* Why an assertion takes an empty result or a change of way: an iterator that
\* a pass keeps to is on a row until it says that it is at the end, and the
\* get() of >> steps at most once, from the start.
AssertInv ==
    /\ asserted => rows = 0 \/ switches > 0
    /\ vm = "row" => status = "row"
    /\ call = "extracting" => status = "row" \/ rows = 0
    /\ status = "done" /\ way \in Iters /\ iter[way] \in {"unread", "read"}
         => switches > 0

\* The calls of an iterator keep it.
LEMMA IteratorAsserts ==
    ASSUME TypeOK, AssertInv, NEW i \in Iters, IteratorReads(i)
    PROVE  AssertInv'
<1>1. CASE IteratorConstruct(i)
  <2>1. CASE StepThrows /\ UNCHANGED <<iter, val, wayVars>>
    BY <1>1, <2>1 DEF IteratorConstruct, StepThrows, AssertInv, TypeOK, fixedVars, wayVars
  <2>2. CASE StepOn(i) /\ Uses(i, {"none", "extract"})
    BY <1>1, <2>2 DEF IteratorConstruct, StepOn, StepRow, StepDone, Holds, Uses,
                      AssertInv, TypeOK, fixedVars
  <2>3. CASE /\ \/ status = "row" /\ Holds(i, "unread", pos)
                \/ status = "done" /\ Holds(i, "end", val[i])
             /\ UNCHANGED stmtVars /\ Uses(i, {"none", "extract"})
    BY <1>1, <2>3 DEF IteratorConstruct, Holds, Uses, AssertInv, TypeOK,
                      fixedVars, stmtVars
  <2>4. QED
    BY <1>1, <2>1, <2>2, <2>3 DEF IteratorConstruct
<1>2. CASE IteratorDereference(i)
  BY <1>2 DEF IteratorDereference, Holds, Uses, AssertInv, TypeOK, fixedVars, stmtVars
<1>3. CASE IteratorIncrement(i)
  <2>1. asserted' => rows' = 0 \/ switches' > 0
    BY <1>3 DEF IteratorIncrement, Asserts, Uses, AssertInv, TypeOK, fixedVars
  <2>2. CASE StepOn(i)
    BY <1>3, <2>1, <2>2 DEF IteratorIncrement, StepOn, StepRow, StepDone, Holds,
                            Uses, AssertInv, TypeOK, fixedVars
  <2>3. CASE StepThrows /\ UNCHANGED <<iter, val>>
    BY <1>3, <2>1, <2>3 DEF IteratorIncrement, StepThrows, Uses, AssertInv, TypeOK,
                            fixedVars
  <2>4. QED
    BY <1>3, <2>2, <2>3 DEF IteratorIncrement
<1>4. QED
  BY <1>1, <1>2, <1>3 DEF IteratorReads

\* The invariant behind the assertions of get() and step().
LEMMA AssertInvHolds == Spec => []AssertInv
<1>1. Init => AssertInv
  BY ItersAssumption DEF Init, AssertInv
<1>2. ASSUME TypeOK, AssertInv, [Next]_vars PROVE AssertInv'
  <2>1. CASE CoreStep
    BY <1>2, <2>1, ItersAssumption
    DEF CoreStep, StepRow, StepDone, StepThrows, Uses, AssertInv, TypeOK, fixedVars
  <2>2. CASE AutoStep
    BY <1>2, <2>2, ItersAssumption
    DEF AutoStep, StepRow, StepDone, StepThrows, NextPos, Uses, AssertInv, TypeOK,
        fixedVars
  <2>3. CASE ExtractRow
    BY <1>2, <2>3, ItersAssumption
    DEF ExtractRow, Asserts, StepRow, StepDone, StepThrows, Uses, AssertInv, TypeOK,
        fixedVars
  <2>4. CASE \E i \in Iters : IteratorReads(i)
    BY <1>2, <2>4, IteratorAsserts
  <2>5. CASE Reset
    BY <1>2, <2>5, ItersAssumption DEF Reset, AssertInv, TypeOK, fixedVars, wayVars
  <2>6. CASE UNCHANGED vars
    BY <1>2, <2>6 DEF vars, AssertInv
  <2>7. CASE ListReturns
    BY <1>2, <2>7 DEF ListReturns, AssertInv, fixedVars, stmtVars, wayVars
  <2>8. QED
    BY <1>2, <2>1, <2>2, <2>3, <2>4, <2>5, <2>6, <2>7 DEF Next, Advance
<1>3. QED
  BY <1>1, <1>2, TypeCorrect, PTL DEF Spec

(***************************************************************************)
(* The assertions of get() and step() fail for no client that looks at     *)
(* status() first, except in the >> of an empty result and in an iterator  *)
(* whose statement another way of reading has finished.                    *)
(***************************************************************************)
THEOREM AssertionsHold == Spec => []AssertsOnEmptyOnly
<1>1. AssertInv => AssertsOnEmptyOnly
  BY DEF AssertInv, AssertsOnEmptyOnly
<1>2. QED
  BY <1>1, AssertInvHolds, PTL

-----------------------------------------------------------------------------
(***************************************************************************)
(* Where the statement is for the way that reads it.  Operator >> and an   *)
(* iterator whose value has not been dereferenced are ahead: the row the   *)
(* VM is on is still to be handed out.                                     *)
(***************************************************************************)
Ahead == way = "extract" \/ (way \in Iters /\ iter[way] = "unread")

Passed == IF status = "row" /\ ~Ahead THEN pos ELSE Behind

CountInv ==
    ~failed /\ ~asserted =>
        /\ way = "none" => status = "reset" /\ taken = <<>>
        /\ way \in Iters /\ iter[way] = "unread" => status = "row" /\ val[way] = pos
        /\ Account(taken, Passed, switches)

\* The row the VM is on, 0 if it is before the first one.
Current == IF status = "row" THEN pos ELSE 0

\* The rows passed are a number, and nearly those up to the current one.
LEMMA PassedType ==
    ASSUME TypeOK, StatusTracksVm, ~failed
    PROVE  /\ Passed \in Nat /\ Current \in Nat /\ Behind \in Nat
           /\ Behind <= Passed
           /\ status = "row" => /\ Passed <= Current /\ Current <= Passed + 1
                                /\ Ahead => Current = Passed + 1
                                /\ ~Ahead => Current = Passed
           /\ status = "reset" => Passed = 0
           /\ status = "done" => Passed = rows
BY DEF TypeOK, StatusTracksVm, Passed, Current, Behind

\* One sqlite3_step of a statement that is not done.
LEMMA StepMoves ==
    ASSUME TypeOK, StatusTracksVm, StepAny, ~failed', status # "done"
    PROVE  /\ ~failed
           /\ \/ StepRow /\ status' = "row" /\ pos' = Current + 1
              \/ StepDone /\ status' = "done" /\ rows = Current
<1>1. ~failed
  BY DEF StepAny, StepRow, StepDone, StepThrows
<1>2. CASE StepRow
  BY <1>1, <1>2 DEF StepRow, NextPos, Current, StatusTracksVm, TypeOK
<1>3. CASE StepDone
  BY <1>1, <1>3 DEF StepDone, NextPos, Current, StatusTracksVm, TypeOK
<1>4. QED
  BY <1>1, <1>2, <1>3 DEF StepAny, StepThrows

\* A call that hands out no row.
LEMMA AccountKept ==
    ASSUME NEW s \in Seq(Nat), NEW p \in Nat, NEW q \in Nat, NEW w \in Nat,
           NEW v, v = w \/ v = w + 1, Account(s, p, w),
           v = w => q = p, q <= p + 1, p <= q + 1
    PROVE  Account(s, q, v)
<1>1. CASE v = w
  BY <1>1
<1>2. CASE v = w + 1
  BY <1>2, AccountSwitch
<1>3. QED
  BY <1>1, <1>2

\* A call that hands out row n.
LEMMA AccountTaken ==
    ASSUME NEW s \in Seq(Nat), NEW p \in Nat, NEW q \in Nat, NEW w \in Nat,
           NEW n \in Nat, NEW v, v = w \/ v = w + 1, Account(s, p, w),
           v = w => n = p + 1 /\ q = p + 1,
           p <= q, q <= p + 1 \/ (q = p + 2 /\ n = q)
    PROVE  Account(Append(s, n), q, v)
<1>1. CASE v = w
  BY <1>1, AccountNext
<1>2. CASE v = w + 1
  BY <1>2, AccountSwitchTake
<1>3. QED
  BY <1>1, <1>2

\* A pass begins with nothing read.
LEMMA AccountEmpty == Account(<<>>, 0, 0)
<1>1. Cardinality(Settled(<<>>, 0)) \in Nat
  BY SettledFinite
<1>2. Len(<<>>) = 0
  OBVIOUS
<1>3. InOrder(<<>>)
  BY DEF InOrder
<1>4. QED
  BY <1>1, <1>2, <1>3 DEF Account

\* step() and get().
LEMMA CoreCount ==
    ASSUME TypeOK, StatusTracksVm, CountInv, CoreStep, ~failed', ~asserted'
    PROVE  CountInv'
<1>1. /\ StepAny /\ status # "done" /\ ~asserted /\ rows' = rows
      /\ way' = "get" /\ (switches' = switches \/ switches' = switches + 1)
      /\ switches' = switches => way \in {"none", "get"}
  BY DEF CoreStep, StepAny, Uses, fixedVars, TypeOK
<1>2. /\ ~failed
      /\ \/ StepRow /\ status' = "row" /\ pos' = Current + 1
         \/ StepDone /\ status' = "done" /\ rows = Current
  BY <1>1, StepMoves
<1>3. /\ taken \in Seq(Nat) /\ switches \in Nat /\ rows \in Nat
      /\ Passed \in Nat /\ Current \in Nat
      /\ Passed <= Current /\ Current <= Passed + 1
      /\ switches' = switches => Current = Passed
      /\ Account(taken, Passed, switches)
  <2>1. /\ way = "none" => status = "reset"
        /\ Account(taken, Passed, switches)
    BY <1>1, <1>2 DEF CountInv
  <2>2. way = "get" => ~Ahead
    BY ItersAssumption DEF Ahead
  <2>3. status # "row" => Current = 0
    BY DEF Current
  <2>4. QED
    BY <1>1, <1>2, <2>1, <2>2, <2>3, PassedType DEF TypeOK
<1>4. ~Ahead'
  BY <1>1, ItersAssumption DEF Ahead
<1>5. Account(taken', Passed', switches')
  <2>1. CASE StepRow
    <3>1. taken' = Append(taken, Current + 1) /\ Passed' = Current + 1
      BY <1>2, <1>4, <2>1 DEF CoreStep, StepRow, StepDone, StepThrows, Passed
    <3>2. Account(Append(taken, Current + 1), Current + 1, switches')
      BY <1>1, <1>3, AccountTaken
    <3>3. QED
      BY <3>1, <3>2
  <2>2. CASE StepDone
    <3>1. taken' = taken /\ Passed' = Current
      BY <1>1, <1>2, <2>2 DEF CoreStep, StepRow, StepDone, StepThrows, Passed, Behind
    <3>2. Account(taken, Current, switches')
      BY <1>1, <1>3, AccountKept
    <3>3. QED
      BY <3>1, <3>2
  <2>3. QED
    BY <1>2, <2>1, <2>2
<1>6. QED
  BY <1>1, <1>5, ItersAssumption DEF CountInv

\* The get() of operator >> on a reset statement.
LEMMA AutoStepCount ==
    ASSUME TypeOK, StatusTracksVm, CountInv, AutoStep, ~failed', ~asserted'
    PROVE  CountInv'
<1>1. /\ StepAny /\ status = "reset" /\ ~asserted /\ rows' = rows /\ taken' = taken
      /\ way' = "extract" /\ (switches' = switches \/ switches' = switches + 1)
  BY DEF AutoStep, StepAny, Uses, fixedVars, TypeOK
<1>2. /\ ~failed /\ Current = 0
      /\ \/ StepRow /\ status' = "row" /\ pos' = Current + 1
         \/ StepDone /\ status' = "done" /\ rows = Current
  BY <1>1, StepMoves DEF Current
<1>3. Passed = 0 /\ Account(taken, 0, switches)
  BY <1>1, <1>2, PassedType DEF CountInv
<1>4. Ahead'
  BY <1>1 DEF Ahead
<1>5. Passed' = 0
  BY <1>1, <1>2, <1>4 DEF Passed, Behind
<1>6. Account(taken, 0, switches')
  BY <1>1, <1>3, AccountKept DEF TypeOK
<1>7. Account(taken', Passed', switches')
  BY <1>1, <1>5, <1>6
<1>8. QED
  BY <1>1, <1>7, ItersAssumption DEF CountInv

\* Operator >> on a row.
LEMMA ExtractCount ==
    ASSUME TypeOK, StatusTracksVm, CountInv, ExtractRow, ~failed', ~asserted'
    PROVE  CountInv'
<1> ~asserted /\ status = "row"
  BY DEF ExtractRow, Asserts
<1>1. /\ StepAny /\ rows' = rows /\ taken' = Append(taken, pos)
      /\ way' = "extract" /\ (switches' = switches \/ switches' = switches + 1)
      /\ switches' = switches => way \in {"none", "extract"}
  BY DEF ExtractRow, StepAny, Uses, fixedVars, TypeOK
<1>2. /\ ~failed /\ Current = pos
      /\ \/ StepRow /\ status' = "row" /\ pos' = Current + 1
         \/ StepDone /\ status' = "done" /\ rows = Current
  BY <1>1, StepMoves DEF Current
<1>3. /\ taken \in Seq(Nat) /\ switches \in Nat /\ pos \in Nat /\ Passed \in Nat
      /\ Passed <= pos /\ pos <= Passed + 1
      /\ switches' = switches => pos = Passed + 1
      /\ Account(taken, Passed, switches)
  <2>1. way # "none" /\ Account(taken, Passed, switches)
    BY <1>1, <1>2 DEF CountInv
  <2>2. way = "extract" => Ahead
    BY DEF Ahead
  <2>3. QED
    BY <1>1, <1>2, <2>1, <2>2, PassedType DEF TypeOK
<1>4. Ahead'
  BY <1>1 DEF Ahead
<1>5. Passed' = pos
  BY <1>1, <1>2, <1>3, <1>4 DEF Passed, Behind
<1>6. Account(Append(taken, pos), pos, switches')
  BY <1>1, <1>3, AccountTaken
<1>7. Account(taken', Passed', switches')
  BY <1>1, <1>5, <1>6
<1>8. QED
  BY <1>1, <1>7, ItersAssumption DEF CountInv

\* The constructor of an iterator.
LEMMA ConstructCount ==
    ASSUME TypeOK, StatusTracksVm, CountInv, NEW i \in Iters, IteratorConstruct(i),
           ~failed', ~asserted'
    PROVE  CountInv'
<1>1. /\ ~asserted /\ rows' = rows /\ taken' = taken
      /\ way' = i /\ (switches' = switches \/ switches' = switches + 1)
      /\ switches' = switches => way \in {"none", "extract"}
  BY DEF IteratorConstruct, StepThrows, Uses, fixedVars, TypeOK
<1>2. ~failed
  BY DEF IteratorConstruct, StepOn, StepRow, StepDone, StepThrows, stmtVars
<1>3. /\ taken \in Seq(Nat) /\ switches \in Nat /\ Passed \in Nat
      /\ way = "none" => status = "reset"
      /\ Account(taken, Passed, switches)
  BY <1>1, <1>2, PassedType DEF CountInv, TypeOK
<1>4. /\ Passed' \in Nat /\ (switches' = switches => Passed' = Passed)
      /\ Passed' <= Passed + 1 /\ Passed <= Passed' + 1
      /\ iter'[i] = "unread" => status' = "row" /\ val'[i] = pos'
  <2>1. CASE status = "reset" /\ StepOn(i)
    <3>1. /\ Passed = 0 /\ Current = 0
          /\ \/ StepRow /\ status' = "row" /\ pos' = Current + 1
             \/ StepDone /\ status' = "done" /\ rows = Current
      BY <1>2, <2>1, StepMoves, PassedType DEF StepOn, StepAny, Current
    <3>2. \/ status' = "row" /\ pos' = 1 /\ Holds(i, "unread", pos')
          \/ status' = "done" /\ rows = 0 /\ Holds(i, "end", val[i])
      BY <2>1, <3>1 DEF StepOn, StepRow, StepDone
    <3>3. Passed' = 0 /\ (iter'[i] = "unread" => status' = "row" /\ val'[i] = pos')
      BY <1>1, <3>2 DEF Holds, Passed, Ahead, Behind, TypeOK
    <3>4. QED
      BY <3>1, <3>3
  <2>2. CASE status = "row" /\ Holds(i, "unread", pos) /\ UNCHANGED stmtVars
    <3>1. /\ iter'[i] = "unread" /\ status' = "row" /\ pos' = pos /\ val'[i] = pos
      BY <2>2 DEF Holds, stmtVars, TypeOK
    <3>2. Passed' = pos - 1
      BY <1>1, <3>1 DEF Passed, Ahead, Behind
    <3>3. /\ Current = pos /\ Passed <= Current /\ Current <= Passed + 1 /\ pos \in Nat
          /\ Current \in Nat /\ (Ahead => Current = Passed + 1)
          /\ StatusTracksVm /\ pos >= 1
      BY <1>2, <2>2, PassedType DEF Current, StatusTracksVm, TypeOK
    <3>4. switches' = switches => Ahead
      BY <1>1, <1>3, <2>2 DEF Ahead
    <3>5. QED
      BY <1>3, <3>1, <3>2, <3>3, <3>4
  <2>3. CASE status = "done" /\ Holds(i, "end", val[i]) /\ UNCHANGED stmtVars
    <3>1. iter'[i] = "end" /\ status' = "done"
      BY <2>3 DEF Holds, stmtVars, TypeOK
    <3>2. Passed' = rows /\ Passed = rows
      BY <1>1, <1>2, <2>3, <3>1, PassedType DEF Passed, Behind
    <3>3. QED
      BY <1>3, <3>1, <3>2
  <2>4. QED
    BY <2>1, <2>2, <2>3 DEF IteratorConstruct, StepThrows
<1>5. Account(taken, Passed', switches')
  BY <1>1, <1>3, <1>4, AccountKept
<1>6. QED
  BY <1>1, <1>4, <1>5, ItersAssumption DEF CountInv

\* The row an iterator holds.
LEMMA DereferenceCount ==
    ASSUME TypeOK, StatusTracksVm, CountInv, NEW i \in Iters, IteratorDereference(i),
           ~failed', ~asserted'
    PROVE  CountInv'
<1>1. /\ ~asserted /\ ~failed /\ rows' = rows /\ status' = status /\ pos' = pos
      /\ taken' = Append(taken, val[i]) /\ val[i] \in Nat
      /\ iter[i] = "unread" /\ iter'[i] = "read"
      /\ way' = i /\ (switches' = switches \/ switches' = switches + 1)
      /\ switches' = switches => way = i
  BY DEF IteratorDereference, Holds, Uses, fixedVars, stmtVars, TypeOK
<1>2. /\ taken \in Seq(Nat) /\ switches \in Nat /\ Passed \in Nat
      /\ Account(taken, Passed, switches)
  BY <1>1, PassedType DEF CountInv, TypeOK
<1>3. ~Ahead'
  BY <1>1, ItersAssumption DEF Ahead
<1>4. Passed' = IF status = "row" THEN pos ELSE Behind
  BY <1>1, <1>3 DEF Passed, Behind
<1>5. Passed' \in Nat /\ Passed <= Passed' /\ Passed' <= Passed + 1
  BY <1>1, <1>4, PassedType DEF Passed, Current
<1>6. switches' = switches => val[i] = Passed + 1 /\ Passed' = Passed + 1
  <2> SUFFICES ASSUME switches' = switches
               PROVE  val[i] = Passed + 1 /\ Passed' = Passed + 1
    OBVIOUS
  <2>1. way = i /\ iter[way] = "unread"
    BY <1>1
  <2>2. Ahead /\ status = "row" /\ val[i] = pos
    BY <1>1, <2>1 DEF Ahead, CountInv
  <2>3. QED
    BY <1>1, <1>4, <2>2, PassedType DEF Current
<1>7. Account(Append(taken, val[i]), Passed', switches')
  BY <1>1, <1>2, <1>5, <1>6, AccountTaken
<1>8. QED
  BY <1>1, <1>7, ItersAssumption DEF CountInv

\* The increment of an iterator.
LEMMA IncrementCount ==
    ASSUME TypeOK, StatusTracksVm, CountInv, NEW i \in Iters, IteratorIncrement(i),
           ~failed', ~asserted'
    PROVE  CountInv'
<1> ~asserted /\ status # "done"
  BY DEF IteratorIncrement, Asserts
<1>1. /\ rows' = rows /\ taken' = taken /\ iter[i] = "read"
      /\ way' = i /\ (switches' = switches \/ switches' = switches + 1)
      /\ switches' = switches => way = i
  BY DEF IteratorIncrement, Uses, fixedVars, TypeOK
<1>2. StepOn(i) /\ StepAny
  BY DEF IteratorIncrement, StepOn, StepAny, StepThrows
<1>3. /\ ~failed
      /\ \/ StepRow /\ status' = "row" /\ pos' = Current + 1
         \/ StepDone /\ status' = "done" /\ rows = Current
  BY <1>1, <1>2, StepMoves
<1>4. \/ status' = "row" /\ pos' = Current + 1 /\ Holds(i, "unread", pos')
      \/ status' = "done" /\ rows = Current /\ Holds(i, "end", val[i])
  BY <1>2, <1>3 DEF StepOn, StepRow, StepDone
<1>5. /\ taken \in Seq(Nat) /\ switches \in Nat /\ Passed \in Nat /\ Current \in Nat
      /\ Passed <= Current /\ Current <= Passed + 1
      /\ Account(taken, Passed, switches)
      /\ ~Ahead => Current = Passed
  BY <1>1, <1>3, PassedType DEF CountInv, Current, TypeOK
<1>6. /\ Passed' = Current
      /\ iter'[i] = "unread" => status' = "row" /\ val'[i] = pos'
  BY <1>1, <1>4, <1>5 DEF Holds, Passed, Ahead, Behind, TypeOK
<1>7. switches' = switches => Current = Passed
  BY <1>1, <1>5, ItersAssumption DEF Ahead
<1>8. Account(taken, Current, switches')
  BY <1>1, <1>5, <1>7, AccountKept
<1>9. Account(taken', Passed', switches')
  BY <1>1, <1>6, <1>8
<1>10. QED
  BY <1>1, <1>6, <1>9, ItersAssumption DEF CountInv

\* Every call keeps the account.
LEMMA NextCount ==
    ASSUME TypeOK, StatusTracksVm, CountInv, [Next]_vars
    PROVE  CountInv'
<1> SUFFICES ASSUME ~failed', ~asserted' PROVE CountInv'
  BY DEF CountInv
<1>1. CASE CoreStep
  BY <1>1, CoreCount
<1>2. CASE AutoStep
  BY <1>2, AutoStepCount
<1>3. CASE ExtractRow
  BY <1>3, ExtractCount
<1>4. CASE \E i \in Iters : IteratorReads(i)
  BY <1>4, ConstructCount, DereferenceCount, IncrementCount DEF IteratorReads
<1>5. CASE Reset
  <2>1. ~rc
    BY <1>5 DEF Reset, StatusTracksVm
  <2>2. /\ status' = "reset" /\ taken' = <<>> /\ way' = "none" /\ switches' = 0
    BY <1>5, <2>1 DEF Reset
  <2>3. Passed' = 0
    BY <2>2 DEF Passed, Behind
  <2>4. Account(taken', Passed', switches')
    BY <2>2, <2>3, AccountEmpty
  <2>5. QED
    BY <2>2, <2>4, ItersAssumption DEF CountInv
<1>6. CASE ListReturns \/ UNCHANGED vars
  <2>1. UNCHANGED <<failed, asserted, way, switches, status, taken, iter, val, pos, rows>>
    BY <1>6 DEF ListReturns, vars, stmtVars, wayVars, fixedVars
  <2>2. Passed' = Passed
    BY <2>1 DEF Passed, Behind, Ahead
  <2>3. QED
    BY <2>1, <2>2 DEF CountInv
<1>7. QED
  BY <1>1, <1>2, <1>3, <1>4, <1>5, <1>6 DEF Next, Advance

\* The account holds in every pass.
LEMMA CountInvHolds == Spec => []CountInv
<1>1. Init => CountInv
  <2> SUFFICES ASSUME Init PROVE CountInv
    OBVIOUS
  <2>1. Passed = 0 /\ taken = <<>> /\ switches = 0
    BY DEF Init, Passed, Behind
  <2>2. QED
    BY <2>1, AccountEmpty, ItersAssumption DEF Init, CountInv
<1>2. TypeOK /\ StatusTracksVm /\ CountInv /\ [Next]_vars => CountInv'
  BY NextCount
<1>3. QED
  BY <1>1, <1>2, TypeCorrect, StatusIsTrue, PTL DEF Spec

(***************************************************************************)
(* A pass that keeps to step() and get(), to >> or to one iterator, or     *)
(* hands over from >> to a new iterator, is handed every row once and in   *)
(* order, and told done after the last one.                                *)
(***************************************************************************)
THEOREM ReadsEveryRow == Spec => []ReadsAllInOrder
<1>1. TypeOK /\ StatusTracksVm /\ CountInv => ReadsAllInOrder
  <2> SUFFICES ASSUME TypeOK, StatusTracksVm, CountInv,
                      ~failed, ~asserted, switches = 0
               PROVE  /\ \A k \in DOMAIN taken : taken[k] = k
                      /\ Len(taken) <= rows
                      /\ status = "done" /\ call = "idle" => Len(taken) = rows
    BY DEF ReadsAllInOrder
  <2>1. Len(taken) = Passed /\ InOrder(taken)
    BY DEF CountInv, Account
  <2>2. DOMAIN taken = 1 .. Len(taken)
    BY DEF TypeOK
  <2>3. Passed <= rows /\ (status = "done" => Passed = rows)
    BY DEF Passed, Behind, StatusTracksVm, TypeOK
  <2>4. QED
    BY <2>1, <2>2, <2>3 DEF InOrder
<1>2. QED
  BY <1>1, CountInvHolds, TypeCorrect, StatusIsTrue, PTL

(***************************************************************************)
(* However a client mixes the ways of reading, each change of way repeats  *)
(* at most one row and leaves out at most one.                             *)
(***************************************************************************)
THEOREM SwitchCostsOneRow == Spec => []OneRowPerSwitch
<1>1. TypeOK /\ StatusTracksVm /\ CountInv => OneRowPerSwitch
  <2> SUFFICES ASSUME TypeOK, StatusTracksVm, CountInv, ~failed, ~asserted
               PROVE  /\ Len(taken) <= Cardinality(Taken) + switches
                      /\ Cardinality((1 .. Behind) \ Taken) <= switches
    BY DEF OneRowPerSwitch
  <2>1. Account(taken, Passed, switches)
    BY DEF CountInv
  <2>2. Passed \in Nat /\ Behind \in Nat /\ Behind <= Passed
    BY PassedType
  <2>3. taken \in Seq(Nat) /\ switches \in Nat
    BY DEF TypeOK
  <2>4. Elements(taken) = Taken
    BY DEF Elements, Taken
  <2>5. QED
    BY <2>1, <2>2, <2>3, <2>4, AccountBounds
<1>2. QED
  BY <1>1, CountInvHolds, TypeCorrect, StatusIsTrue, PTL

-----------------------------------------------------------------------------
\* invoke_pragma returns an empty vector for every list: its loop never calls
\* operator >>, however many rows there are.
THEOREM ListReadsNothing == Spec => [](client = "list" => taken = <<>>)
<1> DEFINE Untouched == client = "list" => taken = <<>>
<1>1. Init => Untouched
  BY DEF Init
<1>2. Untouched /\ [Next]_vars => Untouched'
  <2> SUFFICES ASSUME Untouched, [Next]_vars, client' = "list"
               PROVE  taken' = <<>>
    OBVIOUS
  <2>1. client = "list"
    BY AdvanceSteps DEF Next, Reset, fixedVars, vars
  <2>2. ListReturns \/ UNCHANGED vars
    BY <2>1, OnlyReaderExtracts
    DEF Next, Advance, CoreStep, AutoStep, ExtractRow, IteratorReads,
        IteratorConstruct, IteratorDereference, IteratorIncrement, Reset
  <2>3. QED
    BY <2>1, <2>2 DEF ListReturns, vars
<1>3. QED
  BY <1>1, <1>2, PTL DEF Spec

-----------------------------------------------------------------------------
(***************************************************************************)
(* The steps behind Drains.                                                *)
(***************************************************************************)

\* What one call does to a statement that is not done: it ends the result, is
\* one of the failures that are counted, goes to the next row, reads the row an
\* iterator holds, or makes an iterator where the statement is - which is one
\* of the changes of way that are counted, unless operator >> (or nothing) read
\* before.
OneNearer ==
    \/ status' = "done"
    \/ failures' = failures + 1 /\ failures' <= MaxFailures
    \/ vm' = "row" /\ failures' = failures /\ NextPos' > NextPos /\ NextPos' <= rows + 1
    \/ \E i \in Iters :
          /\ UNCHANGED stmtVars /\ way' = i
          /\ \/ iter[i] = "unread" /\ iter'[i] = "read"
             \/ switches' = switches + 1 /\ switches' <= MaxSwitches
             \/ way \in {"none", "extract"}

\* One sqlite3_step brings a statement nearer to its end.
LEMMA StepNearer == ASSUME TypeOK, StepAny PROVE OneNearer
<1>1. CASE StepRow
  <2>1. NextPos \in Nat /\ rows \in Nat
    BY NextPosType DEF TypeOK
  <2>2. vm' = "row" /\ pos' = NextPos /\ NextPos <= rows /\ failures' = failures
    BY <1>1 DEF StepRow
  <2>3. NextPos' = NextPos + 1
    BY <2>2 DEF NextPos
  <2>4. QED
    BY <2>1, <2>2, <2>3 DEF OneNearer
<1>2. CASE StepDone
  BY <1>2 DEF StepDone, OneNearer
<1>3. CASE StepThrows
  BY <1>3, BoundsAssumption DEF StepThrows, OneNearer, TypeOK
<1>4. QED
  BY <1>1, <1>2, <1>3 DEF StepAny

\* No way of reading, and no mixture of them, goes round in circles: a client
\* that reads on makes progress with each call, for a result of any size.
THEOREM ReadingProgresses ==
    Spec => [][Advance /\ client # "list" /\ status # "done" => OneNearer]_vars
<1>1. TypeOK => (Advance /\ client # "list" /\ status # "done" => OneNearer)
  <2> SUFFICES ASSUME TypeOK, Advance, client # "list", status # "done"
               PROVE  OneNearer
    OBVIOUS
  <2>1. CASE StepAny
    BY <2>1, StepNearer
  <2>2. ASSUME NEW i \in Iters, IteratorConstruct(i), ~StepAny PROVE OneNearer
    <3>1. UNCHANGED stmtVars /\ Uses(i, {"none", "extract"})
      BY <2>2 DEF IteratorConstruct, StepOn, StepAny
    <3>2. QED
      BY <3>1 DEF Uses, OneNearer
  <2>3. ASSUME NEW i \in Iters, IteratorDereference(i) PROVE OneNearer
    BY <2>3 DEF IteratorDereference, Holds, Uses, OneNearer, TypeOK
  <2>4. QED
    BY <2>1, <2>2, <2>3
    DEF Advance, CoreStep, AutoStep, ExtractRow, IteratorReads, IteratorIncrement,
        ListReturns, StepOn, StepAny
<1>2. QED
  BY <1>1, TypeCorrect, PTL
=============================================================================
