---------------------------- MODULE ValuesProofs ----------------------------
(***************************************************************************)
(* Theorems about Values, for any widths of the integer types and for      *)
(* texts and blobs of any length.                                          *)
(***************************************************************************)
EXTENDS Values, WellFoundedInduction, TLAPS

-----------------------------------------------------------------------------
(* Texts                                                                   *)

\* A set of numbers that is not empty has a least element.
LEMMA LeastNumber ==
    ASSUME NEW S \in SUBSET Nat, S # {}
    PROVE  Min(S) \in S /\ \A y \in S : Min(S) <= y
<1>1. PICK x \in S : \A y \in S : <<y, x>> \notin OpToRel(<, Nat)
  BY NatLessThanWellFounded, WFMin
<1>2. \A y \in S : ~(y < x)
  BY <1>1 DEF OpToRel
<1>3. \A y \in S : x <= y
  BY <1>2
<1>4. QED
  BY <1>3 DEF Min

\* A C string is a text without a 0, and stays as it is.
LEMMA CStringEnds ==
    ASSUME NEW s \in Seq(Nat)
    PROVE  CString(s) \in Seq(Nat) /\ CString(CString(s)) = CString(s)
<1> DEFINE ends == {i \in DOMAIN s : s[i] = 0}
<1>1. CASE ends = {}
  BY <1>1 DEF CString
<1>2. CASE ends # {}
  <2>1. Min(ends) \in ends /\ \A i \in ends : Min(ends) <= i
    <3>1. ends \in SUBSET Nat
      OBVIOUS
    <3> HIDE DEF ends
    <3>2. QED
      BY <1>2, <3>1, LeastNumber
  <2>2. PICK k \in 1 .. Len(s) : k = Min(ends) /\ \A i \in 1 .. k-1 : s[i] # 0
    <3>1. PICK k : k = Min(ends)
      OBVIOUS
    <3>2. k \in DOMAIN s /\ \A i \in DOMAIN s : s[i] = 0 => k <= i
      BY <2>1, <3>1
    <3>3. k \in 1 .. Len(s) /\ \A i \in 1 .. k-1 : s[i] # 0
      BY <3>2
    <3>4. QED
      BY <3>1, <3>3
  <2> DEFINE c == SubSeq(s, 1, k - 1)
  <2>3. c \in Seq(Nat) /\ Len(c) = k - 1 /\ \A i \in 1 .. k-1 : c[i] = s[i]
    OBVIOUS
  <2>4. CString(s) = c
    BY <1>2, <2>2 DEF CString
  <2> HIDE DEF c
  <2>5. {i \in DOMAIN c : c[i] = 0} = {}
    BY <2>2, <2>3
  <2>6. CString(c) = c
    BY <2>5 DEF CString
  <2>7. QED
    BY <2>3, <2>4, <2>6
<1>3. QED
  BY <1>1, <1>2

-----------------------------------------------------------------------------
(* Integers                                                                *)

\* Casts to a signed type: the range, what fits, and what is one turn too high.
LEMMA SignedIs ==
    ASSUME NEW h \in Nat \ {0}, NEW n \in Int
    PROVE  /\ Signed(h, n) \in -h .. h - 1
           /\ n \in -h .. h - 1 => Signed(h, n) = n
           /\ n \in h .. 2 * h - 1 => Signed(h, n) = n - 2 * h
<1> DEFINE m == 2 * h
           k == n + h
<1>1. m \in Nat /\ m > 0 /\ k \in Int
  OBVIOUS
<1>2. /\ k % m \in 0 .. m - 1
      /\ k \in 0 .. m - 1 => k % m = k
      /\ k \in m .. 2 * m - 1 => k % m = k - m
  <2> HIDE DEF m, k
  <2>1. QED
    BY <1>1
<1>3. QED
  BY <1>2 DEF Signed

\* Casts to an unsigned type: what fits, and what is one turn too low.
LEMMA UnsignedIs ==
    ASSUME NEW h \in Nat \ {0}, NEW n \in Int
    PROVE  /\ n \in 0 .. 2 * h - 1 => Unsigned(h, n) = n
           /\ n \in -h .. -1 => Unsigned(h, n) = n + 2 * h
<1> DEFINE m == 2 * h
<1>1. m \in Nat /\ m > 0
  OBVIOUS
<1>2. /\ n \in 0 .. m - 1 => n % m = n
      /\ n \in -m .. -1 => n % m = n + m
  <2> HIDE DEF m
  <2>1. QED
    BY <1>1
<1>3. QED
  BY <1>2 DEF Unsigned

\* A type is as wide as its raw type, or at most half as wide.
LEMMA HalfFits ==
    ASSUME NEW t \in IntTypes
    PROVE  /\ Half(t) \in Nat \ {0} /\ RawHalf(t) \in Nat \ {0}
           /\ Half(t) = RawHalf(t) \/ 2 * Half(t) <= RawHalf(t)
           /\ H32 <= RawHalf(t) /\ RawHalf(t) <= H64
BY WidthAssumption DEF IntTypes, SignedTypes, UnsignedTypes, Half, RawHalf

\* The integers of a type.
LEMMA IntsOfType ==
    /\ \A t \in SignedTypes : IntsOf(t) = -Half(t) .. Half(t) - 1
    /\ \A t \in UnsignedTypes : IntsOf(t) = 0 .. 2 * Half(t) - 1
    /\ IntsOf("bool") = 0 .. 1
BY DEF SignedTypes, UnsignedTypes, IntsOf

\* The types that go through an integer column, bool among them.
IntLike == IntTypes \cup {"bool"}

\* Only an unsigned number of the full width is too large for its raw type.
LEMMA IntFacts ==
    ASSUME NEW t \in IntLike, NEW n \in IntsOf(t)
    PROVE  /\ n \in Int
           /\ RawHalf(t) \in Nat \ {0} /\ H32 <= RawHalf(t) /\ RawHalf(t) <= H64
           /\ n \in -RawHalf(t) .. 2 * RawHalf(t) - 1
           /\ n >= RawHalf(t) => t \in {"uint32", "uint64"} /\ Half(t) = RawHalf(t)
<1>1. CASE t = "bool"
  BY <1>1, IntsOfType, WidthAssumption DEF RawHalf
<1>2. CASE t \in SignedTypes
  <2>1. n \in -Half(t) .. Half(t) - 1
    BY <1>2, IntsOfType
  <2>2. t \in IntTypes
    BY <1>2 DEF IntTypes
  <2> DEFINE a == Half(t)
             r == RawHalf(t)
  <2>3. a \in Nat \ {0} /\ r \in Nat \ {0} /\ (a = r \/ 2 * a <= r) /\ H32 <= r /\ r <= H64
    BY <2>2, HalfFits
  <2> HIDE DEF a, r
  <2>4. n \in Int /\ n \in -r .. 2 * r - 1 /\ ~(n >= r)
    BY <2>1, <2>3 DEF a
  <2>5. QED
    BY <2>3, <2>4 DEF r
<1>3. CASE t \in UnsignedTypes
  <2>1. n \in 0 .. 2 * Half(t) - 1
    BY <1>3, IntsOfType
  <2>2. t \in {"uint8", "uint16"} => 2 * Half(t) <= RawHalf(t)
    BY WidthAssumption DEF Half, RawHalf
  <2>3. QED
    BY <1>3, <2>1, <2>2, HalfFits DEF IntTypes, UnsignedTypes
<1>4. QED
  BY <1>1, <1>2, <1>3 DEF IntLike, IntTypes

\* A number of the type that the raw type can hold is read back as it is.
LEMMA ReadsSmall ==
    ASSUME NEW u \in IntLike, NEW n \in IntsOf(u), n < RawHalf(u)
    PROVE  FromRaw(u, Signed(RawHalf(u), n)) = n
<1>1. Signed(RawHalf(u), n) = n
  BY IntFacts, SignedIs
<1>2. CASE u = "bool"
  BY <1>1, <1>2, IntsOfType DEF FromRaw, SignedTypes, UnsignedTypes
<1>3. CASE u \in SignedTypes
  <2>1. FromRaw(u, n) = Signed(Half(u), n)
    BY <1>3 DEF FromRaw, SignedTypes, UnsignedTypes
  <2>2. Half(u) \in Nat \ {0} /\ n \in -Half(u) .. Half(u) - 1
    BY <1>3, IntsOfType, HalfFits DEF IntTypes
  <2>3. QED
    BY <1>1, <2>1, <2>2, SignedIs
<1>4. CASE u \in UnsignedTypes
  <2>1. FromRaw(u, n) = Unsigned(Half(u), n)
    BY <1>4 DEF FromRaw, UnsignedTypes, SignedTypes
  <2>2. Half(u) \in Nat \ {0} /\ n \in 0 .. 2 * Half(u) - 1
    BY <1>4, IntsOfType, HalfFits DEF IntTypes
  <2>3. QED
    BY <1>1, <2>1, <2>2, UnsignedIs
<1>5. QED
  BY <1>2, <1>3, <1>4 DEF IntLike, IntTypes

\* A number that the raw type cannot hold is written one turn too low, and read
\* back as it was.
LEMMA ReadsLarge ==
    ASSUME NEW u \in IntLike, NEW n \in IntsOf(u), n >= RawHalf(u)
    PROVE  FromRaw(u, Signed(RawHalf(u), Signed(RawHalf(u), n))) = n
<1> DEFINE h == RawHalf(u)
<1>1. h \in Nat \ {0} /\ n \in h .. 2 * h - 1 /\ u \in UnsignedTypes /\ Half(u) = h
  BY IntFacts DEF UnsignedTypes
<1> HIDE DEF h
<1>2. Signed(h, n) = n - 2 * h /\ n - 2 * h \in -h .. -1
  BY <1>1, SignedIs
<1>3. Signed(h, n - 2 * h) = n - 2 * h
  BY <1>1, <1>2, SignedIs
<1>4. Unsigned(h, n - 2 * h) = n
  BY <1>1, <1>2, UnsignedIs
<1>5. QED
  BY <1>1, <1>2, <1>3, <1>4 DEF FromRaw, UnsignedTypes, SignedTypes, h

\* to_raw, the column and from_raw are the identity on every integral type.
LEMMA ReadsBack ==
    ASSUME NEW t \in IntLike, NEW n \in IntsOf(t)
    PROVE  /\ FromRaw(t, Signed(RawHalf(t), ToRaw(t, n))) = n
           /\ ToRaw(t, n) \in -RawHalf(t) .. RawHalf(t) - 1
           /\ n < RawHalf(t) => ToRaw(t, n) = n
<1>1. /\ ToRaw(t, n) \in -RawHalf(t) .. RawHalf(t) - 1
      /\ n < RawHalf(t) => ToRaw(t, n) = n
      /\ n >= RawHalf(t) => ToRaw(t, n) = Signed(RawHalf(t), n)
  <2>1. CASE t = "bool"
    BY <2>1, IntsOfType, WidthAssumption DEF RawHalf, ToRaw
  <2>2. CASE t # "bool"
    BY <2>2, IntFacts, SignedIs DEF ToRaw
  <2>3. QED
    BY <2>1, <2>2
<1>2. CASE n < RawHalf(t)
  BY <1>1, <1>2, ReadsSmall
<1>3. CASE n >= RawHalf(t)
  BY <1>1, <1>3, ReadsLarge
<1>4. QED
  BY <1>1, <1>2, <1>3, IntFacts

-----------------------------------------------------------------------------
(* Fields                                                                  *)

\* What a column may hold, with texts and blobs of any bytes.
Fields ==
    {Null} \cup [class : {"integer"}, n : -H64 .. H64 - 1]
        \cup [class : {"real"}, n : {0, 1}]
        \cup [class : {"text", "blob"}, s : Seq(Nat)]

\* What a row object may hold: no large integer, no text with a 0.
RowValues ==
    {v \in Fields : /\ v.class = "integer" => v.n \in -H32 .. H32 - 1
                    /\ v.class = "text" => CString(v.s) = v.s}

\* The one value of a row object that is not inserted as it is.
EmptyBlob == [class |-> "blob", s |-> <<>>]

\* Objects and fields by their types and classes.
LEMMA ObjectShape ==
    ASSUME NEW x \in Objects
    PROVE  /\ x # Unknown
           /\ \/ x.t \in IntLike /\ x.n \in IntsOf(x.t) /\ x = [t |-> x.t, n |-> x.n]
              \/ x.t = "double" /\ x.n \in Reals /\ x = [t |-> x.t, n |-> x.n]
              \/ x.t \in {"string", "blob"} /\ x.s \in Seq(Nat) /\ x = [t |-> x.t, s |-> x.s]
              \/ x.t = "none" /\ x = [t |-> x.t]
<1>1. CASE x \in UNION {[t : {t}, n : IntsOf(t)] : t \in IntTypes \cup {"bool"}}
  <2>1. PICK t \in IntLike : x \in [t : {t}, n : IntsOf(t)]
    BY <1>1 DEF IntLike
  <2>2. QED
    BY <2>1 DEF IntLike, IntTypes, SignedTypes, UnsignedTypes, Unknown
<1>2. CASE x \in [t : {"double"}, n : Reals]
  BY <1>2 DEF Unknown
<1>3. CASE x \in [t : {"string", "blob"}, s : Bytes]
  BY <1>3, BytesAssumption DEF Unknown
<1>4. CASE x \in [t : {"none"}]
  BY <1>4 DEF Unknown
<1>5. QED
  BY <1>1, <1>2, <1>3, <1>4 DEF Objects

\* A field has one of five classes, and is given by its class and its value.
LEMMA FieldShape ==
    ASSUME NEW c \in Fields
    PROVE  \/ c = Null /\ c.class = "null"
           \/ c.class = "integer" /\ c.n \in -H64 .. H64 - 1 /\ c = [class |-> c.class, n |-> c.n]
           \/ c.class = "real" /\ c.n \in {0, 1} /\ c = [class |-> c.class, n |-> c.n]
           \/ c.class \in {"text", "blob"} /\ c.s \in Seq(Nat) /\ c = [class |-> c.class, s |-> c.s]
BY DEF Fields, Null

\* What SQL can set is a field.
LEMMA ColumnsAreFields == Columns \subseteq Fields
BY BytesAssumption, IntsOfType
DEF Columns, Fields, Reals, NaN, Half, SignedTypes, UnsignedTypes

\* What a row object takes from a field.
LEMMA GetValueIs ==
    ASSUME NEW c \in Fields
    PROVE  /\ GetValue(c) \in RowValues
           /\ GetValue(c).class = c.class
           /\ c.class = "integer" => GetValue(c) = [class |-> "integer", n |-> Signed(H32, c.n)]
           /\ c.class = "text" => GetValue(c) = [class |-> "text", s |-> CString(c.s)]
           /\ c.class \notin {"integer", "text"} => GetValue(c) = c
<1>1. CASE c.class = "integer"
  <2>1. c.n \in Int /\ c # Null
    BY <1>1, FieldShape, WidthAssumption DEF Null
  <2>2. H32 \in Nat \ {0} /\ H32 <= H64
    BY WidthAssumption
  <2>3. Signed(H32, c.n) \in -H32 .. H32 - 1 /\ Signed(H32, Signed(H32, c.n)) = Signed(H32, c.n)
    BY <2>1, <2>2, SignedIs
  <2>4. Get("int32", c).n = Signed(H32, c.n)
    BY <2>1, <2>3
    DEF Get, FromRaw, ColumnInt, RawHalf, Half, IntTypes, SignedTypes, UnsignedTypes
  <2>5. GetValue(c) = [class |-> "integer", n |-> Signed(H32, c.n)]
    BY <1>1, <2>4 DEF GetValue
  <2>6. [class |-> "integer", n |-> Signed(H32, c.n)] \in RowValues
    BY <2>2, <2>3, WidthAssumption DEF RowValues, Fields
  <2>7. QED
    BY <1>1, <2>5, <2>6
<1>2. CASE c.class = "text"
  <2>1. c.s \in Seq(Nat) /\ c # Null
    BY <1>2, FieldShape DEF Null
  <2>2. GetValue(c) = [class |-> "text", s |-> CString(c.s)]
    BY <1>2, <2>1 DEF GetValue, Get, IntTypes, SignedTypes, UnsignedTypes
  <2>3. [class |-> "text", s |-> CString(c.s)] \in RowValues
    BY <2>1, CStringEnds DEF RowValues, Fields
  <2>4. QED
    BY <1>2, <2>2, <2>3
<1>3. CASE c.class \notin {"integer", "text"}
  BY <1>3 DEF GetValue, RowValues
<1>4. QED
  BY <1>1, <1>2, <1>3

\* A row object gives back what it holds, but NULL for an empty blob.
LEMMA PutValueIs ==
    ASSUME NEW v \in RowValues
    PROVE  /\ PutValue(v) \in Fields
           /\ PutValue(v) = IF v = EmptyBlob THEN Null ELSE v
<1>1. v \in Fields
  BY DEF RowValues
<1>2. PutValue(v) = IF v = EmptyBlob THEN Null ELSE v
  <2>1. CASE v = Null
    BY <2>1 DEF PutValue, Bind, Null, EmptyBlob, IntTypes, SignedTypes, UnsignedTypes
  <2>2. CASE v.class = "integer"
    <3>1. Signed(H32, v.n) = v.n
      BY <2>2, SignedIs, WidthAssumption DEF RowValues
    <3>2. PutValue(v) = [class |-> "integer", n |-> v.n]
      BY <2>2, <3>1 DEF PutValue, Bind, ToRaw, RawHalf, IntTypes, SignedTypes, UnsignedTypes
    <3>3. QED
      BY <1>1, <2>2, <3>2, FieldShape DEF EmptyBlob
  <2>3. CASE v.class = "real"
    <3>1. v.n # NaN /\ v = [class |-> "real", n |-> v.n]
      BY <1>1, <2>3, FieldShape DEF NaN
    <3>2. PutValue(v) = [class |-> "real", n |-> v.n]
      BY <2>3, <3>1 DEF PutValue, Bind, IntTypes, SignedTypes, UnsignedTypes
    <3>3. QED
      BY <3>1, <3>2 DEF EmptyBlob
  <2>4. CASE v.class = "text"
    <3>1. CString(v.s) = v.s /\ v = [class |-> "text", s |-> v.s]
      BY <1>1, <2>4, FieldShape DEF RowValues
    <3>2. PutValue(v) = [class |-> "text", s |-> v.s]
      BY <2>4, <3>1 DEF PutValue, Bind, IntTypes, SignedTypes, UnsignedTypes
    <3>3. QED
      BY <3>1, <3>2 DEF EmptyBlob
  <2>5. CASE v.class = "blob"
    <3>1. v = [class |-> "blob", s |-> v.s]
      BY <1>1, <2>5, FieldShape
    <3>2. PutValue(v) = IF v.s = <<>> THEN Null ELSE [class |-> "blob", s |-> v.s]
      BY <2>5 DEF PutValue, Bind, IntTypes, SignedTypes, UnsignedTypes
    <3>3. v = EmptyBlob <=> v.s = <<>>
      BY <3>1 DEF EmptyBlob
    <3>4. QED
      BY <3>1, <3>2, <3>3
  <2>6. QED
    BY <1>1, <2>1, <2>2, <2>3, <2>4, <2>5, FieldShape
<1>3. QED
  BY <1>1, <1>2 DEF Fields

\* What each object becomes in a column.
LEMMA BindIs ==
    ASSUME NEW x \in Objects
    PROVE  /\ x.t \in IntLike => Bind(x) = [class |-> "integer", n |-> ToRaw(x.t, x.n)]
           /\ x.t = "double" => Bind(x) = IF x.n = NaN THEN Null ELSE [class |-> "real", n |-> x.n]
           /\ x.t = "string" => Bind(x) = [class |-> "text", s |-> CString(x.s)]
           /\ x.t = "blob" => Bind(x) = IF x.s = <<>> THEN Null ELSE [class |-> "blob", s |-> x.s]
           /\ x.t = "none" => Bind(x) = Null
BY DEF Bind, IntLike, IntTypes, SignedTypes, UnsignedTypes

\* A column can hold it, and a row object as well if it is not too large.
LEMMA BindFits ==
    ASSUME NEW x \in Objects
    PROVE  /\ Bind(x) \in Fields /\ Bind(x) # EmptyBlob
           /\ FitsInt(x) => GetValue(Bind(x)) = Bind(x)
<1>1. CASE x.t \in IntLike
  <2>1. x.n \in IntsOf(x.t)
    BY <1>1, ObjectShape DEF IntLike, IntTypes, SignedTypes, UnsignedTypes
  <2>2. ToRaw(x.t, x.n) \in -H64 .. H64 - 1
    BY <1>1, <2>1, ReadsBack, IntFacts, WidthAssumption
  <2>3. Bind(x) = [class |-> "integer", n |-> ToRaw(x.t, x.n)]
    BY <1>1, BindIs
  <2>4. Bind(x) \in Fields /\ Bind(x) # EmptyBlob
    BY <2>2, <2>3 DEF Fields, EmptyBlob
  <2>5. ASSUME FitsInt(x) PROVE GetValue(Bind(x)) = Bind(x)
    <3>1. ToRaw(x.t, x.n) \in -H32 .. H32 - 1
      <4>1. CASE x.t = "bool"
        BY <2>1, <4>1, IntsOfType, WidthAssumption DEF ToRaw
      <4>2. CASE x.t \in IntTypes
        BY <2>5, <4>2, IntsOfType DEF FitsInt, Half, SignedTypes, UnsignedTypes
      <4>3. QED
        BY <1>1, <4>1, <4>2 DEF IntLike
    <3>2. Signed(H32, ToRaw(x.t, x.n)) = ToRaw(x.t, x.n)
      BY <3>1, SignedIs, WidthAssumption
    <3>3. QED
      BY <2>3, <2>4, <3>2, GetValueIs
  <2>6. QED
    BY <2>4, <2>5
<1>2. CASE x.t = "double"
  <2>1. Bind(x) = Null \/ Bind(x) \in [class : {"real"}, n : {0, 1}]
    BY <1>2, BindIs, ObjectShape DEF Reals, NaN, IntLike, IntTypes, SignedTypes, UnsignedTypes
  <2>2. Bind(x) \in Fields /\ Bind(x) # EmptyBlob /\ Bind(x).class \notin {"integer", "text"}
    BY <2>1 DEF Fields, EmptyBlob, Null
  <2>3. QED
    BY <2>2, GetValueIs
<1>3. CASE x.t = "string"
  <2>1. x.s \in Seq(Nat) /\ Bind(x) = [class |-> "text", s |-> CString(x.s)]
    BY <1>3, BindIs, ObjectShape DEF IntLike, IntTypes, SignedTypes, UnsignedTypes
  <2>2. CString(x.s) \in Seq(Nat) /\ CString(CString(x.s)) = CString(x.s)
    BY <2>1, CStringEnds
  <2>3. Bind(x) \in Fields /\ Bind(x) # EmptyBlob
    BY <2>1, <2>2 DEF Fields, EmptyBlob
  <2>4. QED
    BY <2>1, <2>2, <2>3, GetValueIs
<1>4. CASE x.t = "blob" \/ x.t = "none"
  <2>1. \/ Bind(x) = Null
        \/ x.s \in Seq(Nat) /\ x.s # <<>> /\ Bind(x) = [class |-> "blob", s |-> x.s]
    BY <1>4, BindIs, ObjectShape DEF IntLike, IntTypes, SignedTypes, UnsignedTypes
  <2>2. Bind(x) \in Fields /\ Bind(x) # EmptyBlob /\ Bind(x).class \notin {"integer", "text"}
    BY <2>1 DEF Fields, EmptyBlob, Null
  <2>3. QED
    BY <2>2, GetValueIs
<1>5. QED
  BY <1>1, <1>2, <1>3, <1>4, ObjectShape

-----------------------------------------------------------------------------
(* The field and the row object remember what was put.                     *)

\* c stands for the object x: exactly, unless a row object cut it off.
StandsFor(x, exact, c) ==
    /\ c.class = Bind(x).class
    /\ exact => c = Bind(x)

\* Field and row object stand for the objects that the history says they were
\* made of; what went through a row object is exact if it fits an int.
ValuesInv ==
    /\ field \in Fields
    /\ asked.x \in Objects \cup {Unknown} /\ asked.byRow \in BOOLEAN
    /\ asked = [x |-> asked.x, byRow |-> asked.byRow]
    /\ asked.x # Unknown => StandsFor(asked.x, ~asked.byRow \/ FitsInt(asked.x), field)
    /\ cellAsked.x \in Objects \cup {Unknown} /\ cellAsked.byRow \in BOOLEAN
    /\ cellAsked = [x |-> cellAsked.x, byRow |-> cellAsked.byRow]
    /\ cell # NoCell => /\ cell \in RowValues
                        /\ cellAsked.x # Unknown =>
                             StandsFor(cellAsked.x, FitsInt(cellAsked.x), cell)

\* The invariant holds at first.
LEMMA ValuesInit == Init => ValuesInv
BY DEF Init, ValuesInv, Fields, NoCell

\* Every read and write keeps the invariant.
LEMMA ValuesStep == ValuesInv /\ [Next]_vars => ValuesInv'
<1> SUFFICES ASSUME ValuesInv, [Next]_vars PROVE ValuesInv'
  OBVIOUS
<1>1. ASSUME NEW x \in Objects, Put(x) PROVE ValuesInv'
  <2>1. asked' = [x |-> x, byRow |-> FALSE] /\ field' = Bind(x) /\ Bind(x) \in Fields
    BY <1>1, BindFits DEF Put
  <2>2. asked'.x = x /\ asked'.byRow = FALSE
    BY <2>1
  <2>3. QED
    BY <1>1, <2>1, <2>2 DEF Put, ValuesInv, StandsFor
<1>2. ASSUME NEW c \in Columns, SetBySql(c) PROVE ValuesInv'
  <2>1. asked' = [x |-> Unknown, byRow |-> FALSE] /\ field' \in Fields
    BY <1>2, ColumnsAreFields DEF SetBySql
  <2>2. asked'.x = Unknown /\ asked'.byRow = FALSE
    BY <2>1
  <2>3. QED
    BY <1>2, <2>1, <2>2 DEF SetBySql, ValuesInv
<1>3. ASSUME ExtractRow PROVE ValuesInv'
  <2>1. cell' \in RowValues /\ cell'.class = field.class
    BY <1>3, GetValueIs DEF ExtractRow, ValuesInv
  <2>2. ASSUME asked.x # Unknown PROVE StandsFor(asked.x, FitsInt(asked.x), cell')
    <3>1. asked.x \in Objects /\ StandsFor(asked.x, FitsInt(asked.x), field)
      BY <2>2 DEF ValuesInv, StandsFor
    <3>2. QED
      BY <1>3, <2>1, <3>1, BindFits DEF ExtractRow, StandsFor
  <2>3. QED
    BY <1>3, <2>1, <2>2 DEF ExtractRow, ValuesInv
<1>4. ASSUME InsertRow PROVE ValuesInv'
  <2>1. cell \in RowValues /\ field' \in Fields
        /\ field' = IF cell = EmptyBlob THEN Null ELSE cell
    BY <1>4, PutValueIs DEF InsertRow, ValuesInv
  <2>2. asked'.x = cellAsked.x /\ asked'.byRow = TRUE /\ asked' = [x |-> cellAsked.x, byRow |-> TRUE]
    BY <1>4 DEF InsertRow, ValuesInv
  <2>3. ASSUME cellAsked.x # Unknown PROVE StandsFor(cellAsked.x, FitsInt(cellAsked.x), field')
    <3>1. cellAsked.x \in Objects /\ StandsFor(cellAsked.x, FitsInt(cellAsked.x), cell)
      BY <1>4, <2>3 DEF InsertRow, ValuesInv
    <3>2. cell # EmptyBlob
      <4>1. CASE FitsInt(cellAsked.x)
        BY <3>1, <4>1, BindFits DEF StandsFor
      <4>2. CASE ~FitsInt(cellAsked.x)
        <5>1. Bind(cellAsked.x).class = "integer"
          BY <3>1, <4>2, BindIs DEF FitsInt, IntLike
        <5>2. QED
          BY <3>1, <5>1 DEF StandsFor, EmptyBlob
      <4>3. QED
        BY <4>1, <4>2
    <3>3. QED
      BY <2>1, <3>1, <3>2
  <2>4. asked'.x # Unknown =>
            StandsFor(asked'.x, ~asked'.byRow \/ FitsInt(asked'.x), field')
    BY <2>2, <2>3 DEF StandsFor
  <2>5. QED
    BY <1>4, <2>1, <2>2, <2>4 DEF InsertRow, ValuesInv
<1>5. CASE UNCHANGED vars
  BY <1>5 DEF vars, ValuesInv
<1>6. QED
  BY <1>1, <1>2, <1>3, <1>4, <1>5 DEF Next

\* The invariant holds throughout.
LEMMA ValuesInvHolds == ValuesSpec => []ValuesInv
BY ValuesInit, ValuesStep, PTL DEF ValuesSpec

-----------------------------------------------------------------------------
(* Theorems.                                                               *)

\* A type reads back what it binds.
LEMMA GetOfBind ==
    ASSUME NEW x \in Objects
    PROVE  Readable(x.t, Bind(x)) /\ Get(x.t, Bind(x)) = Kept(x)
<1> USE DEF Readable, ClassOf, Kept
<1>1. CASE x.t \in IntLike
  <2>1. x.n \in IntsOf(x.t) /\ x = [t |-> x.t, n |-> x.n]
    BY <1>1, ObjectShape DEF IntLike, IntTypes, SignedTypes, UnsignedTypes
  <2>2. Bind(x) = [class |-> "integer", n |-> ToRaw(x.t, x.n)] /\ Bind(x) # Null
    BY <1>1, BindIs DEF Null
  <2>3. FromRaw(x.t, ColumnInt(x.t, Bind(x))) = x.n
    BY <1>1, <2>1, <2>2, ReadsBack DEF ColumnInt
  <2>4. Get(x.t, Bind(x)) = [t |-> x.t, n |-> x.n]
    BY <1>1, <2>3 DEF Get, IntLike, IntTypes, SignedTypes, UnsignedTypes
  <2>5. QED
    BY <1>1, <2>1, <2>2, <2>4 DEF IntLike, IntTypes, SignedTypes, UnsignedTypes
<1>2. CASE x.t = "double"
  <2>1. x.n \in Reals /\ x = [t |-> "double", n |-> x.n]
    BY <1>2, ObjectShape DEF IntLike, IntTypes, SignedTypes, UnsignedTypes
  <2>2. Bind(x) = IF x.n = NaN THEN Null ELSE [class |-> "real", n |-> x.n]
    BY <1>2, BindIs
  <2>3. Get(x.t, Bind(x)) = [t |-> "double", n |-> IF x.n = NaN THEN 0 ELSE x.n]
    BY <1>2, <2>2 DEF Get, Null, IntTypes, SignedTypes, UnsignedTypes
  <2>4. Kept(x) = [t |-> "double", n |-> IF x.n = NaN THEN 0 ELSE x.n]
    BY <1>2, <2>1
  <2>5. QED
    BY <1>2, <2>2, <2>3, <2>4 DEF Null, IntTypes, SignedTypes, UnsignedTypes
<1>3. CASE x.t = "string"
  <2>1. x.s \in Seq(Nat) /\ x = [t |-> "string", s |-> x.s]
    BY <1>3, ObjectShape DEF IntLike, IntTypes, SignedTypes, UnsignedTypes
  <2>2. Bind(x) = [class |-> "text", s |-> CString(x.s)] /\ Bind(x) # Null
    BY <1>3, BindIs DEF Null
  <2>3. Get(x.t, Bind(x)) = [t |-> "string", s |-> CString(x.s)]
    BY <1>3, <2>1, <2>2, CStringEnds DEF Get, IntTypes, SignedTypes, UnsignedTypes
  <2>4. Kept(x) = [t |-> "string", s |-> CString(x.s)]
    BY <1>3, <2>1
  <2>5. QED
    BY <1>3, <2>2, <2>3, <2>4 DEF IntTypes, SignedTypes, UnsignedTypes
<1>4. CASE x.t = "blob"
  <2>1. x = [t |-> "blob", s |-> x.s]
    BY <1>4, ObjectShape DEF IntLike, IntTypes, SignedTypes, UnsignedTypes
  <2>2. Bind(x) = IF x.s = <<>> THEN Null ELSE [class |-> "blob", s |-> x.s]
    BY <1>4, BindIs
  <2>3. Get(x.t, Bind(x)) = [t |-> "blob", s |-> x.s]
    BY <1>4, <2>2 DEF Get, Null, IntTypes, SignedTypes, UnsignedTypes
  <2>4. QED
    BY <1>4, <2>1, <2>2, <2>3 DEF Null, IntTypes, SignedTypes, UnsignedTypes
<1>5. CASE x.t = "none"
  <2>1. x = [t |-> "none"]
    BY <1>5, ObjectShape DEF IntLike, IntTypes, SignedTypes, UnsignedTypes
  <2>2. QED
    BY <1>5, <2>1, BindIs DEF Get, Null, IntTypes, SignedTypes, UnsignedTypes
<1>6. QED
  BY <1>1, <1>2, <1>3, <1>4, <1>5, ObjectShape

\* What was put comes back with its type, from a column of any width and also
\* through a row object if it is not too large (raw_traits, conversion_traits).
THEOREM ValuesComeBack == ValuesSpec => []RoundTrip
<1>1. ValuesInv => RoundTrip
  <2> SUFFICES ASSUME ValuesInv, asked.x # Unknown, asked.byRow => FitsInt(asked.x)
               PROVE  /\ Readable(asked.x.t, field)
                      /\ Get(asked.x.t, field) = Kept(asked.x)
    BY DEF RoundTrip
  <2>1. asked.x \in Objects /\ field = Bind(asked.x)
    BY DEF ValuesInv, StandsFor
  <2>2. QED
    BY <2>1, GetOfBind
<1>2. QED
  BY <1>1, ValuesInvHolds, PTL

\* What is bound as NULL.
LEMMA BoundToNull ==
    ASSUME NEW x \in Objects
    PROVE  Bind(x).class = "null" <=> \/ x.t = "none"
                                      \/ x.t = "double" /\ x.n = NaN
                                      \/ x.t = "blob" /\ x.s = <<>>
<1>1. CASE x.t \in IntLike
  <2>1. Bind(x).class = "integer"
    BY <1>1, BindIs
  <2>2. x.t \notin {"none", "double", "blob"}
    BY <1>1 DEF IntLike, IntTypes, SignedTypes, UnsignedTypes
  <2>3. QED
    BY <2>1, <2>2
<1>2. CASE x.t = "double"
  <2>1. CASE x.n = NaN
    BY <1>2, <2>1, BindIs DEF Null
  <2>2. CASE x.n # NaN
    <3>1. Bind(x) = [class |-> "real", n |-> x.n]
      BY <1>2, <2>2, BindIs
    <3>2. Bind(x).class = "real"
      BY <3>1
    <3>3. QED
      BY <1>2, <2>2, <3>2
  <2>3. QED
    BY <2>1, <2>2
<1>3. CASE x.t = "string"
  <2>1. Bind(x).class = "text"
    BY <1>3, BindIs
  <2>2. QED
    BY <1>3, <2>1
<1>4. CASE x.t = "blob"
  <2>1. CASE x.s = <<>>
    BY <1>4, <2>1, BindIs DEF Null
  <2>2. CASE x.s # <<>>
    <3>1. Bind(x) = [class |-> "blob", s |-> x.s]
      BY <1>4, <2>2, BindIs
    <3>2. Bind(x).class = "blob"
      BY <3>1
    <3>3. QED
      BY <1>4, <2>2, <3>2
  <2>3. QED
    BY <2>1, <2>2
<1>5. CASE x.t = "none"
  BY <1>5, BindIs DEF Null
<1>6. QED
  BY <1>1, <1>2, <1>3, <1>4, <1>5, ObjectShape

\* Read as an optional, a field is none for none, a NaN and an empty blob only,
\* also when a row object cut its value off.
THEOREM NothingLost == ValuesSpec => []NoneOnlyForNull
<1>1. ValuesInv => NoneOnlyForNull
  <2> SUFFICES ASSUME ValuesInv, asked.x # Unknown, NEW x, x = asked.x
               PROVE  GetOptional(x.t, field) = [t |-> "none"]
                        <=> \/ x.t = "none"
                            \/ x.t = "double" /\ x.n = NaN
                            \/ x.t = "blob" /\ x.s = <<>>
    BY DEF NoneOnlyForNull
  <2>1. x \in Objects /\ field \in Fields /\ field.class = Bind(x).class
    BY DEF ValuesInv, StandsFor
  <2>2. field = Null <=> Bind(x).class = "null"
    BY <2>1, FieldShape DEF Null
  <2>3. Bind(x).class = "null"
          <=> \/ x.t = "none"
              \/ x.t = "double" /\ x.n = NaN
              \/ x.t = "blob" /\ x.s = <<>>
    BY <2>1, BoundToNull
  <2>4. x.t # "none" => Get(x.t, field) # [t |-> "none"]
    <3>1. CASE x.t \in IntLike
      <4>1. Get(x.t, field) = [t |-> x.t, n |-> FromRaw(x.t, ColumnInt(x.t, field))]
        BY <3>1 DEF Get, IntLike, IntTypes, SignedTypes, UnsignedTypes
      <4>2. Get(x.t, field).t = x.t
        BY <4>1
      <4>3. QED
        BY <4>2
    <3>2. CASE x.t \in {"double", "string", "blob"}
      <4>1. Get(x.t, field).t = x.t
        BY <3>2 DEF Get, IntTypes, SignedTypes, UnsignedTypes
      <4>2. QED
        BY <4>1
    <3>3. QED
      <4>1. x.t \in IntLike \/ x.t \in {"double", "string", "blob", "none"}
        BY <2>1, ObjectShape
      <4>2. QED
        BY <3>1, <3>2, <4>1
  <2>5. GetOptional(x.t, field) = [t |-> "none"] <=> field = Null
    <3>1. CASE field = Null
      BY <3>1 DEF GetOptional
    <3>2. CASE field # Null
      <4>1. x.t # "none"
        BY <2>2, <2>3, <3>2
      <4>2. QED
        BY <2>4, <3>2, <4>1 DEF GetOptional
    <3>3. QED
      BY <3>1, <3>2
  <2>6. QED
    BY <2>2, <2>3, <2>5
<1>2. QED
  BY <1>1, ValuesInvHolds, PTL

\* A number put with one type and read with another that can hold it: the raw
\* value goes through the narrower cast of the two.
LEMMA ReadsAcross ==
    ASSUME NEW t \in IntLike, NEW u \in IntLike, NEW n \in IntsOf(t), n \in IntsOf(u),
           ~(t = "uint32" /\ n >= H32 /\ RawHalf(u) = H64)
    PROVE  FromRaw(u, Signed(RawHalf(u), ToRaw(t, n))) = n
<1>1. CASE n < RawHalf(t) /\ n < RawHalf(u)
  BY <1>1, ReadsBack, ReadsSmall
<1>2. CASE n < RawHalf(t) /\ n >= RawHalf(u)
  <2> DEFINE h == RawHalf(u)
  <2>1. h \in Nat \ {0} /\ n \in h .. 2 * h - 1 /\ u \in UnsignedTypes /\ Half(u) = h
    BY <1>2, IntFacts DEF UnsignedTypes
  <2>2. ToRaw(t, n) = n
    BY <1>2, ReadsBack
  <2> HIDE DEF h
  <2>3. Signed(h, n) = n - 2 * h /\ n - 2 * h \in -h .. -1
    BY <2>1, SignedIs
  <2>4. Unsigned(h, n - 2 * h) = n
    BY <2>1, <2>3, UnsignedIs
  <2>5. QED
    BY <2>1, <2>2, <2>3, <2>4 DEF FromRaw, UnsignedTypes, SignedTypes, h
<1>3. CASE n >= RawHalf(t)
  <2>1. t \in {"uint32", "uint64"} /\ Half(t) = RawHalf(t)
    BY <1>3, IntFacts
  <2>2. n >= RawHalf(u) /\ RawHalf(u) = RawHalf(t)
    <3>1. CASE t = "uint32"
      BY <1>3, <3>1 DEF RawHalf
    <3>2. CASE t = "uint64"
      <4>1. RawHalf(t) = H64 /\ n >= H64
        BY <1>3, <3>2 DEF RawHalf
      <4>2. n >= RawHalf(u)
        BY <4>1, IntFacts, WidthAssumption
      <4>3. u \in {"uint32", "uint64"} /\ Half(u) = RawHalf(u)
        BY <4>2, IntFacts
      <4>4. u # "uint32"
        <5>1. u = "uint32" => n \in 0 .. 2 * H32 - 1
          BY IntsOfType DEF UnsignedTypes, Half
        <5>2. n < 2 * H32 => n < H64 \/ n = H64
          BY WidthAssumption, IntFacts
        <5>3. QED
          BY <4>1, <5>1, WidthAssumption, IntFacts
      <4>5. QED
        BY <4>1, <4>2, <4>3, <4>4 DEF RawHalf
    <3>3. QED
      BY <2>1, <3>1, <3>2
  <2>3. ToRaw(t, n) = Signed(RawHalf(u), n)
    BY <2>1, <2>2 DEF ToRaw
  <2>4. QED
    BY <2>2, <2>3, ReadsLarge
<1>4. QED
  BY <1>1, <1>2, <1>3, IntFacts

\* An integer read with another type that can hold it is the same number, for
\* every pair of types but a large uint32 read with 64 bits.
THEOREM NumbersAgree == ValuesSpec => []CrossRead
<1>1. ValuesInv => CrossRead
  <2> SUFFICES ASSUME ValuesInv, NEW u \in IntLike,
                      asked.x.t \in IntLike, ~asked.byRow, asked.x.n \in IntsOf(u),
                      ~(asked.x.t = "uint32" /\ asked.x.n >= H32 /\ RawHalf(u) = H64)
               PROVE  Get(u, field).n = asked.x.n
    BY DEF CrossRead, IntLike
  <2>1. asked.x # Unknown
    BY DEF Unknown, IntLike, IntTypes, SignedTypes, UnsignedTypes
  <2>2. asked.x \in Objects /\ field = Bind(asked.x)
    BY <2>1 DEF ValuesInv, StandsFor
  <2> DEFINE t == asked.x.t
             n == asked.x.n
  <2>3. n \in IntsOf(t)
    BY <2>2, ObjectShape DEF IntLike, IntTypes, SignedTypes, UnsignedTypes
  <2>4. field = [class |-> "integer", n |-> ToRaw(t, n)] /\ field # Null
    BY <2>2, BindIs DEF Null
  <2>5. Get(u, field).n = FromRaw(u, ColumnInt(u, field))
    BY DEF Get, IntLike, IntTypes, SignedTypes, UnsignedTypes
  <2>6. QED
    BY <2>3, <2>4, <2>5, ReadsAcross DEF ColumnInt
<1>2. QED
  BY <1>1, ValuesInvHolds, PTL

\* A row object answers as the statement it was extracted from, whatever is in
\* the column (row::get, detail::get_value).
THEOREM RowsAgree == ValuesSpec => []RowAgrees
<1>1. ValuesInv => RowAgrees
  <2> SUFFICES ASSUME ValuesInv, NEW t \in RowTypes, Held(t, GetValue(field))
               PROVE  Readable(t, field) /\ RowGet(t, GetValue(field)) = Get(t, field)
    BY DEF RowAgrees
  <2> DEFINE v == GetValue(field)
  <2>1. field \in Fields /\ v \in RowValues /\ v.class = field.class
    BY GetValueIs DEF ValuesInv
  <2>2. field.class = ClassOf(t) /\ t \notin {"int64", "uint64"}
    BY <2>1 DEF Held, RowTypes
  <2>3. Readable(t, field)
    BY <2>2 DEF Readable
  <2>4. CASE t \in IntLike
    <3>1. field.class = "integer"
      BY <2>2, <2>4 DEF ClassOf, IntLike, IntTypes, SignedTypes, UnsignedTypes
    <3>2. v.n = Signed(H32, field.n) /\ field # Null
      BY <2>1, <3>1, GetValueIs DEF Null
    <3>3. RawHalf(t) = H32
      BY <2>2 DEF RawHalf
    <3>4. ColumnInt(t, field) = v.n
      BY <3>2, <3>3 DEF ColumnInt
    <3> HIDE DEF v
    <3>5. RowGet(t, v) = [t |-> t, n |-> FromRaw(t, v.n)]
      BY <2>4 DEF RowGet, IntLike, IntTypes, SignedTypes, UnsignedTypes
    <3>6. Get(t, field) = [t |-> t, n |-> FromRaw(t, v.n)]
      BY <2>4, <3>4 DEF Get, IntLike, IntTypes, SignedTypes, UnsignedTypes
    <3>7. QED
      BY <2>3, <3>5, <3>6 DEF v
  <2>5. CASE t = "string"
    <3>1. field.class = "text" /\ field # Null
      BY <2>2, <2>5 DEF ClassOf, Null, IntTypes, SignedTypes, UnsignedTypes
    <3>2. v = [class |-> "text", s |-> CString(field.s)] /\ field.s \in Seq(Nat)
      BY <2>1, <3>1, GetValueIs, FieldShape
    <3>3. CString(CString(field.s)) = CString(field.s)
      BY <3>2, CStringEnds
    <3> HIDE DEF v
    <3>4. RowGet(t, v) = [t |-> t, s |-> CString(v.s)]
      BY <2>5 DEF RowGet, IntTypes, SignedTypes, UnsignedTypes
    <3>5. Get(t, field) = [t |-> t, s |-> CString(field.s)]
      BY <2>5, <3>1 DEF Get, IntTypes, SignedTypes, UnsignedTypes
    <3>6. QED
      BY <2>3, <3>2, <3>3, <3>4, <3>5 DEF v
  <2>6. CASE t = "double"
    <3>1. field.class \notin {"integer", "text", "null"} /\ field # Null
      BY <2>2, <2>6 DEF ClassOf, Null, IntTypes, SignedTypes, UnsignedTypes
    <3>2. v = field
      BY <2>1, <3>1, GetValueIs
    <3>3. QED
      BY <2>3, <2>6, <3>1, <3>2 DEF RowGet, Get, IntTypes, SignedTypes, UnsignedTypes
  <2>7. QED
    BY <2>4, <2>5, <2>6 DEF RowTypes, IntLike
<1>2. QED
  BY <1>1, ValuesInvHolds, PTL

\* A row inserted and extracted again is the same row, but for an empty blob
\* (detail::put_value, detail::get_value).
THEOREM RowsAreStable == ValuesSpec => []CopyIsStable
<1>1. ASSUME NEW v \in RowValues, v # EmptyBlob PROVE GetValue(PutValue(v)) = v
  <2>1. v \in Fields /\ PutValue(v) = v
    BY <1>1, PutValueIs DEF RowValues
  <2>2. CASE v.class = "integer"
    <3>1. v = [class |-> "integer", n |-> v.n] /\ v.n \in -H32 .. H32 - 1
      BY <2>1, <2>2, FieldShape DEF RowValues
    <3>2. Signed(H32, v.n) = v.n
      BY <3>1, SignedIs, WidthAssumption
    <3>3. QED
      BY <2>1, <2>2, <3>1, <3>2, GetValueIs
  <2>3. CASE v.class = "text"
    <3>1. v = [class |-> "text", s |-> v.s] /\ CString(v.s) = v.s
      BY <2>1, <2>3, FieldShape DEF RowValues
    <3>2. QED
      BY <2>1, <2>3, <3>1, GetValueIs
  <2>4. CASE v.class \notin {"integer", "text"}
    BY <2>1, <2>4, GetValueIs
  <2>5. QED
    BY <2>2, <2>3, <2>4
<1>2. ValuesInv => CopyIsStable
  BY <1>1 DEF ValuesInv, CopyIsStable, EmptyBlob
<1>3. QED
  BY <1>2, ValuesInvHolds, PTL
=============================================================================
