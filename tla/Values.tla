------------------------------- MODULE Values -------------------------------
(***************************************************************************)
(* One field on its way between C++ objects, a row object and a column of  *)
(* the database: raw_traits, conversion_traits, blob and row.  Integers    *)
(* keep their widths, given by half the number of values of each (2^7,     *)
(* 2^15, 2^31 and 2^63 in the code).  Texts and blobs are sequences of     *)
(* bytes and byte 0 ends a C string.  The column has no type affinity.     *)
(***************************************************************************)
EXTENDS Integers, Sequences, FiniteSetsExt

CONSTANTS
    H8, H16, H32, H64,  \* half ranges of the integer types
    Bytes               \* sequences of bytes that texts and blobs may hold

ASSUME WidthAssumption ==
    /\ H8 \in Nat \ {0} /\ H16 \in Nat /\ H32 \in Nat /\ H64 \in Nat
    /\ 2 * H8 <= H16 /\ 2 * H16 <= H32 /\ 2 * H32 <= H64
ASSUME BytesAssumption == Bytes \subseteq Seq(Nat)

VARIABLES
    field,      \* the column of the one row in the database
    cell,       \* the value a row object holds
    asked,      \* history: the object that field was made of, and whether it
                \* went through a row object
    cellAsked   \* history: the same for cell

vars == <<field, cell, asked, cellAsked>>

-----------------------------------------------------------------------------
(* Types and values.                                                       *)

SignedTypes   == {"int8", "int16", "int32", "int64"}
UnsignedTypes == {"uint8", "uint16", "uint32", "uint64"}
IntTypes      == SignedTypes \cup UnsignedTypes
Types         == IntTypes \cup {"bool", "double", "string", "blob", "none"}

Half(t) ==
    CASE t \in {"int8", "uint8"}   -> H8
      [] t \in {"int16", "uint16"} -> H16
      [] t \in {"int32", "uint32"} -> H32
      [] t \in {"int64", "uint64"} -> H64

RawHalf(t) == IF t \in {"int64", "uint64"} THEN H64 ELSE H32

IntsOf(t) ==
    CASE t = "bool"             -> 0..1
      [] t \in UnsignedTypes    -> 0 .. 2 * Half(t) - 1
      [] t \in SignedTypes      -> -Half(t) .. Half(t) - 1

\* static_cast to a signed or unsigned type with this half range.
Signed(h, n)   == ((n + h) % (2 * h)) - h
Unsigned(h, n) == n % (2 * h)

NaN   == -1             \* the doubles told apart: 0, 1 and a NaN
Reals == {0, 1, NaN}

Objects ==
    (UNION {[t : {t}, n : IntsOf(t)] : t \in IntTypes \cup {"bool"}})
        \cup [t : {"double"}, n : Reals]
        \cup [t : {"string", "blob"}, s : Bytes]
        \cup [t : {"none"}]

Null == [class |-> "null"]
Columns ==
    {Null} \cup [class : {"integer"}, n : IntsOf("int64")]
        \cup [class : {"real"}, n : Reals \ {NaN}]
        \cup [class : {"text", "blob"}, s : Bytes]

NoCell == [class |-> "empty"]       \* row::_values has no element
Unknown == [t |-> "unknown"]        \* the field was made by SQL

-----------------------------------------------------------------------------
(* Writing a field.                                                        *)

\* The bytes before the first 0: what c_str() and a length of -1 stand for.
CString(s) ==
    LET ends == {i \in DOMAIN s : s[i] = 0}
    IN  IF ends = {} THEN s ELSE SubSeq(s, 1, Min(ends) - 1)

\* Mutant: values that do not fit are cut off at the limit.
ToRawBug(t, n) == IF n < RawHalf(t) THEN n ELSE RawHalf(t) - 1

\* conversion_traits::to_raw for the integral types.
ToRaw(t, n) == IF t = "bool" THEN n ELSE Signed(RawHalf(t), n)

\* Mutant: an empty text is bound as a null pointer.
BindBug(x) ==
    CASE x.t \in IntTypes \cup {"bool"} -> [class |-> "integer", n |-> ToRaw(x.t, x.n)]
      [] x.t = "double" -> IF x.n = NaN THEN Null ELSE [class |-> "real", n |-> x.n]
      [] x.t = "string" -> IF CString(x.s) = <<>> THEN Null
                           ELSE [class |-> "text", s |-> CString(x.s)]
      [] x.t = "blob"   -> IF x.s = <<>> THEN Null ELSE [class |-> "blob", s |-> x.s]
      [] x.t = "none"   -> Null

(***************************************************************************)
(* raw_traits::bind.  SQLite stores NULL for a NaN and for a null pointer, *)
(* which is what the data of an empty vector is.                           *)
(***************************************************************************)
Bind(x) ==
    CASE x.t \in IntTypes \cup {"bool"} -> [class |-> "integer", n |-> ToRaw(x.t, x.n)]
      [] x.t = "double" -> IF x.n = NaN THEN Null ELSE [class |-> "real", n |-> x.n]
      [] x.t = "string" -> [class |-> "text", s |-> CString(x.s)]
      [] x.t = "blob"   -> IF x.s = <<>> THEN Null ELSE [class |-> "blob", s |-> x.s]
      [] x.t = "none"   -> Null

-----------------------------------------------------------------------------
(* Reading a field.                                                        *)

\* Mutant: from_raw keeps the raw value.
FromRawBug(t, n) == n

\* conversion_traits::from_raw for the integral types.
FromRaw(t, n) ==
    CASE t = "bool"          -> IF n # 0 THEN 1 ELSE 0
      [] t \in UnsignedTypes -> Unsigned(Half(t), n)
      [] t \in SignedTypes   -> Signed(Half(t), n)

\* The storage class that a type is read from without a conversion by SQLite.
ClassOf(t) ==
    CASE t \in IntTypes \cup {"bool"} -> "integer"
      [] t = "double" -> "real"
      [] t = "string" -> "text"
      [] t = "blob"   -> "blob"
      [] t = "none"   -> "null"

Readable(t, c) == c.class \in {ClassOf(t), "null"}

\* sqlite3_column_int and sqlite3_column_int64, of NULL too.
ColumnInt(t, c) == IF c = Null THEN 0 ELSE Signed(RawHalf(t), c.n)

\* raw_traits::get of a column readable as t.
Get(t, c) ==
    CASE t \in IntTypes \cup {"bool"} -> [t |-> t, n |-> FromRaw(t, ColumnInt(t, c))]
      [] t = "double" -> [t |-> t, n |-> IF c = Null THEN 0 ELSE c.n]
      [] t = "string" -> [t |-> t, s |-> IF c = Null THEN <<>> ELSE CString(c.s)]
      [] t = "blob"   -> [t |-> t, s |-> IF c = Null THEN <<>> ELSE c.s]
      [] t = "none"   -> [t |-> t]

\* raw_traits< boost::optional >::get
GetOptional(t, c) == IF c = Null THEN [t |-> "none"] ELSE Get(t, c)

-----------------------------------------------------------------------------
(* Row objects.                                                            *)

\* Mutants: integers are read in full, texts by their length.
GetValueWide(c) ==
    IF c.class = "text" THEN [class |-> "text", s |-> CString(c.s)] ELSE c
GetValueBytes(c) ==
    IF c.class = "integer" THEN [class |-> "integer", n |-> Signed(H32, c.n)] ELSE c

\* detail::get_value: integers are read as int, texts as C strings.
GetValue(c) ==
    CASE c.class = "integer" -> [class |-> "integer", n |-> Get("int32", c).n]
      [] c.class = "text"    -> [class |-> "text", s |-> Get("string", c).s]
      [] OTHER               -> c

\* detail::put_value
PutValue(v) ==
    CASE v.class = "null"    -> Bind([t |-> "none"])
      [] v.class = "integer" -> Bind([t |-> "int32", n |-> v.n])
      [] v.class = "real"    -> Bind([t |-> "double", n |-> v.n])
      [] v.class = "text"    -> Bind([t |-> "string", s |-> v.s])
      [] v.class = "blob"    -> Bind([t |-> "blob", s |-> v.s])

\* The types that row::get compiles for: a conversion with from_raw, from a raw
\* type that the variant of a field can hold.
RowTypes == (IntTypes \ {"int64", "uint64"}) \cup {"bool", "double", "string"}

\* The variant must hold exactly that raw type, else boost::bad_get.
Held(t, v) == t \in RowTypes /\ v.class = ClassOf(t)

RowGet(t, v) ==
    CASE t \in IntTypes \cup {"bool"} -> [t |-> t, n |-> FromRaw(t, v.n)]
      [] t = "double" -> [t |-> t, n |-> v.n]
      [] t = "string" -> [t |-> t, s |-> CString(v.s)]

-----------------------------------------------------------------------------
Init ==
    /\ field = Null
    /\ cell = NoCell
    /\ asked = [x |-> Unknown, byRow |-> FALSE]
    /\ cellAsked = asked

\* statement << x (a one-column sequence, too)
Put(x) ==
    /\ field' = Bind(x)
    /\ asked' = [x |-> x, byRow |-> FALSE]
    /\ UNCHANGED <<cell, cellAsked>>

\* An SQL statement sets the column.
SetBySql(c) ==
    /\ field' = c
    /\ asked' = [x |-> Unknown, byRow |-> FALSE]
    /\ UNCHANGED <<cell, cellAsked>>

\* extract( istatement&, row& )
ExtractRow ==
    /\ cell' = GetValue(field)
    /\ cellAsked' = asked
    /\ UNCHANGED <<field, asked>>

\* insert( ostatement&, row const& ) and the step
InsertRow ==
    /\ cell # NoCell
    /\ field' = PutValue(cell)
    /\ asked' = [cellAsked EXCEPT !.byRow = TRUE]
    /\ UNCHANGED <<cell, cellAsked>>

Next ==
    \/ \E x \in Objects : Put(x)
    \/ \E c \in Columns : SetBySql(c)
    \/ ExtractRow
    \/ InsertRow

ValuesSpec == Init /\ [][Next]_vars

-----------------------------------------------------------------------------
(* Properties.                                                             *)

\* What a read with the same type gives back: a text up to its first 0, and
\* 0.0 for a NaN.
Kept(x) ==
    CASE x.t = "string"             -> [x EXCEPT !.s = CString(@)]
      [] x.t = "double" /\ x.n = NaN -> [x EXCEPT !.n = 0]
      [] OTHER                      -> x

FitsInt(x) == x.t \in IntTypes => ToRaw(x.t, x.n) \in IntsOf("int32")

\* What was put comes back with its type, over every width and sign, and also
\* after a copy through a row object unless it is an integer beyond 32 bits.
RoundTrip ==
    asked.x # Unknown /\ (asked.byRow => FitsInt(asked.x))
        => /\ Readable(asked.x.t, field)
           /\ Get(asked.x.t, field) = Kept(asked.x)

\* Read as an optional, a field that was put is none only for what SQLite has
\* no value for: none itself, a NaN and an empty blob.
NoneOnlyForNull ==
    asked.x # Unknown =>
        LET x == asked.x
        IN  GetOptional(x.t, field) = [t |-> "none"]
                <=> \/ x.t = "none"
                    \/ x.t = "double" /\ x.n = NaN
                    \/ x.t = "blob" /\ x.s = <<>>

\* An integer read with another type that can hold it is the same number,
\* except that a uint32 of 2^31 or more is stored as a negative number.
CrossRead ==
    \A u \in IntTypes \cup {"bool"} :
        /\ asked.x.t \in IntTypes \cup {"bool"} /\ ~asked.byRow
        /\ asked.x.n \in IntsOf(u)
        /\ ~(asked.x.t = "uint32" /\ asked.x.n >= H32 /\ RawHalf(u) = H64)
        => Get(u, field).n = asked.x.n

\* A row object answers as the statement it was extracted from, for every
\* type that it answers at all.
RowAgrees ==
    \A t \in RowTypes : Held(t, GetValue(field))
        => Readable(t, field) /\ RowGet(t, GetValue(field)) = Get(t, field)

\* What is lost in a row object is lost when it is extracted: inserting it and
\* extracting it again gives the same row, except for an empty blob, which
\* becomes NULL.
CopyIsStable ==
    cell # NoCell /\ cell # [class |-> "blob", s |-> <<>>]
        => GetValue(PutValue(cell)) = cell
=============================================================================
