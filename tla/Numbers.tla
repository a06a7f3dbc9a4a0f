------------------------------ MODULE Numbers -------------------------------
(***************************************************************************)
(* Numbers on their way through the library: the numeric schemas of        *)
(* schema_numeric.go, their checks in checks_number.go, and the fields of  *)
(* structs in tostruct.go.                                                 *)
(*                                                                         *)
(* A Go value is a record: t is its type and u its value in halves, so     *)
(* that there are numbers that are not whole.  The widths are scaled       *)
(* down: a word stands for 64 bits, a half word for 32, and floats keep    *)
(* Mantissa bits of precision.                                             *)
(***************************************************************************)
EXTENDS Integers, Sequences, FiniteSets

CONSTANTS
  Word, HalfWord,             \* bits of int64 and of int32
  Mantissa, Mantissa32,       \* bits of precision of float64 and of float32
  Exponent, Exponent32        \* float64 and float32 are finite below 2^Exponent halves

ASSUME NumbersAssumption ==
  /\ {Word, HalfWord, Mantissa, Mantissa32, Exponent, Exponent32} \subseteq Nat \ {0}
  /\ Mantissa32 < HalfWord /\ HalfWord < Mantissa /\ Mantissa < Word - 1
  /\ Word + 1 < Exponent32 /\ Exponent32 < Exponent

\* Two to the power n.
Pow2[n \in Nat] == IF n = 0 THEN 1 ELSE 2 * Pow2[n - 1]

Abs(n) == IF n < 0 THEN -n ELSE n
Whole(u) == u % 2 = 0

MaxInt64 == 2 * (Pow2[Word - 1] - 1)
MinInt64 == -(2 * Pow2[Word - 1])
MaxUint64 == 2 * (Pow2[Word] - 1)
MaxSafeInteger == 2 * (Pow2[Mantissa] - 1)
MaxFloat64 == (Pow2[Mantissa] - 1) * Pow2[Exponent - Mantissa]
MaxFloat32 == (Pow2[Mantissa32] - 1) * Pow2[Exponent32 - Mantissa32]

-----------------------------------------------------------------------------
(* Floats. *)

\* num / den to the nearest integer, ties to even; both are positive.
NearestEven(num, den) ==
  LET q == num \div den
      r == 2 * (num % den)
  IN  IF r > den \/ (r = den /\ q % 2 = 1) THEN q + 1 ELSE q

\* u rounded to bits of precision.
RoundTo(bits, u) ==
  LET a == Abs(u)
      s == CHOOSE k \in 0 .. a : a < Pow2[bits + k] /\ (k = 0 \/ Pow2[bits + k - 1] <= a)
      m == NearestEven(a, Pow2[s]) * Pow2[s]
  IN  IF u < 0 THEN -m ELSE m

Round(u) == RoundTo(Mantissa, u)

Float(u) == [t |-> "float64", u |-> u]
NaN == [t |-> "nan", u |-> 0]
Infinite == {"nan", "inf"}       \* float64 values that are no numbers

\* The nearest float64, an infinity beyond the range.
Ranged(u) == IF Abs(u) > MaxFloat64 THEN [t |-> "inf", u |-> 0] ELSE Float(u)
Float64Of(u) == Ranged(Round(u))

-----------------------------------------------------------------------------
(* Go values.  "ID" is a named type (type ID uint64), which no type switch  *)
(* of the code matches; a text is a json.Number or a string, lit its       *)
(* syntax: an integer or a decimal literal, nothing, or no number.  The    *)
(* narrow integers behave as int64.  Named floats are left out.            *)

Named == {"ID"}
Signed == {"int64", "int", "int32"}
Unsigned == {"uint64", "uint", "uint32"} \cup Named
Floats == {"float64", "float32"} \cup Infinite
Yes(v) == [ok |-> TRUE, v |-> v]
No == [ok |-> FALSE, v |-> NaN]

\* The numbers of an integer type, told from its width alone.
TypeRange(t) ==
  LET n == IF t \in {"int32", "uint32"} THEN HalfWord ELSE Word
      whole == IF t \in Unsigned THEN 0 .. Pow2[n] - 1 ELSE -Pow2[n - 1] .. Pow2[n - 1] - 1
  IN  {2 * k : k \in whole}

\* A value that a variable of a numeric type may have.
Finites == {"float64", "float32"}
IsGoNumber(v) ==
  CASE v.t \in Signed \cup Unsigned -> v.u \in TypeRange(v.t)
    [] v.t = "float64" -> v.u \in Int /\ Round(v.u) = v.u /\ Abs(v.u) <= MaxFloat64
    [] v.t = "float32" -> v.u \in Int /\ RoundTo(Mantissa32, v.u) = v.u /\ Abs(v.u) <= MaxFloat32
    [] OTHER -> FALSE

\* namedInt knows a named integer up to MaxInt64; asInteger knows those and the
\* integers of the other types.
Recognized(v) == v.t \in Named => v.u <= MaxInt64
IsInteger(v) == v.t \in Signed \cup Unsigned /\ Recognized(v)

\* strconv.ParseInt and ParseFloat.
IsInt64Text(v) == v.lit = "integer" /\ v.u \in MinInt64 .. MaxInt64
Finite(f) == IF f.t = "float64" THEN Yes(f) ELSE No
ParseFloat(v) ==
  CASE v.lit \in {"integer", "decimal"} -> Finite(Float64Of(v.u))
    [] v.lit = "nan" -> Yes(NaN)
    [] OTHER -> No

ToFloat(v) ==
  CASE v.t \in Infinite -> Yes(v)
    [] v.t \in {"float64", "float32"} -> Yes(Float(v.u))
    [] IsInteger(v) -> Yes(Float(Round(v.u)))
    [] v.t = "jsonNumber" -> ParseFloat(v)
    [] OTHER -> No

\* Mutant: a float at 2^63 passes for an int64, and wraps.
FloatToInt64Wide(f) ==
  IF f.ok /\ f.v.t \notin Infinite /\ Whole(f.v.u) /\ f.v.u <= MaxInt64 + 2 /\ f.v.u >= MinInt64
  THEN Yes(IF f.v.u > MaxInt64 THEN MinInt64 ELSE f.v.u) ELSE No

\* A float, if there is one, as an int64; float64(MaxInt64) is above MaxInt64.
FloatToInt64(f) ==
  IF f.ok /\ f.v.t \notin Infinite /\ Whole(f.v.u) /\ f.v.u < MaxInt64 + 2 /\ f.v.u >= MinInt64
  THEN Yes(f.v.u) ELSE No

\* toInt64: the value of a Go number as an int64.
ToInt64(v) ==
  CASE v.t \in Signed \cup Unsigned \cup {"bigInt"} ->
         IF v.u \in MinInt64 .. MaxInt64 THEN Yes(v.u) ELSE No
    [] v.t \in {"float64", "float32"} -> FloatToInt64(Yes(v))
    [] v.t = "jsonNumber" -> IF IsInt64Text(v) THEN Yes(v.u) ELSE FloatToInt64(ParseFloat(v))
    [] OTHER -> No

-----------------------------------------------------------------------------
(* Numeric schemas.  A schema has an output type out, and is strict when a *)
(* number that does not fit is invalid_type at once; the others keep it as *)
(* a float64 for their format check.                                       *)

Bits(out) == IF out \in {"int32", "uint32"} THEN HalfWord ELSE Word

\* The formats of the constructors that are not strict, and of Safe.
Formats(out) ==
  CASE out = "float64" -> {"none", "float64", "safeint"}
    [] out = "int" -> {"safeint"}
    [] out \in {"int32", "uint32", "float32"} -> {out}
    [] OTHER -> {}

\* integerBounds: uint64 is capped, numericConverter takes what is above.
IntegerBounds(out) ==
  IF out \in Unsigned
  THEN [lo |-> 0, hi |-> IF Bits(out) = Word THEN MaxInt64 ELSE 2 * (Pow2[Bits(out)] - 1)]
  ELSE [lo |-> -(2 * Pow2[Bits(out) - 1]), hi |-> 2 * (Pow2[Bits(out) - 1] - 1)]

ConvertFloat(out, f) ==
  LET limit == IF out = "float32" THEN MaxFloat32 ELSE MaxFloat64
  IN  IF f.ok /\ f.v.t \notin Infinite /\ Abs(f.v.u) <= limit
      THEN Yes([t |-> out, u |-> IF out = "float32" THEN RoundTo(Mantissa32, f.v.u) ELSE f.v.u])
      ELSE No

ConvertInteger(out, v, n) ==
  LET b == IntegerBounds(out)
  IN  IF v.t = "uint64" /\ out \in Unsigned /\ v.u > MaxInt64
      THEN IF b.hi = MaxInt64 \/ v.u <= b.hi THEN Yes([t |-> out, u |-> v.u]) ELSE No
      ELSE IF n.ok /\ n.v \in b.lo .. b.hi THEN Yes([t |-> out, u |-> n.v]) ELSE No

\* numericConverter.
Convert(out, v) == IF out \in Floats THEN ConvertFloat(out, ToFloat(v)) ELSE ConvertInteger(out, v, ToInt64(v))

\* coerceToInt64 and coerceToNumber: texts, bools and big integers.
CoerceToInt64(v) ==
  IF ToInt64(v).ok \/ v.t = "bool" \/ (v.t = "string" /\ (v.lit = "empty" \/ IsInt64Text(v)))
  THEN Yes([t |-> "int64", u |-> IF ToInt64(v).ok THEN ToInt64(v).v ELSE v.u]) ELSE No

CoerceToNumber(v) ==
  CASE v.t = "bool" \/ (v.t = "string" /\ v.lit = "empty") -> Yes(Float(v.u))
    [] v.t = "string" /\ v.lit # "empty" -> ParseFloat(v)
    [] v.t = "bigInt" -> Yes(Float64Of(v.u))
    [] OTHER -> ToFloat(v)

Coerced(s, v) ==
  LET c == IF s.out \notin Floats /\ CoerceToInt64(v).ok THEN CoerceToInt64(v) ELSE CoerceToNumber(v)
  IN  IF s.coerce /\ c.ok THEN c.v ELSE v

\* The parse function of newNumeric, on what the value converts to and on its
\* float; No is its invalid_type issue.
OrFloat(s, converted, f) ==
  IF converted.ok THEN converted
  ELSE IF f.ok /\ ~s.strict /\ f.v.t \notin Infinite THEN f ELSE No
ParseUncoerced(s, v) == OrFloat(s, Convert(s.out, v), ToFloat(v))
ParseNumber(s, v) == ParseUncoerced(s, Coerced(s, v))

-----------------------------------------------------------------------------
(* Checks. *)

FormatRange(format) ==
  CASE format = "safeint" -> [lo |-> -MaxSafeInteger, hi |-> MaxSafeInteger]
    [] format = "int32" -> IntegerBounds("int32")
    [] format = "uint32" -> IntegerBounds("uint32")
    [] format = "float32" -> [lo |-> -MaxFloat32, hi |-> MaxFloat32]
    [] OTHER -> [lo |-> -MaxFloat64, hi |-> MaxFloat64]

NumberFormat(format, v) ==
  LET f == ToFloat(v)
      r == FormatRange(format)
      int == format \in {"safeint", "int32", "uint32"}
  IN  \/ ~f.ok
      \/ /\ int => Whole(f.v.u) /\ f.v.u \in -MaxSafeInteger .. MaxSafeInteger
         /\ f.v.u \in r.lo .. r.hi

\* compareNumeric, as the sign of the difference: two integers compare
\* exactly, other numbers as float64, and nothing else compares.
CompareNumeric(a, b) ==
  IF IsInteger(a) /\ IsInteger(b) THEN Yes(a.u - b.u)
  ELSE IF ToFloat(a).ok /\ ToFloat(b).ok THEN Yes(ToFloat(a).v.u - ToFloat(b).v.u) ELSE No

\* floatSafeRemainder(val, step) = 0.  The ratio is q / 2^s, rounded to
\* Mantissa bits; it may be off a whole number by that precision.
NoFloatRemainder(val, step) ==
  LET num == Abs(val)
      den == Abs(step)
      s == CHOOSE k \in 0 .. 2 * Exponent :
             \/ num * Pow2[k] >= den * Pow2[Mantissa - 1]
             \/ k = 2 * Exponent
      large == num >= den * Pow2[Mantissa]
      q == NearestEven(num * Pow2[s], den)
      nearest == (2 * q + Pow2[s]) \div (2 * Pow2[s])
  IN  large \/ Abs(q - nearest * Pow2[s]) * Pow2[Mantissa - 1] < (IF q > Pow2[s] THEN q ELSE Pow2[s])

\* MultipleOf, MultipleOfInt64 and MultipleOfUint64, by the output type; the
\* divisor has that type.
MultipleOf(out, v, d) ==
  LET exact == /\ out \notin Floats
               /\ IsInteger(v)
               /\ IF out \in Unsigned THEN v.u >= 0 ELSE v.u \in MinInt64 .. MaxInt64
      f == ToFloat(v)
  IN  \/ d.u = 0
      \/ exact /\ v.u % Abs(d.u) = 0
      \/ ~exact /\ (f.ok => NoFloatRemainder(f.v.u, Round(d.u)))

\* The check of a schema, if it has one: gt, gte, lt, lte or multipleOf.  What
\* does not compare passes.
Holds(s, v) ==
  LET c == CompareNumeric(v, s.bound)
  IN  CASE s.check = "none" -> TRUE
        [] s.check = "gt" -> c.ok => c.v > 0
        [] s.check = "gte" -> c.ok => c.v >= 0
        [] s.check = "lt" -> c.ok => c.v < 0
        [] s.check = "lte" -> c.ok => c.v <= 0
        [] s.check = "multipleOf" -> MultipleOf(s.out, v, s.bound)

\* What the constructors of numeric schemas and their methods make; the bound of
\* a float schema counts as a float64, and none has a named type (numericBound).
Comparing == {"gt", "gte", "lt", "lte", "multipleOf"}
IsNumeric(s) ==
  /\ s.out \in Signed \cup Unsigned \cup Finites
  /\ s.format \in IF s.strict THEN {"none", "safeint"} ELSE Formats(s.out)
  /\ \/ s.check = "none"
     \/ /\ s.check \in Comparing /\ IsGoNumber(s.bound)
        /\ s.bound.t \in IF s.out \in Finites THEN {"float64"} ELSE (Signed \cup Unsigned) \ Named

\* Parse of a numeric schema: what it returns, and whether without an issue.
AfterChecks(s, p) == IF p.ok /\ NumberFormat(s.format, p.v) /\ Holds(s, p.v) THEN p ELSE No
Parse(s, v) == AfterChecks(s, ParseNumber(s, v))

-----------------------------------------------------------------------------
(* Struct fields: assignScalar, for a field of a numeric type.  A value of  *)
(* a named type is a number to a field of its own type only.               *)

ScalarToInt64(v) == IF v.t \in Named \cup {"bigInt"} THEN No ELSE ToInt64(v)

FloatToUint64(f) ==
  IF f.ok /\ f.v.t \notin Infinite /\ Whole(f.v.u) /\ f.v.u >= 0 /\ f.v.u < MaxUint64 + 2
  THEN Yes(f.v.u) ELSE No

ScalarToUint64(v) ==
  CASE v.t \in (Signed \cup Unsigned) \ Named -> IF v.u >= 0 THEN Yes(v.u) ELSE No
    [] v.t \in {"float64", "float32"} ->
         FloatToUint64(Yes(v))
    [] v.t = "jsonNumber" ->
         IF v.lit = "integer" /\ v.u \in 0 .. MaxUint64 THEN Yes(v.u) ELSE FloatToUint64(ParseFloat(v))
    [] OTHER -> No

\* OverflowInt and OverflowUint look at the width of the field.
AssignInteger(field, n) ==
  LET hi == IF field \in Unsigned /\ Bits(field) = Word THEN MaxUint64 ELSE IntegerBounds(field).hi
  IN  IF n.ok /\ n.v \in IntegerBounds(field).lo .. hi THEN Yes([t |-> field, u |-> n.v]) ELSE No

\* A float field takes the nearest float, an infinity for a float32 too small.
AssignFloat(field, f) ==
  LET r == IF field = "float32" THEN RoundTo(Mantissa32, f.v.u) ELSE f.v.u
  IN  IF ~f.ok THEN No
      ELSE IF field = "float32" /\ Abs(r) > MaxFloat32 THEN Yes([t |-> "inf", u |-> 0])
           ELSE Yes([t |-> field, u |-> r])

Assign(field, v) ==
  IF v.t = field THEN Yes(v)
  ELSE IF field \in Floats THEN AssignFloat(field, IF v.t \in Named \cup {"jsonNumber"} THEN No ELSE ToFloat(v))
  ELSE AssignInteger(field, IF field \in Unsigned THEN ScalarToUint64(v) ELSE ScalarToInt64(v))
=============================================================================
