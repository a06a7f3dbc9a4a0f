------------------------------- MODULE Shapes -------------------------------
(***************************************************************************)
(* Object schemas and the builders that derive one from another            *)
(* (schema_object.go).                                                     *)
(*                                                                         *)
(* The schema of a field is a leaf below wrappers, the outermost last: a   *)
(* leaf accepts the values of its name.  NoField is a field without a      *)
(* schema, a nil in Go.  An object has a shape, which has no order, the    *)
(* order its fields were given in, and what it does with other keys.       *)
(***************************************************************************)
EXTENDS Integers, Sequences, FiniteSets, Functions, SequencesExt, TLC

CONSTANT NameOrder    \* names of fields, in the order of strings

ASSUME ShapesAssumption == \A i, j \in DOMAIN NameOrder : NameOrder[i] = NameOrder[j] => i = j

SortedNames(names) == SelectSeq(NameOrder, LAMBDA k : k \in names)

Of(leaf) == [leaf |-> leaf, wraps |-> <<>>]
NoField == Of("nil")
IsOptional(f) == f.wraps # <<>> /\ Last(f.wraps) = "optional"
Wrapped(f, w) == IF f = NoField THEN f ELSE [f EXCEPT !.wraps = Append(@, w)]

\* What an optional field is the schema of, and whether a value is one.
Fits(f, v) == v = f.leaf

-----------------------------------------------------------------------------
(* compileObjectPlan and newObject. *)

FirstOf(order) == [i \in DOMAIN order |-> \A j \in 1 .. i - 1 : order[j] # order[i]]
Distinct(order) ==
  LET first == FirstOf(order)
      keep == SetToSortSeq({i \in DOMAIN order : first[i]}, <)
  IN  [n \in DOMAIN keep |-> order[keep[n]]]

\* The fields in parse order: those of the order that exist, then the others.
Plan(shape, order) ==
  LET given == IF order = <<>> THEN SortedNames(DOMAIN shape) ELSE order
      known == SelectSeq(Distinct(given), LAMBDA k : k \in DOMAIN shape)
  IN  known \o SortedNames(DOMAIN shape \ Range(known))

NewObject(shape, order, mode, catchall) ==
  [shape |-> shape, order |-> order, fields |-> Plan(shape, order), mode |-> mode, catchall |-> catchall]

Object(shape) == NewObject(shape, SortedNames(DOMAIN shape), "strip", NoField)

\* The first of several fields of a name counts, one without a name never.
ObjectOrdered(given) ==
  LET named == SelectSeq(given, LAMBDA f : f.name # "")
      order == Distinct([i \in DOMAIN named |-> named[i].name])
      first(k) == SelectInSeq(named, LAMBDA f : f.name = k)
  IN  NewObject([k \in Range(order) |-> named[first(k)].schema], order, "strip", NoField)

-----------------------------------------------------------------------------
(* Builders. *)

\* Mutant: the order of the fields left out is kept.
KeptUnordered(o, keep) ==
  NewObject(Restrict(o.shape, DOMAIN o.shape \cap keep), o.order, o.mode, o.catchall)

\* The fields named in keep.
Kept(o, keep) ==
  NewObject(Restrict(o.shape, DOMAIN o.shape \cap keep), SelectSeq(o.order, LAMBDA k : k \in keep), o.mode, o.catchall)

Pick(o, keys) == Kept(o, keys)
Omit(o, keys) == Kept(o, DOMAIN o.shape \ keys)

Extend(o, shape) ==
  NewObject(shape @@ o.shape, o.order \o SortedNames(DOMAIN shape \ DOMAIN o.shape), o.mode, o.catchall)

\* The other object wins, unless its field has no schema, and sets the mode.
\* The order of an object that was built has all its fields.
Merge(o, other) ==
  LET given == {k \in DOMAIN other.shape : other.shape[k] # NoField}
  IN  NewObject(Restrict(other.shape, given) @@ o.shape,
                o.order \o SelectSeq(Distinct(other.order), LAMBDA k : k \notin Range(o.order)),
                other.mode, other.catchall)

\* No keys are all keys.
Chosen(o, keys) == IF keys = {} THEN DOMAIN o.shape ELSE keys \cap DOMAIN o.shape
Rewrapped(o, keys, Wrap(_)) ==
  NewObject([k \in DOMAIN o.shape |-> IF k \in Chosen(o, keys) THEN Wrap(o.shape[k]) ELSE o.shape[k]],
            o.order, o.mode, o.catchall)
Partial(o, keys) == Rewrapped(o, keys, LAMBDA f : IF IsOptional(f) THEN f ELSE Wrapped(f, "optional"))
Required(o, keys) == Rewrapped(o, keys, LAMBDA f : Wrapped(f, "nonoptional"))

\* Strict, Loose, Strip and Catchall.
Mode(o, mode, catchall) == NewObject(o.shape, o.order, mode, catchall)

Keyof(o) == IF o.order = <<>> THEN SortedNames(DOMAIN o.shape) ELSE o.order

-----------------------------------------------------------------------------
(* An object built by calls, each the record of a builder and what it was  *)
(* given; the first call constructs one.                                   *)

RECURSIVE Built(_)

Apply(o, call) ==
  CASE call.do = "object" -> Object(call.shape)
    [] call.do = "ordered" -> ObjectOrdered(call.fields)
    [] call.do = "pick" -> Pick(o, call.keys)
    [] call.do = "omit" -> Omit(o, call.keys)
    [] call.do = "extend" -> Extend(o, call.shape)
    [] call.do = "merge" -> Merge(o, Built(call.other))
    [] call.do = "partial" -> Partial(o, call.keys)
    [] call.do = "required" -> Required(o, call.keys)
    [] call.do = "mode" -> Mode(o, call.mode, call.catchall)

Built(calls) == FoldLeft(Apply, Object(<<>>), calls)

\* makeObjectParse: the output, and the paths of the issues in their order.
ParseObject(o, data) ==
  LET fields == SelectSeq(o.fields, LAMBDA k : o.shape[k] # NoField)
      unknown == DOMAIN data \ Range(o.fields)
      failed(k) == IF k \in DOMAIN data THEN ~Fits(o.shape[k], data[k]) ELSE ~IsOptional(o.shape[k])
      strict == o.mode = "strict" \/ (o.mode = "catchall" /\ o.catchall.leaf = "never")
      caught == o.mode = "catchall" /\ o.catchall.leaf \notin {"never", "nil"}
      kept == IF caught \/ o.mode = "loose" THEN unknown ELSE {}
  IN  [of |-> Restrict(data, (Range(fields) \cap DOMAIN data) \cup kept),
       issues |-> [i \in DOMAIN SelectSeq(fields, failed) |-> <<SelectSeq(fields, failed)[i]>>]
                    \o (IF strict /\ unknown # {} THEN <<<<>>>> ELSE <<>>)
                    \o LET bad == SortedNames({k \in unknown : caught /\ ~Fits(o.catchall, data[k])})
                       IN  [i \in DOMAIN bad |-> <<bad[i]>>]]
-----------------------------------------------------------------------------
(* What the calls say, one field at a time. *)

\* The schema of field k after the calls, as a set: none or one.
RECURSIVE SchemaAfter(_, _)
SchemaAfter(calls, k) ==
  LET call == Last(calls)
      before == SchemaAfter(Front(calls), k)
      theirs == SchemaAfter(call.other, k) \ {NoField}
  IN  IF calls = <<>> THEN {}
      ELSE CASE call.do = "object" -> {call.shape[j] : j \in DOMAIN call.shape \cap {k}}
             [] call.do = "ordered" -> {call.fields[Min(S)].schema : S \in {{i \in DOMAIN call.fields : call.fields[i].name = k}} \ {{}}}
             [] call.do = "pick" -> IF k \in call.keys THEN before ELSE {}
             [] call.do = "omit" -> IF k \in call.keys THEN {} ELSE before
             [] call.do = "extend" -> IF k \in DOMAIN call.shape THEN {call.shape[k]} ELSE before
             [] call.do = "merge" -> IF theirs = {} THEN before ELSE theirs
             [] call.do = "partial" /\ (call.keys = {} \/ k \in call.keys) ->
                  {IF IsOptional(f) THEN f ELSE Wrapped(f, "optional") : f \in before}
             [] call.do = "required" /\ (call.keys = {} \/ k \in call.keys) -> {Wrapped(f, "nonoptional") : f \in before}
             [] OTHER -> before

HasAfter(calls, k) == SchemaAfter(calls, k) # {}

\* When field k, which there is after the calls, came in: the call since which
\* there always was one, and its place among those of that call.
RECURSIVE Since(_, _)
Since(calls, k) ==
  LET n == Max({i \in DOMAIN calls : i = 1 \/ ~HasAfter(SubSeq(calls, 1, i - 1), k)})
  IN  CASE calls[n].do = "ordered" -> <<n, Min({i \in DOMAIN calls[n].fields : calls[n].fields[i].name = k})>>
        [] calls[n].do = "merge" -> <<n>> \o Since(calls[n].other, k)
        [] OTHER -> <<n, Min({i \in DOMAIN NameOrder : NameOrder[i] = k})>>

Earlier(p, q) == \E i \in DOMAIN p \cap DOMAIN q : p[i] < q[i] /\ \A j \in 1 .. i - 1 : p[j] = q[j]

\* A merge with a field without a schema, that the object has no field for,
\* leaves the name in the order although there is no such field.
RECURSIVE NamesNoField(_)
NamesNoField(calls) ==
  \E i \in DOMAIN calls :
    /\ calls[i].do = "merge"
    /\ \/ NamesNoField(calls[i].other)
       \/ \E k \in Range(NameOrder) :
            SchemaAfter(calls[i].other, k) = {NoField} /\ ~HasAfter(SubSeq(calls, 1, i - 1), k)

\* The object the calls build has the fields they say, each once, and Keyof
\* leaves none out.
BuiltAsSaid(calls) ==
  LET o == Built(calls)
      said == {k \in Range(NameOrder) : HasAfter(calls, k)}
  IN  /\ DOMAIN o.shape = said /\ \A k \in said : o.shape[k] \in SchemaAfter(calls, k)
      /\ Range(o.fields) = said /\ Len(o.fields) = Cardinality(said)
      /\ said \subseteq Range(Keyof(o))

\* They are in the order in which they came in, and Keyof names just these.
OrderedAsSaid(calls) ==
  LET o == Built(calls)
  IN  /\ \A i, j \in DOMAIN o.fields : i < j => Earlier(Since(calls, o.fields[i]), Since(calls, o.fields[j]))
      /\ Keyof(o) = o.fields
=============================================================================
