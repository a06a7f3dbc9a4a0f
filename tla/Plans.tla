------------------------------- MODULE Plans --------------------------------
(***************************************************************************)
(* Objects decoded into structs (tostruct.go): the plan of a struct type,  *)
(* built once by reflection, and its application to data.                  *)
(*                                                                         *)
(* types maps the name of a struct type to its fields.  A field has a Go   *)
(* name, a json tag, and a type: a number, a struct, a slice or an array,  *)
(* perhaps behind a pointer.  anonymous and exported are reflect's.  A     *)
(* tag is "" when there is none and "," when it gives options only.        *)
(*                                                                         *)
(* A struct value is the function from the places in it that were assigned *)
(* to what they hold; a place is a path of field and element positions.    *)
(***************************************************************************)
EXTENDS Numbers, SequencesExt, TLC

\* isPromotableEmbed; time.Time is no struct type here.
IsPromoted(field) == field.anonymous /\ field.tag = "" /\ field.type.kind = "struct"

\* parseJSONTag, and the fields buildStructPlan leaves out.
JSONName(field) == IF field.tag \in {"", ","} THEN field.name ELSE field.tag
IsSkipped(field) == field.tag = "-" \/ (~field.exported /\ ~field.anonymous)

PlannedNames(plan) == {plan[i].name : i \in DOMAIN plan}
Planned(field, i) == [name |-> JSONName(field), index |-> <<i>>, type |-> field.type]

-----------------------------------------------------------------------------
(* buildStructPlan.  plans holds the plans built so far, the unfinished    *)
(* ones of the types around this one too: a plan refers to the plans of    *)
(* its struct types by name, as the code does by pointer.                  *)

\* buildTypePlan: the struct type a type leads to, below slices and arrays.
RECURSIVE StructsIn(_)
StructsIn(type) ==
  CASE type.kind = "struct" -> <<type.of>>
    [] type.kind \in {"slice", "array"} -> StructsIn(type.of)
    [] OTHER -> <<>>

\* Mutant: a field of an embedded struct hides the direct one.
PromoteHiding(plans, T, i, U) ==
  LET own == SelectSeq(plans[T], LAMBDA f : f.name \notin PlannedNames(plans[U]))
  IN  [plans EXCEPT ![T] = own \o [n \in DOMAIN plans[U] |-> [plans[U][n] EXCEPT !.index = <<i>> \o @]]]

\* The fields of U, embedded in T as field i, that T has no field for.
Promote(plans, T, i, U) ==
  LET new == SelectSeq(plans[U], LAMBDA f : f.name \notin PlannedNames(plans[T]))
  IN  [plans EXCEPT ![T] = @ \o [n \in DOMAIN new |-> [new[n] EXCEPT !.index = <<i>> \o @]]]

RECURSIVE BuildStructPlan(_, _, _)
BuildStructPlan(types, T, pending) ==
  LET fields == types[T]
      direct(plans, i) ==
        IF IsSkipped(fields[i]) \/ IsPromoted(fields[i]) \/ JSONName(fields[i]) \in PlannedNames(plans[T])
        THEN plans
        ELSE LET nested == FoldLeft(LAMBDA p, U : BuildStructPlan(types, U, p), plans, StructsIn(fields[i].type))
             IN  [nested EXCEPT ![T] = Append(@, Planned(fields[i], i))]
      embedded(plans, i) ==
        IF IsPromoted(fields[i])
        THEN Promote(BuildStructPlan(types, fields[i].type.of, plans), T, i, fields[i].type.of) ELSE plans
      positions == [i \in DOMAIN fields |-> i]
  IN  IF T \in DOMAIN pending THEN pending
      ELSE FoldLeft(embedded, FoldLeft(direct, (T :> <<>>) @@ pending, positions), positions)

PlanFor(types, T) == BuildStructPlan(types, T, <<>>)

-----------------------------------------------------------------------------
(* Decoding: the places assigned, or an error. *)

Places(of) == [ok |-> TRUE, of |-> of]
NoPlaces == [ok |-> FALSE, of |-> <<>>]

\* The places of several parts, each below its own path.
Gathered(parts) ==
  IF \A i \in DOMAIN parts : parts[i].at.ok
  THEN Places(FoldLeft(LAMBDA all, part :
                         [p \in {part.path \o q : q \in DOMAIN part.at.of} |->
                            part.at.of[SubSeq(p, Len(part.path) + 1, Len(p))]] @@ all,
                       <<>>, parts))
  ELSE NoPlaces

\* The type of the field a path of field positions leads to, as reflect sees it.
RECURSIVE FieldAt(_, _, _)
FieldAt(types, T, index) ==
  IF Len(index) = 1 THEN types[T][index[1]]
  ELSE FieldAt(types, types[T][index[1]].type.of, Tail(index))

\* fieldByIndexAlloc and CanSet: a pointer on the way must be exported, and so
\* must the field.
Reachable(types, T, index) ==
  /\ FieldAt(types, T, index).exported
  /\ \A n \in 1 .. Len(index) - 1 :
       LET f == FieldAt(types, T, SubSeq(index, 1, n)) IN f.type.ptr => f.exported

RECURSIVE ApplyPlan(_, _, _, _), SetField(_, _, _, _)

\* applyPlan.
ApplyPlan(types, plans, T, data) ==
  LET named == SelectSeq(plans[T], LAMBDA f : f.name \in DOMAIN data /\ data[f.name].t # "nil")
  IN  Gathered([i \in DOMAIN named |->
        [path |-> named[i].index,
         at |-> IF Reachable(types, T, named[i].index)
                THEN SetField(types, plans, named[i].type, data[named[i].name]) ELSE NoPlaces]])

\* setField, setSlice, setSliceElem and assignScalar.
SetField(types, plans, type, v) ==
  CASE type.kind = "struct" ->
         IF v.t = "object" THEN ApplyPlan(types, plans, type.of, v.of) ELSE NoPlaces
    [] type.kind \in {"slice", "array"} ->
         LET element(i) == IF v.of[i].t = "nil" /\ (type.of.ptr \/ type.of.kind = "number")
                           THEN Places(<<>>) ELSE SetField(types, plans, type.of, v.of[i])
             elements == [i \in DOMAIN v.of |-> [path |-> <<i>>, at |-> element(i)]]
         IN  IF v.t # "list" \/ (type.kind = "array" /\ Len(v.of) > type.len) THEN NoPlaces
             ELSE Gathered(<<[path |-> <<>>, at |-> Places(<<>> :> [t |-> type.kind, u |-> Len(v.of)])]>> \o elements)
    [] type.kind = "number" ->
         LET n == Assign(type.of, v) IN IF n.ok THEN Places(<<>> :> n.v) ELSE NoPlaces

DecodeStruct(types, T, data) == ApplyPlan(types, PlanFor(types, T), T, data)
-----------------------------------------------------------------------------
(* What a plan is for: every member of the data that a type has a field    *)
(* for goes into that field.                                               *)

\* Where a name of the data goes in a struct of type T: its own field if it has
\* one, else the field it has in the first embedded struct that has one.
RECURSIVE Selected(_, _, _, _)
Selected(types, T, name, visited) ==
  LET fields == types[T]
      own == {i \in DOMAIN fields : ~IsSkipped(fields[i]) /\ ~IsPromoted(fields[i]) /\ JSONName(fields[i]) = name}
      below(i) == Selected(types, fields[i].type.of, name, visited \cup {T})
      through == {i \in DOMAIN fields : IsPromoted(fields[i]) /\ fields[i].type.of \notin visited \cup {T} /\ below(i) # <<>>}
  IN  IF own # {} THEN <<Min(own)>>
      ELSE IF through # {} THEN <<Min(through)>> \o below(Min(through)) ELSE <<>>

\* The plans types should have, in any order of their fields.
WholePlans(types) ==
  LET names == {JSONName(f) : f \in UNION {Range(types[T]) : T \in DOMAIN types}}
      at(T, k) == Selected(types, T, k, {})
  IN  [T \in DOMAIN types |->
         SetToSeq({[name |-> k, index |-> at(T, k), type |-> FieldAt(types, T, at(T, k)).type] :
                     k \in {n \in names : at(T, n) # <<>>}})]

\* The types a type leads to.
Embeds(types, T) == {types[T][i].type.of : i \in {j \in DOMAIN types[T] : IsPromoted(types[T][j])}}
Mentions(types, T) == UNION {Range(StructsIn(types[T][i].type)) : i \in DOMAIN types[T]}
RECURSIVE LeadsTo(_, _)
LeadsTo(types, from) ==
  LET next == from \cup UNION {Mentions(types, T) : T \in from}
  IN  IF next = from THEN from ELSE LeadsTo(types, next)

\* A type that embeds a type that leads back to it, other than itself, may get
\* its plan while the embedded type has only a part of its own.
EmbedsInCycle(types) ==
  \E T \in DOMAIN types : \E U \in Embeds(types, T) : U # T /\ T \in LeadsTo(types, {U})
=============================================================================
