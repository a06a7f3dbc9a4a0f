------------------------------- MODULE Export -------------------------------
(***************************************************************************)
(* JSON Schema documents (jsonschema.go, jsonschema_dialect.go): what      *)
(* ToJSONSchema says of a schema, and the same in the older dialects.      *)
(*                                                                         *)
(* A document is a function from its keywords: type is a set of types,     *)
(* enum a set of values, required a set of keys, and a document that is    *)
(* false is Nothing.  The keyword unrepresentable, which no document has,  *)
(* marks where ToJSONSchema returns an error unless told to say anything.  *)
(* Recursive, for TLC only.                                                *)
(***************************************************************************)
EXTENDS Meaning

CONSTANTS
  LeafKeywords(_),   \* what a leaf's document says, by its parse function
  BoundOf(_),        \* the keyword a check records a bound under, with the bound
  NumberAtoms,       \* the atoms that are numbers
  Amount(_),         \* the number such an atom is
  Samples            \* values documents are tried on, and Missing

Sides == {"input", "output"}
Dialects == {"draft-2020-12", "draft-07", "openapi-3.0"}

Anything == <<>>
Nothing == [not |-> Anything]
NullDoc == [type |-> {"null"}]
Marked(d) == [unrepresentable |-> TRUE] @@ d

Without(d, keywords) == Restrict(d, DOMAIN d \ keywords)

-----------------------------------------------------------------------------
(* emitJSONSchema, draft 2020-12. *)

\* applyNumberChecks: the bag has one bound of each kind, the last attached.
Bounds(checks) == FoldLeft(LAMBDA d, ch : BoundOf(ch.fn) @@ d, Anything, checks)

\* Mutant: the null branch and the type are there, but not in const and enum.
NulledLoosely(d) ==
  IF "type" \in DOMAIN d THEN [d EXCEPT !.type = @ \cup {"null"}]
  ELSE IF "anyOf" \in DOMAIN d THEN [d EXCEPT !.anyOf = Append(@, NullDoc)]
  ELSE IF "oneOf" \in DOMAIN d THEN [d EXCEPT !.oneOf = Append(@, NullDoc)]
  ELSE IF "allOf" \in DOMAIN d THEN [anyOf |-> <<[allOf |-> d.allOf], NullDoc>>] @@ Without(d, {"allOf"})
  ELSE d

\* The document of a Nullable, from the one of its inner schema.
Nulled(d) ==
  LET widened ==
        IF "type" \in DOMAIN d THEN [d EXCEPT !.type = @ \cup {"null"}]
        ELSE IF "anyOf" \in DOMAIN d THEN [d EXCEPT !.anyOf = Append(@, NullDoc)]
        ELSE IF "oneOf" \in DOMAIN d THEN [d EXCEPT !.oneOf = Append(@, NullDoc)]
        ELSE IF "allOf" \in DOMAIN d THEN [anyOf |-> <<[allOf |-> d.allOf], NullDoc>>] @@ Without(d, {"allOf"})
        ELSE d
  IN  IF "const" \in DOMAIN d THEN [enum |-> {d.const, Null}] @@ Without(widened, {"const"})
      ELSE IF "enum" \in DOMAIN d THEN [widened EXCEPT !.enum = @ \cup {Null}]
      ELSE widened

\* unwrapJSONSchemaInner: the schema that speaks for a wrapper.
Speaker(s, io) == IF s.kind \in {"pipe", "codec"} /\ io = "output" THEN s.kids[2] ELSE s.kids[1]

\* emitObjectJSONSchema.  Emitting a field resolves it if it is a Lazy, before
\* its OptIn is read.
ObjectDoc(s, parts, rest) ==
  [type |-> {"object"}, properties |-> parts,
   required |-> {k \in DOMAIN s.kids : ~Traits(s.kids[k]).optIn},
   additionalProperties |-> CASE s.mode = "strict" -> Nothing
                              [] s.mode = "catchall" -> rest
                              [] OTHER -> Anything]

\* emitArrayJSONSchema.
ArrayDoc(s, parts, rest) ==
  (IF s.kind = "tuple" THEN [prefixItems |-> parts] ELSE Anything) @@ [type |-> {"array"}, items |-> rest]

\* Nothing is said of the keys of a record.
EntriesDoc(part) ==
  [type |-> {"object"}, properties |-> <<>>, required |-> {}, additionalProperties |-> part]

\* unionOptions: a discriminated union is no UnionSchema, and has no options.
UnionDoc(s, parts) ==
  CASE s.kind = "union" -> [anyOf |-> parts]
    [] s.kind = "xor" -> [oneOf |-> parts]
    [] s.kind = "discunion" -> [anyOf |-> <<>>]

\* seen holds the schemas around this one: a cycle ends in {}.
RECURSIVE Emit(_, _, _)
Emit(n, io, seen) ==
  LET s == graph[n]
      Part(k) == Emit(k, io, seen \cup {n})
      parts == [i \in DOMAIN s.kids |-> Part(s.kids[i])]
      rest == IF s.rest = NoNode THEN Nothing ELSE Part(s.rest)
  IN
  IF n \in seen THEN Anything
  ELSE
  CASE s.kind = "leaf" -> Bounds(s.checks) @@ LeafKeywords(s.fn)
    [] s.kind = "object" -> ObjectDoc(s, parts, rest)
    [] s.kind \in {"array", "tuple"} -> ArrayDoc(s, parts, rest)
    [] s.kind \in {"union", "xor", "discunion"} -> UnionDoc(s, parts)
    [] s.kind = "intersection" -> [allOf |-> parts]
    [] s.kind = "record" -> EntriesDoc(parts[2])
    [] s.kind \in {"set", "map"} -> Marked(Anything)
    [] s.kind = "nullable" -> Nulled(parts[1])
    [] OTHER -> Part(Speaker(s, io))

-----------------------------------------------------------------------------
(* jsonschema_dialect.go.  A list of schemas under items, which draft-07    *)
(* has for tuples, is the keyword itemList here.                           *)

SubschemaKeys == {"items", "additionalItems", "additionalProperties", "not"}
SubschemaListKeys == {"anyOf", "oneOf", "allOf", "prefixItems", "properties"}

Draft07(d) ==
  IF "prefixItems" \in DOMAIN d
  THEN [itemList |-> d.prefixItems, additionalItems |-> d.items] @@ Without(d, {"prefixItems", "items"})
  ELSE d

TupleDropped(d) ==
  IF "prefixItems" \in DOMAIN d THEN Marked(Without(d, {"prefixItems", "items"})) ELSE d

ConstAsEnum(d) ==
  IF "const" \in DOMAIN d THEN [enum |-> {d.const}] @@ Without(d, {"const"}) ELSE d

\* The emitter never gives two types besides null.
TypeAsNullable(d) ==
  IF "type" \notin DOMAIN d \/ "null" \notin d.type THEN d
  ELSE IF d.type = {"null"} THEN Marked([nullable |-> TRUE] @@ Without(d, {"type"}))
  ELSE [d EXCEPT !.type = @ \ {"null"}] @@ [nullable |-> TRUE]

\* Mutant: of two equal bounds the inclusive one is kept.
TightestInclusive(d, inclusive, exclusive, looser) ==
  IF exclusive \notin DOMAIN d THEN d
  ELSE IF inclusive \notin DOMAIN d \/ (looser[d[inclusive], d[exclusive]] /\ d[inclusive] # d[exclusive])
  THEN (inclusive :> d[exclusive]) @@ (exclusive :> TRUE) @@ d
  ELSE Without(d, {exclusive})

\* One bound for each side, the exclusive one if the inclusive one is looser;
\* looser is boundIsLooser for that side.
Tightest(d, inclusive, exclusive, looser) ==
  IF exclusive \notin DOMAIN d THEN d
  ELSE IF inclusive \notin DOMAIN d \/ looser[d[inclusive], d[exclusive]]
  THEN (inclusive :> d[exclusive]) @@ (exclusive :> TRUE) @@ d
  ELSE Without(d, {exclusive})

Numbers == {Amount(v) : v \in NumberAtoms}
LooserMinimum == [i, x \in Numbers |-> i <= x]
LooserMaximum == [i, x \in Numbers |-> i >= x]

OpenAPI30(d) ==
  Tightest(Tightest(TypeAsNullable(ConstAsEnum(TupleDropped(d))),
                    "minimum", "exclusiveMinimum", LooserMinimum),
           "maximum", "exclusiveMaximum", LooserMaximum)

\* walkSchemaNode: depth first, only where a schema can be.
RECURSIVE Rewritten(_, _)
Rewritten(d, dialect) ==
  LET walked == [k \in DOMAIN d |->
        CASE k \in SubschemaKeys -> Rewritten(d[k], dialect)
          [] k \in SubschemaListKeys -> [i \in DOMAIN d[k] |-> Rewritten(d[k][i], dialect)]
          [] OTHER -> d[k]]
  IN  IF dialect = "draft-07" THEN Draft07(walked) ELSE OpenAPI30(walked)

\* ToJSONSchema.
Document(n, io, dialect) ==
  IF dialect = "draft-2020-12" THEN Emit(n, io, {}) ELSE Rewritten(Emit(n, io, {}), dialect)

\* It returns an error by default.
RECURSIVE Throws(_)
Throws(d) ==
  \E k \in DOMAIN d :
    \/ k = "unrepresentable"
    \/ k \in SubschemaKeys /\ Throws(d[k])
    \/ k \in SubschemaListKeys \cup {"itemList"} /\ \E i \in DOMAIN d[k] : Throws(d[k][i])

-----------------------------------------------------------------------------
(* What a document admits, read by a consumer of its dialect.  An option   *)
(* of oneOf may be looser than its schema, so more than one may match.     *)

TypeOf(v) ==
  CASE v = Null -> "null" [] v.t = "arr" -> "array" [] v.t = "obj" -> "object"
    [] v \in NumberAtoms -> "number" [] OTHER -> "string"

RECURSIVE Admits(_, _, _)
Admits(d, v, dialect) ==
  LET Says(k) == k \in DOMAIN d
      Each(k, w) == Admits(d[k], w, dialect)
      Some(k) == \E i \in DOMAIN d[k] : Admits(d[k][i], v, dialect)
      boolean == dialect = "openapi-3.0"
      tuple == IF dialect = "draft-2020-12" THEN "prefixItems" ELSE "itemList"
      rest == IF dialect = "draft-2020-12" \/ ~Says("itemList") THEN "items" ELSE "additionalItems"
      InItem(i) == IF Says(tuple) /\ i \in DOMAIN d[tuple] THEN Admits(d[tuple][i], v.e[i], dialect)
                   ELSE Says(rest) => Each(rest, v.e[i])
      InMember(k) == IF k \in DOMAIN d.properties THEN Admits(d.properties[k], v.e[k], dialect)
                     ELSE Each("additionalProperties", v.e[k])
  IN
  /\ Says("type") => TypeOf(v) \in d.type \/ (v = Null /\ boolean /\ Says("nullable"))
  /\ Says("const") /\ ~boolean => v = d.const
  /\ Says("enum") => v \in d.enum
  /\ Says("not") => ~Each("not", v)
  /\ Says("anyOf") => Some("anyOf")
  /\ Says("oneOf") => Some("oneOf")
  /\ Says("allOf") => \A i \in DOMAIN d.allOf : Admits(d.allOf[i], v, dialect)
  /\ v \in NumberAtoms =>
       /\ Says("minimum") => Amount(v) >= d.minimum
       /\ Says("maximum") => Amount(v) <= d.maximum
       /\ Says("exclusiveMinimum") => Amount(v) > IF boolean THEN d.minimum ELSE d.exclusiveMinimum
       /\ Says("exclusiveMaximum") => Amount(v) < IF boolean THEN d.maximum ELSE d.exclusiveMaximum
  /\ v.t = "arr" => \A i \in DOMAIN v.e : InItem(i)
  /\ v.t = "obj" /\ Says("properties") =>
       /\ d.required \subseteq Keys(v)
       /\ \A k \in Keys(v) : InMember(k)

-----------------------------------------------------------------------------
(* Properties, of the schemas before any call. *)

Unused == \A g \in Goroutine : call[g].calls = 0

\* The schemas a document speaks of.
RECURSIVE Spoken(_, _)
Spoken(ns, io) ==
  LET inner(s) == IF s.kind \in Wrapping THEN {Speaker(s, io)}
                  ELSE IF s.kind = "record" THEN {s.kids[2]}
                  ELSE Range(s.kids) \cup ({s.rest} \ {NoNode})
      next == ns \cup UNION {inner(graph[n]) : n \in ns}
  IN  IF next = ns THEN ns ELSE Spoken(next, io)

\* The schemas whose documents are meant to admit what goes into the schemas, or
\* comes out of them:
\* - The document of a catch or a preprocess is that of its inner schema, which
\*   takes less than they do, the document of a transform, a default or an
\*   overwriting check that of the value before it.
\* - A field that accepts its absence without OptIn, like Any, is required.
\* - A loose record keeps values its value schema did not see.
\* - A strict object refuses the keys of the other side of an intersection.
Described(io, encode, given) ==
  \A n \in Spoken({Root}, io) :
    LET s == graph[n] IN
    /\ s.kind \notin {"catch", IF given THEN "preprocess" ELSE "transform"}
    /\ s.kind = "default" /\ ~given => Admits(Emit(n, io, {}), s.to, "draft-2020-12")
    /\ ~given => \A i \in DOMAIN s.checks : \A w \in Samples : Apply(s.checks[i].fn, w).val = w
    /\ ~PassesKeys(n)
    /\ s.kind = "object" =>
         \A k \in Shape(n) : Traits(s.kids[k]).optIn \/ ~Accepted(Means(s.kids[k], Missing, encode))
    /\ s.mode = "strict" => \A m \in Spoken({Root}, io) : graph[m].kind # "intersection"

\* What is accepted is admitted by the document of its side, in every dialect,
\* and so is what it becomes.
Admitted(v, encode) ==
  LET m == Means(Root, v, encode)
      Ok(io, w, given) ==
        Described(io, encode, given) => \A d \in Dialects : Admits(Document(Root, io, d), w, d)
  IN  Accepted(m) => /\ v # Missing => Ok(IF encode THEN "output" ELSE "input", v, TRUE)
                     /\ m.val # Missing => Ok(IF encode THEN "input" ELSE "output", m.val, FALSE)

Has(kind) == \E n \in Node : graph[n].kind = kind

\* What goes into Parse and what comes out of it, or out of Encode and into it, is
\* admitted by the documents of the two sides, in every dialect.  Discriminated
\* unions are left out: their document is an empty anyOf, which admits nothing
\* (jsonschema.go:442).  A transform does not encode (emitJSONSchema, unwrapJSONSchemaInner).
ExportAdmits ==
  Unused /\ ~Has("discunion") =>
    \A v \in Samples, encode \in BOOLEAN : (encode => ~Has("transform")) => Admitted(v, encode)

\* Rewriting a document for an older dialect changes nothing of what it
\* admits: not in draft-07, and in OpenAPI 3.0 not unless ToJSONSchema was told
\* to say anything where it would return an error, and then only to more.
DialectsKeep ==
  Unused =>
    \A io \in Sides, v \in Samples \ {Missing} :
      LET d == Emit(Root, io, {})
          draft07 == Rewritten(d, "draft-07")
          openAPI == Rewritten(d, "openapi-3.0")
          admitted == Admits(d, v, "draft-2020-12")
      IN  /\ Admits(draft07, v, "draft-07") = admitted
          /\ admitted => Admits(openAPI, v, "openapi-3.0")
          /\ ~Throws(openAPI) => Admits(openAPI, v, "openapi-3.0") = admitted
=============================================================================
