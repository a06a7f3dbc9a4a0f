------------------------------ MODULE Binding -------------------------------
(***************************************************************************)
(* What becomes of the parts of a request: the schemas they are bound to,  *)
(* and the responses.  The schemas of a chain are an object with a number, *)
(* that may be decoded into a struct with a field of some type; a query    *)
(* parameter that is a list below some wrappers, or a text; an object      *)
(* built by calls; a struct of a type; a string schema or a template       *)
(* literal; a schema that finds given issues.                              *)
(***************************************************************************)
EXTENDS Requests, Reports, Shapes, Plans, Templates

ObjectVerdict(schema, v) ==
  LET p == ParseObject(Built(schema.calls), v.of)
  IN  IF v.t # "object" THEN Rejected(400, <<Leaf("invalid_type", <<>>)>>)
      ELSE IF p.issues = <<>> THEN Accepted([t |-> "object", of |-> p.of])
      ELSE Rejected(400, [i \in DOMAIN p.issues |-> Leaf("invalid", p.issues[i])])

StructVerdict(schema, v) ==
  LET d == DecodeStruct(schema.types, schema.type, v.of)
  IN  IF v.t # "object" THEN Rejected(400, <<Leaf("invalid_type", <<>>)>>)
      ELSE IF d.ok THEN Accepted([t |-> "struct", of |-> d.of]) ELSE Rejected(400, <<Leaf("custom", <<>>)>>)

TextVerdict(p) ==
  IF p.issues = <<>> THEN Accepted(p.v)
  ELSE Rejected(400, [i \in DOMAIN p.issues |-> Leaf(p.issues[i], <<>>)])

SchemaVerdict(schema, v) ==
  CASE schema.kind = "object" -> ObjectVerdict(schema, v)
    [] schema.kind = "struct" -> StructVerdict(schema, v)
    [] schema.kind = "string" -> TextVerdict(ParseString(schema, v))
    [] schema.kind = "template" -> TextVerdict(ParseTemplate(schema, v))
    [] schema.kind = "list" -> IF v.t = "list" THEN Accepted(v) ELSE Rejected(400, <<Leaf("invalid_type", <<Key("q")>>)>>)
    [] schema.kind = "text" -> IF v.t = "string" THEN Accepted(v) ELSE Rejected(400, <<Leaf("invalid_type", <<Key("q")>>)>>)
    [] schema.kind = "reject" -> Rejected(400, schema.issues)

-----------------------------------------------------------------------------
(* Properties. *)

\* Whatever the shape of the response, it reports every issue where it is
\* (renderError over Flatten, Treeify, Format and Prettify).
ReportsAll ==
  \A n \in Done :
    Steps[n].do \in Binds =>
      LET issues == outcomes[n].issues
      IN  CASE Steps[n].format = "flatten" -> FlatIsComplete(issues)
            [] Steps[n].format = "tree" -> TreeIsComplete(issues)
            [] Steps[n].format = "format" -> FormatIsComplete(issues)
            [] Steps[n].format = "pretty" -> PrettyIsComplete(issues)
            [] OTHER -> TRUE

\* An object built by any calls has the fields the calls say, so a parse
\* reports just the ones that do not fit and returns the ones that do.  They
\* are in the order in which they came in, and Keyof names these and no other,
\* unless a merge left a name without a field, which Keyof lists and where a
\* later field of that name is put (Pick, Omit, Extend, Merge, Partial,
\* Required over compileObjectPlan).
BuildersFaithful ==
  \A n \in Done :
    LET s == Steps[n].schema
        data == request.value.of
        issues == outcomes[n].issues
        declared == {k \in Range(NameOrder) : SchemaAfter(s.calls, k) \ {NoField} # {}}
        misfit(k) == \E f \in SchemaAfter(s.calls, k) :
                       IF k \in DOMAIN data THEN ~Fits(f, data[k]) ELSE ~IsOptional(f)
        reported == SelectSeq([i \in DOMAIN issues |-> IF issues[i].path = <<>> THEN "" ELSE issues[i].path[1]],
                              LAMBDA k : k \in declared)
    IN  s.kind = "object"
        => /\ BuiltAsSaid(s.calls)
           /\ Len(reported) = Cardinality(Range(reported)) /\ Range(reported) = {k \in declared : misfit(k)}
           /\ outcomes[n].ok => \A k \in declared \cap DOMAIN data : outcomes[n].v.of[k] = data[k]
           /\ ~NamesNoField(s.calls)
                => /\ OrderedAsSaid(s.calls)
                   /\ \A i, j \in DOMAIN reported :
                        i < j => Earlier(Since(s.calls, reported[i]), Since(s.calls, reported[j]))

\* Every member of an object ends in the field of the struct its type has for
\* it, below embedded structs and pointers, in recursive types too, and in no
\* other; and an object is refused only for a member that does not fit.  Types
\* that embed a type that leads back to them are excepted (buildStructPlan,
\* whose plans are used while they are built, and applyPlan).
PlansComplete ==
  \A n \in Done :
    LET s == Steps[n].schema
        d == ApplyPlan(s.types, WholePlans(s.types), s.type, request.value.of)
    IN  (s.kind = "struct" /\ request.value.t = "object" /\ ~EmbedsInCycle(s.types))
        => outcomes[n].ok = d.ok /\ (d.ok => outcomes[n].v.of = d.of)

\* What checks record of themselves is what they do.  A text that a string
\* schema accepts as it came has the lengths and the pattern its JSON Schema
\* names, but for a character of two code units, which a minimum counts twice.
\* A template literal accepts the texts that are made of pieces its parts
\* accept, and no other.  Excepted are, of what it accepts, the checks of a
\* schema that is wrapped, wraps, lists values or is a template, and what a
\* format asks besides its expression (Overlooks); and of what it must accept,
\* a part whose expression is not anchored at both ends and Readonly around an
\* Optional or a Nullable (Narrows) (OnAttach, attachPattern,
\* checkPatternCoverage, compileTemplatePattern).
TextsAsRecorded ==
  \A n \in Done :
    LET s == Steps[n].schema
        v == request.value
        bag == Recorded(s.checks)
    IN  /\ (/\ s.kind = "string" /\ v.t = "text" /\ outcomes[n].ok
            /\ \A i \in DOMAIN s.checks : s.checks[i].do \notin Overwrites
            /\ "wide" \in ToSet(v.text) => bag.minimum = 0)
             => TextAdmitted(bag, v.text)
        /\ (s.kind = "template" /\ v.t = "text")
             => /\ (outcomes[n].ok /\ ~\E i \in DOMAIN s.parts : Overlooks(s.parts[i])) => MadeOf(s.parts, v.text)
                /\ (MadeOf(s.parts, v.text) /\ ~Narrows(s) /\ s.checks = <<>>) => outcomes[n].ok
=============================================================================
