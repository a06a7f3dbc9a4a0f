----------------------------- MODULE MCBinding ------------------------------
(* Small instances of requests and of the schemas they are bound to. *)
EXTENDS Binding

\* The constructors of numeric schemas.
Numeric(out, strict, format) ==
  [out |-> out, strict |-> strict, format |-> format, coerce |-> FALSE, check |-> "none", bound |-> Float(0)]
Constructors ==
  {Numeric("float64", FALSE, "none"), Numeric("float64", FALSE, "float64"),
   Numeric("float32", FALSE, "float32"), Numeric("int", FALSE, "safeint"),
   Numeric("int32", FALSE, "int32"), Numeric("uint32", FALSE, "uint32"),
   Numeric("int64", TRUE, "none"), Numeric("uint64", TRUE, "none"), Numeric("int32", TRUE, "none"),
   Numeric("ID", TRUE, "none"), Numeric("ID", TRUE, "safeint")}
Coercing(S) == {[s EXCEPT !.coerce = TRUE] : s \in S}

BoundType(out) == IF out \in Unsigned THEN "uint64" ELSE IF out \in Signed THEN "int64" ELSE "float64"
Bounds(out, us) == {b \in [t : {BoundType(out)}, u : us] : IsGoNumber(b)}
Checked(S, us) ==
  UNION {{[s EXCEPT !.check = c, !.bound = b] : c \in Comparing, b \in Bounds(s.out, us)} : s \in S}

NumberSchema(s, field) == [kind |-> "number", number |-> s, field |-> field, layers |-> 0, issues |-> <<>>]
QuerySchema(kind, layers) == [kind |-> kind, number |-> NaN, field |-> "none", layers |-> layers, issues |-> <<>>]
Reject(issues) == [kind |-> "reject", number |-> NaN, field |-> "none", layers |-> 0, issues |-> issues]

\* Numbers at the limits of the types and of the floats, in halves.
Edges ==
  {0, 1, 2, 3, 4, 6, 8, 14, 16, 29, 30, 31, 32, 33, 34, 36, 60, 62, 63, 64, 66, 124, 126, 128, 384, 385, 448, 960, 992}
    \cup {-2, -3, -6, -8, -10, -30, -32, -34, -62, -64, -66, -68, -128, -960, -1024}
IntegerEdges == {u \in Edges : Whole(u)}

ValueOf(t) ==
  {v \in [t : {t}, u : Edges] :
     CASE t \in Signed \cup Unsigned -> v.u \in TypeRange(t)
       [] t = "float32" -> RoundTo(Mantissa32, v.u) = v.u /\ Abs(v.u) <= MaxFloat32
       [] OTHER -> Round(v.u) = v.u /\ Abs(v.u) <= MaxFloat64}
GoNumbers == UNION {ValueOf(t) : t \in Signed \cup Unsigned \cup Finites}
Texts(t) ==
  [t : {t}, lit : {"integer"}, u : IntegerEdges] \cup [t : {t}, lit : {"decimal"}, u : Edges]
    \cup {[t |-> t, lit |-> l, u |-> 0] : l \in {"nan", "word", "empty"}}
OtherValues ==
  {NaN, [t |-> "inf", u |-> 0], [t |-> "bool", u |-> 2], [t |-> "object", u |-> 0]}
    \cup [t : {"bigInt"}, u : IntegerEdges]

Options(max, any, trailing, key) == [maxBody |-> max, anyType |-> any, allowTrailing |-> trailing, key |-> key]
Plain == Options(0, FALSE, FALSE, "")
Do(do, schema, opts, format, goOn) ==
  [do |-> do, schema |-> schema, opts |-> opts, format |-> format, goOn |-> goOn, as |-> "any"]
Only(step) == [steps |-> <<step>>, middlewares |-> 0]

Token(kind, lit, u) == [kind |-> kind, lit |-> lit, u |-> u]
Sent(type, tokens, query, uri, value) ==
  [contentType |-> type, body |-> tokens, query |-> query, uri |-> uri, value |-> value]
SomeText == [t |-> "string", lit |-> "integer", u |-> 6]
SentValue(v) == Sent("absent", None, <<>>, SomeText, v)
SentBody(type, tokens) == Sent(type, tokens, <<>>, SomeText, NaN)
SentTexts(texts) == Sent("absent", None, texts, IF texts = <<>> THEN SomeText ELSE texts[1], NaN)
Handling(requests, chains) == [request : requests, chain : chains]

Numbered(S) == {NumberSchema(s, "none") : s \in S}
InFields(S) ==
  {NumberSchema(s, f) : s \in S, f \in {"none", "int64", "int32", "uint32", "uint64", "ID", "float32", "float64"}}

\* Go values parsed by every schema, with every check, into every field.
MCValues ==
  Handling({SentValue(v) : v \in GoNumbers},
           {Only(Do("value", s, Plain, "issues", FALSE)) :
              s \in Numbered(Checked(Constructors, {0, 2, 6, 32, 34, 60, 62})) \cup InFields(Constructors \cup Coercing(Constructors))})
  \cup
  Handling({SentValue(v) : v \in OtherValues \cup Texts("jsonNumber") \cup Texts("string")},
           {Only(Do("value", s, Plain, "issues", FALSE)) : s \in InFields(Constructors \cup Coercing(Constructors))})

\* Large numbers parsed by the schemas of a named type.
MCNamed ==
  Handling({SentValue(v) : v \in ValueOf("uint64")},
           {Only(Do("value", s, Plain, "issues", FALSE)) : s \in Numbered(Checked({Numeric("ID", TRUE, "none")}, {6, 32}))})

\* Numbers in bodies, queries and URIs.
MCLiterals ==
  Handling({SentBody("json", <<Token("value", x.lit, x.u)>>) : x \in Texts("string")},
           {Only(Do("json", s, Plain, "issues", FALSE)) : s \in InFields(Constructors)})
  \cup
  Handling({SentTexts(q) : q \in {<<x>> : x \in Texts("string")} \cup {<<>>, <<SomeText, SomeText>>}},
           {Only(Do(do, s, Plain, "issues", FALSE)) : do \in {"query", "uri"},
              s \in InFields(Coercing(Constructors)) \cup {QuerySchema("list", n) : n \in 0 .. 2} \cup {QuerySchema("text", 0)}})

\* Two steps that bind or drain, as middlewares or in the handler, and a third.
One == Token("value", "integer", 2)
Two == Token("value", "decimal", 3)
Bad == Token("bad", "none", 0)
Closer == Token("closer", "none", 0)
Broken == Token("broken", "none", 0)
MCBodies ==
  {None, <<>>, <<One>>, <<Two>>, <<Bad>>, <<One, Two>>, <<One, Closer>>, <<One, Broken>>, <<Two, Two, One>>, <<Broken>>}
Loose == NumberSchema(Numeric("float64", FALSE, "none"), "none")
Strict == NumberSchema(Numeric("int64", TRUE, "none"), "int64")
BodySteps ==
  {Do("json", Loose, Options(m, a, r, ""), "flatten", TRUE) : m \in {-1, 0, 1}, a, r \in BOOLEAN}
    \cup {Do("json", Strict, Options(m, TRUE, TRUE, "k"), "tree", g) : m \in {-1, 1}, g \in BOOLEAN}
DrainStep == Do("drain", Loose, Plain, "issues", TRUE)
UseStep(key, as) == [Do("use", Loose, Options(0, FALSE, FALSE, key), "issues", TRUE) EXCEPT !.as = as]
LastSteps == {DrainStep, UseStep("", "any"), UseStep("k", "int64"), UseStep("", "int64")}
MCProtocols ==
  Handling({SentBody("json", b) : b \in MCBodies} \cup {SentBody(c, b) : c \in {"absent", "other"}, b \in {<<One>>, <<One, Two>>}},
           {[steps |-> <<a, b, c>>, middlewares |-> n] :
              a \in BodySteps \cup {DrainStep}, b \in BodySteps \cup {DrainStep}, c \in LastSteps, n \in 0 .. 2})

\* Errors in every format.
Around(code, path, issues, errors) == [Leaf(code, path) EXCEPT !.issues = issues, !.errors = errors]
Paths ==
  {<<>>, <<Key("a")>>, <<Index(0)>>, <<Key("a"), Index(9)>>, <<Index(-1)>>, <<Key("9")>>,
   <<Key(ErrorsKey)>>, <<Key("a"), Key(ErrorsKey)>>}
Issues ==
  {Leaf("invalid_type", p) : p \in Paths} \cup
  {Around("invalid_key", <<Key("a")>>, <<Leaf("too_small", <<>>)>>, <<>>),
   Around("invalid_element", <<Index(1)>>, <<Leaf("too_small", <<Key("b")>>), Leaf("too_big", <<Index(2)>>)>>, <<>>),
   Around("invalid_union", <<Key("a")>>, <<>>, <<>>),
   Around("invalid_union", <<>>, <<>>, <<<<Leaf("too_small", <<Key("a")>>)>>, <<Leaf("too_big", <<>>)>>>>),
   Around("invalid_union", <<Index(1)>>, <<>>,
          <<<<Around("invalid_key", <<Key("b")>>, <<Leaf("too_small", <<Index(9)>>)>>, <<>>)>>, <<>>>>)}
MCErrors ==
  Handling({SentValue(NaN)},
           {Only(Do("value", Reject(e), Plain, f, FALSE)) : e \in UNION {[1 .. n -> Issues] : n \in 1 .. 3},
              f \in {"flatten", "tree", "format", "pretty"}})

\* Objects after one or two calls, with all that may be in three fields.
MCNameOrder == <<"a", "b", "c">>
Call(do) == [do |-> do, shape |-> <<>>, fields |-> <<>>, keys |-> {}, other |-> <<>>, mode |-> "strip", catchall |-> NoField]
ObjectCall(do, shape) == [Call(do) EXCEPT !.shape = shape]
KeysCall(do, keys) == [Call(do) EXCEPT !.keys = keys]
ModeCall(mode, catchall) == [Call("mode") EXCEPT !.mode = mode, !.catchall = catchall]
Given(names, schema) == [Call("ordered") EXCEPT !.fields = [i \in DOMAIN names |-> [name |-> names[i], schema |-> schema]]]
Bases ==
  {Given(<<"c", "", "a", "c">>, Of("p")), Given(<<"b", "a">>, NoField), ObjectCall("object", "a" :> Of("p") @@ "b" :> Of("q")),
   ObjectCall("object", "b" :> Wrapped(Of("p"), "optional"))}
Derivations ==
  {KeysCall(do, keys) : do \in {"pick", "omit", "partial", "required"}, keys \in {{}, {"a"}, {"a", "c"}}}
    \cup {ObjectCall("extend", "c" :> Of("q") @@ "b" :> Of("q")), ObjectCall("extend", "a" :> NoField)}
    \cup {[Call("merge") EXCEPT !.other = <<b>> \o m] : b \in Bases,
             m \in {<<>>, <<ObjectCall("extend", "a" :> Of("q"))>>, <<ModeCall("loose", NoField)>>}}
    \cup {ModeCall(m, NoField) : m \in {"strict", "loose", "strip", "catchall"}}
    \cup {ModeCall("catchall", Of(l)) : l \in {"p", "never"}}
ObjectSchema(calls) == [kind |-> "object", calls |-> calls]
Data == UNION {[D -> {"p", "q"}] : D \in {{}, {"c"}, {"a", "b"}, {"b", "d"}, {"a", "b", "c"}}}
Parsed(of) == SentValue([t |-> "object", of |-> of])
MCObjects ==
  Handling({Parsed(d) : d \in Data},
           {Only(Do("value", ObjectSchema(<<b>> \o c), Plain, "issues", FALSE)) :
              b \in Bases, c \in UNION {[1 .. n -> Derivations] : n \in 0 .. 2}})

\* Two struct types that may hold, point to and embed each other.
Type(kind, ptr, of) == [kind |-> kind, ptr |-> ptr, of |-> of, len |-> 1]
Field(name, tag, type) == [name |-> name, tag |-> tag, type |-> type, anonymous |-> FALSE, exported |-> TRUE]
Embedded(T, ptr, tag, exported) ==
  [name |-> T, tag |-> tag, type |-> Type("struct", ptr, T), anonymous |-> TRUE, exported |-> exported]
Int64Type == Type("number", FALSE, "int64")
Fields(U) ==
  {Field("X", "x", Int64Type), Field("Y", "x", Type("number", TRUE, "uint32")), Field("Z", ",", Int64Type), Field("W", "-", Int64Type),
   [Field("v", "v", Int64Type) EXCEPT !.exported = FALSE],
   Field("N", "n", Type("struct", TRUE, U)), Field("L", "l", Type("slice", FALSE, Type("struct", TRUE, U))),
   Field("R", "r", Type("array", FALSE, Type("slice", FALSE, Int64Type)))}
FieldsOfA ==
  Fields("B") \cup {Embedded("B", p, t, e) : p \in BOOLEAN, t \in {"", "n"}, e \in BOOLEAN} \cup {Embedded("A", TRUE, "", TRUE)}
FieldsOfB ==
  {Field("X", "x", Int64Type), Field("Q", "q", Int64Type), Field("N", "n", Type("struct", TRUE, "A")), Field("M", "l", Type("slice", FALSE, Type("struct", FALSE, "B"))),
   Embedded("A", TRUE, "", TRUE)}
Declarations(fields, n) ==
  {f \in UNION {[1 .. k -> fields] : k \in 1 .. n} : \A i, j \in DOMAIN f : f[i].name = f[j].name => i = j}
\* No struct holds itself.
Legal(types) ==
  ~(/\ \E f \in Range(types["A"]) : f.type.kind = "struct" /\ ~f.type.ptr
    /\ \E f \in Range(types["B"]) : f.type.kind = "struct" /\ ~f.type.ptr)
\* Two fields each, or three of which the second is embedded.
Three == {f \in FieldsOfA \X {g \in FieldsOfA : g.anonymous /\ g.tag = ""} \X FieldsOfA :
            \A i, j \in 1 .. 3 : f[i].name = f[j].name => i = j}
MCTypes ==
  {t \in {"A" :> a @@ "B" :> b : a \in Declarations(FieldsOfA, 2) \cup Three, b \in Declarations(FieldsOfB, 2)} : Legal(t)}
Num(u) == [t |-> "int64", u |-> u]
Nil == [t |-> "nil"]
List(of) == [t |-> "list", of |-> of]
Member(of) == [t |-> "object", of |-> of]
Inner == Member("x" :> Num(6) @@ "q" :> Num(8) @@ "Z" :> Num(2))
StructData ==
  {"x" :> Num(2) @@ "q" :> Num(4) @@ "Z" :> Num(2) @@ "n" :> Inner,
   "x" :> Num(-2) @@ "n" :> Member("n" :> Inner @@ "l" :> List(<<Inner>>)) @@ "l" :> List(<<Inner, Nil>>),
   "x" :> Nil @@ "W" :> Num(2) @@ "v" :> Num(2) @@ "r" :> List(<<List(<<Num(2), Nil>>)>>) @@ "l" :> Nil,
   "r" :> List(<<List(<<>>), List(<<>>)>>) @@ "n" :> Num(2)}
StructSchema(types) == [kind |-> "struct", types |-> types, type |-> "A"]
MCStructs ==
  Handling({Parsed(d) : d \in StructData}, {Only(Do("value", StructSchema(t), Plain, "issues", FALSE)) : t \in MCTypes})

\* String schemas with up to two checks, and templates of up to three parts, on
\* texts and on what is no text.
TextSchema(kind, checks) ==
  [kind |-> kind, checks |-> checks, coerce |-> FALSE, of |-> <<>>, parts |-> <<>>, values |-> {}]
Wrap(kind, inner, checks) == [TextSchema(kind, checks) EXCEPT !.of = <<inner>>]
Regex(lang, from, to, inner) == FormatOf("regex", <<Regexp(lang, from, to, inner)>>)
Digits == Regex("digits", TRUE, TRUE, FALSE)
Letters == Regex("letters", TRUE, TRUE, FALSE)
AnyDigits == Regex("digits", FALSE, FALSE, FALSE)
CatOrDog == Regex("catOrDog", TRUE, TRUE, TRUE)
Email == FormatOf("email", <<Regexp("emailBody", TRUE, TRUE, FALSE)>>)
Lowercase == FormatOf("lowercase", <<Regexp("lowercase", TRUE, TRUE, FALSE)>>)
Uppercase == FormatOf("uppercase", <<Regexp("uppercase", TRUE, TRUE, FALSE)>>)
IntFormat == FormatOf("digits", <<Regexp("digits", TRUE, TRUE, FALSE)>>)
Refined == FormatOf("letters", <<>>)
TextChecks ==
  {CheckOf("min", n, <<>>) : n \in 0 .. 2} \cup {CheckOf("max", n, <<>>) : n \in 1 .. 2} \cup {CheckOf("length", 2, <<>>)}
    \cup {Digits, AnyDigits, CatOrDog, Email, Lowercase, Uppercase, Refined}
    \cup {[Digits EXCEPT !.abort = TRUE], [CheckOf("max", 1, <<>>) EXCEPT !.abort = TRUE]}
    \cup {CheckOf("includes", n, <<"a">>) : n \in {-1, 1, 3}} \cup {CheckOf(d, 0, <<"a">>) : d \in {"starts", "ends"} \cup Overwrites}
TextInputs ==
  BoundedSeq({"a", "A", "1", " ", "wide"}, 2)
    \cup {<<"null">>, <<"@">>, <<"a", "@">>, <<".", "@">>, <<"1", ".", "1">>, <<"1", "a", "1">>, <<" ", "a", " ">>, <<"a", "wide", "a">>, <<"a", "a", "A">>}
TextValues(texts) == {SentValue([t |-> "text", text |-> s]) : s \in texts}
MCStrings ==
  Handling(TextValues(TextInputs) \cup {SentValue(Nil), SentValue([t |-> "list", u |-> 0, of |-> <<SomeText>>])},
           {Only(Do("value", TextSchema("string", c), Plain, "issues", FALSE)) : c \in UNION {[1 .. n -> TextChecks] : n \in 0 .. 2}})
  \cup
  Handling(TextValues(TextInputs) \cup {SentValue(Nil), SentValue([t |-> "int64", u |-> 2])},
           {Only(Do("value", [TextSchema("string", <<c>>) EXCEPT !.coerce = TRUE], Plain, "issues", FALSE)) : c \in TextChecks})

Said(text) == [TextSchema("said", <<>>) EXCEPT !.values = {text}]
Literal(texts, checks) == [TextSchema("literal", checks) EXCEPT !.values = texts]
Template(parts, checks) == [TextSchema("template", checks) EXCEPT !.parts = parts]
BaseParts ==
  {TextSchema("string", c) : c \in {<<>>, <<Digits>>, <<AnyDigits>>, <<Letters, Lowercase>>, <<CatOrDog>>, <<Email>>, <<Digits, CheckOf("min", 2, <<>>)>>}}
    \cup {TextSchema("number", c) : c \in {<<>>, <<IntFormat>>, <<IntFormat, Refined>>}}
    \cup {Literal({<<"a">>, <<"1">>}, <<>>), Literal({<<"a">>}, <<Letters>>)}
    \cup {Template(<<Said(<<"a">>), TextSchema("number", <<>>)>>, c) : c \in {<<>>, <<Lowercase>>}}
Parts ==
  {Said(<<"a">>), TextSchema("regexp", <<Digits>>), TextSchema("regexp", <<CatOrDog>>)} \cup BaseParts
    \cup {Wrap(k, p, <<>>) : k \in {"optional", "nullable", "lazy", "readonly"}, p \in BaseParts}
    \cup {Wrap("check", p, <<Letters>>) : p \in BaseParts}
    \cup {Wrap("readonly", Wrap(k, p, <<>>), <<>>) : k \in {"optional", "nullable"}, p \in {TextSchema("string", <<Digits>>), Literal({<<"a">>}, <<>>)}}
    \cup {Wrap("lazy", TextSchema("string", <<Digits>>), <<CheckOf("min", 2, <<>>)>>)}
Beside ==
  {Said(<<"a">>), TextSchema("string", <<>>), TextSchema("string", <<Digits>>), Wrap("optional", TextSchema("number", <<>>), <<>>),
   Wrap("nullable", Literal({<<"a">>, <<"1">>}, <<>>), <<>>)}
TemplateParts ==
  {p \in {<<>>} \cup {<<p>> : p \in Parts}
            \cup {<<p, q>> : p \in Beside, q \in Parts} \cup {<<p, q>> : p \in Parts, q \in Beside}
            \cup {<<Said(<<"a">>), p, q>> : p \in Parts, q \in Beside} : Builds(Template(p, <<>>))}
TemplateInputs == BoundedSeq({"a", "1"}, 3) \cup {<<"A">>, <<"null">>, <<"a", "null">>, <<"1", ".", "1">>, <<"a", "@">>, <<".", "@">>, <<"A", "1">>}
MCTemplates ==
  Handling(TextValues(TemplateInputs) \cup {SentValue(Nil)},
           {Only(Do("value", Template(p, c), Plain, "issues", FALSE)) :
              p \in TemplateParts, c \in {<<>>, <<Letters>>}})

MCHandlings == MCStrings \cup MCTemplates \cup MCValues \cup MCLiterals \cup MCProtocols \cup MCErrors \cup MCObjects \cup MCStructs
=============================================================================
