------------------------------ MODULE Requests ------------------------------
(***************************************************************************)
(* Requests bound to schemas (src/zgin): a chain of middlewares and the    *)
(* steps of the handler behind them, one goroutine for one request.        *)
(*                                                                         *)
(* A request has a content type, a body of tokens on the wire (a token     *)
(* counts for one byte), the texts of one query parameter and the value of *)
(* one URI parameter.  A body value stands for an object with one number.  *)
(* A step binds a part of the request, drains the body as some other       *)
(* middleware may, or uses what was stored for it.                         *)
(***************************************************************************)
EXTENDS Numbers, SequencesExt

CONSTANTS
  Handlings,              \* [request |-> a request, chain |-> what handles it]: the chain
                          \* has steps, and the first middlewares of them are middlewares
  OtherVerdict(_, _),     \* what a schema that is no number makes of a value, see Verdict
  None,                   \* nothing there
  DefaultMaxBodyBytes,    \* limit when the options give none
  MaxLayers               \* wrappers isSliceSchema looks through

ASSUME LimitsAssumption == {DefaultMaxBodyBytes, MaxLayers} \subseteq Nat

Tokens == UNION {Range(h.request.body) : h \in {k \in Handlings : k.request.body # None}}

\* A body is read token by token; a middleware validates the body or reads it.
ASSUME HandlingsAssumption ==
  /\ None \notin Seq(Tokens)
  /\ \A h \in Handlings :
       /\ h.request.body = None \/ h.request.body \in Seq(Range(h.request.body))
       /\ h.chain.steps \in Seq(Range(h.chain.steps))
       /\ h.chain.middlewares \in 0 .. Len(h.chain.steps)
       /\ \A n \in 1 .. h.chain.middlewares : h.chain.steps[n].do \in {"json", "drain"}
       /\ \A n \in 1 .. Len(h.chain.steps) : h.chain.steps[n].opts.maxBody \in Int

\* What is sent as a number is one.
ASSUME SentAssumption ==
  \A h \in Handlings :
    /\ h.request.body # None =>
         \A i \in 1 .. Len(h.request.body) :
           h.request.body[i].lit = "integer" =>
             h.request.body[i].kind = "value" /\ h.request.body[i].u \in Int /\ Whole(h.request.body[i].u)
    /\ \A text \in {h.request.uri} \cup Range(h.request.query) :
         text.lit = "integer" => text.t = "string" /\ text.u \in Int /\ Whole(text.u)
    /\ h.request.value.t \in Signed \cup Unsigned \cup Finites => IsGoNumber(h.request.value)
    /\ \A n \in 1 .. Len(h.chain.steps) :
         h.chain.steps[n].schema.kind = "number" =>
           /\ IsNumeric(h.chain.steps[n].schema.number)
           /\ h.chain.steps[n].schema.field \in Signed \cup Unsigned \cup Finites \cup {"none"}

VARIABLES
  request,    \* the request as it was sent
  chain,      \* the chain that handles it
  at,         \* position of the next step
  body,       \* what is left to read of c.Request.Body, or None
  cached,     \* bodyCacheKey: the raw body, or None
  ctx,        \* values under the context keys
  aborted,    \* c.IsAborted
  outcomes,   \* history: what each step came to
  cut         \* history: the step that took a part of the body uncached, or 0

vars == <<request, chain, at, body, cached, ctx, aborted, outcomes, cut>>

ContextKey == "go-z:value"
KeyOf(opts) == IF opts.key = "" THEN ContextKey ELSE opts.key
Limit(opts) == IF opts.maxBody = 0 THEN DefaultMaxBodyBytes ELSE opts.maxBody

-----------------------------------------------------------------------------
(* Outcomes of a step. *)

Accepted(v) == [ok |-> TRUE, v |-> v, status |-> 0, issues |-> <<>>]
Rejected(status, issues) == [ok |-> FALSE, v |-> NaN, status |-> status, issues |-> issues]
Leaf(code, path) == [code |-> code, path |-> path, message |-> code, errors |-> <<>>, issues |-> <<>>]
Failure(status, message) == Rejected(status, <<Leaf(message, <<>>)>>)

-----------------------------------------------------------------------------
(* Verdicts of schemas.  A number schema is that of the field n of an      *)
(* object, which may be decoded into a struct with a field of some type.   *)

NumberKey == <<"key", "n">>
Decided(r, issue) == IF r.ok THEN Accepted(r.v) ELSE Rejected(400, <<issue>>)
Decoding(schema, p) ==
  IF schema.field = "none" \/ ~p.ok THEN Decided(p, Leaf("invalid_type", <<NumberKey>>))
  ELSE Decided(Assign(schema.field, p.v), Leaf("custom", <<>>))
NumberVerdict(schema, v) == Decoding(schema, IF v.t = "object" THEN No ELSE Parse(schema.number, v))

Verdict(schema, v) == IF schema.kind = "number" THEN NumberVerdict(schema, v) ELSE OtherVerdict(schema, v)

-----------------------------------------------------------------------------
(* The body. *)

IsJSONContentType(type) == type \in {"absent", "json"}

\* Mutant: every number is read as a float64.
NormalizedToFloat(token) ==
  LET lit == [t |-> "jsonNumber", lit |-> token.lit, u |-> token.u]
  IN  IF ParseFloat(lit).ok THEN ParseFloat(lit).v ELSE [lit EXCEPT !.t = "string"]

\* normalizeJSONNumber: an integer above 2^53 stays one.
Normalized(token) ==
  LET lit == [t |-> "jsonNumber", lit |-> token.lit, u |-> token.u]
  IN  IF IsInt64Text(lit)
      THEN IF Abs(token.u) > MaxSafeInteger + 2 THEN [t |-> "int64", u |-> token.u] ELSE Float(token.u)
      ELSE IF ParseFloat(lit).ok THEN ParseFloat(lit).v ELSE [lit EXCEPT !.t = "string"]

\* io.ReadAll under MaxBytesReader: what came, what is left, what went wrong.
\* The reader takes a token more than the limit to know there is one, and a
\* broken connection stays broken.
ReadAll(tokens, limit) ==
  LET stop == {i \in DOMAIN tokens : tokens[i].kind = "broken"}
      n == IF stop = {} THEN Len(tokens) ELSE Min(stop) - 1
  IN  IF limit >= 0 /\ n > limit
      THEN [raw |-> None, left |-> SubSeq(tokens, limit + 2, Len(tokens)), error |-> "too_large"]
      ELSE IF stop # {}
      THEN [raw |-> None, left |-> SubSeq(tokens, n + 1, Len(tokens)), error |-> "could_not_read"]
      ELSE [raw |-> tokens, left |-> <<>>, error |-> "none"]

\* The decoder reads one value.  What follows is an error unless allowed, but
\* a closing bracket is no more data to dec.More.
Decoded(raw, opts) ==
  CASE raw = <<>> -> Failure(400, "empty_body")
    [] raw # <<>> /\ raw[1].kind # "value" -> Failure(400, "invalid_json")
    [] raw # <<>> /\ raw[1].kind = "value" ->
         IF Len(raw) > 1 /\ raw[2].kind # "closer" /\ ~opts.allowTrailing
         THEN Failure(400, "unexpected_data") ELSE Accepted(Normalized(raw[1]))

\* Mutant: the limit of a later bind is forgotten.
ReadJSONBodyOnceLimited(r, cache, left, opts) ==
  LET read == ReadAll(left, Limit(opts))
      raw == IF cache = None THEN read.raw ELSE cache
  IN  CASE left = None -> [out |-> Failure(400, "missing_body"), cache |-> cache, left |-> left]
        [] left # None /\ ~opts.anyType /\ ~IsJSONContentType(r.contentType) ->
             [out |-> Failure(415, "unsupported_type"), cache |-> cache, left |-> left]
        [] OTHER ->
             IF raw = None
             THEN [out |-> Failure(IF read.error = "too_large" THEN 413 ELSE 400, read.error),
                   cache |-> None, left |-> read.left]
             ELSE [out |-> Decoded(raw, opts), cache |-> raw, left |-> raw]

\* readJSONBody: the value or the failure, the cache, and the body left behind.
ReadJSONBody(r, cache, left, opts) ==
  LET read == ReadAll(left, Limit(opts))
      raw == IF cache = None THEN read.raw ELSE cache
  IN  CASE left = None -> [out |-> Failure(400, "missing_body"), cache |-> cache, left |-> left]
        [] left # None /\ ~opts.anyType /\ ~IsJSONContentType(r.contentType) ->
             [out |-> Failure(415, "unsupported_type"), cache |-> cache, left |-> left]
        [] OTHER ->
             IF raw = None
             THEN [out |-> Failure(IF read.error = "too_large" THEN 413 ELSE 400, read.error),
                   cache |-> None, left |-> read.left]
             ELSE IF Limit(opts) >= 0 /\ Len(raw) > Limit(opts)
             THEN [out |-> Failure(413, "too_large"), cache |-> raw, left |-> left]
             ELSE [out |-> Decoded(raw, opts), cache |-> raw, left |-> raw]

\* Mutant: the body is left drained.
BoundJSONDrained(step, r, cache, left) ==
  LET read == ReadJSONBody(r, cache, left, step.opts)
      gone == IF read.cache = None THEN read ELSE [read EXCEPT !.left = <<>>]
  IN  IF read.out.ok THEN [gone EXCEPT !.out = Verdict(step.schema, read.out.v)] ELSE gone

\* What a bind of the body comes to, and what it leaves.
BoundJSON(step, r, cache, left) ==
  LET read == ReadJSONBody(r, cache, left, step.opts)
  IN  IF read.out.ok THEN [read EXCEPT !.out = Verdict(step.schema, read.out.v)] ELSE read

-----------------------------------------------------------------------------
(* Query and URI. *)

\* isSliceSchema, MaxLayers deep.
IsSliceSchema(schema) == schema.kind = "list" /\ schema.layers < MaxLayers

\* coerceQueryValues: one text stands for itself unless the field is a list.
QueryValue(schema, texts) ==
  IF IsSliceSchema(schema) \/ Len(texts) > 1 THEN [t |-> "list", u |-> 0, of |-> texts]
  ELSE IF texts = <<>> THEN [t |-> "string", lit |-> "empty", u |-> 0] ELSE texts[1]

-----------------------------------------------------------------------------
(* The handling of a request. *)

Init ==
  /\ \E h \in Handlings : request = h.request /\ chain = h.chain
  /\ at = 1
  /\ body = request.body
  /\ cached = None
  /\ ctx = [k \in {} |-> None]
  /\ aborted = FALSE
  /\ outcomes = <<>>
  /\ cut = 0

Steps == chain.steps
Here == Steps[at]

\* Mutant: a failed middleware lets the next one run.
ProceedAnyway(ok) == at' = at + 1

\* A failed middleware ends the request; a handler may go on after a failure.
Proceed(ok) == at' = IF ok \/ (at > chain.middlewares /\ Here.goOn) THEN at + 1 ELSE Len(Steps) + 1

\* c.Set.
With(key, v) == [k \in DOMAIN ctx \cup {key} |-> IF k = key THEN v ELSE ctx[k]]

\* Mutant: a failure is answered without aborting the context.
SettleUnaborted(out) ==
  /\ outcomes' = Append(outcomes, out)
  /\ aborted' = aborted
  /\ ctx' = IF out.ok /\ at <= chain.middlewares THEN With(KeyOf(Here.opts), out.v) ELSE ctx
  /\ Proceed(out.ok)

\* abortParseError and bindFailure write the response and abort the context; a
\* middleware that succeeds stores its value for the next handlers.
Settle(out) ==
  /\ outcomes' = Append(outcomes, out)
  /\ aborted' = (aborted \/ ~out.ok)
  /\ ctx' = IF out.ok /\ at <= chain.middlewares THEN With(KeyOf(Here.opts), out.v) ELSE ctx
  /\ Proceed(out.ok)

\* BindJSON and its variants, Validate and ValidateToStruct.
BindJSON ==
  LET bound == BoundJSON(Here, request, cached, body)
  IN  /\ at <= Len(Steps) /\ Here.do = "json"
      /\ Settle(bound.out)
      /\ cached' = bound.cache
      /\ body' = bound.left
      /\ cut' = IF cut = 0 /\ bound.cache = None /\ bound.left # body THEN at ELSE cut
      /\ UNCHANGED <<request, chain>>

\* BindQuery.
BindQuery ==
  /\ at <= Len(Steps) /\ Here.do = "query"
  /\ Settle(Verdict(Here.schema, QueryValue(Here.schema, request.query)))
  /\ UNCHANGED <<request, chain, body, cached, cut>>

\* BindURI: the texts of the parameters as they are.
BindURI ==
  /\ at <= Len(Steps) /\ Here.do = "uri"
  /\ Settle(Verdict(Here.schema, request.uri))
  /\ UNCHANGED <<request, chain, body, cached, cut>>

\* Parse of a Go value, without a request.
ParseValue ==
  /\ at <= Len(Steps) /\ Here.do = "value"
  /\ Settle(Verdict(Here.schema, request.value))
  /\ UNCHANGED <<request, chain, body, cached, cut>>

\* Another middleware reads the body to its end.
Drain ==
  /\ at <= Len(Steps) /\ Here.do = "drain"
  /\ outcomes' = Append(outcomes, Accepted([t |-> "drained", u |-> body]))
  /\ body' = IF body = None THEN None ELSE <<>>
  /\ cut' = IF cut = 0 /\ cached = None /\ body' # body THEN at ELSE cut
  /\ at' = at + 1
  /\ UNCHANGED <<request, chain, cached, ctx, aborted>>

\* Get, GetFrom, GetAs and GetAsFrom in the handler.
Use ==
  LET k == KeyOf(Here.opts)
  IN  /\ at <= Len(Steps) /\ Here.do = "use"
      /\ outcomes' = Append(outcomes,
           IF k \in DOMAIN ctx /\ (Here.as = "any" \/ ctx[k].t = Here.as) THEN Accepted(ctx[k])
           ELSE Rejected(0, <<>>))
      /\ at' = at + 1
      /\ UNCHANGED <<request, chain, body, cached, ctx, aborted, cut>>

Handled == at > Len(Steps) /\ UNCHANGED vars

Next == BindJSON \/ BindQuery \/ BindURI \/ ParseValue \/ Drain \/ Use \/ Handled

Spec == Init /\ [][Next]_vars
-----------------------------------------------------------------------------
(* Properties. *)

Binds == {"json", "query", "uri", "value"}
Uncut(n) == cut = 0 \/ cut >= n
Done == DOMAIN outcomes
FreshOutcome(n) == BoundJSON(Steps[n], request, None, request.body).out

\* The variables stay in their ranges, and only bytes of the request are ever
\* cached or left to read.
BindingTypeOK ==
  /\ at \in 1 .. Len(Steps) + 1
  /\ cached # None => \E k \in 0 .. Len(request.body) : cached = SubSeq(request.body, k + 1, Len(request.body))
  /\ body # None => \E k \in 0 .. Len(request.body) : body = SubSeq(request.body, k + 1, Len(request.body))
  /\ cut \in 0 .. Len(Steps)
  /\ aborted <=> \E n \in Done : Steps[n].do \in Binds /\ ~outcomes[n].ok

\* A bind comes to what it would come to as the first one: whatever was read,
\* cached or drained before it, and under whatever limits and options, its own
\* options judge the whole body.  A read that failed half way took the part it
\* read, and is excepted (readJSONBody, bodyCacheKey).
SameAsFirst ==
  \A n \in Done : Steps[n].do = "json" /\ Uncut(n) => outcomes[n] = FreshOutcome(n)

\* Who reads the request after a bind that got the body sees all of it.
BodyRestored ==
  \A n \in Done :
    (/\ Steps[n].do = "drain" /\ n > 1 /\ Steps[n - 1].do = "json"
     /\ \/ outcomes[n - 1].ok
        \/ outcomes[n - 1].issues[1].code \notin
             {"missing_body", "unsupported_type", "too_large", "could_not_read"})
    => outcomes[n].v.u = cached /\ (Uncut(n) => cached = request.body)

\* A handler runs only when every middleware accepted the request, and finds
\* under a key what the last middleware of that key made of the body as it was
\* sent, unless it asks for another type (Validate, ValidateToStruct, GetAs).
HandlerSeesValidated ==
  \A n \in Done :
    LET same == {i \in 1 .. chain.middlewares :
                   Steps[i].do = "json" /\ KeyOf(Steps[i].opts) = KeyOf(Steps[n].opts)}
        v == outcomes[Max(same)].v
    IN  Steps[n].do = "use" =>
          /\ \A i \in 1 .. chain.middlewares : outcomes[i].ok
          /\ same = {} => ~outcomes[n].ok
          /\ same # {} /\ Uncut(Max(same)) => v = FreshOutcome(Max(same)).v
          /\ same # {} => outcomes[n].ok = (Steps[n].as \in {"any", v.t})
          /\ outcomes[n].ok => outcomes[n].v = v

\* The integers that go from a schema of an integer type into a field of one; a
\* named type goes into its own fields only (scalarToInt64, scalarToUint64).
Reaching(out, field) ==
  CASE field = "none" -> TypeRange(out)
    [] field # "none" /\ out \in Named /\ field # out -> {}
    [] OTHER -> TypeRange(field)

\* Every integer an int64 holds reaches an integer schema, and the struct field
\* behind it, as that integer or not at all, and is refused only when one of
\* them cannot hold it: from the literal in a body, or the text of a query or a
\* URI under coercion, no digit is lost (normalizeJSONNumber, coerceToInt64,
\* numericConverter, assignScalar).
IntegersExact ==
  \A n \in Done :
    LET s == Steps[n].schema
        lit == CASE Steps[n].do = "json" /\ request.body # None /\ Len(request.body) = 1 -> request.body[1]
                 [] Steps[n].do = "uri" /\ s.kind = "number" /\ s.number.coerce -> request.uri
                 [] Steps[n].do = "query" /\ s.kind = "number" /\ s.number.coerce /\ Len(request.query) = 1 -> request.query[1]
                 [] OTHER -> [lit |-> "none"]
        range == TypeRange(s.number.out)
                   \cap (IF s.number.format = "safeint" THEN -MaxSafeInteger .. MaxSafeInteger ELSE TypeRange(s.number.out))
                   \cap Reaching(s.number.out, s.field)
    IN  (/\ Steps[n].do \in {"json", "uri", "query"} /\ s.kind = "number"
         /\ lit.lit = "integer" /\ lit.u \in MinInt64 .. MaxInt64
         /\ s.number.out \notin Floats /\ s.field \notin Floats /\ s.number.check = "none"
         /\ outcomes[n].status \in {0, 400} /\ Uncut(n))
        => /\ outcomes[n].ok <=> lit.u \in range
           /\ outcomes[n].ok => outcomes[n].v.u = lit.u

\* What a check asks of a number.
Satisfies(s, u) ==
  CASE s.check = "none" -> TRUE
    [] s.check = "gt" -> u > s.bound.u
    [] s.check = "gte" -> u >= s.bound.u
    [] s.check = "lt" -> u < s.bound.u
    [] s.check = "lte" -> u <= s.bound.u
    [] s.check = "multipleOf" -> s.bound.u = 0 \/ u % Abs(s.bound.u) = 0

\* A schema and a field of an integer type accept a Go number only if it is a
\* whole number of their ranges, and return that number in the type of the field
\* or of the schema; they accept it exactly when it satisfies the check as well.
\* A number kept as a float64 for its format check never gets through.  Above
\* MaxInt64 only a uint64 that is not coerced is recognized, and the checks of a
\* named type do not see what they check.  A float schema returns the nearest
\* float, and refuses no multiple of its divisor (newNumeric, NumberFormat,
\* compareNumeric, MultipleOf and its variants, assignScalar).
VerdictsExact ==
  \A n \in Done :
    LET s == Steps[n].schema
        v == request.value
        out == outcomes[n]
        f == ToFloat(v)
        fits == /\ v.u \in TypeRange(s.number.out) \cap Reaching(s.number.out, s.field)
                /\ v.u > MaxInt64 => v.t = "uint64" /\ ~s.number.coerce
        holds == /\ s.number.format = "safeint" => v.u \in -MaxSafeInteger .. MaxSafeInteger
                 /\ Satisfies(s.number, v.u)
        seen == s.number.out \in Named => v.u <= MaxInt64
    IN  (/\ Steps[n].do = "value" /\ s.kind = "number"
         /\ v.t \in Signed \cup Unsigned \cup {"float64", "float32"})
        => /\ out.ok /\ out.v.t # "inf" => out.v.t = IF s.field = "none" THEN s.number.out ELSE s.field
           /\ (s.number.out \notin Floats /\ s.field \notin Floats)
                => /\ out.ok => fits /\ out.v.u = v.u
                   /\ seen => (out.ok <=> fits /\ holds)
           /\ (s.number.out = "float64" /\ s.field = "none")
                => /\ out.ok => f.ok /\ out.v.u = f.v.u
                   /\ (s.number.format = "none" /\ f.ok /\ Satisfies(s.number, f.v.u)) => out.ok

\* A schema of a named type accepts what the schema of its kind accepts: the
\* bound, the range and the format are those of the kind (schema_int64_test.go:
\* 157).  The code breaks this above MaxInt64, where namedInt gives up.
NamedLikeKind ==
  \A n \in Done :
    LET s == Steps[n].schema
    IN  Steps[n].do = "value" /\ s.kind = "number" /\ s.number.out \in Named /\ s.field = "none"
        => (outcomes[n].ok <=> Verdict([s EXCEPT !.number.out = "uint64"], request.value).ok)
=============================================================================
