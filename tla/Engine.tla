------------------------------- MODULE Engine -------------------------------
(***************************************************************************)
(* The parse engine: goroutines that call Parse, ParseCtx, Decode or       *)
(* Encode on one shared schema, with payloads from one shared pool.        *)
(* parseTyped and ParseAny of schema.go, runDirectional of schema_codec.go.*)
(***************************************************************************)
EXTENDS Unions

CONSTANTS
  Inputs,       \* values Parse is called with
  Encodings,    \* directions a call may have: a subset of BOOLEAN
  MaxCalls      \* bound on the calls of one goroutine

ASSUME EngineAssumption ==
  Encodings \subseteq BOOLEAN /\ MaxCalls \in Nat

\* What the constants are, for a set of values: what callbacks and mergeValues
\* return, what a schema is made of, and that every key of an object has a name.
Answers(Values) == [res : {"ok", "issue", "error", "panic"}, val : Values, cont : Cont]
Typed(Values) ==
  /\ Inputs \cup {Missing, Null} \subseteq Values
  /\ KeyNames \in Seq(Values)
  /\ \A v \in Values : v.e \in Seq(Values) /\ (v.t = "obj" => Len(v.e) <= Len(KeyNames))
  /\ \A f \in Fn : \A v \in Values : Apply(f, v) \in Answers(Values)
  /\ \A v, w \in Values :
       /\ MergeValues(v, w).path \in Path
       /\ MergeValues(v, w).ok => MergeValues(v, w).val \in Values
  /\ \A shape \in Shapes : \A n \in Node :
       shape[n] \in SchemaOf(Values) /\ WellFormed(shape[n])

NoOutcome == [status |-> "none", val |-> Null, issues |-> <<>>]
NoCall(p) ==
  [busy |-> FALSE, encode |-> FALSE, ctx |-> NoCtx, input |-> Null, calls |-> 0, p |-> p,
   leaked |-> FALSE]

Init ==
  /\ PayloadInit
  /\ graph \in Schemas
  /\ stack = [g \in Goroutine |-> <<>>]
  /\ call \in [Goroutine -> {NoCall(p) : p \in PayloadId}]
  /\ build = [p \in PayloadId |-> <<>>]
  /\ outcome = [g \in Goroutine |-> NoOutcome]

\* parseTyped acquires the payload and runs the schema.  The ParseCtx of a
\* call belongs to it; Parse has none, and encoding needs one.
StartCall(g) ==
  /\ ~call[g].busy
  /\ call[g].calls < MaxCalls
  /\ \E v \in Inputs, encode \in Encodings, c \in {g, NoCtx}, p \in PayloadId :
       /\ encode => c = g
       /\ Acquire(p, v, c, <<>>)
       /\ call' = [call EXCEPT ![g] = [busy |-> TRUE, encode |-> encode, ctx |-> c, input |-> v,
                                       calls |-> @.calls + 1, p |-> p, leaked |-> FALSE]]
       /\ stack' = [stack EXCEPT ![g] = <<NewFrame(Root, p)>>]
  /\ outcome' = [outcome EXCEPT ![g] = NoOutcome]
  /\ UNCHANGED <<graph, build>>

\* The issues are copied into the error before the payload is released.
FinishCall(g) ==
  /\ call[g].busy
  /\ stack[g] = <<>>
  /\ LET p == call[g].p IN
     /\ outcome' = [outcome EXCEPT ![g] =
                      IF issues[p] = <<>>
                      THEN [status |-> "ok", val |-> value[p], issues |-> <<>>]
                      ELSE [status |-> "error", val |-> Null, issues |-> issues[p]]]
     /\ ReleaseAll(<<p>>, value, issues, aborted)
  /\ call' = [call EXCEPT ![g].busy = FALSE]
  /\ UNCHANGED <<base, graph, stack, build>>

-----------------------------------------------------------------------------
(* Panics.  A callback may panic, a Transform panics when it encodes, and  *)
(* looking up a discriminator that is a slice or a map panics.             *)

\* The callback the running frame is about to make, if any.
DueCallback(g) ==
  LET kind == NodeOf(g).kind IN
  CASE Top(g).pc = "checks" /\ Top(g).i <= Len(NodeOf(g).checks) ->
         IF Suppressed(g) THEN NoFn ELSE Check(g).fn
    [] Top(g).pc \in {"transform", "codec"} /\ issues[Top(g).p] = <<>> -> Callback(g)
    [] Top(g).pc = "enter" /\ kind = "preprocess" -> NodeOf(g).fn
    [] OTHER -> NoFn

CallbackPanics(g) ==
  /\ DueCallback(g) # NoFn
  /\ Apply(DueCallback(g), value[Top(g).p]).res = "panic"

EncodesTransform(g) == At(g, "enter", {"transform"}) /\ call[g].encode

UnhashableDiscriminator(g) ==
  /\ At(g, "enter", {"discunion"})
  /\ value[Top(g).p].t = "obj"
  /\ Element(value[Top(g).p], NodeOf(g).key).t # "atom"

\* The goroutine unwinds to the caller.  What it held is garbage: it never
\* reaches the pool, and its identifiers stand for the zero payloads that
\* pool.New makes later.
Panic(g) ==
  /\ call[g].busy
  /\ stack[g] # <<>>
  /\ CallbackPanics(g) \/ EncodesTransform(g) \/ UnhashableDiscriminator(g)
  /\ outcome' = [outcome EXCEPT ![g] =
                   [status |-> IF UnhashableDiscriminator(g) THEN "crash" ELSE "panic",
                    val |-> Null, issues |-> <<>>]]
  /\ pool' = Zeroed(pool, Held(g), 1)
  /\ value' = Zeroed(value, Held(g), Null)
  /\ issues' = Zeroed(issues, Held(g), <<>>)
  /\ aborted' = Zeroed(aborted, Held(g), FALSE)
  /\ parseCtx' = Zeroed(parseCtx, Held(g), NoCtx)
  /\ stack' = [stack EXCEPT ![g] = <<>>]
  /\ call' = [call EXCEPT ![g].busy = FALSE]
  /\ UNCHANGED <<base, graph, build>>

\* Every goroutine has made its calls.
Finished ==
  /\ \A g \in Goroutine : ~call[g].busy /\ call[g].calls = MaxCalls
  /\ UNCHANGED vars

CheckStep(g) == StartChecks(g) \/ SkipCheck(g) \/ RunCheck(g) \/ EndChecks(g)
Step(g) ==
  WrapperStep(g) \/ ContainerStep(g) \/ EntryStep(g) \/ UnionStep(g) \/ CheckStep(g)

Next ==
  \/ \E g \in Goroutine : StartCall(g) \/ FinishCall(g) \/ Panic(g) \/ Step(g)
  \/ Finished

Spec == Init /\ [][Next]_vars
-----------------------------------------------------------------------------
(* Properties. *)

CallRecord ==
  [busy : BOOLEAN, encode : BOOLEAN, ctx : Goroutine \cup {NoCtx}, input : Inputs \cup {Null},
   calls : 0 .. MaxCalls, p : PayloadId, leaked : BOOLEAN]

\* Payloads, frames and calls are well formed, and the schemas never change
\* (Payload, Internals and the arguments of parseTyped).
TypeOK ==
  /\ issues \in [PayloadId -> Seq(Issue)]
  /\ aborted \in [PayloadId -> BOOLEAN]
  /\ parseCtx \in [PayloadId -> Goroutine \cup {NoCtx}]
  /\ pool \in [PayloadId -> Nat]
  /\ base \in [PayloadId -> Path]
  /\ graph \in Schemas
  /\ stack \in [Goroutine -> Seq(Frame)]
  /\ call \in [Goroutine -> CallRecord]

Running(g) == call[g].busy /\ stack[g] # <<>>

\* A schema is only ever entered on a payload without issues.  Catch, Pipe,
\* Transform, Codec, NonOptional and Preprocess test len(p.Issues) where they
\* mean "the inner run added none"; they are right because of this.
CleanEntry ==
  \A g \in Goroutine : Running(g) /\ Top(g).pc = "enter" => issues[Top(g).p] = <<>>

\* isAborted, which runChecks keeps up to date from the issues of each check,
\* is what a scan of all the issues of the payload would give.
AbortFlag ==
  \A g \in Goroutine : Running(g) /\ Top(g).pc = "checks" =>
    Top(g).flag = AbortedFrom(aborted[Top(g).p], issues[Top(g).p], 0)

\* The places that hold payload p: <<g, 0, 0>> for the payload of g's call,
\* <<g, i, j>> for the j-th child of its i-th frame.
Holders(p) ==
  {<<g, 0, 0>> : g \in {h \in Goroutine : call[h].busy /\ call[h].p = p}} \cup
  UNION {UNION {{<<g, i, j>> : j \in {k \in DOMAIN stack[g][i].kids : stack[g][i].kids[k] = p}} :
                i \in DOMAIN stack[g]} : g \in Goroutine}

\* AcquirePayload and ReleasePayload are paired: at any time a payload is once
\* in the pool or held at one place of one goroutine, never both, never twice
\* and, panics aside, never lost.
PoolDiscipline == \A p \in PayloadId : pool[p] + Cardinality(Holders(p)) = 1

\* RefinementCtx.Context never sees the ParseCtx of another call, and a field or
\* an element sees the one of its own call whatever the schemas in between.
CtxIsolation ==
  \A g \in Goroutine : call[g].busy =>
    /\ \A p \in Held(g) : parseCtx[p] \in {NoCtx, call[g].ctx}
    /\ \A i \in 1 .. Len(stack[g]) - 1 :
         graph[stack[g][i].n].kind \in Passing
           => parseCtx[stack[g][i + 1].p] = call[g].ctx

\* PrependPath at every level adds up: the path of an issue, taken from the
\* place of the payload that holds it, is the place where it was raised.
PathsResolve ==
  \A g \in Goroutine : call[g].busy =>
    \A p \in Held(g) : \A i \in DOMAIN issues[p] :
      base[p] \o issues[p][i].path = issues[p][i].at

\* "parsing never throws" (payload.go), for data: a call panics only in a
\* callback or when it encodes a Transform.
NeverCrashes == \A g \in Goroutine : outcome[g].status # "crash"

\* Context "returns the context.Context from ParseCtx" (refine.go): every schema
\* runs on a payload that carries the ParseCtx of its call.
ContextReachesAll ==
  \A g \in Goroutine : call[g].busy =>
    \A i \in DOMAIN stack[g] : parseCtx[stack[g][i].p] = call[g].ctx
=============================================================================
