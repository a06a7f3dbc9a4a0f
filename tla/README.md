# go-z in TLA+

Models, model-checking runs and machine-checked proofs for go-z, a schema
validation library for Go (`src/z`) with a binding for gin (`src/zgin`).

go-z has no server and no disk: it is a library whose schemas are immutable
objects that many goroutines share. What is hard about it is the *parse engine*
(a value, its issues and an abort flag travel through nested schemas on pooled
payloads, and a dozen kinds of schema read and rewrite them), the *concurrent
entry points* (worker pools with cancellation and panics), the *deferred
construction* of recursive schemas during the first parses, the *process-wide
state* (a metadata registry and a configuration that anyone may replace), and the
*edges*: numbers that pass through four types on their way from a request into a
struct, a request body that can be read once, decode plans of recursive structs, and
JSON Schema documents that must say what the schemas do.

## 1. Inventory

State is what a component keeps; "correct when" is what its properties are about.

| Component (source) | State | Operations | Interacts with | Correct when |
|---|---|---|---|---|
| Payload and pool (`payload.go`) | value, issues, `Aborted`, `parseCtx`; `sync.Pool` | AcquirePayload, ReleasePayload, AddIssue, PrependPath, aborted, explicitlyAborted | every parser | one owner per payload; nothing of an earlier use is seen; paths point at the place of the issue |
| Checks (`check.go`, `refine.go`) | cached `isAborted` | runChecks, Check.Issue, RefinementCtx | user callbacks | a check runs exactly when nothing aborted before it, or its gate says so |
| Schema runtime (`schema.go`) | immutable `Internals` (Run, OptIn, OptOut, Values) | Parse, ParseCtx, ParseAny, RunChild, RunSelf | pool, all schemas | the answer is the one the schema means; the ctx reaches every callback |
| Wrappers (`schema_optional.go`, `_default`, `_catch`) | none | Optional, Nullable, NonOptional, Readonly, Default, Prefault, Catch | the inner schema, on the *same* payload | the rewriting of value, issues and abort flag fits what runs later on the payload |
| Pipes and codecs (`schema_pipe.go`, `_transform`, `_codec`) | none | Pipe, Transform, Preprocess, Codec, Decode, Encode | callbacks | the second half runs only on a good first half, in either direction |
| Containers (`schema_object.go`, `_array`, `_set`, `_tuple`, `_record`, `_map`) | output under construction | field, element and slot loops, unknown keys, truncation | children on *own* payloads | children's issues are scoped, absent optional parts dropped, nothing else lost |
| Alternatives (`schema_union.go`, `_xor`, `_discunion`, `_intersection`) | payloads of the options | try, count, dispatch, merge | options on copies | the verdict follows from the options; every payload given back once |
| Lazy and deferred tables (`schema_lazy.go`, `schema_discunion.go`) | `sync.Once`, `building`, `discMap`, `buildErr` | first Parse, Resolve | other unions' builds, other goroutines | one verdict per union; complete tables; no deadlock |
| Batches (`concurrent.go`, `panics.go`) | channel, workers, outs, errs, panicRecord | ConcurrentBatch, ConcurrentParseAny | engine, context | every element validated once or the call says otherwise; no lost panic; the call returns |
| Parallel slices (`parallel.go`) | chunks, workers | ParseParallelSlice | engine, context | same |
| Registry (`registry.go`) | metadata map and id index under a RWMutex | Add, Remove, Clear, Describe, Meta; Get, Has, GetByID, GetDescription | JSON Schema | every operation is atomic; index and metadata agree; no lost update |
| Configuration (`errmap.go`, `issue.go`, `errors.go`) | global atomic pointer | Configure, GetConfig, FinalizeIssue, newError | every failing parse | one configuration per list of issues; nothing raw leaves; what was replaced can be put back |
| Reports (`errorutils.go`) | none | Flatten, Format, Treeify, Prettify | errors, gin responses | every issue is reported at its place, once |
| Object builders (`schema_object.go`) | shape, order, compiled plan | ObjectOrdered, Pick, Omit, Extend, Merge, Partial, Required, Keyof | engine, JSON Schema | the three parts name the same fields in the order of the calls |
| Numbers (`schema_numeric.go`, `checks_number.go`, `coerce.go`) | none | coercion, type tests, ranges, comparisons, multiples | binding, struct decoding | exact on integers; refuses what a type cannot hold |
| Struct decoding (`tostruct.go`) | cache of decode plans | ToStruct, DecodeStruct | engine | plans of recursive types complete; numbers in range |
| JSON Schema (`jsonschema*.go`) | none | a walk over a schema, rewriting for older dialects | engine's traits | admits what the engine accepts, in each dialect |
| gin binding (`zgin`) | cached body on the request, values under context keys | bind, Validate, respond | engine, reports | each bind judges the same bytes by its own options |
| Strings and templates (`schema_string.go`, `checks_string.go`, `schema_template.go`) | what attached checks record | checks, coercion, compiling parts into one expression | runtime, JSON Schema | what is recorded is what is checked; a template takes what its parts take |
| Other leaf types, formats | none | type tests, predicates | runtime | per type |
| Fluent API, locales, benchmarks, docs | none | constructors, wording | | not modelled |

### What is hard here

* Wrappers share one payload with what they wrap. They test `len(p.Issues)` where
  they mean "the inner run failed", cut the list back to a saved length and set
  or clear `Aborted`; whether that is right depends on who runs before and after.
* Payloads are recycled between goroutines, released on several exits of a
  union and lost when a callback panics.
* Workers stop on a flag set by another worker's panic and leave elements they
  have already taken; cancellation races the last send, the stop flag and Wait.
* Tables of mutually recursive unions are built inside `sync.Once`s that call
  each other, in whichever goroutines parse first.
* Records and maps run a schema on each key, which may rename it, so that two
  entries may end under one key.
* Registry writers change two maps that must agree, and Describe and Meta read
  before they write; Configure loads and stores in two steps, while a parse reads
  the configuration once per list of issues.
* A number is parsed as an integer or a float, coerced, compared, and stored into a
  field, and each step may round; the limits of int64 and uint64 are no floats.
* The first bind consumes the body of a request; later ones read a cache under
  limits and options of their own.
* A plan of a struct type is used by the plans of the types inside it while it is
  still being built.
* A JSON Schema document is assembled by local rewriting that must not change what
  the parts mean.
* A template literal has nothing but one expression: a part whose checks have none, or
  more than one can say, must make its construction panic, however it is wrapped.

`PROJECT.json` lists the hazards line by line with the properties that would
catch them going wrong.

## 2. Plan

1. *Done:* the engine (Payloads, Frames, Wrappers, Containers, Entries, Unions,
   Engine) and its reference meaning (Meaning), the fan-out (Fanout, Batch, Slices), the
   deferred builds (LazyBuild), the process-wide state (MetadataStore, Registry, Messages,
   Globals), the binding (Numbers, Requests, Reports, Shapes, Plans, Strings, Templates, Binding) and
   JSON Schema (Export); proofs about the engine (ownership, contexts, issues, types), Batch, Slices,
   Registry, Messages, LazyBuild, Requests and Numbers.
2. *Prove more:* what Reports, Plans and Templates compute, with their recursive operators written as
   functions; it needs induction over data (section 5).
3. *Extend:* other leaf types as parts of templates; strings, times and typed maps in struct decoding; the trait copy of
   Inner; issues a check raises several of; the size checks of containers.

Abstract specifications: Fanout, shared by Batch and Slices; MetadataStore for the
registry; Meaning for the engine, whose documents Export compares with it.

## 3. Modules and code

    Payloads --> Frames --> Wrappers --> Containers --> Entries --> Unions --> Engine
    Engine --> Meaning --> MCEngine         Meaning --> Export --> MCExport
    Engine --> EngineProofs --> IssueProofs --> TypingProofs
    Fanout <== Batch --> BatchProofs        Fanout <== Slices --> SlicesProofs
    LazyBuild --> MCLazyBuild               LazyBuild --> LazyBuildProofs
    MetadataStore <== Registry
    Process --> Registry, Messages --> Globals --> MCGlobals
    Globals --> GlobalsProofs
    Numbers --> Requests --> RequestsProofs
    Numbers --> Plans;  Strings --> Templates
    Requests, Reports, Shapes, Plans, Templates --> Binding --> MCBinding
    (-->  is extended by,  <==  is implemented by, with INSTANCE)

**Payloads.** A payload is an identifier and its fields are functions of it:
`value`, `issues`, `aborted`, `parseCtx`. `pool[p]` counts how often p is in
`payloadPool`, so releasing twice is a state and not impossible by
construction. An identifier stands for a pooled object or for one `pool.New` makes
on demand. An issue keeps its code, its continue mode (`cont`) and its path.
`base` and the issue's `at` are history: the absolute path of a payload's value and
the place where the issue was raised; no guard reads them.

**Frames.** A schema is a node of `graph`. Running it is a frame on the stack of
its goroutine; `pc` says where in its ParseFn the goroutine is. RunSelf
pushes a frame with the same payload; RunChild and the unions push one with a new
payload, which the frame below keeps in `kids` until it releases it.
`OptInOf` and `OptOutOf` are what the constructors assign; `Traits` is `traits()`,
which sees through one Lazy. StartChecks, SkipCheck, RunCheck and EndChecks are
`runChecks`, one check per step.

**Wrappers, Containers, Entries, Unions.** One action per stretch of a ParseFn between two
runs of an inner schema: EnterX up to the first, then one named after what follows
it (Rescue, DefaultAfter, CatchIssues, FieldDone, ItemDone, Assemble, Settle,
MergeSides). Stretches are atomic because a running frame touches only payloads
its goroutine owns; that this is so is PoolDiscipline, which is proved.
User callbacks are the constant operator `Apply(f, v)`: it accepts and may change the
value, raises an issue (continuing, unset or aborting), returns an error, or
panics. Leaf types and built-in checks are callbacks too.

**Entries** is Record and Map. `marks` holds the order in which the keys are run
(sorted for a Record, any for a Map, as Go ranges over maps) and `start` the key the
entry goes to, which is what the key schema made of the key (`OutKey`; 0 for a Map key that is no name, whose entry the value
does not show). A Record reports a failing
key as invalid_key and skips the entry, a loose one keeps the entry as it is, a Map
reports the key's issues and goes on. A key schema that lists its values makes a
Record exhaustive: these keys, absent or not, and no other.

**Engine.** StartCall and FinishCall are parseTyped and runDirectional; Panic unwinds
a goroutine, and the payloads it held never reach the pool again.
A goroutine's ParseCtx is named by the goroutine; Parse has none.

**Meaning.** A recursive definition of what a schema accepts and produces,
without payloads, issues, flags and order. `Merged` is mergeValues.

**Export.** `Emit` is emitJSONSchema: the document of a schema for its input or its
output side, a function from keywords. `Rewritten` is the walk that turns a
draft 2020-12 document into draft-07 or OpenAPI 3.0. `Admits` reads a document as a
validator of its dialect would, so documents can be compared with Meaning.

**Fanout.** What a batch call promises: the call returns the effect of every
element, or reports a cancellation that happened (elements may then be missing),
or raises a panic that an element really caused.

**Batch** has the caller's loop with its `select`, the buffered channel and
workers with one step per read of shared state (receive, the stop flag, ctx.Err,
the element, the Once, the flag). **Slices** has the chunk arithmetic, the closed
channel of chunks and both the sequential and the parallel path; element and
chunk errors are kept where the code keeps them.

**LazyBuild.** `once`, `building`, `built` and `buildErr` per union and per
goroutine the nested calls of ensureDiscMap it is in; each shared access is a step.
`WellFormed` says that no union leads back to itself: a set that contains every union
whose options lead into it only contains it (no recursion over the options is needed).

**MetadataStore** is what the registry promises: two maps, the metadata of each schema and
the schema last indexed under each id, on which every operation takes effect at one instant
between its call and its return. **Registry** is the code: a writer or reader waits for
the RWMutex, addLocked, Remove and Clear write the two maps one by one, mergeMeta reads and
writes under one lock. It implements MetadataStore (`Atomic == INSTANCE`, property
RegistryIsAtomic); the refinement mapping shows the effect of a writer as soon as it
has the lock (`Seen`), since nobody can look before it lets go.

**Messages** is a parse under a configuration that Configure replaces: the first use of a Lazy
runs its getter inside a Once, each container finalizes its nested issues with the
configuration it reads then, and newError those at the top; the chain of FinalizeIssue
(own message, the schema's error map, the context's, custom, locale, "Invalid input") names
the map that speaks (`Speakers` are those that have a message; an error map is the set of the
codes, of `Code`, that it has one for). Configure loads and stores in two steps. **Globals** lets
goroutines do all of this at once; `Process` holds what Registry and Messages share.

**Numbers** has Go's numeric types as records of a type and a value in *halves* (so that
there are numbers that are not whole), with scaled widths; `Round` is rounding to
nearest, ties to even, and `TypeRange` the numbers an integer type holds. A value of a named type (`Named`: "ID",
a uint64) misses the type switches of the code, and namedInt knows it up to MaxInt64 (`Recognized`): beyond, it
is neither an integer nor a float, and a comparison with it has no answer. NumericSchema with coercion, NumberFormat, the comparisons,
MultipleOf and assignScalar are operators on them. **Reports** has Flatten, Format,
Treeify and Prettify as maps from places to messages. **Shapes** has the builders of object
schemas: shape, order and the compiled plan. **Plans** has buildStructPlan with its cache of
unfinished plans, and applyPlan.

**Strings** has texts as sequences of symbols: characters, one of them outside of the basic
plane (two UTF-16 code units, four bytes), and words such as an address. A regular
expression is a language with or without its outer anchors. `RunTextChecks` is runChecks on
a string, with the lengths behind their gate; `Recorded` is what the OnAttach hooks of the
checks leave in the Internals, `TextAdmitted` what the JSON Schema made of it admits.
**Templates** has the parts of template literals, schemas below wrappers, lazies and checks
included: `Compiled` gives what a schema takes over from the one it wraps
(propagateWrapperMeta), its fragment, or none (TemplateLiteral then panics), and the
language of the whole; `MadeOf` is what the parts mean by themselves.

**Requests** is one request: a chain of middlewares (Validate, ValidateToStruct, or another
that reads the body) and handler steps (BindJSON, BindQuery, BindURI, another reader, GetAs).
`body` is what is left of the one-shot reader, `cached` the bytes kept in the context, `cut`
(history) the first step that consumed a part of the body and failed. `Verdict` is what a schema makes
of a value: schemas of one number, with or without the struct field behind it, are decided here by the
operators of Numbers (`NumberVerdict`), all others by the constant operator `OtherVerdict`, since nothing that
happens to the body depends on them.

**Binding** gives Requests its other schemas, `SchemaVerdict`: a step decodes, parses with one of the schemas
above and renders a failure in one of the four shapes.

Operators marked `Mutant:` in a comment are faulty variants of the definition
that follows them. No specification uses them; substituting one for its
definition makes the property named in `PROJECT.json` fail, which shows that the
property depends on that piece of the code.

## 4. Runs

| Run | Question | Properties | States |
|---|---|---|---|
| `engine` | does one parse, decode or encode go right, whatever the nesting, and do the schema's documents say what it accepts? | CleanEntry, AbortFlag, PathsResolve, ResultIsMeaning, ExportAdmits, DialectsKeep | 1.0 million |
| `pool` | do two goroutines with panicking callbacks keep their payloads apart? | TypeOK, PoolDiscipline, CtxIsolation | 277 thousand |
| `batch` | does ConcurrentBatch keep Fanout's promise and return? | TypeOK, OneOwner, Quiescent, Implements, Returns | 343 thousand |
| `slices` | does ParseParallelSlice, for all chunkings? | TypeOK, NoOverlap, Implements, Returns | 90 thousand |
| `lazy_build` | do concurrent first parses of recursive unions agree and end? | TypeOK, SameVerdict, TablesComplete, EveryParseEnds | 45 thousand |
| `globals` | do registrations, configurations and parses at once stay atomic and consistent? | GlobalsTypeOK, IndexSound, LastIsFound, RegistryIsAtomic, OneConfiguration, NothingRaw, ConfigureReturnsPrevious, GetterAllOrNothing | 510 thousand |
| `binding` | does what a request says reach the handler, exactly, and every issue the client? | BindingTypeOK, IntegersExact, VerdictsExact, SameAsFirst, BodyRestored, HandlerSeesValidated, ReportsAll, BuildersFaithful, PlansComplete, TextsAsRecorded | 900 thousand |
| `engine_rescue` | counterexample | RescuedIsChecked | |
| `engine_crash` | counterexample | NeverCrashes | |
| `engine_context` | counterexample | ContextReachesAll | |
| `lazy_race` | counterexample | WellFormedBuilds | |
| `binding_named` | counterexample | NamedLikeKind | |

### Bounds

* `engine`: the catalogue MCShapes has every wrapper in every wrapper around a leaf,
  every wrapper in every container and in unions, pairs of objects under unions and
  intersections, wrapped intersections, Optional around pipes that may
  fail on absent values, containers in containers (so that issue paths are
  prefixed twice), and records and maps whose key schemas accept, reject, rename or list
  keys; every schema is parsed, decoded and encoded
  on eleven inputs (atoms, absent, null, arrays of 0 to 3, objects with absent and
  unknown keys, an object of an array and an array of an object). The documents are
  tried on these and on a dozen values more, for these schemas and for number leaves with
  every pair of bounds, literals, nullable compounds, and an object that leads back to
  itself. All flag and issue-list interactions are between a frame, the one
  below and the one above, so three levels reach them. One call per goroutine is
  enough: what a call leaves behind is only in the pool, which `pool` covers.
* `pool`: two goroutines, two calls each, five payloads: each can hold three or more at once, so
  payloads move between goroutines and the pool runs dry (a step that needs a
  payload then waits; `New` makes one in the code). Payload and goroutine names are
  symmetric; the properties do not name them.
* `batch`: up to four elements and two workers. Four is the least number at which one worker
  that stops after a panic would leave the caller blocked on a channel with room for one
  element; `slices`: four elements and two workers with the threshold below and above the length. Every outcome per element (accepted, rejected,
  panics), cancellation at every step. Two workers are enough for each race
  listed (one winner, one loser); `batch` and `slices` are also proved for all bounds.
* `lazy_build`: two unions and all their option lists of length one and two
  (recursive ones included), two goroutines, two parses each. A third parse
  finds only finished tables. The safety properties are also proved for all bounds.
* `globals`: two goroutines, three calls between them, two schemas, two ids, two
  configurations, and plans of up to three issues, nested or side by side. A registry
  hazard takes one call to prepare it and two to race, or two to prepare and one to look;
  all properties of this run are also proved for all bounds. An issue list is compared with one
  configuration at a time, so two configurations tell them apart.
* `binding`: int64 has Word = 6 bits, int32 HalfWord = 3, float64 Mantissa = 4 bits of precision
  and float32 two, with the order of the real widths (NumbersAssumption): integers beyond the
  exact range of a float, ranges whose limit is no float and floats beyond every
  integer all exist, and `Edges` has the neighbours of each limit. What the run shows of integers in these
  widths is also proved for all of them. Bodies have up to
  three tokens with a limit of two (DefaultMaxBodyBytes) and explicit ones around it; chains have up to three
  steps, so that a bind has a predecessor that succeeded, failed or drained. Lists are looked for
  below up to MaxLayers = 2 wrappers, the tree of a report is sparse beyond Slack = 2.
  Builder calls come in chains of up to three. String schemas have up to two checks of 23,
  enough for a conflict of two patterns, a bound that replaces one and a check that is skipped; templates
  have up to three parts, of which one is any of the 92 in `Parts` (each kind, plain or below
  each wrapper), and texts of up to three characters, so that each part can take one.

### Fairness

`Returns` and `EveryParseEnds` assume weak fairness of every goroutine's next step,
the Go scheduler's promise that a goroutine that can run is eventually run. Nobody
has to cancel. Callbacks are assumed to return or panic. No strong fairness is
used: a worker at the channel, once it is closed or filled, stays enabled or another one
took the element.

### What the runs show

The engine's answer agrees with Meaning on every schema and input of the
catalogue, apart from calls in which an Optional dropped the issues of an aborted
payload (`call.leaked`); those are what `engine_rescue` shows to be wrong. The
catalogue leaves out intersections whose sides hold nested strict objects or
checks around strict objects: the code merges unrecognized keys by name, without
their path, and what such an intersection should mean is not stated anywhere.

Five statements of the repository do not hold, each shown by a run:

1. `engine_rescue`. Optional around a Pipe, Transform or Codec that fails on an
   absent value (say, below a Prefault) cuts back the issues and the value but
   leaves `Payload.Aborted`; checks around the Optional are skipped silently and the
   parse succeeds. `refine.go:71` says the checks run after the inner parse.
2. `engine_crash`. A discriminated union given `{"type": []}` indexes a
   `map[any]` with a slice and panics. `payload.go:9`: "parsing never throws".
3. `engine_context`. Union options, Xor options, set elements and intersection
   sides run on payloads without `parseCtx`: their refinements get
   `context.Background()`, not the call's context, as `refine.go:22` promises. (Objects,
   arrays and tuples below them get it again, which CtxIsolation states.)
4. `lazy_race`. The `building` flag means "this union leads back to itself", but it
   is also set while *another* goroutine builds that union for the first time.
   A union that reaches it then records a failure that its Once keeps for ever.
   `concurrent.go:20-22` promises that a constructed schema may be shared freely.
5. `binding_named`. With `type ID uint64`, `NumericOf[ID]().Lte(5)` accepts 2^63+1: namedInt gives up above
   MaxInt64, compareNumeric then has no answer, and the comparison passes without an issue.
   `schema_int64_test.go:157`: "A named type behaves like its underlying kind".

Four more were met while modelling. The model has the behaviour, and the properties except it by name:

6. A discriminated union has the Def of a union but is no `*UnionSchema`, so its document is `anyOf: []`
   (`jsonschema.go:442`), which admits nothing; `json-schema.md:91` recommends it for what a client should send.
   ExportAdmits leaves discriminated unions out.
7. Merge with an object that names a field without a schema keeps the name in the order and leaves the field out of
   the shape; Keyof, "this object's property names" (`schema_object.go:539`), lists the order. BuildersFaithful asks
   of such chains (`NamesNoField`) that no field is lost or doubled, but neither for the order nor for an exact Keyof.
8. A type that embeds a type that leads back to it copies a plan that is not finished: with `A{N *B; X}` and
   `B{Q; *A}`, the x of n is dropped in silence, depending on the order of the fields. `CHANGELOG.md:106`: embedded
   fields are promoted "like `encoding/json`". PlansComplete leaves such types out (`EmbedsInCycle`).
9. Readonly around a string with a pattern and a length is taken for its pattern alone, so a template builds from it and
   ignores the length. `template-literal.md:48-52`: such parts panic "rather than being silently ignored at request
   time". TextsAsRecorded leaves such parts out (`Overlooks`), of what a template accepts.

What the properties had to leave out, and why, says something of the code too:

* Configure: two overlapping calls may return the same previous configuration
  (ConfigureReturnsPrevious asks for the exact one only when nobody else configures).
* A Map whose key schema sends two keys to one keeps the value Go happens to visit last;
  Meaning accepts either (`Collides`). A Record visits its keys in order.
* A read that fails half way (too large, or a broken connection) takes the part it read;
  a later bind of the same handler then sees the tail (`Uncut`), and what follows a JSON value
  that fits the limit is noticed unless it is `]` or `}`.
* Integer literals just below the int64 range round to it as a float64 and are
  accepted. Integers above MaxInt64 other than a plain uint64 are refused by uint64 schemas.
  A number too large for a float32 field becomes infinite. MultipleOf has a tolerance on floats.
* FormatMap loses the messages of a path that has a segment `_errors`.
* A named unsigned number above MaxInt64 is not seen by the checks of its schema, so VerdictsExact says of it only that
  what is accepted is in the ranges and returned as it is; what is wrong with it is statement 5.
* OneConfiguration is about one list of issues. The nested lists of a union or a record are finalized while it is
  parsed and the error's at its end, so one error may speak two languages when Configure runs in between;
  `concurrency.md:79` asks to treat Configure as process configuration, and nothing says otherwise.
* A minimum length counts UTF-16 code units, `minLength` in the document characters: a
  character outside of the basic plane passes Min(2) alone, and its document refuses it.
* Of what a template accepts, TextsAsRecorded leaves out (`Overlooks`) the checks that come through Readonly, CheckSchema or
  Lazy or that are attached to a literal or a template, which is statement 9, and Email and Hostname, whose expression
  takes a little more than their check does. Of what it must accept, it leaves out (`Narrows`) an unanchored expression, which is
  anchored inside of a template, and Readonly around Optional or Nullable, which loses the absence or the null.
* The document of a catch or a preprocess describes its inner schema, that of a transform, a
  default or an overwriting check what went in; a field that accepts its absence without OptIn
  (Any) is listed as required; strict objects below `allOf` refuse each other's keys; the values a
  loose record keeps unseen are not described; OpenAPI 3.0 has no tuples and no
  null type, and what is said instead only admits more (`Described`, DialectsKeep).

## 5. Proofs

For every value of the constants (any number of goroutines, payloads, schemas,
callbacks, inputs, workers), checked by TLAPS.

**EngineProofs**, from PayloadAssumption (NoCtx is no goroutine) and EngineAssumption.

* `Invariance`: Spec => []Inv, with Inv the conjunction of
  - *Types*: the shape of stacks, frames and ownership fields (values are untyped);
  - *Own*: payloads a frame keeps in `kids` are distinct, are at no other frame, are
    not a call's own payload, and are not in the pool; one not owned is there once;
  - *Chain*: each frame works on its call's own payload or on one in the `kids` of a frame below it;
  - *Carried*: the ParseCtx on every owned payload is NoCtx or the call's, and is the
    call's on what objects, arrays, tuples, records and maps pass down (`Passing`).
  PoolDiscipline alone is not inductive: a release is harmless only if the released
  payload is owned once and no frame above still works on it, which is Chain.
* `PoolDisciplineHolds` and `CtxIsolationHolds` follow from Inv.
  Each action is classified by what it does to ownership (nothing, take one
  payload, give `kids` back, end a call) and the invariant is proved per class.

**BatchProofs**, from BatchAssumption.

* `TypeCorrect`, `QuiescentHolds`, `OneOwnerHolds`, and `NoLostPanicHolds`: the panicRecord names a
  real panic, and a normal return means every slot holds its effect.
* `Refinement`: Spec => Implements: Send, Receive and the workers' steps stutter in Fanout, Enter and
  Finish map to its answers, Cancel to Cancel. The inductive invariant says in
  addition where each index is (unsent, in the channel, with one worker, done, or
  lost to the stop flag), that a lost one implies the flag, and that `first` names
  an element that panicked as soon as a worker is at the flag.

**GlobalsProofs**, about the registry, from StoreAssumption (None, Nothing and Done are not confused with what they stand in for).

* `RegistryTypeCorrect`, `RegistryRefinement`, `IndexSoundHolds`, `LastIsFoundHolds`, and
  `GlobalsImplementRegistry`, which carries them over to the specification of the run. The
  inductive invariant RInv = RegistryTypeOK /\ Locked /\ Controlled /\ HalfDone says that a
  goroutine inside a critical section holds the lock it needs, that nobody waits with
  a lock, and that the maps in the middle of a write are the ones before it with the
  first map done. IndexSound alone is not inductive: while a writer is between its two
  writes the maps do disagree, and only HalfDone says how.
* Each step of the registry is a call, a commit or a return of the store, or a stutter
  (`SeenSteps`); IndexSound and LastIsFound are proved of the store and read off what the registry shows.

**GlobalsProofs**, about messages, from MessagesAssumption (None is no configuration, the plans are lists of issues) and
those of the registry, about the specification of `globals`.

* `GlobalsTypeCorrect`, `OneConfigurationHolds`, `NothingRawHolds`, `ConfigureReturnsPreviousHolds`,
  `GetterAllOrNothingHolds`. OneConfiguration speaks of finished lists. Inductive is what a
  goroutine knows of a list it is finalizing (`Local`): the configuration it loaded has been current
  since its call began (`Loaded`), the messages it has already written are of that one, and as many issues are
  finalized as were raised. A Configure between its load and its store knows that its previous
  configuration is still the current one as long as nobody else is inside Configure (`Configuring`).

**SlicesProofs**, from SlicesAssumption (there is a worker; lengths and MinChunk are natural numbers).

* `TypeCorrect`, `NoOverlapHolds`, and `Refinement`: Spec => Implements, for the sequential path
  and the chunked one. The arithmetic comes first: chunks are not empty, the last one ends
  where the slice does, and each element is in exactly one (`ChunkSizeFacts`, `Cut`), although
  chunkSize is rounded up twice. NoOverlap is not inductive, since a worker that takes a
  chunk must know that nobody has it: the invariant adds that the channel holds the last chunks in
  order (Fifo), that chunks in hands were taken and are apart (Apart), that a goroutine is inside its
  chunk (Within), that what lies behind it is done (Behind), that a taken chunk has failed, is held or is done
  unless a panic stopped the pool (Covered), and what the panicRecord says (Recorded).

**LazyBuildProofs**, from LazyBuildAssumption.

* `TypeCorrect`, `SameVerdictHolds`, `TablesCompleteHolds`, and `NoCircularWait`: while some goroutine is in
  ensureDiscMap, one of those that are does not wait for a Once. Together with fairness this is what
  EveryParseEnds needs, and it is not obvious: builds call builds, and a goroutine waits for a Once that
  another goroutine runs. The invariant says that nested calls are linked by options (Linked), that each running Once
  has exactly one call building (Alone, Attended), and that no union waits for itself through
  others (NoCircle), stated as well-foundedness of `Asks`: the flag stops a goroutine before it closes the
  circle. The theorem follows along `Asks`: a union that is being built, or one it waits for, is built by a
  goroutine that does not wait (lemma BuilderRuns).

**IssueProofs**, from EngineProofs' assumptions.

* `CleanEntryHolds` and `AbortFlagHolds`, and, for a MergeValues that returns a path (`MergesArePaths`,
  what the signature of mergeValues says; MCEngine evaluates it on some values), `PathsResolveHolds`.
* None is inductive: a wrapper runs its inner schema on its own payload *because* it has seen that there are
  no issues, and a container adds the issues of a payload that another frame filled. IssueInv says
  - *FramesOK*: what each waiting frame relies on, by its label: a tuple's notes are positions in its issue
    list, the payload of an element is placed one step below the container's (`ChildPlace`), those of
    options and of the sides of an intersection at the same place (`Beside`), and the payload kept for the right side has no issues;
  - *Apart*: a frame that runs a schema on another payload finds its own as it left it, since no frame
    above works on it;
  - *Sounds*: the issues of every payload in use are placed below its value.
  Every action is shown to have the `Effect` of a step that touches the payload of its frame and those it
  takes or gives back; `FrameStays` then keeps the claims of all other frames, of this goroutine and of
  others, which is where the ownership of EngineProofs is used.
* What happens to lists is in lemmas: SoundAppend, SoundConcat, SoundCut (a tuple drops the issues of a slot),
  SoundPrefix (PrependPath), SoundSelected and SoundJoin (an intersection sorts issues and makes one of several).
  `Selected` is defined by recursion along a list; what it returns is proved by the least position at which it
  would be wrong (`Least`, from the well-foundedness of the naturals, since the induction theorems cannot be used).

**TypingProofs**, from EngineProofs' assumptions and FramesAssumption (the root is a schema).

* `TypeCorrect`: Spec => []TypeOK, the whole of it: issue lists with their codes, paths and keys, the frames on
  every stack, calls and payloads. Most of that a Go compiler checks. What it does not check is that an index is
  in its sequence: a child schema, a key, an element, a child payload, a noted number of issues, the option of a
  discriminator value. There the code would panic, and there the proof has its work.
* Values come from inputs, schemas and callbacks and have no type in the model, so the theorem is about any set V with
  two properties. `Typed(V)`, of Engine: the inputs and defaults are in V, callbacks and mergeValues return members
  of V for members of V, elements of members are members, an object has no more elements than there are keys, and
  schemas have the inner schemas and callbacks that their constructors ask for (`WellFormed`). `Closed(V)`: a container of
  V with other elements of V is in V. The values built in finitely many steps from some atoms are closed, and Typed asks
  the rest to stay among them. That set is infinite, so TLC cannot evaluate it; MCEngine evaluates Typed on a part,
  atoms, and arrays and objects of up to two atoms, with the callbacks, schemas and inputs of the runs (`ConstantsTyped`).
* TypeOK is not inductive. TypeInv adds, by the label of a frame (`FrameTyped`, `Fitting`), that a loop index has started,
  that the keys a record goes through are keys and the current one exists, that an option being run has left a
  payload, and that what an object or a record has built is no longer than the list of keys. The last concerns
  two steps far apart, since the object is put together only when its last field is done, and with `WithElements` it is
  what keeps the new value in V. An array, a set or a tuple has no such bound, so the frame also
  remembers that its value is no object.
* Every step of a goroutine is shown to be one that only `Changes` its own payload, its children's or pooled ones, so
  `OthersTyped` keeps the claims of the other frames by the ownership of EngineProofs and the waiting of IssueProofs,
  and each action comes down to the frame it leaves (`GoTyped`, `EnterTyped`, `ReturnTyped`).

**RequestsProofs**, about requests, from LimitsAssumption (limits are natural numbers) and HandlingsAssumption (a body is a finite
sequence of tokens, MaxBodyBytes is a number, and the chain starts with its middlewares, each of which
validates the body or reads it: Validate and ValidateToStruct are all that zgin has). Nothing is assumed of `OtherVerdict`,
and nothing of numbers is used.

* `TypeCorrect`, `SameAsFirstHolds`, `BodyRestoredHolds`, `HandlerSeesValidatedHolds`.
* SameAsFirst compares the outcome of any step with that of a first step, so the invariant has to say how the
  request got from one to the other. RInv adds that what is left of the body and what is cached of it are rests
  of the body as sent, both the whole body as long as no bind took a part of it, and that a cached body was read to
  its end without an error (Bodies); that a bind that got the body has cached it and left it to the next step
  (Restores); that while middlewares and handlers run, the steps of middlewares so far succeeded and each key holds
  the outcome of the last of its middlewares (Stores), which a failure or the end of the middlewares freezes
  (Uses). That a body is judged alike from the wire and from the cache (`ReadAgain`) rests on what ReadAll returns
  (`ReadAllFacts`: a reader under MaxBytesReader that fails has a token more than the limit, or met the broken one).

**RequestsProofs**, about numbers, from those assumptions, NumbersAssumption (the order of the widths and precisions: 64, 32, 53
and 24 bits are among them, and so are those of the run) and SentAssumption (an integer in a body, a text or a Go
value of the request is one, a schema of NumericOf[T] has a T, a format that T's constructor gives it
and a bound that a T converts to, and a field has a numeric type). MCBinding evaluates them on the run.

* `IntegersExactHolds` and `VerdictsExactHolds`: an integer is accepted exactly when the types on its way hold it and
  the check does, and arrives with all its digits, by way of JSON, a query, a URI or a Go value; a float schema
  returns the nearest float. The exceptions are in the statements: of a Go value above MaxInt64 only an uncoerced
  uint64 gets through, the checks of a named type do not see it, and a number of a named type goes into a field of its own type only. The state side is small: `Answers` says that an outcome of a query, a URI or a value is the
  verdict of its schema (`AnswersHold`), and for the body SameAsFirst does. The rest is arithmetic.
* Widths are variables in these proofs, and the provers know nothing of `2^n` for a variable n. Numbers has the powers as a
  recursive function, `Pow2`; that a function with its equations exists, and so that `Pow2[n]` obeys them, is proved first
  from tables of finite length (`TableExists`, `TablesAgree`), by the least n that is a counterexample in place of induction.
* `RoundToIs`, `RoundToExact` and `RoundToBetween` say what rounding is for: the result is the multiple of the spacing
  next to x, integers of no more digits than the precision stay, and a power of two is never passed. The last is why
  FloatToInt64 and floatToUint64 must refuse a float *equal* to 2^63 or 2^64: MaxInt64 rounds up to it. `ToInt64Is`,
  `ConvertIs`, `AssignIs`, `FormatOfInteger`, `HoldsOfInteger` then give each step of the way its range, and `ParseInteger` and
  `VerdictOfInteger` compose them.
* A float schema with a divisor looks whether the quotient, rounded to the precision of a float, is near a whole
  number. That it never refuses a multiple (`NoRemainder`) holds at whatever scale the quotient is rounded; that it
  accepts nothing else is not stated, since it has a tolerance.

Only model-checked: liveness (the prover has no ENABLED); everything about Meaning, Export, Reports, Plans and
Templates (recursive operators), and with them ResultIsMeaning, ExportAdmits and DialectsKeep of the engine, and ReportsAll,
BuildersFaithful, PlansComplete and TextsAsRecorded of Binding, which extends them.

## 6. Not modelled

* Engine: nil child schemas of containers other than objects (they copy the value),
  `skipChecks` (never set), checks that raise several issues at once, the nested issue lists of
  invalid_union inside the engine (Messages and Reports have them), the typed edge of Parse (a
  schema bug there is reported as an issue), the empty option list, times in mergeValues,
  the size checks of arrays, sets and maps, keys of a Map that are no property keys (bools,
  structs), and an out key that is the empty string. An issue list is a value: the array behind it, which a released
  payload keeps or trims, is left out, and so is the question whether a list that is still referenced shares it. `sync.Pool` may drop payloads at any time; a dropped one and a new one are the
  same identifier here.
* Leaf types and formats: bools, big integers, times, literals, enums and the matchers of the
  formats are predicates on one value without state, string matching for the most part; the
  engine has them as callbacks, Templates has literals, numbers and email. Booleans, nulls, dates and
  transforms as parts of a template; Normalize; the scan of an expression for inner anchors
  (a flag here). Big-integer multiples.
* Struct decoding: strings, times, typed maps and base64 bytes.
* JSON Schema: metadata keywords, `$schema`, string formats, lengths and patterns. Emitting a
  Lazy field resolves it and copies its OptIn, the one write of the export; the
  documents are those after it.
* Lazy: the trait copy of Inner, which its doc asks to call during setup.
* Reports: wording and ToDotPath. Requests: writing the response.
* The fluent API and the parameters forward to constructors and keep no state; locales are
  tables of wording; benchmarks and the documentation site are no part of the library.
