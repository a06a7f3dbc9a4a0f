------------------------------ MODULE Messages ------------------------------
(***************************************************************************)
(* Parses under a global configuration that Configure may replace at any   *)
(* time (errmap.go): which error map gives each issue its message          *)
(* (FinalizeIssue of issue.go), and when the configuration is read.  The   *)
(* schema is a Lazy, whose getter runs on the first parse (schema_lazy.go).*)
(*                                                                         *)
(* An error map is the set of issue codes it has a message for: it returns *)
(* "" for the others.  A message is named by the map that gave it.         *)
(***************************************************************************)
EXTENDS Process, Naturals, Sequences, SequencesExt

CONSTANTS
  Code,             \* the codes of issues
  Config, NoMap,    \* configurations: custom and locale are error maps or NoMap, nil
  EnLocale,         \* the error map used without a LocaleError
  ParseCtxs,        \* what ParseCtx a parse may have: error is an error map or NoMap
  Plans             \* the issues a parse may raise, in order

VARIABLES
  config,           \* globalConfig
  getter,           \* lazyState.once: "unused", "running" or "done"
  inner,            \* lazyState.inner: whether the getter has returned a schema
  step,             \* per goroutine, where it is
  parse,            \* per goroutine, the parse it is in: ctx and plan
  cfg,              \* per goroutine, the *Config it has loaded
  given,            \* per goroutine, the argument of its Configure
  raw, final,       \* per goroutine, the issues raised, and Error.Issues
  nested,           \* per goroutine, the inner issues finalized so far for its next issue
  outcome,          \* per goroutine, how its last call ended
  during,           \* history: per goroutine, the configurations current since its call
  replaced          \* history: per goroutine, the configuration its Configure replaced

messageVars == <<config, getter, inner, step, parse, cfg, given, raw, final, nested, outcome,
                 during, replaced>>

(* An issue: errMap is the error map of the schema or check that raised    *)
(* it, inner the issues of its alternatives, its key or its elements.      *)

Message == [by : {"issue", "errMap", "ctx", "custom", "locale", "invalid input"}, of : Config \cup {None}]
Silent == [by |-> "none", of |-> None]

IssueWith(nests) ==
  [code : Code, message : Message \cup {Silent}, errMap : {NoMap} \cup SUBSET Code,
   input : BOOLEAN, inner : nests]
Leaf == IssueWith({<<>>})
Issue == IssueWith(Seq(Leaf))

ASSUME MessagesAssumption == None \notin Config /\ Plans \subseteq Seq(Issue)

MessagesInit ==
  /\ config \in Config
  /\ getter = "unused"
  /\ inner = FALSE
  /\ step = [g \in Goroutine |-> "idle"]
  /\ parse = [g \in Goroutine |-> None]
  /\ cfg = [g \in Goroutine |-> None]
  /\ given = [g \in Goroutine |-> None]
  /\ raw = [g \in Goroutine |-> <<>>]
  /\ final = [g \in Goroutine |-> <<>>]
  /\ nested = [g \in Goroutine |-> <<>>]
  /\ outcome = [g \in Goroutine |-> None]
  /\ during = [g \in Goroutine |-> {}]
  /\ replaced = [g \in Goroutine |-> None]

Jump(g, label) == step' = [step EXCEPT ![g] = label]

-----------------------------------------------------------------------------
(* Configure: a Load and a Store of the pointer. *)

BeginConfigure(g, c) ==
  /\ step[g] = "idle"
  /\ Jump(g, "load")
  /\ given' = [given EXCEPT ![g] = c]
  /\ outcome' = [outcome EXCEPT ![g] = None]
  /\ during' = [during EXCEPT ![g] = {config}]
  /\ UNCHANGED <<config, getter, inner, parse, cfg, raw, final, nested, replaced>>

LoadPrevious(g) ==
  /\ step[g] = "load"
  /\ cfg' = [cfg EXCEPT ![g] = config]
  /\ Jump(g, "store")
  /\ UNCHANGED <<config, getter, inner, parse, given, raw, final, nested, outcome, during, replaced>>

Replace(g) ==
  /\ config' = given[g]
  /\ replaced' = [replaced EXCEPT ![g] = config]
  /\ during' = [h \in Goroutine |-> IF h = g \/ step[h] = "idle" THEN during[h] ELSE during[h] \cup {given[g]}]

\* Mutant: Configure returns a pointer to the configuration it has stored.
StoreThenReturnNew(g) ==
  /\ step[g] = "store"
  /\ Replace(g)
  /\ outcome' = [outcome EXCEPT ![g] = [status |-> "replaced", prev |-> given[g]]]
  /\ Jump(g, "idle")
  /\ UNCHANGED <<getter, inner, parse, cfg, given, raw, final, nested>>

StoreNew(g) ==
  /\ step[g] = "store"
  /\ Replace(g)
  /\ outcome' = [outcome EXCEPT ![g] = [status |-> "replaced", prev |-> cfg[g]]]
  /\ Jump(g, "idle")
  /\ UNCHANGED <<getter, inner, parse, cfg, given, raw, final, nested>>

-----------------------------------------------------------------------------
(* FinalizeIssue. *)

\* The first map of the chain with a message for the code.
Chain(iss, ctx, c) ==
  <<[by |-> "errMap", of |-> None, map |-> iss.errMap],
    [by |-> "ctx", of |-> None, map |-> ctx.error],
    [by |-> "custom", of |-> c, map |-> c.custom],
    [by |-> "locale", of |-> c, map |-> IF c.locale = NoMap THEN EnLocale ELSE c.locale]>>

Speakers(iss, ctx, c) ==
  {i \in 1 .. 4 : LET map == Chain(iss, ctx, c)[i].map IN map # NoMap /\ iss.code \in map}

MessageOf(iss, ctx, c) ==
  IF Speakers(iss, ctx, c) = {} THEN [by |-> "invalid input", of |-> None]
  ELSE LET source == Chain(iss, ctx, c)[Min(Speakers(iss, ctx, c))]
       IN  [by |-> source.by, of |-> source.of]

\* Mutant: the input stays.
FinalizeKeepingInput(iss, ctx, c) ==
  [iss EXCEPT !.message = IF @ = Silent THEN MessageOf(iss, ctx, c) ELSE @, !.errMap = NoMap]

FinalizeIssue(iss, ctx, c) ==
  [iss EXCEPT !.message = IF @ = Silent THEN MessageOf(iss, ctx, c) ELSE @,
              !.input = @ /\ ctx.reportInput,
              !.errMap = NoMap]

-----------------------------------------------------------------------------
(* A parse.  The getter runs once, in one parse; the others wait for it.   *)

BeginParse(g, ctx, plan) ==
  /\ step[g] = "idle"
  /\ Jump(g, "resolve")
  /\ parse' = [parse EXCEPT ![g] = [ctx |-> ctx, plan |-> plan]]
  /\ raw' = [raw EXCEPT ![g] = <<>>]
  /\ final' = [final EXCEPT ![g] = <<>>]
  /\ outcome' = [outcome EXCEPT ![g] = None]
  /\ during' = [during EXCEPT ![g] = {config}]
  /\ UNCHANGED <<config, getter, inner, cfg, given, nested, replaced>>

RunGetter(g) ==
  /\ step[g] = "resolve"
  /\ getter = "unused"
  /\ getter' = "running"
  /\ Jump(g, "getter")
  /\ UNCHANGED <<config, inner, parse, cfg, given, raw, final, nested, outcome, during, replaced>>

\* The getter returns a schema; or it panics or returns nil, which uses up
\* the Once all the same.
GetterEnds(g) ==
  /\ step[g] = "getter"
  /\ getter' = "done"
  /\ \/ inner' = TRUE /\ Jump(g, "run") /\ UNCHANGED outcome
     \/ /\ UNCHANGED inner
        /\ Jump(g, "idle")
        /\ outcome' = [outcome EXCEPT ![g] = [status |-> "getter panic"]]
  /\ UNCHANGED <<config, parse, cfg, given, raw, final, nested, during, replaced>>

\* Mutant: the getter is looked at without the Once.
ResolvedUnguarded(g) ==
  /\ step[g] = "resolve"
  /\ getter # "unused"
  /\ IF inner
     THEN Jump(g, "run") /\ UNCHANGED outcome
     ELSE Jump(g, "idle") /\ outcome' = [outcome EXCEPT ![g] = [status |-> "nil inner"]]
  /\ UNCHANGED <<config, getter, inner, parse, cfg, given, raw, final, nested, during, replaced>>

\* once.Do returns; calling Internals on a nil inner panics.
Resolved(g) ==
  /\ step[g] = "resolve"
  /\ getter = "done"
  /\ IF inner
     THEN Jump(g, "run") /\ UNCHANGED outcome
     ELSE Jump(g, "idle") /\ outcome' = [outcome EXCEPT ![g] = [status |-> "nil inner"]]
  /\ UNCHANGED <<config, getter, inner, parse, cfg, given, raw, final, nested, during, replaced>>

Due(g) == parse[g].plan[Len(raw[g]) + 1]
MoreToRaise(g) == Len(raw[g]) < Len(parse[g].plan)

\* Union, Xor, Record, Map and Catch load the configuration for the inner
\* issues they finalize.
LoadForNested(g) ==
  /\ step[g] = "run"
  /\ MoreToRaise(g)
  /\ Due(g).inner # <<>>
  /\ cfg' = [cfg EXCEPT ![g] = config]
  /\ nested' = [nested EXCEPT ![g] = <<>>]
  /\ Jump(g, "nested")
  /\ UNCHANGED <<config, getter, inner, parse, given, raw, final, outcome, during, replaced>>

\* Mutant: the configuration is looked up for every issue.
FinalizeNestedAnew(g) ==
  /\ step[g] = "nested"
  /\ Len(nested[g]) < Len(Due(g).inner)
  /\ nested' = [nested EXCEPT ![g] =
                  Append(@, FinalizeIssue(Due(g).inner[Len(@) + 1], parse[g].ctx, config))]
  /\ UNCHANGED <<config, getter, inner, step, parse, cfg, given, raw, final, outcome, during, replaced>>

FinalizeNested(g) ==
  /\ step[g] = "nested"
  /\ Len(nested[g]) < Len(Due(g).inner)
  /\ nested' = [nested EXCEPT ![g] =
                  Append(@, FinalizeIssue(Due(g).inner[Len(@) + 1], parse[g].ctx, cfg[g]))]
  /\ UNCHANGED <<config, getter, inner, step, parse, cfg, given, raw, final, outcome, during, replaced>>

\* An issue of a leaf, or of a container once its inner issues are final.
AddIssue(g) ==
  /\ \/ step[g] = "run" /\ MoreToRaise(g) /\ Due(g).inner = <<>>
     \/ step[g] = "nested" /\ Len(nested[g]) = Len(Due(g).inner)
  /\ raw' = [raw EXCEPT ![g] = Append(@, [Due(g) EXCEPT !.inner = IF @ = <<>> THEN @ ELSE nested[g]])]
  /\ Jump(g, "run")
  /\ UNCHANGED <<config, getter, inner, parse, cfg, given, final, nested, outcome, during, replaced>>

\* newError loads the configuration once more.
LoadForError(g) ==
  /\ step[g] = "run"
  /\ ~MoreToRaise(g)
  /\ raw[g] # <<>>
  /\ cfg' = [cfg EXCEPT ![g] = config]
  /\ Jump(g, "error")
  /\ UNCHANGED <<config, getter, inner, parse, given, raw, final, nested, outcome, during, replaced>>

FinalizeTop(g) ==
  /\ step[g] = "error"
  /\ Len(final[g]) < Len(raw[g])
  /\ final' = [final EXCEPT ![g] =
                 Append(@, FinalizeIssue(raw[g][Len(@) + 1], parse[g].ctx, cfg[g]))]
  /\ UNCHANGED <<config, getter, inner, step, parse, cfg, given, raw, nested, outcome, during, replaced>>

EndParse(g) ==
  /\ \/ step[g] = "error" /\ Len(final[g]) = Len(raw[g])
     \/ step[g] = "run" /\ parse[g].plan = <<>>
  /\ outcome' = [outcome EXCEPT ![g] = [status |-> IF raw[g] = <<>> THEN "ok" ELSE "error"]]
  /\ Jump(g, "idle")
  /\ UNCHANGED <<config, getter, inner, parse, cfg, given, raw, final, nested, during, replaced>>

MessagesStep(g) ==
  \/ LoadPrevious(g) \/ StoreNew(g)
  \/ RunGetter(g) \/ GetterEnds(g) \/ Resolved(g)
  \/ LoadForNested(g) \/ FinalizeNested(g) \/ AddIssue(g)
  \/ LoadForError(g) \/ FinalizeTop(g) \/ EndParse(g)
-----------------------------------------------------------------------------
(* Properties. *)

ParseCall == [ctx : ParseCtxs, plan : Plans]
Outcome ==
  [status : {"ok", "error", "getter panic", "nil inner"}] \cup [status : {"replaced"}, prev : Config]

\* The configuration and the locals of the calls.
MessagesTypeOK ==
  /\ config \in Config
  /\ getter \in {"unused", "running", "done"} /\ inner \in BOOLEAN
  /\ step \in [Goroutine -> {"idle", "load", "store", "resolve", "getter", "run", "nested", "error"}]
  /\ parse \in [Goroutine -> {None} \cup ParseCall]
  /\ cfg \in [Goroutine -> {None} \cup Config] /\ given \in [Goroutine -> {None} \cup Config]
  /\ raw \in [Goroutine -> Seq(Issue)] /\ final \in [Goroutine -> Seq(Issue)]
  /\ nested \in [Goroutine -> Seq(Leaf)]
  /\ outcome \in [Goroutine -> {None} \cup Outcome]
  /\ during \in [Goroutine -> SUBSET Config]
  /\ replaced \in [Goroutine -> {None} \cup Config]

Ended(g, status) == outcome[g] # None /\ outcome[g].status = status

\* The inner issues of iss, before they were finalized with configuration c.
FinalizedWith(group, of, ctx, c) ==
  Len(group) = Len(of) /\ \A i \in DOMAIN of : group[i] = FinalizeIssue(of[i], ctx, c)

\* newError and every container read the configuration once: the issues an
\* error lists side by side all speak for one configuration, one that was
\* current while the parse ran, whatever Configure did meanwhile.
OneConfiguration ==
  \A g \in Goroutine : Ended(g, "error") =>
    LET plan == parse[g].plan
        ctx == parse[g].ctx
    IN  /\ \E c \in during[g] : FinalizedWith(final[g], raw[g], ctx, c)
        /\ \A i \in DOMAIN plan : \E c \in during[g] :
             FinalizedWith(final[g][i].inner, plan[i].inner, ctx, c)

\* No error that leaves a parse holds a raw issue, at any depth: each one has a
\* message, no error map, and its input only when the caller asked for it.
NothingRaw ==
  \A g \in Goroutine : Ended(g, "error") =>
    \A i \in DOMAIN final[g] : \A iss \in {final[g][i]} \cup Range(final[g][i].inner) :
      iss.message # Silent /\ iss.errMap = NoMap /\ (iss.input => parse[g].ctx.reportInput)

\* Configure returns a configuration that others could see during the call and,
\* when no other goroutine configures, the one it replaced, so that it can be
\* put back.  Two overlapping calls may return the same configuration.
ConfigureReturnsPrevious ==
  \A g \in Goroutine : Ended(g, "replaced") =>
    /\ outcome[g].prev \in during[g]
    /\ (\A h \in Goroutine \ {g} : given[h] = None) => outcome[g].prev = replaced[g]

\* A Lazy is all or nothing: parses succeed only with the schema its getter
\* returned, and once a parse has seen it missing none ever gets past it.
GetterAllOrNothing ==
  /\ \A g \in Goroutine : step[g] \in {"run", "nested", "error"} => inner
  /\ (\E g \in Goroutine : Ended(g, "nil inner") \/ Ended(g, "getter panic")) => ~inner /\ getter = "done"
=============================================================================
