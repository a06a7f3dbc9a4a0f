------------------------------- MODULE Frames -------------------------------
(***************************************************************************)
(* Schemas and the calls that run them (src/z/schema.go, check.go).        *)
(*                                                                         *)
(* A schema is a node of graph.  Running a schema is a frame on the stack  *)
(* of the goroutine that called Parse: Internals.Run is the parse function *)
(* of the schema's kind, which starts at pc "enter" and ends at "parsed",  *)
(* followed by runChecks.  A frame holds the payload it works on; RunSelf  *)
(* pushes a frame with the same payload, RunChild one with a new payload.  *)
(***************************************************************************)
EXTENDS Payloads

CONSTANTS
  Node, NoNode,  \* schemas, and the nil schema
  Root,          \* the schema Parse is called on
  Shapes,        \* schema graphs, as written by the user
  Fn, NoFn,      \* callbacks (predicates, transforms, gates), and nil
  Apply(_, _)    \* Apply(f, v): what callback f does on value v

ASSUME FramesAssumption == Root \in Node

VARIABLES
  graph,         \* the schemas; never changes
  stack,         \* per goroutine, the frames of its call, the running one last
  call,          \* per goroutine, its call of Parse, ParseCtx, Decode or Encode
  build,         \* per payload, the output its container frame has built so far
  outcome        \* per goroutine, what its last call returned

vars == <<value, issues, aborted, parseCtx, pool, base,
          graph, stack, call, build, outcome>>

-----------------------------------------------------------------------------
(* Schemas.  kids are the inner schemas in the order the code runs them,   *)
(* rest the schema of further elements, fn and bfn the forward and the     *)
(* backward callback, to a default or fallback, disc the discriminator     *)
(* values of each option or of a record's key schema.                      *)

Aliases == {"readonly", "checked", "lazy"}
Wrapping == Aliases \cup {"optional", "nullable", "nonoptional", "default", "prefault",
                          "catch", "transform", "preprocess", "pipe", "codec"}
Choosing == {"union", "xor", "discunion", "intersection"}
Containing == {"object", "array", "tuple", "set", "record", "map"}
Kind == {"leaf"} \cup Wrapping \cup Choosing \cup Containing
Mode == {"strip", "strict", "loose", "catchall", "fallback"}

\* A check, and the internals of a schema for values of the set Values.
CheckOf == [fn : Fn, gate : Fn \cup {NoFn}, super : BOOLEAN, abort : BOOLEAN]
SchemaOf(Values) ==
  [kind : Kind, kids : Seq(Node), rest : Node \cup {NoNode}, checks : Seq(CheckOf),
   fn : Fn \cup {NoFn}, bfn : Fn \cup {NoFn}, to : Values, mode : Mode, key : Nat \ {0},
   disc : Seq(SUBSET Values), optIn : BOOLEAN, optOut : BOOLEAN]

\* The inner schemas and callbacks the constructors ask for.
WellFormed(s) ==
  /\ s.kind \in Wrapping => s.kids # <<>>
  /\ s.kind \in {"pipe", "codec", "intersection", "record", "map"} => Len(s.kids) >= 2
  /\ s.mode = "catchall" => s.rest \in Node
  /\ s.kind \in {"leaf", "transform", "preprocess", "codec"} => s.fn \in Fn
  /\ s.kind = "codec" => s.bfn \in Fn

\* Internals.OptIn, assigned by each constructor from its inner schemas.
\* A Lazy leaves it false: its inner schema is not known at construction.
OptInOf(shape) ==
  LET opt[n \in Node] ==
        LET s == shape[n] IN
        \/ s.kind \in {"optional", "default", "prefault", "catch"}
        \/ /\ s.kind \in {"nullable", "readonly", "checked", "transform", "preprocess",
                          "pipe", "codec"}
           /\ opt[s.kids[1]]
        \/ /\ s.kind \in Choosing
           /\ \E i \in DOMAIN s.kids : opt[s.kids[i]]
  IN  opt

\* Internals.OptOut.
OptOutOf(shape) ==
  LET opt[n \in Node] ==
        LET s == shape[n] IN
        \/ s.kind = "optional"
        \/ /\ s.kind \in {"nullable", "readonly", "checked", "preprocess", "catch"}
           /\ opt[s.kids[1]]
        \/ /\ s.kind \in {"pipe", "codec"}
           /\ opt[s.kids[2]]
        \/ /\ s.kind \in Choosing
           /\ \E i \in DOMAIN s.kids : opt[s.kids[i]]
  IN  opt

Constructed(shape) ==
  [n \in Node |-> [shape[n] EXCEPT !.optIn = OptInOf(shape)[n], !.optOut = OptOutOf(shape)[n]]]

Schemas == {Constructed(shape) : shape \in Shapes}

\* traits(): the internals that carry n's optionality, one Lazy deep.
Traits(n) == IF graph[n].kind = "lazy" THEN graph[graph[n].kids[1]] ELSE graph[n]

-----------------------------------------------------------------------------
(* Frames. *)

Pc == {"enter", "parsed", "checks",
       "rescue", "nonoptional", "default", "catch", "transform", "pipe", "codec",
       "fields", "field", "items", "item", "members", "member", "slots", "slot",
       "keys", "key", "entry", "value",
       "options", "option", "choices", "choice", "left", "right", "merge"}

Frame == [n : Node, pc : Pc, p : PayloadId,
          i : Nat,                  \* the loop index
          start : Nat,              \* len(p.Issues) when it was saved; Record, Map: the out key
          flag : BOOLEAN,           \* isAborted of runChecks; Optional: input was Missing
          kids : Seq(PayloadId),    \* payloads acquired and not yet released
          marks : Seq(Nat)]         \* Tuple: len(p.Issues) before each item; Record, Map: the keys to run

NewFrame(n, p) == [n |-> n, pc |-> "enter", p |-> p, i |-> 1, start |-> 0,
                   flag |-> FALSE, kids |-> <<>>, marks |-> <<>>]

Top(g) == Last(stack[g])
NodeOf(g) == graph[Top(g).n]

\* g is running, at label pc of a schema of one of the kinds.
At(g, pc, kinds) ==
  /\ call[g].busy
  /\ stack[g] # <<>>
  /\ Top(g).pc = pc
  /\ NodeOf(g).kind \in kinds

Goto(g, f) == stack' = [stack EXCEPT ![g] = Append(Front(@), f)]
Jump(g, pc) == Goto(g, [Top(g) EXCEPT !.pc = pc])
\* Run schema n on payload p; f is this frame when the run returns.
Enter(g, f, n, p) == stack' = [stack EXCEPT ![g] = Append(Append(Front(@), f), NewFrame(n, p))]
\* RunSelf(n, p, ctx), continuing at pc.
RunSelf(g, pc, n) == Enter(g, [Top(g) EXCEPT !.pc = pc], n, Top(g).p)
Return(g) == stack' = [stack EXCEPT ![g] = Front(@)]

Raise(p, iss) == issues' = [issues EXCEPT ![p] = Append(@, iss)]

\* The payloads g has acquired and not released.
Held(g) == {call[g].p} \cup UNION {Range(stack[g][i].kids) : i \in DOMAIN stack[g]}

-----------------------------------------------------------------------------
(* runChecks. *)

Check(g) == NodeOf(g).checks[Top(g).i]

Suppressed(g) ==
  LET f == Top(g) IN
  IF Check(g).gate # NoFn
  THEN \/ ExplicitlyAborted(aborted[f.p], issues[f.p])
       \/ Apply(Check(g).gate, value[f.p]).res # "ok"
  ELSE f.flag

\* The continue mode of an issue of check ch: Check.Issue for a predicate,
\* RefinementCtx.AddIssue for a SuperRefine callback.
ContOf(ch, r) == IF ch.super THEN r.cont ELSE IF ch.abort THEN "unset" ELSE "yes"

\* Mutant: only the issues of the last check count.
LastAborted(f, grown) == AbortedFrom(aborted[f.p], grown, Len(issues[f.p]))

\* isAborted after a check that left the issues grown.
StillAborted(f, grown) == f.flag \/ AbortedFrom(aborted[f.p], grown, Len(issues[f.p]))

\* The parse function has returned; Run is Parse for a schema without checks.
StartChecks(g) ==
  /\ At(g, "parsed", Kind)
  /\ LET f == Top(g) IN
     IF NodeOf(g).checks = <<>>
     THEN Return(g)
     ELSE Goto(g, [f EXCEPT !.pc = "checks", !.i = 1,
                            !.flag = AbortedFrom(aborted[f.p], issues[f.p], 0)])
  /\ UNCHANGED <<payloadVars, graph, call, build, outcome>>

SkipCheck(g) ==
  /\ At(g, "checks", Kind)
  /\ Top(g).i <= Len(NodeOf(g).checks)
  /\ Suppressed(g)
  /\ Goto(g, [Top(g) EXCEPT !.i = @ + 1])
  /\ UNCHANGED <<payloadVars, graph, call, build, outcome>>

RunCheck(g) ==
  /\ At(g, "checks", Kind)
  /\ Top(g).i <= Len(NodeOf(g).checks)
  /\ ~Suppressed(g)
  /\ LET f == Top(g)
         ch == Check(g)
         r == Apply(ch.fn, value[f.p])
         grown == Append(issues[f.p], IssueAt(f.p, "check", ContOf(ch, r), <<>>))
     IN
     \/ /\ r.res = "ok"
        /\ value' = [value EXCEPT ![f.p] = r.val]
        /\ Goto(g, [f EXCEPT !.i = @ + 1])
        /\ UNCHANGED issues
     \/ /\ r.res = "issue"
        /\ issues' = [issues EXCEPT ![f.p] = grown]
        /\ Goto(g, [f EXCEPT !.i = @ + 1,
                             !.flag = StillAborted(f, grown)])
        /\ UNCHANGED value
  /\ UNCHANGED <<aborted, parseCtx, pool, base, graph, call, build, outcome>>

EndChecks(g) ==
  /\ At(g, "checks", Kind)
  /\ Top(g).i > Len(NodeOf(g).checks)
  /\ Return(g)
  /\ UNCHANGED <<payloadVars, graph, call, build, outcome>>
=============================================================================
