------------------------------ MODULE Wrappers ------------------------------
(***************************************************************************)
(* The parse functions of the leaf schemas and of the schemas that wrap    *)
(* one or two inner schemas and run them on their own payload:             *)
(* schema_optional.go, schema_default.go, schema_catch.go, schema_pipe.go, *)
(* schema_transform.go, schema_codec.go, schema_lazy.go and CheckedSchema  *)
(* of refine.go.                                                           *)
(***************************************************************************)
EXTENDS Frames

Kid(g, k) == NodeOf(g).kids[k]

\* The callback of a Transform, Preprocess or Codec frame.
Callback(g) == IF NodeOf(g).kind = "codec" /\ call[g].encode THEN NodeOf(g).bfn ELSE NodeOf(g).fn

\* A schema's own type check: FailInvalidType on failure.
Leaf(g) ==
  /\ At(g, "enter", {"leaf"})
  /\ LET p == Top(g).p
         r == Apply(NodeOf(g).fn, value[p])
     IN
     \/ /\ r.res = "ok"
        /\ value' = [value EXCEPT ![p] = r.val]
        /\ UNCHANGED issues
     \/ /\ r.res # "ok"
        /\ Raise(p, IssueAt(p, "invalid_type", "unset", <<>>))
        /\ UNCHANGED value
  /\ Jump(g, "parsed")
  /\ UNCHANGED <<aborted, parseCtx, pool, base, graph, call, build, outcome>>

\* Readonly, CheckedSchema and Lazy only run the inner schema.
EnterAlias(g) ==
  /\ At(g, "enter", Aliases)
  /\ RunSelf(g, "parsed", Kid(g, 1))
  /\ UNCHANGED <<payloadVars, graph, call, build, outcome>>

-----------------------------------------------------------------------------
\* Optional: an inner schema that accepts absence itself is always run.
EnterOptional(g) ==
  /\ At(g, "enter", {"optional"})
  /\ LET f == Top(g)
         absent == value[f.p] = Missing
     IN
     \/ /\ Traits(Kid(g, 1)).optIn
        /\ Enter(g, [f EXCEPT !.pc = "rescue", !.flag = absent, !.start = Len(issues[f.p])],
                 Kid(g, 1), f.p)
     \/ /\ ~Traits(Kid(g, 1)).optIn
        /\ absent
        /\ Jump(g, "parsed")
     \/ /\ ~Traits(Kid(g, 1)).optIn
        /\ ~absent
        /\ RunSelf(g, "parsed", Kid(g, 1))
  /\ UNCHANGED <<payloadVars, graph, call, build, outcome>>

\* Mutant: the value the inner schema left is kept.
RescueIssuesOnly(g) ==
  /\ At(g, "rescue", {"optional"})
  /\ LET f == Top(g) IN
     issues' = [issues EXCEPT ![f.p] = IF f.flag THEN SubSeq(@, 1, f.start) ELSE @]
  /\ Jump(g, "parsed")
  /\ UNCHANGED <<value, aborted, parseCtx, pool, base, graph, call, build, outcome>>

\* The new issues of an absent value are dropped.  Aborted stays as it is:
\* leaked (history) notes that it was set.
Rescue(g) ==
  /\ At(g, "rescue", {"optional"})
  /\ LET f == Top(g) IN
     IF f.flag /\ Len(issues[f.p]) > f.start
     THEN /\ issues' = [issues EXCEPT ![f.p] = SubSeq(@, 1, f.start)]
          /\ value' = [value EXCEPT ![f.p] = Missing]
          /\ call' = [call EXCEPT ![g].leaked = @ \/ aborted[f.p]]
     ELSE UNCHANGED <<issues, value, call>>
  /\ Jump(g, "parsed")
  /\ UNCHANGED <<aborted, parseCtx, pool, base, graph, build, outcome>>

EnterNullable(g) ==
  /\ At(g, "enter", {"nullable"})
  /\ IF value[Top(g).p] = Null
     THEN Jump(g, "parsed")
     ELSE RunSelf(g, "parsed", Kid(g, 1))
  /\ UNCHANGED <<payloadVars, graph, call, build, outcome>>

EnterNonOptional(g) ==
  /\ At(g, "enter", {"nonoptional"})
  /\ RunSelf(g, "nonoptional", Kid(g, 1))
  /\ UNCHANGED <<payloadVars, graph, call, build, outcome>>

RejectMissing(g) ==
  /\ At(g, "nonoptional", {"nonoptional"})
  /\ LET p == Top(g).p IN
     IF issues[p] = <<>> /\ value[p] = Missing
     THEN Raise(p, IssueAt(p, "invalid_type", "unset", <<>>))
     ELSE UNCHANGED issues
  /\ Jump(g, "parsed")
  /\ UNCHANGED <<value, aborted, parseCtx, pool, base, graph, call, build, outcome>>

-----------------------------------------------------------------------------
\* Default replaces an absent value without running the inner schema.
EnterDefault(g) ==
  /\ At(g, "enter", {"default"})
  /\ LET p == Top(g).p IN
     \/ /\ call[g].encode
        /\ RunSelf(g, "parsed", Kid(g, 1))
        /\ UNCHANGED value
     \/ /\ ~call[g].encode
        /\ value[p] = Missing
        /\ value' = [value EXCEPT ![p] = NodeOf(g).to]
        /\ Jump(g, "parsed")
     \/ /\ ~call[g].encode
        /\ value[p] # Missing
        /\ RunSelf(g, "default", Kid(g, 1))
        /\ UNCHANGED value
  /\ UNCHANGED <<issues, aborted, parseCtx, pool, base, graph, call, build, outcome>>

\* ... and an absent value the inner schema produced.
DefaultAfter(g) ==
  /\ At(g, "default", {"default"})
  /\ value' = [value EXCEPT ![Top(g).p] = IF @ = Missing THEN NodeOf(g).to ELSE @]
  /\ Jump(g, "parsed")
  /\ UNCHANGED <<issues, aborted, parseCtx, pool, base, graph, call, build, outcome>>

\* Prefault gives the inner schema its value to parse.
EnterPrefault(g) ==
  /\ At(g, "enter", {"prefault"})
  /\ value' = [value EXCEPT ![Top(g).p] =
                 IF ~call[g].encode /\ @ = Missing THEN NodeOf(g).to ELSE @]
  /\ RunSelf(g, "parsed", Kid(g, 1))
  /\ UNCHANGED <<issues, aborted, parseCtx, pool, base, graph, call, build, outcome>>

EnterCatch(g) ==
  /\ At(g, "enter", {"catch"})
  /\ RunSelf(g, "catch", Kid(g, 1))
  /\ UNCHANGED <<payloadVars, graph, call, build, outcome>>

CatchIssues(g) ==
  /\ At(g, "catch", {"catch"})
  /\ LET p == Top(g).p IN
     IF issues[p] = <<>> \/ call[g].encode
     THEN UNCHANGED <<value, issues, aborted>>
     ELSE /\ value' = [value EXCEPT ![p] = NodeOf(g).to]
          /\ issues' = [issues EXCEPT ![p] = <<>>]
          /\ aborted' = [aborted EXCEPT ![p] = FALSE]
  /\ Jump(g, "parsed")
  /\ UNCHANGED <<parseCtx, pool, base, graph, call, build, outcome>>

-----------------------------------------------------------------------------
(* Pipes.  The second schema runs only when the first left no issue; the   *)
(* payload is aborted otherwise.                                           *)

\* Encoding through a Transform panics before anything runs: see Panic.
EnterTransform(g) ==
  /\ At(g, "enter", {"transform"})
  /\ ~call[g].encode
  /\ RunSelf(g, "transform", Kid(g, 1))
  /\ UNCHANGED <<payloadVars, graph, call, build, outcome>>

\* A pipe runs its schemas in reverse order when it encodes.
EnterPipe(g) ==
  /\ At(g, "enter", {"pipe", "codec"})
  /\ RunSelf(g, NodeOf(g).kind, Kid(g, IF call[g].encode THEN 2 ELSE 1))
  /\ UNCHANGED <<payloadVars, graph, call, build, outcome>>

\* The first schema of a Transform, Pipe or Codec failed.
FirstFailed(g) ==
  /\ \E kind \in {"transform", "pipe", "codec"} : At(g, kind, {kind})
  /\ issues[Top(g).p] # <<>>
  /\ aborted' = [aborted EXCEPT ![Top(g).p] = TRUE]
  /\ Jump(g, "parsed")
  /\ UNCHANGED <<value, issues, parseCtx, pool, base, graph, call, build, outcome>>

\* Mutant: the second schema also runs on a payload with issues.
RunSecondAnyway(g) ==
  /\ At(g, "pipe", {"pipe"})
  /\ RunSelf(g, "parsed", Kid(g, IF call[g].encode THEN 1 ELSE 2))
  /\ UNCHANGED <<payloadVars, graph, call, build, outcome>>

RunSecond(g) ==
  /\ At(g, "pipe", {"pipe"})
  /\ issues[Top(g).p] = <<>>
  /\ RunSelf(g, "parsed", Kid(g, IF call[g].encode THEN 1 ELSE 2))
  /\ UNCHANGED <<payloadVars, graph, call, build, outcome>>

\* The callback of a Transform or Codec: a returned error is an issue whose
\* continue mode is unset, ctx.AddIssue one that continues.
Convert(g) ==
  /\ \E kind \in {"transform", "codec"} : At(g, kind, {kind})
  /\ issues[Top(g).p] = <<>>
  /\ LET f == Top(g)
         r == Apply(Callback(g), value[f.p])
     IN
     \/ /\ r.res = "ok"
        /\ value' = [value EXCEPT ![f.p] = r.val]
        /\ IF NodeOf(g).kind = "codec"
           THEN RunSelf(g, "parsed", Kid(g, IF call[g].encode THEN 1 ELSE 2))
           ELSE Jump(g, "parsed")
        /\ UNCHANGED issues
     \/ /\ r.res \in {"issue", "error"}
        /\ Raise(f.p, IssueAt(f.p, "custom", IF r.res = "error" THEN "unset" ELSE r.cont, <<>>))
        /\ Jump(g, "parsed")
        /\ UNCHANGED value
  /\ UNCHANGED <<aborted, parseCtx, pool, base, graph, call, build, outcome>>

\* Preprocess: the callback runs first, in both directions, and its value is
\* kept even when it added an issue.
Preprocess(g) ==
  /\ At(g, "enter", {"preprocess"})
  /\ LET f == Top(g)
         r == Apply(NodeOf(g).fn, value[f.p])
     IN
     \/ /\ r.res = "ok"
        /\ value' = [value EXCEPT ![f.p] = r.val]
        /\ RunSelf(g, "parsed", Kid(g, 1))
        /\ UNCHANGED issues
     \/ /\ r.res = "issue"
        /\ value' = [value EXCEPT ![f.p] = r.val]
        /\ Raise(f.p, IssueAt(f.p, "custom", r.cont, <<>>))
        /\ Jump(g, "parsed")
  /\ UNCHANGED <<aborted, parseCtx, pool, base, graph, call, build, outcome>>

WrapperStep(g) ==
  \/ Leaf(g) \/ EnterAlias(g)
  \/ EnterOptional(g) \/ Rescue(g)
  \/ EnterNullable(g)
  \/ EnterNonOptional(g) \/ RejectMissing(g)
  \/ EnterDefault(g) \/ DefaultAfter(g) \/ EnterPrefault(g)
  \/ EnterCatch(g) \/ CatchIssues(g)
  \/ EnterTransform(g) \/ EnterPipe(g) \/ FirstFailed(g) \/ RunSecond(g)
  \/ Convert(g) \/ Preprocess(g)
=============================================================================
