------------------------------- MODULE Unions -------------------------------
(***************************************************************************)
(* The parse functions of the schemas that run several schemas on copies   *)
(* of the same value: schema_union.go, schema_xor.go, the dispatch of      *)
(* schema_discunion.go and schema_intersection.go.                         *)
(***************************************************************************)
EXTENDS Entries

CONSTANT MergeValues(_, _)  \* mergeValues of schema_intersection.go: ok, val, path

Succeeded(cp) == issues[cp] = <<>>

\* Run an option on a payload of its own, without a parseCtx.
RunApart(g, f, n) == RunOn(g, f, n, value[f.p], NoCtx, base[f.p])

\* Mutant: only the payload of the last option is released.
SettleLast(g, val, iss) ==
  LET f == Top(g) IN
  /\ ReleaseAll(<<Last(f.kids)>>, val, iss, aborted)
  /\ Goto(g, [f EXCEPT !.pc = "parsed", !.kids = <<>>])

\* Release the options' payloads and go on at "parsed".
Settle(g, val, iss) ==
  LET f == Top(g) IN
  /\ ReleaseAll(f.kids, val, iss, aborted)
  /\ Goto(g, [f EXCEPT !.pc = "parsed", !.kids = <<>>])

InvalidUnion(p, path) == IssueAt(p, "invalid_union", "unset", path)

-----------------------------------------------------------------------------
(* Union and Xor.  A single option is run on the union's own payload. *)

EnterUnion(g) ==
  /\ At(g, "enter", {"union", "xor"})
  /\ IF Len(NodeOf(g).kids) = 1
     THEN RunSelf(g, "parsed", Kid(g, 1))
     ELSE Jump(g, IF NodeOf(g).kind = "union" THEN "options" ELSE "choices")
  /\ UNCHANGED <<payloadVars, graph, call, build, outcome>>

RunOption(g) ==
  /\ At(g, "options", {"union", "discunion"})
  /\ Top(g).i <= Len(NodeOf(g).kids)
  /\ RunApart(g, [Top(g) EXCEPT !.pc = "option"], Kid(g, Top(g).i))
  /\ UNCHANGED <<graph, call, build, outcome>>

\* The first option without issues wins.
OptionDone(g) ==
  /\ At(g, "option", {"union", "discunion"})
  /\ LET f == Top(g)
         cp == Last(f.kids)
     IN
     \/ /\ Succeeded(cp)
        /\ Settle(g, [value EXCEPT ![f.p] = value[cp]], issues)
     \/ /\ ~Succeeded(cp)
        /\ Goto(g, [f EXCEPT !.pc = "options", !.i = @ + 1])
        /\ UNCHANGED <<value, issues, aborted, parseCtx, pool>>
  /\ UNCHANGED <<base, graph, call, build, outcome>>

\* All failed: the issues of the only option that was not aborted are the
\* union's; otherwise the union raises one issue of its own.
OptionsFailed(g) ==
  /\ At(g, "options", {"union", "discunion"})
  /\ Top(g).i > Len(NodeOf(g).kids)
  /\ LET f == Top(g)
         alive == {k \in DOMAIN f.kids :
                     ~AbortedFrom(aborted[f.kids[k]], issues[f.kids[k]], 0)}
         only == f.kids[CHOOSE k \in alive : TRUE]
     IN
     \/ /\ Cardinality(alive) = 1
        /\ Settle(g, [value EXCEPT ![f.p] = value[only]],
                  [issues EXCEPT ![f.p] = @ \o issues[only]])
     \/ /\ Cardinality(alive) # 1
        /\ Settle(g, value, [issues EXCEPT ![f.p] = Append(@, InvalidUnion(f.p, <<>>))])
  /\ UNCHANGED <<base, graph, call, build, outcome>>

RunChoice(g) ==
  /\ At(g, "choices", {"xor"})
  /\ Top(g).i <= Len(NodeOf(g).kids)
  /\ RunApart(g, [Top(g) EXCEPT !.pc = "choice"], Kid(g, Top(g).i))
  /\ UNCHANGED <<graph, call, build, outcome>>

ChoiceDone(g) ==
  /\ At(g, "choice", {"xor"})
  /\ Goto(g, [Top(g) EXCEPT !.pc = "choices", !.i = @ + 1])
  /\ UNCHANGED <<payloadVars, graph, call, build, outcome>>

\* Every option has run, and exactly one may have succeeded.
EndChoices(g) ==
  /\ At(g, "choices", {"xor"})
  /\ Top(g).i > Len(NodeOf(g).kids)
  /\ LET f == Top(g)
         wins == {k \in DOMAIN f.kids : Succeeded(f.kids[k])}
     IN
     \/ /\ Cardinality(wins) = 1
        /\ Settle(g, [value EXCEPT ![f.p] = value[f.kids[CHOOSE k \in wins : TRUE]]], issues)
     \/ /\ Cardinality(wins) # 1
        /\ Settle(g, value, [issues EXCEPT ![f.p] = Append(@, InvalidUnion(f.p, <<>>))])
  /\ UNCHANGED <<base, graph, call, build, outcome>>

-----------------------------------------------------------------------------
(* DiscriminatedUnion, its dispatch table built.  disc[k] is the set of    *)
(* discriminator values of option k; an absent key is looked up as Missing.*)
(* Looking up a value that is no atom panics: see Panic in Engine.         *)

EnterDiscUnion(g) ==
  /\ At(g, "enter", {"discunion"})
  /\ LET f == Top(g)
         v == value[f.p]
         d == Element(v, NodeOf(g).key)
         found == {k \in Shape(f.n) : d \in NodeOf(g).disc[k]}
     IN
     \/ /\ v.t # "obj"
        /\ Raise(f.p, IssueAt(f.p, "invalid_type", "unset", <<>>))
        /\ Jump(g, "parsed")
     \/ /\ v.t = "obj" /\ d.t = "atom"
        /\ found # {}
        /\ RunSelf(g, "parsed", Kid(g, Min(found)))
        /\ UNCHANGED issues
     \/ /\ v.t = "obj" /\ d.t = "atom"
        /\ found = {}
        /\ NodeOf(g).mode = "fallback"
        /\ Jump(g, "options")
        /\ UNCHANGED issues
     \/ /\ v.t = "obj" /\ d.t = "atom"
        /\ found = {}
        /\ NodeOf(g).mode # "fallback"
        /\ Raise(f.p, InvalidUnion(f.p, <<NodeOf(g).key>>))
        /\ Jump(g, "parsed")
  /\ UNCHANGED <<value, aborted, parseCtx, pool, base, graph, call, build, outcome>>

-----------------------------------------------------------------------------
(* Intersection. *)

EnterIntersection(g) ==
  /\ At(g, "enter", {"intersection"})
  /\ LET f == Top(g) IN
     \E cp \in PayloadId :
       /\ Acquire(cp, value[f.p], NoCtx, base[f.p])
       /\ Goto(g, [f EXCEPT !.pc = "left", !.kids = <<cp>>])
  /\ UNCHANGED <<graph, call, build, outcome>>

\* The second payload, and the left schema on the first.
RunLeft(g) ==
  /\ At(g, "left", {"intersection"})
  /\ LET f == Top(g) IN
     \E cp \in PayloadId :
       /\ Acquire(cp, value[f.p], NoCtx, base[f.p])
       /\ Enter(g, [f EXCEPT !.pc = "right", !.kids = Append(@, cp)], Kid(g, 1), f.kids[1])
  /\ UNCHANGED <<graph, call, build, outcome>>

RunRight(g) ==
  /\ At(g, "right", {"intersection"})
  /\ Enter(g, [Top(g) EXCEPT !.pc = "merge"], Kid(g, 2), Top(g).kids[2])
  /\ UNCHANGED <<payloadVars, graph, call, build, outcome>>

IsUnrecognized(iss) == iss.code = "unrecognized_keys"
KeysReported(iss) == UNION {iss[i].keys : i \in {j \in DOMAIN iss : IsUnrecognized(iss[j])}}

\* The issues that report unrecognized keys, or the other ones, in their order.
Selected(iss, unrecognized) ==
  LET among[i \in 0 .. Len(iss)] ==
        IF i = 0 THEN <<>>
        ELSE IF IsUnrecognized(iss[i]) = unrecognized THEN Append(among[i - 1], iss[i])
        ELSE among[i - 1]
  IN  among[Len(iss)]

\* handleIntersectionResults on the issues: two objects recognize the union
\* of their shapes; otherwise a key is reported when both sides report it.
JoinedIssues(n, l, r) ==
  LET sides == graph[n].kids
      shapes == Shape(sides[1]) \cup Shape(sides[2])
      report == IF \A k \in 1 .. 2 : graph[sides[k]].kind = "object"
                THEN (KeysReported(l) \cup KeysReported(r)) \ shapes
                ELSE KeysReported(l) \cap KeysReported(r)
      lefts == Selected(l, TRUE)
      kept == IF lefts # <<>> THEN Last(lefts) ELSE Head(Selected(r, TRUE))
  IN  Selected(l \o r, FALSE)
        \o (IF report = {} THEN <<>> ELSE <<[kept EXCEPT !.keys = report]>>)

MergeSides(g) ==
  /\ At(g, "merge", {"intersection"})
  /\ LET f == Top(g)
         l == f.kids[1]
         r == f.kids[2]
         joined == issues[f.p] \o JoinedIssues(f.n, issues[l], issues[r])
         merged == MergeValues(value[l], value[r])
     IN
     \/ /\ AbortedFrom(aborted[f.p], joined, 0)
        /\ Settle(g, value, [issues EXCEPT ![f.p] = joined])
     \/ /\ ~AbortedFrom(aborted[f.p], joined, 0)
        /\ merged.ok
        /\ Settle(g, [value EXCEPT ![f.p] = merged.val], [issues EXCEPT ![f.p] = joined])
     \/ /\ ~AbortedFrom(aborted[f.p], joined, 0)
        /\ ~merged.ok
        /\ Settle(g, value, [issues EXCEPT ![f.p] =
                               Append(joined, IssueAt(f.p, "custom", "unset", merged.path))])
  /\ UNCHANGED <<base, graph, call, build, outcome>>

UnionStep(g) ==
  \/ EnterUnion(g) \/ RunOption(g) \/ OptionDone(g) \/ OptionsFailed(g)
  \/ RunChoice(g) \/ ChoiceDone(g) \/ EndChoices(g)
  \/ EnterDiscUnion(g)
  \/ EnterIntersection(g) \/ RunLeft(g) \/ RunRight(g) \/ MergeSides(g)
=============================================================================
