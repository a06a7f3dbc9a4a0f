----------------------------- MODULE Containers -----------------------------
(***************************************************************************)
(* The parse functions of the schemas that run inner schemas on payloads   *)
(* of their own: schema_object.go, schema_array.go, schema_set.go,         *)
(* schema_tuple.go and RunChild of schema.go.                              *)
(*                                                                         *)
(* A value is a record: t is "atom", "arr" or "obj" and e its elements.    *)
(* The e of an object lists the values of its keys 1, 2, ..., Missing for  *)
(* a key that is absent; the shape of an object schema is the keys 1 to    *)
(* Len(kids), and any further key is unknown to it.                        *)
(***************************************************************************)
EXTENDS Wrappers

Element(v, i) == IF i <= Len(v.e) THEN v.e[i] ELSE Missing
WithElements(v, e) == [v EXCEPT !.e = e]
Keys(v) == {k \in DOMAIN v.e : v.e[k] # Missing}
Shape(n) == 1 .. Len(graph[n].kids)

\* Mutant: the ctx of RunChild is not looked at.
ParentCtx(g, p) == parseCtx[p]

\* RunChild: a nil ctx falls back to the parent's.
ChildCtx(g, p) == IF call[g].ctx = NoCtx THEN parseCtx[p] ELSE call[g].ctx

\* Acquire a payload cp for v and run schema n on it; f is this frame while
\* n runs, and it keeps cp.
RunOn(g, f, n, v, c, path) ==
  \E cp \in PayloadId :
    /\ Acquire(cp, v, c, path)
    /\ Enter(g, [f EXCEPT !.kids = Append(@, cp)], n, cp)

RunChild(g, f, n, v, seg) == RunOn(g, f, n, v, ChildCtx(g, f.p), Append(base[f.p], seg))

\* The kinds whose children get the ParseCtx of the call.
Passing == {"object", "array", "tuple", "record", "map"}

\* A container given a value of another type.
WrongType(g) ==
  /\ At(g, "enter", Containing)
  /\ value[Top(g).p].t # (IF NodeOf(g).kind \in {"object", "record", "map"} THEN "obj" ELSE "arr")
  /\ Raise(Top(g).p, IssueAt(Top(g).p, "invalid_type", "unset", <<>>))
  /\ Jump(g, "parsed")
  /\ UNCHANGED <<value, aborted, parseCtx, pool, base, graph, call, build, outcome>>

-----------------------------------------------------------------------------
(* Object.  Every declared key is run, an absent one on Missing; then the  *)
(* unknown keys are dropped, reported, copied or run on the catchall.      *)

EnterObject(g) ==
  /\ At(g, "enter", {"object"})
  /\ LET f == Top(g) IN
     /\ value[f.p].t = "obj"
     /\ build' = [build EXCEPT ![f.p] = [k \in DOMAIN value[f.p].e |-> Missing]]
     /\ Goto(g, [f EXCEPT !.pc = "fields", !.i = 0])
  /\ UNCHANGED <<payloadVars, graph, call, outcome>>

\* The keys still to run: those of the shape, then the unknown ones in order.
KeysLeft(g) ==
  LET f == Top(g) IN
  {k \in DOMAIN value[f.p].e :
     /\ k > f.i
     /\ k \in Shape(f.n) \/ (NodeOf(g).mode = "catchall" /\ k \in Keys(value[f.p]))}

RunField(g) ==
  /\ At(g, "fields", {"object"})
  /\ KeysLeft(g) # {}
  /\ LET f == Top(g)
         k == Min(KeysLeft(g))
         child == IF k \in Shape(f.n) THEN Kid(g, k) ELSE NodeOf(g).rest
     IN  RunChild(g, [f EXCEPT !.pc = "field", !.i = k], child, Element(value[f.p], k), k)
  /\ UNCHANGED <<graph, call, build, outcome>>

\* The issues and the value of an absent optional key are dropped.
FieldDone(g) ==
  /\ At(g, "field", {"object"})
  /\ LET f == Top(g)
         cp == f.kids[1]
         k == f.i
         dropped == /\ k \in Shape(f.n)
                    /\ k \notin Keys(value[f.p])
                    /\ Traits(Kid(g, k)).optIn
                    /\ Traits(Kid(g, k)).optOut
         added == IF dropped THEN <<>> ELSE Prefixed(issues[cp], k)
     IN
     /\ ReleaseAll(f.kids, value, [issues EXCEPT ![f.p] = @ \o added], aborted)
     /\ build' = [build EXCEPT ![f.p][k] = IF dropped THEN Missing ELSE value[cp]]
     /\ Goto(g, [f EXCEPT !.pc = "fields", !.kids = <<>>])
  /\ UNCHANGED <<base, graph, call, outcome>>

EndFields(g) ==
  /\ At(g, "fields", {"object"})
  /\ KeysLeft(g) = {}
  /\ LET f == Top(g)
         unknown == Keys(value[f.p]) \ Shape(f.n)
         copied == [k \in DOMAIN build[f.p] |->
                      IF k \in unknown /\ NodeOf(g).mode = "loose"
                      THEN value[f.p].e[k] ELSE build[f.p][k]]
         report == [IssueAt(f.p, "unrecognized_keys", "unset", <<>>) EXCEPT !.keys = unknown]
     IN
     /\ IF NodeOf(g).mode = "strict" /\ unknown # {}
        THEN Raise(f.p, report)
        ELSE UNCHANGED issues
     /\ value' = [value EXCEPT ![f.p] = WithElements(@, copied)]
     /\ build' = [build EXCEPT ![f.p] = <<>>]
     /\ Jump(g, "parsed")
  /\ UNCHANGED <<aborted, parseCtx, pool, base, graph, call, outcome>>

-----------------------------------------------------------------------------
(* Array and Set.  The elements of a Set run without a parseCtx, and their *)
(* issues keep the path of the set.                                        *)

EnterArray(g) ==
  /\ At(g, "enter", {"array", "set"})
  /\ LET f == Top(g) IN
     /\ value[f.p].t = "arr"
     /\ build' = [build EXCEPT ![f.p] = <<>>]
     /\ Goto(g, [f EXCEPT !.pc = "items", !.i = 1])
  /\ UNCHANGED <<payloadVars, graph, call, outcome>>

\* The elements from i on; a Tuple runs those beyond its items on the rest.
RunItem(g) ==
  /\ At(g, "items", {"array", "set", "tuple"})
  /\ NodeOf(g).rest # NoNode
  /\ Top(g).i <= Len(value[Top(g).p].e)
  /\ LET f == [Top(g) EXCEPT !.pc = "item"]
         v == Element(value[f.p], f.i)
     IN  IF NodeOf(g).kind = "set"
         THEN RunOn(g, f, NodeOf(g).rest, v, NoCtx, base[f.p])
         ELSE RunChild(g, f, NodeOf(g).rest, v, f.i)
  /\ UNCHANGED <<graph, call, build, outcome>>

\* A Set keeps the first of equal elements; only atoms are comparable, and
\* Missing is not.
Collected(kind, out, v) ==
  IF kind = "set" /\ v.t = "atom" /\ v # Missing /\ Contains(out, v) THEN out ELSE Append(out, v)

ItemDone(g) ==
  /\ At(g, "item", {"array", "set", "tuple"})
  /\ LET f == Top(g)
         cp == f.kids[1]
         added == IF NodeOf(g).kind = "set" THEN issues[cp] ELSE Prefixed(issues[cp], f.i)
     IN
     /\ ReleaseAll(f.kids, value, [issues EXCEPT ![f.p] = @ \o added], aborted)
     /\ build' = [build EXCEPT ![f.p] = Collected(NodeOf(g).kind, @, value[cp])]
     /\ Goto(g, [f EXCEPT !.pc = "items", !.i = @ + 1, !.kids = <<>>])
  /\ UNCHANGED <<base, graph, call, outcome>>

\* A Tuple drops what it built beyond the length of the input.
Trimmed(out, n) == SubSeq(out, 1, IF Len(out) > n THEN n ELSE Len(out))

EndItems(g) ==
  /\ At(g, "items", {"array", "set", "tuple"})
  /\ LET f == Top(g)
         n == Len(value[f.p].e)
         out == IF NodeOf(g).kind = "tuple" THEN Trimmed(build[f.p], n) ELSE build[f.p]
     IN
     /\ NodeOf(g).rest = NoNode \/ f.i > n
     /\ value' = [value EXCEPT ![f.p] = WithElements(@, out)]
     /\ build' = [build EXCEPT ![f.p] = <<>>]
     /\ Jump(g, "parsed")
  /\ UNCHANGED <<issues, aborted, parseCtx, pool, base, graph, call, outcome>>

-----------------------------------------------------------------------------
(* Tuple. *)

\* tupleOptStart: the number of items up to the last required one.
TupleOptStart(required) == IF required = {} THEN 0 ELSE Max(required)
RequiredIn(n) == {i \in Shape(n) : ~graph[graph[n].kids[i]].optIn}
RequiredOut(n) == {i \in Shape(n) : ~graph[graph[n].kids[i]].optOut}

\* Without a rest schema a short input returns at once; a long one goes on.
EnterTuple(g) ==
  /\ At(g, "enter", {"tuple"})
  /\ value[Top(g).p].t = "arr"
  /\ LET f == Top(g)
         n == Len(value[f.p].e)
         closed == NodeOf(g).rest = NoNode
         short == closed /\ n < TupleOptStart(RequiredIn(f.n))
     IN
     /\ IF short
        THEN Raise(f.p, IssueAt(f.p, "too_small", "unset", <<>>))
        ELSE IF closed /\ n > Len(NodeOf(g).kids)
             THEN Raise(f.p, IssueAt(f.p, "too_big", "unset", <<>>))
             ELSE UNCHANGED issues
     /\ build' = [build EXCEPT ![f.p] = <<>>]
     /\ Goto(g, [f EXCEPT !.pc = IF short THEN "parsed" ELSE "slots", !.i = 1])
  /\ UNCHANGED <<value, aborted, parseCtx, pool, base, graph, call, outcome>>

RunSlot(g) ==
  /\ At(g, "slots", {"tuple"})
  /\ Top(g).i <= Len(NodeOf(g).kids)
  /\ LET f == Top(g) IN
     RunChild(g, [f EXCEPT !.pc = "slot", !.marks = Append(@, Len(issues[f.p]))],
              Kid(g, f.i), Element(value[f.p], f.i), f.i)
  /\ UNCHANGED <<graph, call, build, outcome>>

SlotDone(g) ==
  /\ At(g, "slot", {"tuple"})
  /\ LET f == Top(g)
         cp == f.kids[1]
     IN
     /\ ReleaseAll(f.kids, value, [issues EXCEPT ![f.p] = @ \o Prefixed(issues[cp], f.i)], aborted)
     /\ build' = [build EXCEPT ![f.p] = Append(@, value[cp])]
     /\ Goto(g, [f EXCEPT !.pc = "slots", !.i = @ + 1, !.kids = <<>>])
  /\ UNCHANGED <<base, graph, call, outcome>>

\* Output stops at the first absent item that left Missing, or that failed
\* and is optional-out; the issues from that failure on are dropped.
Assemble(g) ==
  /\ At(g, "slots", {"tuple"})
  /\ Top(g).i > Len(NodeOf(g).kids)
  /\ LET f == Top(g)
         n == Len(value[f.p].e)
         after(k) == IF k < Len(f.marks) THEN f.marks[k + 1] ELSE Len(issues[f.p])
         swallowed(k) == after(k) > f.marks[k] /\ k > TupleOptStart(RequiredOut(f.n))
         stops == {k \in DOMAIN build[f.p] :
                     k > n /\ (swallowed(k) \/ build[f.p][k] = Missing)}
         stop == Min(stops)
     IN
     /\ IF stops = {}
        THEN UNCHANGED <<issues, build>>
        ELSE /\ build' = [build EXCEPT ![f.p] = SubSeq(@, 1, stop - 1)]
             /\ issues' = [issues EXCEPT ![f.p] =
                             IF swallowed(stop) THEN SubSeq(@, 1, f.marks[stop]) ELSE @]
     /\ Goto(g, [f EXCEPT !.pc = "items", !.marks = <<>>])
  /\ UNCHANGED <<value, aborted, parseCtx, pool, base, graph, call, outcome>>

ContainerStep(g) ==
  \/ WrongType(g)
  \/ EnterObject(g) \/ RunField(g) \/ FieldDone(g) \/ EndFields(g)
  \/ EnterArray(g) \/ RunItem(g) \/ ItemDone(g) \/ EndItems(g)
  \/ EnterTuple(g) \/ RunSlot(g) \/ SlotDone(g) \/ Assemble(g)
=============================================================================
