------------------------------ MODULE Meaning -------------------------------
(***************************************************************************)
(* What a schema means, without payloads, issues or abort flags: the       *)
(* verdict on a value is whether it is accepted and the value it becomes.  *)
(* The engine is compared with this definition.  Recursive, for TLC only.  *)
(*                                                                         *)
(* extra is the set of keys a strict object does not know: a rejection     *)
(* that an enclosing intersection of objects may lift.                     *)
(***************************************************************************)
EXTENDS Engine

Yes(v) == [ok |-> TRUE, val |-> v, extra |-> {}]
No == [ok |-> FALSE, val |-> Null, extra |-> {}]
Accepted(m) == m.ok /\ m.extra = {}

Answer(r) == IF r.res = "ok" THEN Yes(r.val) ELSE No

\* mergeValues: equal values, objects key by key, arrays of one length
\* element by element.
RECURSIVE Merged(_, _)
Merged(a, b) ==
  LET Blocked(i) == [ok |-> FALSE, val |-> Null, path |-> <<i>>]
      part == [i \in DOMAIN a.e |->
                 IF a.t = "obj" /\ a.e[i] = Missing THEN [ok |-> TRUE, val |-> b.e[i], path |-> <<>>]
                 ELSE IF a.t = "obj" /\ b.e[i] = Missing THEN [ok |-> TRUE, val |-> a.e[i], path |-> <<>>]
                 ELSE Merged(a.e[i], b.e[i])]
      bad == {i \in DOMAIN a.e : ~part[i].ok}
  IN
  IF a.t = "atom" \/ a.t # b.t \/ Len(a.e) # Len(b.e)
  THEN [ok |-> a = b, val |-> a, path |-> <<>>]
  ELSE IF bad # {}
       THEN [part[Min(bad)] EXCEPT !.path = <<Min(bad)>> \o @]
       ELSE [ok |-> TRUE, val |-> WithElements(a, [i \in DOMAIN a.e |-> part[i].val]), path |-> <<>>]

\* The checks in order: a check without a gate applies, one with a gate
\* applies when the gate is open on the current value.
AfterChecks(checks, m) ==
  FoldLeft(LAMBDA acc, ch :
             IF ~acc.ok \/ (ch.gate # NoFn /\ Apply(ch.gate, acc.val).res # "ok")
             THEN acc ELSE Answer(Apply(ch.fn, acc.val)),
           m, checks)

RECURSIVE Means(_, _, _)
Means(n, v, encode) ==
  LET s == graph[n]
      Sub(k, w) == Means(s.kids[k], w, encode)
      On(k, w) == IF Accepted(Sub(k, w)) THEN Yes(Sub(k, w).val) ELSE No
      Then(m, k) == IF m.ok THEN On(k, m.val) ELSE No
      first == IF encode THEN 2 ELSE 1
      second == 3 - first
      convert == IF s.kind = "codec" /\ encode THEN s.bfn ELSE s.fn
      fields == [k \in Shape(n) |-> On(k, Element(v, k))]
      optional(k) == Traits(s.kids[k]).optIn /\ Traits(s.kids[k]).optOut
      unknown == Keys(v) \ Shape(n)
      further == [k \in unknown |-> Means(s.rest, v.e[k], encode)]
      member == [k \in DOMAIN v.e |-> Means(s.rest, v.e[k], encode)]
      wins == {k \in Shape(n) : On(k, v).ok}
      Object ==
        IF \/ \E k \in Shape(n) : ~fields[k].ok /\ ~(Element(v, k) = Missing /\ optional(k))
           \/ s.mode = "catchall" /\ \E k \in unknown : ~Accepted(further[k])
        THEN No
        ELSE [Yes(WithElements(v, [k \in DOMAIN v.e |->
                    IF k \in Shape(n)
                    THEN IF v.e[k] = Missing /\ optional(k) THEN Missing ELSE fields[k].val
                    ELSE CASE s.mode = "loose" -> v.e[k]
                           [] s.mode = "catchall" /\ k \in unknown -> further[k].val
                           [] OTHER -> Missing]))
              EXCEPT !.extra = IF s.mode = "strict" THEN unknown ELSE {}]
      Entries ==
        LET keys == SetToSortSeq(EntryKeys(n, v), <)
            key == [k \in DOMAIN KeyNames |-> On(1, KeyNames[k])]
            entry == [k \in DOMAIN KeyNames |-> On(2, Element(v, k))]
            out == FoldLeft(LAMBDA e, k :
                     IF ~key[k].ok THEN Put(e, k, Element(v, k))
                     ELSE IF Exhaustive(n) /\ entry[k].val = Missing THEN e
                     ELSE Put(e, OutKey(s.kind, key[k].val, k), entry[k].val),
                     [k \in DOMAIN v.e |-> Missing], keys)
        IN  IF \E k \in Range(keys) : IF key[k].ok THEN ~entry[k].ok ELSE ~PassesKeys(n)
            THEN No
            ELSE [Yes(WithElements(v, out)) EXCEPT
                    !.extra = IF Exhaustive(n) THEN Keys(v) \ Expected(n) ELSE {}]
      Intersection ==
        LET l == Sub(1, v)
            r == Sub(2, v)
            objects == graph[s.kids[1]].kind = "object" /\ graph[s.kids[2]].kind = "object"
            shapes == Shape(s.kids[1]) \cup Shape(s.kids[2])
            extra == IF objects THEN (l.extra \cup r.extra) \ shapes ELSE l.extra \cap r.extra
            m == MergeValues(l.val, r.val)
        IN  IF l.ok /\ r.ok /\ extra = {} /\ m.ok THEN Yes(m.val) ELSE No
      Parsed ==
        CASE s.kind = "leaf" -> Answer(Apply(s.fn, v))
          [] s.kind \in Aliases -> Sub(1, v)
          [] s.kind = "optional" ->
               IF v # Missing THEN On(1, v)
               ELSE IF Traits(s.kids[1]).optIn /\ On(1, v).ok THEN On(1, v) ELSE Yes(Missing)
          [] s.kind = "nullable" -> IF v = Null THEN Yes(Null) ELSE Sub(1, v)
          [] s.kind = "nonoptional" -> IF On(1, v).val = Missing THEN No ELSE On(1, v)
          [] s.kind = "default" ->
               IF encode THEN On(1, v)
               ELSE IF v = Missing \/ (On(1, v).ok /\ On(1, v).val = Missing) THEN Yes(s.to) ELSE On(1, v)
          [] s.kind = "prefault" -> On(1, IF v = Missing /\ ~encode THEN s.to ELSE v)
          [] s.kind = "catch" -> IF On(1, v).ok \/ encode THEN On(1, v) ELSE Yes(s.to)
          [] s.kind = "transform" -> IF On(1, v).ok THEN Answer(Apply(s.fn, On(1, v).val)) ELSE No
          [] s.kind = "preprocess" -> Then(Answer(Apply(s.fn, v)), 1)
          [] s.kind = "pipe" -> Then(On(first, v), second)
          [] s.kind = "codec" ->
               IF On(first, v).ok THEN Then(Answer(Apply(convert, On(first, v).val)), second) ELSE No
          [] s.kind = "object" -> IF v.t = "obj" THEN Object ELSE No
          [] s.kind \in {"record", "map"} -> IF v.t = "obj" THEN Entries ELSE No
          [] s.kind = "array" ->
               IF v.t = "arr" /\ \A k \in DOMAIN v.e : Accepted(member[k])
               THEN Yes(WithElements(v, [k \in DOMAIN v.e |-> member[k].val])) ELSE No
          [] s.kind = "set" ->
               IF v.t = "arr" /\ \A k \in DOMAIN v.e : Accepted(member[k])
               THEN Yes(WithElements(v, FoldLeft(LAMBDA out, k : Collected("set", out, member[k].val),
                                                 <<>>, [k \in DOMAIN v.e |-> k]))) ELSE No
          [] s.kind = "tuple" ->
               IF /\ v.t = "arr"
                  /\ s.rest = NoNode => Len(v.e) \in TupleOptStart(RequiredIn(n)) .. Len(s.kids)
                  /\ \A k \in DOMAIN v.e : IF k \in Shape(n) THEN fields[k].ok ELSE Accepted(member[k])
                  /\ \A k \in Shape(n) \ DOMAIN v.e :
                       \/ fields[k].ok
                       \/ \E j \in Shape(n) \ DOMAIN v.e : j <= k /\ ~fields[j].ok /\ j > TupleOptStart(RequiredOut(n))
                            /\ \A i \in Shape(n) \ DOMAIN v.e : i < j => fields[i].ok /\ fields[i].val # Missing
               THEN Yes(WithElements(v, [k \in DOMAIN v.e |-> IF k \in Shape(n) THEN fields[k].val ELSE member[k].val]))
               ELSE No
          [] s.kind = "union" \/ (s.kind = "xor" /\ Len(s.kids) = 1) ->
               IF wins # {} THEN On(Min(wins), v) ELSE No
          [] s.kind = "xor" -> IF Cardinality(wins) = 1 THEN On(Min(wins), v) ELSE No
          [] s.kind = "discunion" ->
               LET found == {k \in Shape(n) : Element(v, s.key) \in s.disc[k]} IN
               IF v.t # "obj" THEN No
               ELSE IF found # {} THEN On(Min(found), v)
               ELSE IF s.mode = "fallback" /\ wins # {} THEN On(Min(wins), v) ELSE No
          [] s.kind = "intersection" -> Intersection
  IN  AfterChecks(s.checks, Parsed)
-----------------------------------------------------------------------------
\* A Map may send two keys to one; which value stays is left to the order in which
\* Go happens to range over its input.
Collides(v) ==
  /\ graph[Root].kind = "map"
  /\ v.t = "obj"
  /\ LET out(k) == OutKey("map", Means(graph[Root].kids[1], KeyNames[k], FALSE).val, k)
     IN  \E j, k \in Keys(v) : j # k /\ out(j) = out(k)

Agrees(g) ==
  LET m == Means(Root, call[g].input, call[g].encode) IN
  CASE outcome[g].status = "ok" -> Accepted(m) /\ (m.val = outcome[g].val \/ Collides(call[g].input))
    [] outcome[g].status = "error" -> ~Accepted(m)
    [] OTHER -> TRUE

\* Parse returns the value the schema means, or an error exactly when the schema
\* rejects: no order of issues, aborts, rescues and gates changes the verdict.
\* A call in which Optional dropped the issues of an aborted payload is left
\* out: RescuedIsChecked says what is wrong with it.
ResultIsMeaning == \A g \in Goroutine : call[g].leaked \/ Agrees(g)

\* "CheckedSchema wraps any schema and runs extra checks after the inner parse"
\* (refine.go): also when the inner parse was rescued by Optional.
RescuedIsChecked == \A g \in Goroutine : Agrees(g)
=============================================================================
