------------------------------ MODULE Entries -------------------------------
(***************************************************************************)
(* The parse functions of the schemas that run a schema on each key and    *)
(* another on its value: schema_record.go and schema_map.go.  A key schema *)
(* may change the key, so two entries may end under one key.               *)
(*                                                                         *)
(* The kids of such a schema are the schemas of the keys and the values.   *)
(* disc holds the values of a Record's key schema when it lists them: the  *)
(* record then has these keys and no other.                                *)
(***************************************************************************)
EXTENDS Containers

CONSTANT KeyNames    \* the values of the keys 1, 2, ..., in alphabetical order

KeyValue(k) == KeyNames[k]

\* The key an entry goes to.  A key that is none of the names is no string: a
\* record goes on under the key it had, and a map has the entry under a key that
\* the value does not show, 0 (makeMapParse, schema_map.go:74).
OutKey(kind, v, k) ==
  LET named == {j \in DOMAIN KeyNames : KeyNames[j] = v}
  IN  IF named # {} THEN CHOOSE j \in named : TRUE
      ELSE IF kind = "map" THEN 0 ELSE k

\* out[k] = v; the key 0 is not shown.
Put(e, k, v) ==
  [j \in 1 .. (IF k > Len(e) THEN k ELSE Len(e)) |-> IF j = k THEN v ELSE IF j <= Len(e) THEN e[j] ELSE Missing]

\* The key schema lists values, and stringValues of them.
Exhaustive(n) == graph[n].disc # <<>> /\ graph[n].disc[1] # {}
Expected(n) == IF Exhaustive(n) THEN {k \in DOMAIN KeyNames : KeyNames[k] \in graph[n].disc[1]} ELSE {}

\* A key that fails its schema is kept as it is.
PassesKeys(n) == graph[n].mode = "loose" /\ ~Exhaustive(n)

EntryKeys(n, v) == IF Exhaustive(n) THEN Expected(n) ELSE Keys(v)

\* A Record goes through its keys in order, a Map in any (Go's maps have none).
Orders(n, v) ==
  {order \in SetToSeqs(EntryKeys(n, v)) :
     graph[n].kind = "record" => \A i, j \in DOMAIN order : i < j => order[i] < order[j]}

EnterEntries(g) ==
  /\ At(g, "enter", {"record", "map"})
  /\ LET f == Top(g) IN
     /\ value[f.p].t = "obj"
     /\ build' = [build EXCEPT ![f.p] = [k \in DOMAIN value[f.p].e |-> Missing]]
     /\ \E order \in Orders(f.n, value[f.p]) :
          Goto(g, [f EXCEPT !.pc = "keys", !.i = 1, !.marks = order])
  /\ UNCHANGED <<payloadVars, graph, call, outcome>>

\* The key has a payload of its own, with the ctx the parse function was given.
RunKey(g) ==
  /\ At(g, "keys", {"record", "map"})
  /\ Top(g).i <= Len(Top(g).marks)
  /\ LET f == Top(g)
         k == f.marks[f.i]
     IN  RunOn(g, [f EXCEPT !.pc = "key"], Kid(g, 1), KeyValue(k), call[g].ctx, Append(base[f.p], k))
  /\ UNCHANGED <<graph, call, build, outcome>>

\* A Record leaves an entry out when its key fails; a Map reports what the key
\* schema found and goes on with the value.
KeyDone(g) ==
  /\ At(g, "key", {"record", "map"})
  /\ LET f == Top(g)
         cp == f.kids[1]
         k == f.marks[f.i]
         failed == issues[cp] # <<>>
         skipped == failed /\ NodeOf(g).kind = "record"
         added == CASE ~failed \/ PassesKeys(f.n) -> <<>>
                    [] NodeOf(g).kind = "map" -> Prefixed(issues[cp], k)
                    [] OTHER -> <<IssueAt(f.p, "invalid_key", "unset", <<k>>)>>
     IN
     /\ ReleaseAll(f.kids, value, [issues EXCEPT ![f.p] = @ \o added], aborted)
     /\ build' = IF skipped /\ PassesKeys(f.n)
                 THEN [build EXCEPT ![f.p] = Put(@, k, Element(value[f.p], k))] ELSE build
     /\ Goto(g, [f EXCEPT !.pc = IF skipped THEN "keys" ELSE "entry", !.kids = <<>>,
                          !.i = IF skipped THEN @ + 1 ELSE @, !.start = OutKey(NodeOf(g).kind, value[cp], k)])
  /\ UNCHANGED <<base, graph, call, outcome>>

RunEntry(g) ==
  /\ At(g, "entry", {"record", "map"})
  /\ LET f == [Top(g) EXCEPT !.pc = "value"]
         k == f.marks[f.i]
         v == Element(value[f.p], k)
     IN  IF NodeOf(g).kind = "map"
         THEN RunOn(g, f, Kid(g, 2), v, call[g].ctx, Append(base[f.p], k))
         ELSE RunChild(g, f, Kid(g, 2), v, k)
  /\ UNCHANGED <<graph, call, build, outcome>>

\* An expected key that is absent and whose value is optional stays absent.
EntryDone(g) ==
  /\ At(g, "value", {"record", "map"})
  /\ LET f == Top(g)
         cp == f.kids[1]
         k == f.marks[f.i]
         absent == Exhaustive(f.n) /\ value[cp] = Missing
     IN
     /\ ReleaseAll(f.kids, value, [issues EXCEPT ![f.p] = @ \o Prefixed(issues[cp], k)], aborted)
     /\ build' = [build EXCEPT ![f.p] = IF absent THEN @ ELSE Put(@, f.start, value[cp])]
     /\ Goto(g, [f EXCEPT !.pc = "keys", !.i = @ + 1, !.kids = <<>>])
  /\ UNCHANGED <<base, graph, call, outcome>>

\* A Record with expected keys reports the others.
EndEntries(g) ==
  /\ At(g, "keys", {"record", "map"})
  /\ Top(g).i > Len(Top(g).marks)
  /\ LET f == Top(g)
         unknown == IF Exhaustive(f.n) THEN Keys(value[f.p]) \ Expected(f.n) ELSE {}
         report == [IssueAt(f.p, "unrecognized_keys", "unset", <<>>) EXCEPT !.keys = unknown]
     IN
     /\ IF unknown # {} THEN Raise(f.p, report) ELSE UNCHANGED issues
     /\ value' = [value EXCEPT ![f.p] = WithElements(@, build[f.p])]
     /\ build' = [build EXCEPT ![f.p] = <<>>]
     /\ Goto(g, [f EXCEPT !.pc = "parsed", !.marks = <<>>])
  /\ UNCHANGED <<aborted, parseCtx, pool, base, graph, call, outcome>>

EntryStep(g) ==
  \/ EnterEntries(g) \/ RunKey(g) \/ KeyDone(g)
  \/ RunEntry(g) \/ EntryDone(g) \/ EndEntries(g)
=============================================================================
