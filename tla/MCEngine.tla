------------------------------ MODULE MCEngine ------------------------------
(***************************************************************************)
(* Small instances of the parse engine: the values, callbacks and schemas  *)
(* that the configurations give to TLC.                                    *)
(***************************************************************************)
EXTENDS Meaning

A(s) == [t |-> "atom", s |-> s, e |-> <<>>]
Arr(e) == [t |-> "arr", s |-> "", e |-> e]
Obj(e) == [t |-> "obj", s |-> "", e |-> e]

MCMissing == A("missing")
MCNull == A("null")

-----------------------------------------------------------------------------
(* Callbacks.  "str" and "num" are the type checks of a string and of a    *)
(* number schema, the others are what a user may pass: predicates,         *)
(* overwrites, transforms, refinements that add an issue and continue      *)
(* (warn) or not (stop), and panics.                                       *)

Digits == {A("1"), A("2"), A("3")}
MCFn == {"str", "num", "any", "isX", "isNull", "isAB", "notB", "toX", "toA", "toStr", "failB", "warnB", "stopB", "boomB",
         "gte2", "gt1", "gt2", "lte2", "lt2", "lt3"}
MCNoFn == "none"

MCApply(f, v) ==
  LET Ok(w) == [res |-> "ok", val |-> w, cont |-> "yes"]
      Bad(res, cont) == [res |-> res, val |-> v, cont |-> cont]
      Unless(bad, res, cont) == IF bad THEN Bad(res, cont) ELSE Ok(v)
      atB == v = A("b")
  IN
  CASE f = "str" -> Unless(v.t # "atom" \/ v \in {Missing, Null} \cup Digits, "issue", "unset")
    [] f = "num" -> Unless(v \notin Digits, "issue", "unset")
    [] f \in {"gte2", "gt1"} -> Unless(v = A("1"), "issue", "yes")
    [] f = "gt2" -> Unless(v \in {A("1"), A("2")}, "issue", "yes")
    [] f \in {"lte2", "lt3"} -> Unless(v = A("3"), "issue", "yes")
    [] f = "lt2" -> Unless(v \in {A("2"), A("3")}, "issue", "yes")
    [] f = "isNull" -> Unless(v # Null, "issue", "yes")
    [] f = "isAB" -> Unless(v \notin {A("a"), A("b")}, "issue", "yes")
    [] f = "any" -> Ok(v)
    [] f = "isX" -> Unless(v # A("x"), "issue", "yes")
    [] f = "notB" -> Unless(atB, "issue", "yes")
    [] f = "toX" -> Ok(IF v = A("a") THEN A("x") ELSE v)
    [] f = "toA" -> Ok(IF v = A("b") THEN A("a") ELSE v)
    [] f = "toStr" -> Ok(IF v = Missing THEN A("a") ELSE v)
    [] f = "failB" -> Unless(atB, "error", "unset")
    [] f = "warnB" -> Unless(atB, "issue", "yes")
    [] f = "stopB" -> Unless(atB, "issue", "no")
    [] f = "boomB" -> Unless(atB, "panic", "yes")

C(f) == [fn |-> f, gate |-> NoFn, super |-> FALSE, abort |-> FALSE]
Aborting(c) == [c EXCEPT !.abort = TRUE]
Super(f) == [C(f) EXCEPT !.super = TRUE]
Gated(gate, c) == [c EXCEPT !.gate = gate]

-----------------------------------------------------------------------------
(* Schemas.  Node 1 is the root; the nodes a shape leaves out are unused.  *)

N(kind, kids) ==
  [kind |-> kind, kids |-> kids, rest |-> NoNode, checks |-> <<>>, fn |-> NoFn, bfn |-> NoFn,
   to |-> Null, mode |-> "strip", key |-> 1, disc |-> <<>>, optIn |-> FALSE, optOut |-> FALSE]
LeafOf(f) == [N("leaf", <<>>) EXCEPT !.fn = f]
Checked(n, checks) == [n EXCEPT !.checks = checks]
Calling(n, f) == [n EXCEPT !.fn = f, !.bfn = f]

Graph(nodes) == [n \in Node |-> IF n \in DOMAIN nodes THEN nodes[n] ELSE LeafOf("any")]

\* Every wrapper around node k; m is the second schema of a pipe.
Wrappings(k, m) ==
  {N(kind, <<k>>) : kind \in {"optional", "nullable", "nonoptional", "lazy", "readonly"}} \cup
  {[N(kind, <<k>>) EXCEPT !.to = A("x")] : kind \in {"default", "prefault", "catch"}} \cup
  {Calling(N("transform", <<k>>), f) : f \in {"toX", "failB", "warnB"}} \cup
  {Calling(N("preprocess", <<k>>), f) : f \in {"toStr", "warnB"}} \cup
  {N("pipe", <<k, m>>), Calling(N("codec", <<k, m>>), "toX")} \cup
  {Checked(N("checked", <<k>>), checks) :
     checks \in {<<Super("warnB"), C("toX")>>, <<Super("stopB"), Gated("notB", C("isX"))>>,
                 <<C("notB"), Aborting(C("isX")), C("boomB")>>}}

Str == LeafOf("str")
Strs == {Str, Checked(Str, <<C("notB")>>)}

\* Two wrappers around a leaf.
Nested == {Graph(<<outer, inner, leaf, LeafOf("any"), Str>>) :
             outer \in Wrappings(2, 5), inner \in Wrappings(3, 4), leaf \in Strs \cup {LeafOf("any")}}

\* Objects, arrays, sets and tuples of wrapped leaves.
Modes(n) == {[n EXCEPT !.mode = mode, !.rest = 5] : mode \in {"strip", "strict", "loose", "catchall"}}
Collections ==
  {Graph(<<root, field, Checked(Str, <<C("notB")>>), LeafOf("any"), Str>>) :
     field \in Wrappings(3, 4),
     root \in Modes(N("object", <<2>>)) \cup
              {[N(kind, <<>>) EXCEPT !.rest = 2] : kind \in {"array", "set"}} \cup
              {[N("tuple", <<3, 2>>) EXCEPT !.rest = rest] : rest \in {NoNode, 5}}}
  \cup
  {Graph(<<N("tuple", <<2, 3>>), first, second, LeafOf("any"), Str, LeafOf("notB")>>) :
     first \in Wrappings(5, 4), second \in Wrappings(6, 4)}

\* Unions of wrapped leaves, alone and inside a wrapper.
Alternatives ==
  {Graph(<<N(kind, <<2, 3>>), first, Checked(Str, checks), LeafOf("any"), Str>>) :
     kind \in {"union", "xor"}, first \in Wrappings(5, 4),
     checks \in {<<>>, <<C("notB")>>, <<Aborting(C("isX"))>>}}
  \cup
  {Graph(<<outer, N("union", <<3, 4>>), Checked(Str, <<C("notB")>>), LeafOf("isX"), Str>>) :
     outer \in Wrappings(2, 5)}
  \cup {Graph(<<N(kind, <<2>>), Str>>) : kind \in {"union", "xor"}}

\* Unions and intersections of objects; the sides of an intersection have
\* unchecked fields of their own.
ObjectPairs ==
  {Graph(<<root, left, right, Str, LeafOf("any"), inner>>) :
     root \in {N("intersection", <<2, 3>>), N("xor", <<2, 3>>),
               [N("discunion", <<2, 3>>) EXCEPT !.disc = <<{A("a")}, {A("b"), Missing}>>],
               [N("discunion", <<2, 3>>) EXCEPT !.disc = <<{A("a")}, {A("b")}>>, !.mode = "fallback"]},
     left \in Modes(N("object", <<4>>)) \cup {N("readonly", <<6>>)},
     right \in Modes(N("object", <<4, 5>>)) \cup Modes(N("object", <<5, 6>>)),
     inner \in {N("optional", <<4>>), [N("object", <<4>>) EXCEPT !.mode = "strict"]}}

\* Intersections of wrapped leaves: their values may not merge.
Merges ==
  {Graph(<<N("intersection", <<2, 3>>), left, right, Str, LeafOf("any")>>) :
     left \in Wrappings(4, 5), right \in Wrappings(5, 4)}

\* An Optional around a pipe whose first schema may fail on an absent value.
Rescued ==
  {Graph(<<outer, N("optional", <<3>>), pipe, [N("prefault", <<5>>) EXCEPT !.to = A("b")],
           Checked(Str, <<C("notB")>>), Str>>) :
     outer \in Wrappings(2, 6),
     pipe \in {Calling(N("transform", <<4>>), "toX"), N("pipe", <<4, 6>>),
               Calling(N("codec", <<4, 6>>), "toX")}}

\* Collections of collections: an issue of a leaf passes through two of them.
Holding(k) == {N("object", <<k>>), N("tuple", <<k>>)} \cup
              {[N(kind, <<>>) EXCEPT !.rest = k] : kind \in {"array", "set"}}
Deep == {Graph(<<outer, inner, Checked(Str, <<C("notB")>>)>>) :
           outer \in Holding(2), inner \in Holding(3)}

\* Records and maps whose key schemas accept, reject, rename or list keys.
MCKeyNames == <<A("a"), A("b"), A("x")>>

KeySchemas == {[N("catch", <<6>>) EXCEPT !.to = A("1")], Str, Checked(Str, <<C("notB")>>), LeafOf("isAB"), Checked(Str, <<C("toA")>>),
               Checked(Str, <<Super("stopB"), C("toX")>>)}
Listing == [N("record", <<2, 3>>) EXCEPT !.disc = <<{A("a"), A("b")}>>]

Dictionaries ==
  {Graph(<<root, key, entry, Str, LeafOf("any"), LeafOf("isAB")>>) :
     root \in {N("record", <<2, 3>>), [N("record", <<2, 3>>) EXCEPT !.mode = "loose"], N("map", <<2, 3>>)},
     key \in KeySchemas,
     entry \in {Str, N("optional", <<4>>), [N("catch", <<4>>) EXCEPT !.to = A("x")],
                Calling(N("transform", <<4>>), "failB")}}
  \cup
  {Graph(<<root, key, entry, Str, LeafOf("any")>>) :
     root \in {Listing, [Listing EXCEPT !.mode = "loose"]},
     key \in {LeafOf("isAB"), Checked(LeafOf("isAB"), <<C("notB")>>), Checked(LeafOf("isAB"), <<C("toX")>>)},
     entry \in {Str, N("optional", <<4>>), [N("default", <<4>>) EXCEPT !.to = A("x")], N("nullable", <<4>>)}}
  \cup
  {Graph(<<N("intersection", <<2, 3>>), [Listing EXCEPT !.kids = <<4, 5>>], right, LeafOf("isAB"), Str>>) :
     right \in Modes(N("object", <<5>>))}

MCShapes ==
  Nested \cup Collections \cup Alternatives \cup ObjectPairs \cup Merges \cup Rescued \cup Deep
    \cup Dictionaries

MCInputs ==
  {A("a"), A("b"), Missing, Null, Arr(<<>>), Arr(<<A("a"), A("a")>>), Arr(<<A("a"), Null, A("b")>>),
   Obj(<<A("a"), A("b")>>), Obj(<<A("b"), Missing, Null>>),
   Obj(<<Arr(<<A("a"), A("b")>>), A("a")>>), Arr(<<Obj(<<A("b"), Null>>)>>)}

\* What the proofs take for granted of the constants, on some values: atoms,
\* arrays and objects of atoms, and the inputs.
Atoms == {A(s) : s \in {"a", "b", "x", "1", "2", "3"}} \cup {Missing, Null}
Lists == {<<>>} \cup {<<v>> : v \in Atoms} \cup {<<v, w>> : v \in Atoms, w \in Atoms}
SomeValues == Atoms \cup {Arr(e) : e \in Lists} \cup {Obj(e) : e \in Lists} \cup MCInputs \cup
              {Arr(<<A("a"), A("b")>>), Obj(<<A("b"), Null>>)}

ASSUME ConstantsTyped == Typed(SomeValues)

-----------------------------------------------------------------------------
(* Schemas for two goroutines: payloads acquired by a field in an option,  *)
(* by both sides of an intersection and by an element, and callbacks that  *)
(* panic while payloads are held.                                          *)

Panicking == Checked(Str, <<Super("boomB"), C("isX")>>)

PoolShapes ==
  {Graph(<<N("union", <<2, 3>>), N("object", <<4>>), Str, Panicking>>),
   Graph(<<N("intersection", <<2, 3>>), Str, Panicking>>),
   Graph(<<[N("object", <<3>>) EXCEPT !.mode = "catchall", !.rest = 2], N("catch", <<4>>), Str,
           Panicking>>),
   Graph(<<N("record", <<2, 3>>), Panicking, N("map", <<2, 4>>), Str>>)}

PoolInputs == {A("b"), Obj(<<A("a"), A("b")>>)}

PayloadNames == Permutations(PayloadId)
Names == PayloadNames \cup Permutations(Goroutine)
=============================================================================
