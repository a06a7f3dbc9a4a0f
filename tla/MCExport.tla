------------------------------ MODULE MCExport ------------------------------
(***************************************************************************)
(* Schemas and values for JSON Schema documents: those of the engine, and  *)
(* numbers with bounds, literals and a recursive schema.                   *)
(***************************************************************************)
EXTENDS MCEngine, Export

MCNumberAtoms == Digits
MCAmount(v) == CASE v = A("1") -> 1 [] v = A("2") -> 2 [] v = A("3") -> 3

\* A leaf with another parse function is a custom schema.
MCLeafKeywords(f) ==
  CASE f = "str" -> [type |-> {"string"}]
    [] f = "num" -> [type |-> {"number"}]
    [] f = "any" -> Anything
    [] f = "isNull" -> NullDoc
    [] f = "isX" -> [const |-> A("x")]
    [] f = "isAB" -> [type |-> {"string"}, enum |-> {A("a"), A("b")}]
    [] OTHER -> Marked(Anything)

MCBoundOf(f) ==
  CASE f = "gte2" -> [minimum |-> 2]
    [] f = "gt1" -> [exclusiveMinimum |-> 1]
    [] f = "gt2" -> [exclusiveMinimum |-> 2]
    [] f = "lte2" -> [maximum |-> 2]
    [] f = "lt2" -> [exclusiveMaximum |-> 2]
    [] f = "lt3" -> [exclusiveMaximum |-> 3]
    [] OTHER -> Anything

Bounded == {Checked(LeafOf("num"), <<C(f), C(g)>>) :
              f, g \in {"gte2", "gt1", "gt2", "lte2", "lt2", "lt3"}}
Leaves == {LeafOf(f) : f \in {"isX", "isNull", "isAB", "any"}} \cup {Checked(LeafOf("num"), <<C("gt1"), C("gte2")>>)}

\* Leaves, wrapped ones, nullable compounds of them, and two objects.
Documented ==
  {Graph(<<leaf>>) : leaf \in Bounded} \cup
  {Graph(<<root, leaf, Str>>) :
     leaf \in Leaves,
     root \in Wrappings(2, 3) \cup {Calling(N("preprocess", <<2>>), "toX"), N("tuple", <<2>>),
                                    [N("array", <<>>) EXCEPT !.rest = 2]}} \cup
  {Graph(<<root, left, right, Str, N("optional", <<4>>)>>) :
     root \in {N("intersection", <<2, 3>>), N("xor", <<2, 3>>),
               [N("discunion", <<2, 3>>) EXCEPT !.disc = <<{A("a")}, {A("b"), Missing}>>]},
     left \in Modes(N("object", <<4>>)), right \in Modes(N("object", <<4, 5>>))} \cup
  {Graph(<<N("nullable", <<2>>), inner, N("nullable", <<4>>), leaf, Str>>) :
     leaf \in Leaves,
     inner \in {N(kind, <<3, 5>>) : kind \in {"union", "xor", "intersection", "tuple", "object"}}}

\* An object that may hold another of its kind.
Recursive == {Graph(<<[N("object", <<2, 4>>) EXCEPT !.mode = "strict"], N("optional", <<3>>), N("lazy", <<1>>), Str>>)}

ExportShapes == MCShapes \cup Documented \cup Recursive

MCSamples ==
  MCInputs \cup MCNumberAtoms \cup
  {A("x"), Arr(<<Null>>), Arr(<<A("2"), A("x")>>), Obj(<<Null, A("a")>>), Obj(<<A("2"), A("a")>>), Obj(<<Missing, A("b")>>),
   Obj(<<Obj(<<Missing, A("a")>>), A("b")>>), Obj(<<Obj(<<A("a"), A("b")>>), A("b")>>)}
=============================================================================
