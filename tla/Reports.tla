------------------------------ MODULE Reports -------------------------------
(***************************************************************************)
(* The shapes an Error is reported in (errorutils.go): flat, formatted, as *)
(* a tree, or as lines of text.                                            *)
(*                                                                         *)
(* An issue has a code, a path, a message, the issues inside it and, for a *)
(* union, the issues of each option.  A segment of a path is a key or an   *)
(* index, the pair of its kind and its value.  A report maps the places    *)
(* of a tree to the messages there.                                        *)
(***************************************************************************)
EXTENDS Integers, Sequences, FiniteSets, SequencesExt

CONSTANT Slack       \* treeItemLimit: how sparse the items of a tree may be

ASSUME ReportsAssumption == Slack \in Nat

Key(k) == <<"key", k>>
Index(n) == <<"index", n>>

\* pathSegString: an index and a key of the same digits are one name.
SegName(seg) == IF seg[1] = "index" THEN ToString(seg[2]) ELSE seg[2]
Names(path) == [i \in DOMAIN path |-> SegName(path[i])]

IsUnion(iss) == iss.code = "invalid_union" /\ iss.errors # <<>>

\* The issues a report goes into instead of reporting the one around them.
Inside(iss) ==
  IF IsUnion(iss) THEN FlattenSeq(iss.errors)
  ELSE IF iss.code \in {"invalid_key", "invalid_element"} THEN iss.issues ELSE <<>>

IsNested(iss) == IsUnion(iss) \/ iss.code \in {"invalid_key", "invalid_element"}

\* The walk of FormatMap and processTreeU: messages, each with its full path.
RECURSIVE Leaves(_, _)
Leaves(issues, base) ==
  FlattenSeq([i \in DOMAIN issues |->
    IF IsNested(issues[i]) THEN Leaves(Inside(issues[i]), base \o issues[i].path)
    ELSE <<[path |-> base \o issues[i].path, message |-> issues[i].message]>>])

RECURSIVE CountIssues(_)
CountIssues(issues) ==
  FoldLeft(LAMBDA n, iss : n + 1 + CountIssues(iss.issues) + CountIssues(FlattenSeq(iss.errors)),
           0, issues)

EmptyReport == [p \in {<<>>} |-> <<>>]
At(report, p) == IF p \in DOMAIN report THEN report[p] ELSE <<>>
Ancestors(p) == {SubSeq(p, 1, n) : n \in 0 .. Len(p)}

\* The report with a message more at place p, whose parents now exist.
Put(report, p, message) ==
  [q \in DOMAIN report \cup Ancestors(p) |->
     IF q = p THEN Append(At(report, q), message) ELSE At(report, q)]

-----------------------------------------------------------------------------
\* FlattenMap: a form error, or an error of the field its path begins with.
Flatten(issues) ==
  FoldLeft(LAMBDA report, iss : Put(report, Names(SubSeq(iss.path, 1, Min({1, Len(iss.path)}))), iss.message),
           EmptyReport, issues)

\* FormatMap: the messages of a place are its member "_errors", so a path
\* through that name takes the messages for a place and drops them.
ErrorsKey == "_errors"
Overwritten(p) == {SubSeq(p, 1, n - 1) : n \in {k \in DOMAIN p : p[k] = ErrorsKey}}

FormatInto(report, leaf) ==
  LET p == Names(leaf.path)
      entered == {q \in Overwritten(p) : Append(q, ErrorsKey) \notin DOMAIN report}
      below == {q \in DOMAIN report : IsPrefix(Append(p, ErrorsKey), q)}
      kept == [q \in DOMAIN report \ below |->
                 IF q \in entered \/ (q = p /\ below # {}) THEN <<>> ELSE report[q]]
  IN  Put(kept, p, leaf.message)

Format(issues) == FoldLeft(FormatInto, EmptyReport, Leaves(issues, <<>>))

-----------------------------------------------------------------------------
\* Mutant: an index beyond the limit shares the last item.
SlotClamped(seg, limit) ==
  IF seg[1] = "index" /\ seg[2] >= 0
  THEN <<"items", Min({seg[2], limit})>> ELSE <<"properties", SegName(seg)>>

\* processTreeU: an index is an item up to the limit, else a property.
Slot(seg, limit) ==
  IF seg[1] = "index" /\ seg[2] \in 0 .. limit
  THEN <<"items", seg[2]>> ELSE <<"properties", SegName(seg)>>

Treeify(issues) ==
  LET limit == CountIssues(issues) + Slack
  IN  FoldLeft(LAMBDA tree, leaf :
                 Put(tree, [i \in DOMAIN leaf.path |-> Slot(leaf.path[i], limit)], leaf.message),
               EmptyReport, Leaves(issues, <<>>))

\* The items a place of a tree allocates: its largest index and all below.
Items(tree, p) ==
  Cardinality(UNION {0 .. q[Len(q)][2] : q \in {r \in DOMAIN tree :
    Len(r) = Len(p) + 1 /\ IsPrefix(p, r) /\ r[Len(r)][1] = "items"}})

\* Prettify: the issues with the shortest paths first, else in their order.
Prettify(issues) ==
  LET first(i, j) == \/ Len(issues[i].path) < Len(issues[j].path)
                     \/ Len(issues[i].path) = Len(issues[j].path) /\ i < j
      order == SetToSortSeq(DOMAIN issues, first)
  IN  [i \in DOMAIN order |->
         [path |-> issues[order[i]].path, message |-> issues[order[i]].message]]
-----------------------------------------------------------------------------
(* What a report owes its reader. *)

\* A tree names every place by the segments of the path, indices as items
\* unless they are too large, and one message for every leaf; the items of a
\* place are bounded by the issues, whatever the indices are.
TreeIsComplete(issues) ==
  LET tree == Treeify(issues)
      leaves == Leaves(issues, <<>>)
      at(q) == [i \in DOMAIN q |-> IF q[i][1] = "items" THEN ToString(q[i][2]) ELSE q[i][2]]
      count(q, m) == Cardinality({i \in DOMAIN tree[q] : tree[q][i] = m})
  IN  /\ \A i \in DOMAIN leaves :
           LET same == {j \in DOMAIN leaves : leaves[j] = leaves[i]}
               places == {q \in DOMAIN tree : at(q) = Names(leaves[i].path)}
           IN  \E q \in places : count(q, leaves[i].message) >= Cardinality(same)
      /\ FoldFunction(LAMBDA msgs, n : n + Len(msgs), 0, tree) = Len(leaves)
      /\ \A q \in DOMAIN tree : Items(tree, q) <= CountIssues(issues) + Slack + 1

\* The flat report has every issue once, under the field it is in.
FlatIsComplete(issues) ==
  LET flat == Flatten(issues)
      field(iss) == IF iss.path = <<>> THEN <<>> ELSE <<SegName(iss.path[1])>>
  IN  \A name \in DOMAIN flat :
        flat[name] = LET here == SelectSeq(issues, LAMBDA iss : field(iss) = name)
                     IN  [i \in DOMAIN here |-> here[i].message]

\* The formatted report has every leaf at its place, when no member of the
\* data is called "_errors".
FormatIsComplete(issues) ==
  LET report == Format(issues)
      leaves == Leaves(issues, <<>>)
      reserved == \E i \in DOMAIN leaves : \E j \in DOMAIN leaves[i].path :
                    SegName(leaves[i].path[j]) = ErrorsKey
  IN  reserved \/ \A i \in DOMAIN leaves :
        LET p == Names(leaves[i].path)
            here == SelectSeq(leaves, LAMBDA l : Names(l.path) = p)
        IN  p \in DOMAIN report /\ report[p] = [k \in DOMAIN here |-> here[k].message]

\* The text has every issue once, and none before one with a shorter path.
PrettyIsComplete(issues) ==
  LET lines == Prettify(issues)
  IN  /\ Len(lines) = Len(issues)
      /\ \A i \in DOMAIN issues :
           Cardinality({j \in DOMAIN lines : lines[j].path = issues[i].path /\ lines[j].message = issues[i].message}) =
           Cardinality({j \in DOMAIN issues : issues[j].path = issues[i].path /\ issues[j].message = issues[i].message})
      /\ \A i, j \in DOMAIN lines : i < j => Len(lines[i].path) <= Len(lines[j].path)
=============================================================================
