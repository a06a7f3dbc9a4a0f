----------------------------- MODULE MCGlobals ------------------------------
(* Small instances of the process-wide state. *)
EXTENDS Globals, TLC

IdOnly(i) == "id" :> i
Described(t) == "description" :> t

MCRequests ==
  [op : {"add"}, s : Schema, m : {IdOnly(i) : i \in Id}] \cup
  [op : {"merge"}, s : Schema, m : {Described(t) : t \in Text} \cup {IdOnly(i) : i \in Id \cup {NoId}}] \cup
  [op : {"remove", "get"}, s : Schema] \cup [op : {"clear"}] \cup [op : {"byId"}, id : Id]

\* Issues of type and of size; the second configuration speaks for both.
MCConfig == {[name |-> 1, custom |-> NoMap, locale |-> NoMap],
             [name |-> 2, custom |-> {"size"}, locale |-> {"type"}]}

MCCtxs == {[error |-> NoMap, reportInput |-> FALSE], [error |-> {"type"}, reportInput |-> TRUE]}

Iss(code, nest) ==
  [code |-> code, message |-> Silent, errMap |-> NoMap, input |-> TRUE, inner |-> nest]
Said(iss) == [iss EXCEPT !.message = [by |-> "issue", of |-> None]]
Mapped(iss) == [iss EXCEPT !.errMap = {iss.code}]

\* No issue, three leaves side by side, a container with two inner issues, and
\* a container after a leaf.
MCPlans ==
  {<<>>, <<Iss("type", <<>>), Mapped(Iss("type", <<>>)), Iss("size", <<>>)>>,
   <<Said(Iss("size", <<Iss("type", <<>>), Iss("size", <<>>)>>))>>,
   <<Iss("size", <<>>), Iss("size", <<Iss("size", <<>>), Iss("size", <<>>)>>)>>}

Names == Permutations(Goroutine) \cup Permutations(Schema) \cup Permutations(Id)
=============================================================================
