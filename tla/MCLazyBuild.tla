---------------------------- MODULE MCLazyBuild -----------------------------
(* Every option list of at most two options, the unions in any order. *)
EXTENDS LazyBuild

MCOptionLists ==
  {<<Plain>>} \cup {<<u>> : u \in Union} \cup
  {<<u, v>> : u, v \in Union} \cup {<<Plain, u>> : u \in Union}
=============================================================================
