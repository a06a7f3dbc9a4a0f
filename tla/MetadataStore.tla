--------------------------- MODULE MetadataStore ----------------------------
(***************************************************************************)
(* What a Registry of registry.go promises its callers: every operation    *)
(* takes effect at once, at some moment between its call and its return.   *)
(*                                                                         *)
(* Metadata is a function on some of the keys "id" and "description", as   *)
(* the map[string]any of GlobalRegistry is.                                *)
(***************************************************************************)
EXTENDS Process, Functions

CONSTANTS
  Schema,            \* schemas, by the identity of their Internals
  Id, NoId,          \* the ids metadata may carry, and the empty string
  Text,              \* descriptions
  Nothing, Done      \* the answers of a read that finds nothing and of a write

VARIABLES
  meta,              \* Registry.meta
  idmap,             \* Registry.idmap
  request,           \* per goroutine, the operation it has called and not returned from
  answer             \* per goroutine, what it found

storeVars == <<meta, idmap, request, answer>>

Metadata == {m \in UNION {[D -> Id \cup {NoId} \cup Text] : D \in SUBSET {"id", "description"}} :
               /\ "id" \in DOMAIN m => m.id \in Id \cup {NoId}
               /\ "description" \in DOMAIN m => m.description \in Text}

\* Add, Describe and Meta, Remove, Clear, Get (Has, GetDescription), GetByID.
Request ==
  [op : {"add", "merge"}, s : Schema, m : Metadata] \cup
  [op : {"remove", "get"}, s : Schema] \cup [op : {"clear"}] \cup [op : {"byId"}, id : Id]

ASSUME StoreAssumption ==
  /\ NoId \notin Id
  /\ Nothing \notin Schema
  /\ None \notin Goroutine \cup Schema \cup Metadata \cup Request \cup {Nothing, Done}

Reading(r) == r.op \in {"get", "byId"}

-----------------------------------------------------------------------------
\* extractMetaID: the empty string counts as no id.
IdOf(m) == IF "id" \in DOMAIN m THEN m.id ELSE NoId

With(f, x, v) == [y \in DOMAIN f \cup {x} |-> IF y = x THEN v ELSE f[y]]
Without(f, x) == Restrict(f, DOMAIN f \ {x})
At(f, x) == IF x \in DOMAIN f THEN f[x] ELSE Nothing

\* Mutant: the entry of the id is deleted whoever owns it.
UnindexedAnyOwner(mt, ids, s) == IF s \in DOMAIN mt THEN Without(ids, IdOf(mt[s])) ELSE ids

\* The id of s leaves the index if the index leads to s.
Unindexed(mt, ids, s) ==
  IF s \in DOMAIN mt /\ At(ids, IdOf(mt[s])) = s THEN Without(ids, IdOf(mt[s])) ELSE ids

\* Mutant: the empty id is indexed.
IndexedEmpty(ids, s, m) == With(ids, IdOf(m), s)

Indexed(ids, s, m) == IF IdOf(m) = NoId THEN ids ELSE With(ids, IdOf(m), s)

\* copyStringAnyMap and the change of Describe or Meta; absent metadata is empty.
Merged(mt, s, m) ==
  IF s \in DOMAIN mt
  THEN [k \in DOMAIN m \cup DOMAIN mt[s] |-> IF k \in DOMAIN m THEN m[k] ELSE mt[s][k]]
  ELSE m

Effect(mt, ids, r) ==
  CASE r.op = "remove" -> <<Without(mt, r.s), Unindexed(mt, ids, r.s)>>
    [] r.op = "clear" -> <<<<>>, <<>>>>
    [] r.op \in {"add", "merge"} ->
         LET m == IF r.op = "add" THEN r.m ELSE Merged(mt, r.s, r.m)
         IN  <<With(mt, r.s, m), Indexed(Unindexed(mt, ids, r.s), r.s, m)>>
    [] OTHER -> <<mt, ids>>

Found(mt, ids, r) ==
  CASE r.op = "get" -> At(mt, r.s)
    [] r.op = "byId" -> At(ids, r.id)
    [] OTHER -> Done
-----------------------------------------------------------------------------
Init ==
  /\ meta = <<>>
  /\ idmap = <<>>
  /\ request = [g \in Goroutine |-> None]
  /\ answer = [g \in Goroutine |-> None]

Call(g, r) ==
  /\ request[g] = None
  /\ request' = [request EXCEPT ![g] = r]
  /\ answer' = [answer EXCEPT ![g] = None]
  /\ UNCHANGED <<meta, idmap>>

Commit(g) ==
  /\ request[g] # None
  /\ answer[g] = None
  /\ <<meta', idmap'>> = Effect(meta, idmap, request[g])
  /\ answer' = [answer EXCEPT ![g] = Found(meta, idmap, request[g])]
  /\ UNCHANGED request

Return(g) ==
  /\ request[g] # None
  /\ answer[g] # None
  /\ request' = [request EXCEPT ![g] = None]
  /\ UNCHANGED <<meta, idmap, answer>>

Next == \E g \in Goroutine : (\E r \in Request : Call(g, r)) \/ Commit(g) \/ Return(g)

Spec == Init /\ [][Next]_storeVars
=============================================================================
