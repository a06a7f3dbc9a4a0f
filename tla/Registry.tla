------------------------------ MODULE Registry ------------------------------
(***************************************************************************)
(* The metadata registry of registry.go, step by step under its RWMutex:   *)
(* two maps that every write changes one after the other.                  *)
(***************************************************************************)
EXTENDS MetadataStore, FiniteSets

CONSTANT Requests    \* the operations goroutines call: a subset of Request

ASSUME RegistryAssumption == Requests \subseteq Request

VARIABLES
  pc,                \* per goroutine, the next step of its operation
  merged,            \* per goroutine, the metadata it is about to store
  writer, readers,   \* who holds mu, None when nobody does
  latest             \* history: per id, the schema indexed under it last

registryVars == <<storeVars, pc, merged, writer, readers, latest>>

Pc == {"idle", "lock", "copy", "drop", "store", "index", "unindex", "delete",
       "clear", "clearIds", "unlock", "read", "readUnlock"}

RegistryInit ==
  /\ Init
  /\ pc = [g \in Goroutine |-> "idle"]
  /\ merged = [g \in Goroutine |-> <<>>]
  /\ writer = None
  /\ readers = {}
  /\ latest = <<>>

Goto(g, label) == pc' = [pc EXCEPT ![g] = label]

Begin(g, r) ==
  /\ Call(g, r)
  /\ Goto(g, "lock")
  /\ UNCHANGED <<merged, writer, readers, latest>>

-----------------------------------------------------------------------------
(* Readers: Get, Has, GetDescription, GetByID. *)

\* Mutant: reads do not wait for a writer.
RLockAnyway(g) ==
  /\ pc[g] = "lock"
  /\ Reading(request[g])
  /\ readers' = readers \cup {g}
  /\ Goto(g, "read")
  /\ UNCHANGED <<storeVars, merged, writer, latest>>

RLock(g) ==
  /\ pc[g] = "lock"
  /\ Reading(request[g])
  /\ writer = None
  /\ readers' = readers \cup {g}
  /\ Goto(g, "read")
  /\ UNCHANGED <<storeVars, merged, writer, latest>>

Read(g) ==
  /\ pc[g] = "read"
  /\ answer' = [answer EXCEPT ![g] = Found(meta, idmap, request[g])]
  /\ Goto(g, "readUnlock")
  /\ UNCHANGED <<meta, idmap, request, merged, writer, readers, latest>>

RUnlock(g) ==
  /\ pc[g] = "readUnlock"
  /\ readers' = readers \ {g}
  /\ Return(g)
  /\ Goto(g, "idle")
  /\ UNCHANGED <<merged, writer, latest>>

-----------------------------------------------------------------------------
(* Writers.  addLocked is drop, store and index; Add enters it with the    *)
(* metadata of the caller, mergeMeta with the changed copy.                *)

FirstStep(r) ==
  CASE r.op = "add" -> "drop"
    [] r.op = "merge" -> "copy"
    [] r.op = "remove" -> "unindex"
    [] r.op = "clear" -> "clear"

Lock(g) ==
  /\ pc[g] = "lock"
  /\ ~Reading(request[g])
  /\ writer = None /\ readers = {}
  /\ writer' = g
  /\ Goto(g, FirstStep(request[g]))
  /\ merged' = [merged EXCEPT ![g] = IF request[g].op = "add" THEN request[g].m ELSE <<>>]
  /\ UNCHANGED <<storeVars, readers, latest>>

Copy(g) ==
  /\ pc[g] = "copy"
  /\ merged' = [merged EXCEPT ![g] = Merged(meta, request[g].s, request[g].m)]
  /\ Goto(g, "drop")
  /\ UNCHANGED <<storeVars, writer, readers, latest>>

\* Mutant: addLocked leaves the old id in the index.
KeepId(g) ==
  /\ pc[g] = "drop"
  /\ Goto(g, "store")
  /\ UNCHANGED <<storeVars, merged, writer, readers, latest>>

DropId(g) ==
  /\ pc[g] = "drop"
  /\ idmap' = Unindexed(meta, idmap, request[g].s)
  /\ Goto(g, "store")
  /\ UNCHANGED <<meta, request, answer, merged, writer, readers, latest>>

Store(g) ==
  /\ pc[g] = "store"
  /\ meta' = With(meta, request[g].s, merged[g])
  /\ Goto(g, "index")
  /\ UNCHANGED <<idmap, request, answer, merged, writer, readers, latest>>

IndexId(g) ==
  /\ pc[g] = "index"
  /\ idmap' = Indexed(idmap, request[g].s, merged[g])
  /\ latest' = Indexed(latest, request[g].s, merged[g])
  /\ Goto(g, "unlock")
  /\ UNCHANGED <<meta, request, answer, merged, writer, readers>>

Unindex(g) ==
  /\ pc[g] = "unindex"
  /\ idmap' = Unindexed(meta, idmap, request[g].s)
  /\ Goto(g, "delete")
  /\ UNCHANGED <<meta, request, answer, merged, writer, readers, latest>>

Delete(g) ==
  /\ pc[g] = "delete"
  /\ meta' = Without(meta, request[g].s)
  /\ Goto(g, "unlock")
  /\ UNCHANGED <<idmap, request, answer, merged, writer, readers, latest>>

ClearMeta(g) ==
  /\ pc[g] = "clear"
  /\ meta' = <<>>
  /\ Goto(g, "clearIds")
  /\ UNCHANGED <<idmap, request, answer, merged, writer, readers, latest>>

ClearIds(g) ==
  /\ pc[g] = "clearIds"
  /\ idmap' = <<>>
  /\ Goto(g, "unlock")
  /\ UNCHANGED <<meta, request, answer, merged, writer, readers, latest>>

Unlock(g) ==
  /\ pc[g] = "unlock"
  /\ writer' = None
  /\ answer' = [answer EXCEPT ![g] = Done]
  /\ request' = [request EXCEPT ![g] = None]
  /\ Goto(g, "idle")
  /\ UNCHANGED <<meta, idmap, merged, readers, latest>>

RegistryStep(g) ==
  \/ RLock(g) \/ Read(g) \/ RUnlock(g)
  \/ Lock(g) \/ Unlock(g)
  \/ Copy(g) \/ DropId(g) \/ Store(g) \/ IndexId(g)
  \/ Unindex(g) \/ Delete(g) \/ ClearMeta(g) \/ ClearIds(g)

RegistryNext == \E g \in Goroutine : (\E r \in Requests : Begin(g, r)) \/ RegistryStep(g)

RegistrySpec == RegistryInit /\ [][RegistryNext]_registryVars
-----------------------------------------------------------------------------
(* Properties. *)

RegistryTypeOK ==
  /\ DOMAIN meta \subseteq Schema /\ Range(meta) \subseteq Metadata
  /\ DOMAIN idmap \subseteq Id /\ Range(idmap) \subseteq Schema
  /\ request \in [Goroutine -> Requests \cup {None}]
  /\ answer \in [Goroutine -> Metadata \cup Schema \cup {None, Nothing, Done}]
  /\ pc \in [Goroutine -> Pc]
  /\ merged \in [Goroutine -> Metadata]
  /\ writer \in Goroutine \cup {None} /\ readers \subseteq Goroutine

AtRest == writer = None

\* The two maps agree whenever nobody writes: an id leads to a schema that is
\* registered and has that id (addLocked, Remove and Clear keep them so).
IndexSound ==
  AtRest => \A i \in DOMAIN idmap : idmap[i] \in DOMAIN meta /\ IdOf(meta[idmap[i]]) = i

\* "later adds with the same id silently overwrite": the schema that was indexed
\* last under an id is found by it for as long as it is registered with the id,
\* whatever happens to the schemas that had the id before.
LastIsFound ==
  AtRest => \A i \in DOMAIN latest :
    At(meta, latest[i]) # Nothing /\ IdOf(meta[latest[i]]) = i => At(idmap, i) = latest[i]

(* Every operation is atomic: a writer takes effect when it gets the lock, *)
(* so what the maps will be once it is done is what a caller sees.         *)

Pending(g) ==
  LET s == request[g].s IN
  CASE pc[g] = "copy" -> Effect(meta, idmap, request[g])
    [] pc[g] \in {"drop", "store"} ->
         <<With(meta, s, merged[g]), Indexed(Unindexed(meta, idmap, s), s, merged[g])>>
    [] pc[g] = "index" -> <<meta, Indexed(idmap, s, merged[g])>>
    [] pc[g] \in {"unindex", "delete"} -> <<Without(meta, s), Unindexed(meta, idmap, s)>>
    [] pc[g] \in {"clear", "clearIds"} -> <<<<>>, <<>>>>
    [] OTHER -> <<meta, idmap>>

Seen == IF writer = None THEN <<meta, idmap>> ELSE Pending(writer)

Atomic == INSTANCE MetadataStore WITH
  meta <- Seen[1], idmap <- Seen[2],
  answer <- [g \in Goroutine |-> IF g = writer THEN Done ELSE answer[g]]

\* The registry implements the store: concurrent Describe and Meta calls lose
\* nothing and no reader sees one map changed without the other (mergeMeta).
RegistryIsAtomic == Atomic!Spec
=============================================================================
