--------------------------- MODULE GlobalsProofs ----------------------------
(***************************************************************************)
(* What the global state guarantees to any number of goroutines: the       *)
(* registry, that it is an atomic store whose index is sound, for any      *)
(* schemas and ids; messages, Configure and the getter of a Lazy, that a   *)
(* parse speaks for configurations that were current during it, for any    *)
(* calls, configurations and issues a parse raises.                        *)
(***************************************************************************)
EXTENDS Globals, TLAPS, SequenceTheorems

-----------------------------------------------------------------------------
(* The registry. *)


\* Where a goroutine is while it holds the write lock.
Writing == {"copy", "drop", "store", "index", "unindex", "delete", "clear", "clearIds", "unlock"}

\* The RWMutex: one writer, or readers.
Locked ==
  /\ writer # None => pc[writer] \in Writing /\ readers = {}
  /\ \A g \in Goroutine : pc[g] \in Writing => writer = g
  /\ \A g \in Goroutine : pc[g] \in {"read", "readUnlock"} => g \in readers

\* Where a goroutine is, and the operation it is in.
Controlled == \A g \in Goroutine :
  /\ pc[g] = "idle" <=> request[g] = None
  /\ pc[g] = "copy" => request[g].op = "merge"
  /\ pc[g] \in {"drop", "store", "index"} => request[g].op \in {"add", "merge"}
  /\ pc[g] \in {"unindex", "delete"} => request[g].op = "remove"
  /\ pc[g] \in {"clear", "clearIds"} => request[g].op = "clear"
  /\ pc[g] \in {"read", "readUnlock"} => Reading(request[g])
  /\ pc[g] = "readUnlock" => answer[g] # None
  /\ pc[g] \notin {"idle", "readUnlock"} => answer[g] = None

\* Between the two writes of an operation: the old id is gone from the index,
\* all metadata is gone.
HalfDone == \A g \in Goroutine :
  /\ pc[g] \in {"store", "delete"} => Unindexed(meta, idmap, request[g].s) = idmap
  /\ pc[g] = "clearIds" => meta = <<>>

RInv == RegistryTypeOK /\ Locked /\ Controlled /\ HalfDone

\* The same soundness of an index, as a relation of two maps.
Sound(mt, ids) == \A i \in DOMAIN ids : ids[i] \in DOMAIN mt /\ IdOf(mt[ids[i]]) = i

\* The latest schema of each id is found, as a relation of the two maps and latest.
LatestFound(mt, ids, lt) == \A i \in DOMAIN lt :
  /\ i # NoId
  /\ lt[i] \in DOMAIN mt /\ IdOf(mt[lt[i]]) = i => i \in DOMAIN ids /\ ids[i] = lt[i]

NewMetadata(mt, r) == IF r.op = "add" THEN r.m ELSE Merged(mt, r.s, r.m)

-----------------------------------------------------------------------------
(* The operators of the store. *)

LEMMA UnindexedFacts ==
  ASSUME NEW mt, NEW ids, NEW s, Sound(mt, ids)
  PROVE  /\ \A i \in DOMAIN Unindexed(mt, ids, s) :
              i \in DOMAIN ids /\ ids[i] # s /\ Unindexed(mt, ids, s)[i] = ids[i]
         /\ \A i \in DOMAIN ids : ids[i] # s => i \in DOMAIN Unindexed(mt, ids, s)
<1>1. CASE s \in DOMAIN mt /\ IdOf(mt[s]) \in DOMAIN ids /\ ids[IdOf(mt[s])] = s
  BY <1>1 DEF Unindexed, At, Without, Restrict, Sound
<1>2. CASE ~(s \in DOMAIN mt /\ IdOf(mt[s]) \in DOMAIN ids /\ ids[IdOf(mt[s])] = s)
  <2>1. \A i \in DOMAIN ids : ids[i] # s
    BY <1>2 DEF Sound
  <2>2. Unindexed(mt, ids, s) = ids \/ (s \in DOMAIN mt /\ At(ids, IdOf(mt[s])) = s)
    BY DEF Unindexed
  <2>3. CASE s \in DOMAIN mt /\ At(ids, IdOf(mt[s])) = s
    <3>1. IdOf(mt[s]) \notin DOMAIN ids
      BY <1>2, <2>3 DEF At
    <3>2. Unindexed(mt, ids, s) = Without(ids, IdOf(mt[s]))
      BY <2>3 DEF Unindexed
    <3> QED BY <2>1, <3>1, <3>2 DEF Without, Restrict
  <2> QED BY <2>1, <2>2, <2>3
<1> QED BY <1>1, <1>2

LEMMA UnindexedTwice ==
  ASSUME NEW mt, NEW ids, NEW s \in Schema
  PROVE  Unindexed(mt, Unindexed(mt, ids, s), s) = Unindexed(mt, ids, s)
BY StoreAssumption DEF Unindexed, At, Without, Restrict

\* A write keeps the index sound, and the latest schema of each id found.
LEMMA EffectSound ==
  ASSUME NEW mt, NEW ids, NEW r \in Request, Sound(mt, ids)
  PROVE  Sound(Effect(mt, ids, r)[1], Effect(mt, ids, r)[2])
<1> DEFINE U == Unindexed(mt, ids, r.s)
           m == NewMetadata(mt, r)
<1>1. CASE r.op = "remove"
  <2>1. Effect(mt, ids, r) = <<Without(mt, r.s), U>>
    BY <1>1 DEF Effect
  <2>2. Sound(Without(mt, r.s), U)
    BY UnindexedFacts DEF Sound, Without, Restrict
  <2> QED BY <2>1, <2>2
<1>2. CASE r.op = "clear"
  <2>1. Effect(mt, ids, r) = <<<<>>, <<>>>>
    BY <1>2 DEF Effect
  <2> QED BY <2>1 DEF Sound
<1>3. CASE r.op \in {"add", "merge"}
  <2>1. Effect(mt, ids, r) = <<With(mt, r.s, m), Indexed(U, r.s, m)>>
    BY <1>3 DEF Effect, NewMetadata
  <2>2. ASSUME NEW i \in DOMAIN Indexed(U, r.s, m)
        PROVE  /\ Indexed(U, r.s, m)[i] \in DOMAIN With(mt, r.s, m)
               /\ IdOf(With(mt, r.s, m)[Indexed(U, r.s, m)[i]]) = i
    <3>1. CASE IdOf(m) # NoId /\ i = IdOf(m)
      <4>1. Indexed(U, r.s, m)[i] = r.s
        BY <3>1 DEF Indexed, With
      <4>2. r.s \in DOMAIN With(mt, r.s, m) /\ With(mt, r.s, m)[r.s] = m
        BY DEF With
      <4> QED BY <3>1, <4>1, <4>2
    <3>2. CASE ~(IdOf(m) # NoId /\ i = IdOf(m))
      <4>1. i \in DOMAIN U /\ Indexed(U, r.s, m)[i] = U[i]
        BY <3>2, <2>2 DEF Indexed, With
      <4>2. i \in DOMAIN ids /\ ids[i] # r.s /\ U[i] = ids[i]
        BY <4>1, UnindexedFacts
      <4>3. ids[i] \in DOMAIN mt /\ IdOf(mt[ids[i]]) = i
        BY <4>2 DEF Sound
      <4>4. ids[i] \in DOMAIN With(mt, r.s, m) /\ With(mt, r.s, m)[ids[i]] = mt[ids[i]]
        BY <4>2, <4>3 DEF With
      <4> HIDE DEF U, m
      <4> QED BY <4>1, <4>2, <4>3, <4>4
    <3> QED BY <3>1, <3>2
  <2> QED BY <2>1, <2>2 DEF Sound
<1>4. CASE r.op \in {"get", "byId"}
  <2>1. Effect(mt, ids, r) = <<mt, ids>>
    BY <1>4 DEF Effect
  <2> QED BY <2>1
<1> QED BY <1>1, <1>2, <1>3, <1>4 DEF Request

LEMMA EffectLatest ==
  ASSUME NEW mt, NEW ids, NEW lt, NEW r \in Request, Sound(mt, ids), LatestFound(mt, ids, lt)
  PROVE  LatestFound(Effect(mt, ids, r)[1], Effect(mt, ids, r)[2],
                     IF r.op \in {"add", "merge"} THEN Indexed(lt, r.s, NewMetadata(mt, r)) ELSE lt)
<1> DEFINE U == Unindexed(mt, ids, r.s)
           m == NewMetadata(mt, r)
<1>1. CASE r.op = "remove"
  <2>1. Effect(mt, ids, r) = <<Without(mt, r.s), U>>
    BY <1>1 DEF Effect
  <2>2. LatestFound(Without(mt, r.s), U, lt)
    BY UnindexedFacts DEF LatestFound, Without, Restrict
  <2> QED BY <1>1, <2>1, <2>2
<1>2. CASE r.op = "clear"
  <2>1. Effect(mt, ids, r) = <<<<>>, <<>>>>
    BY <1>2 DEF Effect
  <2> QED BY <1>2, <2>1 DEF LatestFound
<1>3. CASE r.op \in {"add", "merge"}
  <2>1. Effect(mt, ids, r) = <<With(mt, r.s, m), Indexed(U, r.s, m)>>
    BY <1>3 DEF Effect, NewMetadata
  <2> DEFINE L == Indexed(lt, r.s, m)
  <2>2. ASSUME NEW i \in DOMAIN L
        PROVE  /\ i # NoId
               /\ L[i] \in DOMAIN With(mt, r.s, m) /\ IdOf(With(mt, r.s, m)[L[i]]) = i
                    => i \in DOMAIN Indexed(U, r.s, m) /\ Indexed(U, r.s, m)[i] = L[i]
    <3>1. CASE IdOf(m) # NoId /\ i = IdOf(m)
      BY <3>1 DEF Indexed, With
    <3>2. CASE ~(IdOf(m) # NoId /\ i = IdOf(m))
      <4>1. i \in DOMAIN lt /\ L[i] = lt[i] /\ i # NoId
        BY <3>2, <2>2 DEF Indexed, With, LatestFound
      <4>2. CASE lt[i] = r.s
        <5>1. With(mt, r.s, m)[L[i]] = m
          BY <4>1, <4>2 DEF With
        <5> QED BY <3>2, <4>1, <5>1
      <4>3. CASE lt[i] # r.s
        <5>1. lt[i] \in DOMAIN With(mt, r.s, m)
                => lt[i] \in DOMAIN mt /\ With(mt, r.s, m)[lt[i]] = mt[lt[i]]
          BY <4>3 DEF With
        <5>2. ASSUME lt[i] \in DOMAIN mt, IdOf(mt[lt[i]]) = i
              PROVE  i \in DOMAIN U /\ U[i] = lt[i]
          <6>1. i \in DOMAIN ids /\ ids[i] = lt[i]
            BY <4>1, <5>2 DEF LatestFound
          <6> QED BY <4>3, <6>1, UnindexedFacts
        <5>3. i \in DOMAIN U => i \in DOMAIN Indexed(U, r.s, m) /\ Indexed(U, r.s, m)[i] = U[i]
          BY <3>2 DEF Indexed, With
        <5> HIDE DEF U, m, L
        <5> QED BY <4>1, <5>1, <5>2, <5>3
      <4> QED BY <4>2, <4>3
    <3> QED BY <3>1, <3>2
  <2> QED BY <1>3, <2>1, <2>2 DEF LatestFound
<1>4. CASE r.op \in {"get", "byId"}
  <2>1. Effect(mt, ids, r) = <<mt, ids>>
    BY <1>4 DEF Effect
  <2> QED BY <1>4, <2>1
<1> QED BY <1>1, <1>2, <1>3, <1>4 DEF Request

-----------------------------------------------------------------------------
(* The operations of the store keep the types of its maps. *)

StoreTypes(mt, ids) ==
  /\ DOMAIN mt \subseteq Schema /\ Range(mt) \subseteq Metadata
  /\ DOMAIN ids \subseteq Id /\ Range(ids) \subseteq Schema

LEMMA MetadataTypes ==
  ASSUME NEW m \in Metadata
  PROVE  IdOf(m) \in Id \cup {NoId}
BY DEF Metadata, IdOf

LEMMA MergedType ==
  ASSUME NEW mt, NEW s, NEW m \in Metadata, Range(mt) \subseteq Metadata
  PROVE  Merged(mt, s, m) \in Metadata
<1>1. CASE s \notin DOMAIN mt
  BY <1>1 DEF Merged
<1>2. CASE s \in DOMAIN mt
  <2> DEFINE old == mt[s]
             D == DOMAIN m \cup DOMAIN old
             new == [k \in D |-> IF k \in DOMAIN m THEN m[k] ELSE old[k]]
  <2>1. old \in Metadata
    BY <1>2 DEF Range
  <2>2. Merged(mt, s, m) = new
    BY <1>2 DEF Merged
  <2>3. /\ \A k \in DOMAIN m : m[k] \in Id \cup {NoId} \cup Text
        /\ \A k \in DOMAIN old : old[k] \in Id \cup {NoId} \cup Text
        /\ DOMAIN m \in SUBSET {"id", "description"} /\ DOMAIN old \in SUBSET {"id", "description"}
    BY <2>1 DEF Metadata
  <2>4. D \in SUBSET {"id", "description"} /\ new \in [D -> Id \cup {NoId} \cup Text]
    BY <2>3
  <2>5. /\ "id" \in DOMAIN new => new.id \in Id \cup {NoId}
        /\ "description" \in DOMAIN new => new.description \in Text
    BY <2>1 DEF Metadata
  <2>6. new \in UNION {[E -> Id \cup {NoId} \cup Text] : E \in SUBSET {"id", "description"}}
    BY <2>4
  <2> HIDE DEF new
  <2> QED BY <2>2, <2>5, <2>6 DEF Metadata
<1> QED BY <1>1, <1>2

LEMMA NoMetadata == <<>> \in Metadata
<1>1. <<>> \in [{} -> Id \cup {NoId} \cup Text]
  OBVIOUS
<1> QED BY <1>1 DEF Metadata

LEMMA WithTypes ==
  ASSUME NEW mt, NEW ids, NEW s \in Schema, NEW m \in Metadata, StoreTypes(mt, ids)
  PROVE  StoreTypes(With(mt, s, m), ids) /\ StoreTypes(mt, Indexed(ids, s, m))
BY MetadataTypes DEF StoreTypes, With, Indexed, Range

LEMMA WithoutTypes ==
  ASSUME NEW mt, NEW ids, NEW s, StoreTypes(mt, ids)
  PROVE  StoreTypes(Without(mt, s), ids) /\ StoreTypes(mt, Unindexed(mt, ids, s))
BY DEF StoreTypes, Without, Restrict, Unindexed, Range

LEMMA FoundType ==
  ASSUME NEW mt, NEW ids, NEW r \in Request, StoreTypes(mt, ids)
  PROVE  /\ Found(mt, ids, r) \in Metadata \cup Schema \cup {Nothing, Done}
         /\ Found(mt, ids, r) # None
<1>1. Found(mt, ids, r) \in Metadata \cup Schema \cup {Nothing, Done}
  BY DEF Found, At, StoreTypes, Range, Request
<1> QED BY <1>1, StoreAssumption

-----------------------------------------------------------------------------
(* The registry. *)

LEMMA RequestFacts ==
  ASSUME NEW r \in Requests
  PROVE  /\ r \in Request /\ r # None
         /\ r.op \in {"add", "merge", "remove", "get", "clear", "byId"}
         /\ r.op \in {"add", "merge", "remove", "get"} => r.s \in Schema
         /\ r.op \in {"add", "merge"} => r.m \in Metadata
<1>1. r \in Request
  BY RegistryAssumption
<1> QED BY <1>1, StoreAssumption DEF Request

LEMMA NoGoroutine == None \notin Goroutine
BY StoreAssumption

LEMMA RegistryInvariant == RegistrySpec => []RInv
<1>1. RegistryInit => RInv
  <2> SUFFICES ASSUME RegistryInit PROVE RInv
    OBVIOUS
  <2> USE DEF RegistryInit, Init
  <2>1. RegistryTypeOK
    BY NoMetadata DEF RegistryTypeOK, Pc, Range
  <2>2. Locked /\ Controlled /\ HalfDone
    BY DEF Locked, Controlled, HalfDone, Writing
  <2> QED BY <2>1, <2>2 DEF RInv
<1>2. RInv /\ [RegistryNext]_registryVars => RInv'
  <2> SUFFICES ASSUME RInv, [RegistryNext]_registryVars PROVE RInv'
    OBVIOUS
  <2> USE DEF RInv
  <2>0. StoreTypes(meta, idmap)
    BY DEF RegistryTypeOK, StoreTypes
  <2>1. ASSUME NEW g \in Goroutine, NEW r \in Requests, Begin(g, r) PROVE RInv'
    <3> USE <2>1 DEF Begin, Call, Goto
    <3>1. RegistryTypeOK'
      BY DEF RegistryTypeOK, Pc
    <3>2. Locked'
      BY DEF RegistryTypeOK, Locked, Controlled, Writing
    <3>3. Controlled'
      BY RequestFacts DEF RegistryTypeOK, Controlled
    <3>4. HalfDone'
      BY DEF RegistryTypeOK, HalfDone
    <3> QED BY <3>1, <3>2, <3>3, <3>4
  <2>2. ASSUME NEW g \in Goroutine, RLock(g) PROVE RInv'
    <3> USE <2>2 DEF RLock, Goto, storeVars
    <3>1. RegistryTypeOK'
      BY DEF RegistryTypeOK, Pc, StoreTypes, Controlled
    <3>2. Locked'
      BY DEF RegistryTypeOK, Locked, Controlled, Writing
    <3>3. Controlled'
      BY RequestFacts DEF RegistryTypeOK, Controlled, Locked, Writing
    <3>4. HalfDone'
      BY DEF RegistryTypeOK, HalfDone, Locked, Writing
    <3> QED BY <3>1, <3>2, <3>3, <3>4
  <2>3. ASSUME NEW g \in Goroutine, Read(g) PROVE RInv'
    <3> USE <2>3 DEF Read, Goto, storeVars
    <3>1. RegistryTypeOK'
      BY <2>0, FoundType, RequestFacts DEF RegistryTypeOK, Pc, StoreTypes, Controlled
    <3>2. Locked'
      BY DEF RegistryTypeOK, Locked, Controlled, Writing
    <3>3. Controlled'
      BY <2>0, FoundType, RequestFacts DEF RegistryTypeOK, Controlled, Locked, Writing
    <3>4. HalfDone'
      BY DEF RegistryTypeOK, HalfDone, Locked, Writing
    <3> QED BY <3>1, <3>2, <3>3, <3>4
  <2>4. ASSUME NEW g \in Goroutine, RUnlock(g) PROVE RInv'
    <3> USE <2>4 DEF RUnlock, Return, Goto, storeVars
    <3>1. RegistryTypeOK'
      BY DEF RegistryTypeOK, Pc, StoreTypes, Controlled
    <3>2. Locked'
      BY DEF RegistryTypeOK, Locked, Controlled, Writing
    <3>3. Controlled'
      BY RequestFacts DEF RegistryTypeOK, Controlled, Locked, Writing
    <3>4. HalfDone'
      BY DEF RegistryTypeOK, HalfDone, Locked, Writing
    <3> QED BY <3>1, <3>2, <3>3, <3>4
  <2>5. ASSUME NEW g \in Goroutine, Lock(g) PROVE RInv'
    <3> USE <2>5 DEF Lock, FirstStep, Reading, Goto, storeVars
    <3>0. request[g] \in Requests /\ FirstStep(request[g]) \in {"copy", "drop", "unindex", "clear"}
      BY RequestFacts DEF RegistryTypeOK, Controlled
    <3>1. RegistryTypeOK'
      BY <2>0, RequestFacts, NoMetadata DEF RegistryTypeOK, Pc, StoreTypes, Controlled
    <3>2. Locked'
      BY <3>0, NoGoroutine DEF RegistryTypeOK, Locked, Controlled, Writing
    <3>3. Controlled'
      BY <2>0, RequestFacts, NoMetadata DEF RegistryTypeOK, Controlled, Locked, Writing
    <3>4. HalfDone'
      BY <3>0 DEF RegistryTypeOK, HalfDone, Locked, Writing
    <3> QED BY <3>1, <3>2, <3>3, <3>4
  <2>6. ASSUME NEW g \in Goroutine, Unlock(g) PROVE RInv'
    <3> USE <2>6 DEF Unlock, Goto, storeVars
    <3>1. RegistryTypeOK'
      BY DEF RegistryTypeOK, Pc, StoreTypes, Controlled
    <3>2. Locked'
      BY DEF RegistryTypeOK, Locked, Controlled, Writing
    <3>3. Controlled'
      BY RequestFacts DEF RegistryTypeOK, Controlled, Locked, Writing
    <3>4. HalfDone'
      BY DEF RegistryTypeOK, HalfDone, Locked, Writing
    <3> QED BY <3>1, <3>2, <3>3, <3>4
  <2>7. ASSUME NEW g \in Goroutine, Copy(g) PROVE RInv'
    <3> USE <2>7 DEF Copy, Goto, storeVars
    <3>1. RegistryTypeOK'
      BY <2>0, MergedType, RequestFacts DEF RegistryTypeOK, Pc, StoreTypes, Controlled
    <3>2. Locked'
      BY DEF RegistryTypeOK, Locked, Controlled, Writing
    <3>3. Controlled'
      BY <2>0, MergedType, RequestFacts DEF RegistryTypeOK, Controlled, Locked, Writing
    <3>4. HalfDone'
      BY DEF RegistryTypeOK, HalfDone, Locked, Writing
    <3> QED BY <3>1, <3>2, <3>3, <3>4
  <2>8. ASSUME NEW g \in Goroutine, DropId(g) PROVE RInv'
    <3> USE <2>8 DEF DropId, Goto, storeVars
    <3>1. RegistryTypeOK'
      BY <2>0, WithoutTypes DEF RegistryTypeOK, Pc, StoreTypes, Controlled
    <3>2. Locked'
      BY DEF RegistryTypeOK, Locked, Controlled, Writing
    <3>3. Controlled'
      BY <2>0, WithoutTypes DEF RegistryTypeOK, Controlled, Locked, Writing
    <3>4. HalfDone'
      BY UnindexedTwice, RequestFacts DEF RegistryTypeOK, HalfDone, Controlled, Locked, Writing
    <3> QED BY <3>1, <3>2, <3>3, <3>4
  <2>9. ASSUME NEW g \in Goroutine, Store(g) PROVE RInv'
    <3> USE <2>9 DEF Store, Goto, storeVars
    <3>1. RegistryTypeOK'
      BY <2>0, WithTypes, RequestFacts DEF RegistryTypeOK, Pc, StoreTypes, Controlled
    <3>2. Locked'
      BY DEF RegistryTypeOK, Locked, Controlled, Writing
    <3>3. Controlled'
      BY <2>0, WithTypes, RequestFacts DEF RegistryTypeOK, Controlled, Locked, Writing
    <3>4. HalfDone'
      BY DEF RegistryTypeOK, HalfDone, Locked, Writing
    <3> QED BY <3>1, <3>2, <3>3, <3>4
  <2>10. ASSUME NEW g \in Goroutine, IndexId(g) PROVE RInv'
    <3> USE <2>10 DEF IndexId, Goto, storeVars
    <3>1. RegistryTypeOK'
      BY <2>0, WithTypes, RequestFacts DEF RegistryTypeOK, Pc, StoreTypes, Controlled
    <3>2. Locked'
      BY DEF RegistryTypeOK, Locked, Controlled, Writing
    <3>3. Controlled'
      BY <2>0, WithTypes, RequestFacts DEF RegistryTypeOK, Controlled, Locked, Writing
    <3>4. HalfDone'
      BY DEF RegistryTypeOK, HalfDone, Locked, Writing
    <3> QED BY <3>1, <3>2, <3>3, <3>4
  <2>11. ASSUME NEW g \in Goroutine, Unindex(g) PROVE RInv'
    <3> USE <2>11 DEF Unindex, Goto, storeVars
    <3>1. RegistryTypeOK'
      BY <2>0, WithoutTypes DEF RegistryTypeOK, Pc, StoreTypes, Controlled
    <3>2. Locked'
      BY DEF RegistryTypeOK, Locked, Controlled, Writing
    <3>3. Controlled'
      BY <2>0, WithoutTypes DEF RegistryTypeOK, Controlled, Locked, Writing
    <3>4. HalfDone'
      BY UnindexedTwice, RequestFacts DEF RegistryTypeOK, HalfDone, Controlled, Locked, Writing
    <3> QED BY <3>1, <3>2, <3>3, <3>4
  <2>12. ASSUME NEW g \in Goroutine, Delete(g) PROVE RInv'
    <3> USE <2>12 DEF Delete, Goto, storeVars
    <3>1. RegistryTypeOK'
      BY <2>0, WithoutTypes DEF RegistryTypeOK, Pc, StoreTypes, Controlled
    <3>2. Locked'
      BY DEF RegistryTypeOK, Locked, Controlled, Writing
    <3>3. Controlled'
      BY <2>0, WithoutTypes DEF RegistryTypeOK, Controlled, Locked, Writing
    <3>4. HalfDone'
      BY DEF RegistryTypeOK, HalfDone, Locked, Writing
    <3> QED BY <3>1, <3>2, <3>3, <3>4
  <2>13. ASSUME NEW g \in Goroutine, ClearMeta(g) PROVE RInv'
    <3> USE <2>13 DEF ClearMeta, Goto, storeVars
    <3>1. RegistryTypeOK'
      BY DEF RegistryTypeOK, Pc, Range, Controlled
    <3>2. Locked'
      BY DEF RegistryTypeOK, Locked, Controlled, Writing
    <3>3. Controlled'
      BY RequestFacts DEF RegistryTypeOK, Controlled, Locked, Writing
    <3>4. HalfDone'
      BY DEF RegistryTypeOK, HalfDone, Locked, Writing
    <3> QED BY <3>1, <3>2, <3>3, <3>4
  <2>14. ASSUME NEW g \in Goroutine, ClearIds(g) PROVE RInv'
    <3> USE <2>14 DEF ClearIds, Goto, storeVars
    <3>1. RegistryTypeOK'
      BY DEF RegistryTypeOK, Pc, Range, Controlled
    <3>2. Locked'
      BY DEF RegistryTypeOK, Locked, Controlled, Writing
    <3>3. Controlled'
      BY RequestFacts DEF RegistryTypeOK, Controlled, Locked, Writing
    <3>4. HalfDone'
      BY DEF RegistryTypeOK, HalfDone, Locked, Writing
    <3> QED BY <3>1, <3>2, <3>3, <3>4
  <2>15. ASSUME UNCHANGED registryVars PROVE RInv'
    BY <2>15 DEF registryVars, storeVars, RegistryTypeOK, Locked, Controlled, HalfDone
  <2> QED
    BY <2>1, <2>2, <2>3, <2>4, <2>5, <2>6, <2>7, <2>8, <2>9, <2>10, <2>11, <2>12, <2>13, <2>14, <2>15 DEF RegistryNext, RegistryStep
<1> QED BY <1>1, <1>2, PTL DEF RegistrySpec

-----------------------------------------------------------------------------
(* What a step is to the store: the maps a caller sees change when a       *)
(* writer gets the lock, and at no other step.                             *)

\* The history as it will be when the writer is done.
SeenLatest ==
  IF writer = None THEN latest
  ELSE CASE pc[writer] = "copy" ->
              Indexed(latest, request[writer].s, Merged(meta, request[writer].s, request[writer].m))
         [] pc[writer] \in {"drop", "store", "index"} ->
              Indexed(latest, request[writer].s, merged[writer])
         [] OTHER -> latest

Answers == [g \in Goroutine |-> IF g = writer THEN Done ELSE answer[g]]

SameSeen == Seen' = Seen /\ SeenLatest' = SeenLatest

SeenCall(g, r) ==
  /\ request[g] = None
  /\ request' = [request EXCEPT ![g] = r]
  /\ Answers' = [Answers EXCEPT ![g] = None]
  /\ SameSeen

SeenCommit(g) ==
  /\ request[g] \in Requests
  /\ Answers[g] = None
  /\ Seen' = Effect(Seen[1], Seen[2], request[g])
  /\ Answers' = [Answers EXCEPT ![g] = Found(Seen[1], Seen[2], request[g])]
  /\ SeenLatest' = IF request[g].op \in {"add", "merge"}
                   THEN Indexed(SeenLatest, request[g].s, NewMetadata(Seen[1], request[g]))
                   ELSE SeenLatest
  /\ request' = request

SeenReturn(g) ==
  /\ request[g] # None
  /\ Answers[g] # None
  /\ request' = [request EXCEPT ![g] = None]
  /\ Answers' = Answers
  /\ SameSeen

SeenStutter == SameSeen /\ Answers' = Answers /\ request' = request

LEMMA SeenSteps ==
  ASSUME RInv, RInv', [RegistryNext]_registryVars
  PROVE  \/ \E g \in Goroutine : (\E r \in Requests : SeenCall(g, r)) \/ SeenCommit(g) \/ SeenReturn(g)
         \/ SeenStutter
<1> USE NoGoroutine DEF RInv
<1>1. ASSUME NEW g \in Goroutine, NEW r \in Requests, Begin(g, r) PROVE SeenCall(g, r)
  <2> USE <1>1 DEF Begin, Call, Goto
  <2>1. g # writer /\ pc' = [pc EXCEPT ![g] = "lock"]
    BY DEF Locked, Controlled, Writing
  <2>2. SameSeen
    BY <2>1 DEF RegistryTypeOK, SameSeen, Seen, SeenLatest, Pending
  <2>3. Answers' = [Answers EXCEPT ![g] = None]
    BY <2>1 DEF RegistryTypeOK, Answers
  <2> QED BY <2>2, <2>3 DEF SeenCall
<1>2. ASSUME NEW g \in Goroutine, RLock(g) PROVE SeenStutter
  <2> USE <1>2 DEF RLock, Goto, storeVars
  <2>1. SameSeen
    BY DEF RegistryTypeOK, SameSeen, Seen, SeenLatest, Pending
  <2> QED BY <2>1 DEF SeenStutter, Answers
<1>3. ASSUME NEW g \in Goroutine, Read(g) PROVE SeenCommit(g)
  <2> USE <1>3 DEF Read, Goto
  <2>1. writer = None /\ Seen = <<meta, idmap>> /\ Seen' = <<meta, idmap>>
    BY DEF Locked, Seen
  <2>2. request[g] \in Requests /\ Reading(request[g]) /\ answer[g] = None
    BY DEF RegistryTypeOK, Controlled
  <2>3. Effect(meta, idmap, request[g]) = <<meta, idmap>> /\ request[g].op \notin {"add", "merge"}
    BY <2>2 DEF Reading, Effect
  <2>4. SeenLatest = latest /\ SeenLatest' = latest
    BY <2>1 DEF SeenLatest
  <2> QED BY <2>1, <2>2, <2>3, <2>4 DEF RegistryTypeOK, SeenCommit, Answers
<1>4. ASSUME NEW g \in Goroutine, RUnlock(g) PROVE SeenReturn(g)
  <2> USE <1>4 DEF RUnlock, Return, Goto
  <2>1. writer = None
    BY DEF Locked
  <2>2. SameSeen
    BY <2>1 DEF SameSeen, Seen, SeenLatest
  <2> QED BY <2>1, <2>2 DEF RegistryTypeOK, Controlled, SeenReturn, Answers
<1>5. ASSUME NEW g \in Goroutine, Lock(g) PROVE SeenCommit(g)
  <2> USE <1>5 DEF Lock, Goto, storeVars
  <2> DEFINE r == request[g]
  <2>1. r \in Requests /\ answer[g] = None /\ ~Reading(r)
    BY DEF RegistryTypeOK, Controlled
  <2>2. r.op \in {"add", "merge", "remove", "clear"} /\ r.s = request'[g].s
    BY <2>1, RequestFacts DEF Reading
  <2>3. Seen = <<meta, idmap>> /\ SeenLatest = latest /\ Seen' = Pending(g)'
    BY DEF Seen, SeenLatest
  <2>4. pc'[g] = FirstStep(r) /\ writer' = g /\ merged'[g] = IF r.op = "add" THEN r.m ELSE <<>>
    BY DEF RegistryTypeOK
  <2>5. Pending(g)' = Effect(meta, idmap, r)
    BY <2>2, <2>4 DEF Pending, Effect, FirstStep
  <2>6. SeenLatest' = IF r.op \in {"add", "merge"} THEN Indexed(latest, r.s, NewMetadata(meta, r)) ELSE latest
    BY <2>2, <2>4 DEF SeenLatest, FirstStep, NewMetadata
  <2>7. Found(meta, idmap, r) = Done
    BY <2>2 DEF Found
  <2> QED BY <2>1, <2>3, <2>4, <2>5, <2>6, <2>7 DEF RegistryTypeOK, SeenCommit, Answers
<1>6. ASSUME NEW g \in Goroutine, Copy(g) PROVE SeenStutter
  <2> USE <1>6 DEF Copy, Goto, storeVars
  <2>1. writer = g /\ request[g].op = "merge" /\ pc'[g] = "drop" /\ merged'[g] = Merged(meta, request[g].s, request[g].m)
    BY DEF RegistryTypeOK, Locked, Controlled, Writing
  <2>2. Pending(g)' = Pending(g)
    BY <2>1 DEF Pending, Effect
  <2>3. SameSeen
    BY <2>1, <2>2 DEF SameSeen, Seen, SeenLatest
  <2> QED BY <2>3 DEF SeenStutter, Answers
<1>7. ASSUME NEW g \in Goroutine, DropId(g) PROVE SeenStutter
  <2> USE <1>7 DEF DropId, Goto
  <2>1. writer = g /\ pc'[g] = "store" /\ request[g].s \in Schema
    BY RequestFacts DEF RegistryTypeOK, Locked, Controlled, Writing
  <2>2. Pending(g)' = Pending(g)
    BY <2>1, UnindexedTwice DEF Pending
  <2>3. SameSeen
    BY <2>1, <2>2 DEF SameSeen, Seen, SeenLatest
  <2> QED BY <2>3 DEF SeenStutter, Answers
<1>8. ASSUME NEW g \in Goroutine, Store(g) PROVE SeenStutter
  <2> USE <1>8 DEF Store, Goto
  <2>1. writer = g /\ pc'[g] = "index" /\ Unindexed(meta, idmap, request[g].s) = idmap
    BY DEF RegistryTypeOK, Locked, HalfDone, Writing
  <2>2. Pending(g)' = Pending(g)
    BY <2>1 DEF Pending
  <2>3. SameSeen
    BY <2>1, <2>2 DEF SameSeen, Seen, SeenLatest
  <2> QED BY <2>3 DEF SeenStutter, Answers
<1>9. ASSUME NEW g \in Goroutine, IndexId(g) PROVE SeenStutter
  <2> USE <1>9 DEF IndexId, Goto
  <2>1. writer = g /\ pc'[g] = "unlock"
    BY DEF RegistryTypeOK, Locked, Writing
  <2>2. Pending(g)' = Pending(g)
    BY <2>1 DEF Pending
  <2>3. SameSeen
    BY <2>1, <2>2 DEF SameSeen, Seen, SeenLatest
  <2> QED BY <2>3 DEF SeenStutter, Answers
<1>10. ASSUME NEW g \in Goroutine, Unindex(g) PROVE SeenStutter
  <2> USE <1>10 DEF Unindex, Goto
  <2>1. writer = g /\ pc'[g] = "delete" /\ request[g].s \in Schema
    BY RequestFacts DEF RegistryTypeOK, Locked, Controlled, Writing
  <2>2. Pending(g)' = Pending(g)
    BY <2>1, UnindexedTwice DEF Pending
  <2>3. SameSeen
    BY <2>1, <2>2 DEF SameSeen, Seen, SeenLatest
  <2> QED BY <2>3 DEF SeenStutter, Answers
<1>11. ASSUME NEW g \in Goroutine, Delete(g) PROVE SeenStutter
  <2> USE <1>11 DEF Delete, Goto
  <2>1. writer = g /\ pc'[g] = "unlock" /\ Unindexed(meta, idmap, request[g].s) = idmap
    BY DEF RegistryTypeOK, Locked, HalfDone, Writing
  <2>2. Pending(g)' = Pending(g)
    BY <2>1 DEF Pending
  <2>3. SameSeen
    BY <2>1, <2>2 DEF SameSeen, Seen, SeenLatest
  <2> QED BY <2>3 DEF SeenStutter, Answers
<1>12. ASSUME NEW g \in Goroutine, ClearMeta(g) PROVE SeenStutter
  <2> USE <1>12 DEF ClearMeta, Goto
  <2>1. writer = g /\ pc'[g] = "clearIds"
    BY DEF RegistryTypeOK, Locked, Writing
  <2>2. Pending(g)' = Pending(g)
    BY <2>1 DEF Pending
  <2>3. SameSeen
    BY <2>1, <2>2 DEF SameSeen, Seen, SeenLatest
  <2> QED BY <2>3 DEF SeenStutter, Answers
<1>13. ASSUME NEW g \in Goroutine, ClearIds(g) PROVE SeenStutter
  <2> USE <1>13 DEF ClearIds, Goto
  <2>1. writer = g /\ pc'[g] = "unlock" /\ meta = <<>>
    BY DEF RegistryTypeOK, Locked, HalfDone, Writing
  <2>2. Pending(g)' = Pending(g)
    BY <2>1 DEF Pending
  <2>3. SameSeen
    BY <2>1, <2>2 DEF SameSeen, Seen, SeenLatest
  <2> QED BY <2>3 DEF SeenStutter, Answers
<1>14. ASSUME NEW g \in Goroutine, Unlock(g) PROVE SeenReturn(g)
  <2> USE <1>14 DEF Unlock, Goto
  <2>1. writer = g /\ Pending(g) = <<meta, idmap>> /\ request[g] # None
    BY DEF RegistryTypeOK, Locked, Controlled, Writing, Pending
  <2>2. SameSeen
    BY <2>1 DEF SameSeen, Seen, SeenLatest
  <2>3. Answers' = Answers /\ Answers[g] # None
    BY <2>1, StoreAssumption DEF RegistryTypeOK, Answers
  <2> QED BY <2>1, <2>2, <2>3 DEF SeenReturn
<1>15. ASSUME UNCHANGED registryVars PROVE SeenStutter
  BY <1>15 DEF registryVars, storeVars, SeenStutter, SameSeen, Seen, SeenLatest, Pending, Answers
<1> QED
  BY <1>1, <1>2, <1>3, <1>4, <1>5, <1>6, <1>7, <1>8, <1>9, <1>10, <1>11, <1>12, <1>13, <1>14, <1>15
  DEF RegistryNext, RegistryStep

-----------------------------------------------------------------------------
(* Theorems. *)

\* The types of the registry: each map holds what its readers expect, whatever
\* operations run at once (registry.go:12-17).
THEOREM RegistryTypeCorrect == RegistrySpec => []RegistryTypeOK
BY RegistryInvariant, PTL DEF RInv

LEMMA SameParts ==
  /\ \A m : Atomic!IdOf(m) = IdOf(m)
  /\ \A f, x : Atomic!Without(f, x) = Without(f, x) /\ Atomic!At(f, x) = At(f, x)
  /\ \A f, x, v : Atomic!With(f, x, v) = With(f, x, v)
  /\ \A mt, s, m : Atomic!Merged(mt, s, m) = Merged(mt, s, m)
BY DEF Atomic!IdOf, IdOf, Atomic!Without, Without, Atomic!Restrict, Restrict, Atomic!At, At,
       Atomic!With, With, Atomic!Merged, Merged

LEMMA SameIndexing ==
  /\ \A mt, ids, s : Atomic!Unindexed(mt, ids, s) = Unindexed(mt, ids, s)
  /\ \A ids, s, m : Atomic!Indexed(ids, s, m) = Indexed(ids, s, m)
BY SameParts DEF Atomic!Unindexed, Unindexed, Atomic!Indexed, Indexed

LEMMA SameOperators ==
  ASSUME NEW mt, NEW ids, NEW r \in Request
  PROVE  /\ Atomic!Effect(mt, ids, r) = Effect(mt, ids, r)
         /\ Atomic!Found(mt, ids, r) = Found(mt, ids, r)
         /\ Effect(mt, ids, r) = <<Effect(mt, ids, r)[1], Effect(mt, ids, r)[2]>>
<1>1. Atomic!Effect(mt, ids, r) = Effect(mt, ids, r)
  BY SameParts, SameIndexing DEF Atomic!Effect, Effect
<1>2. Atomic!Found(mt, ids, r) = Found(mt, ids, r)
  BY SameParts DEF Atomic!Found, Found
<1>3. Effect(mt, ids, r) = <<Effect(mt, ids, r)[1], Effect(mt, ids, r)[2]>>
  BY DEF Effect, Request
<1> QED BY <1>1, <1>2, <1>3

\* The registry implements the atomic store: readers and writers of registry.go,
\* mergeMeta's read and write included, are linearizable.
THEOREM RegistryRefinement == RegistrySpec => RegistryIsAtomic
<1>1. RegistryInit => Atomic!Init
  BY NoGoroutine DEF RegistryInit, Init, Atomic!Init, Seen
<1>2. ASSUME RInv, RInv', [RegistryNext]_registryVars
      PROVE  [Atomic!Next]_Atomic!storeVars
  <2>1. ASSUME NEW g \in Goroutine, NEW r \in Requests, SeenCall(g, r) PROVE Atomic!Call(g, r) /\ r \in Request
    BY <2>1, RequestFacts DEF SeenCall, SameSeen, Answers, Atomic!Call
  <2>2. ASSUME NEW g \in Goroutine, SeenCommit(g) PROVE Atomic!Commit(g)
    <3>1. request[g] # None /\ Answers[g] = None /\ request' = request
      BY <2>2, RequestFacts DEF SeenCommit
    <3>2. <<Seen[1]', Seen[2]'>> = Atomic!Effect(Seen[1], Seen[2], request[g])
      BY <2>2, RequestFacts, SameOperators DEF SeenCommit
    <3>3. Answers' = [Answers EXCEPT ![g] = Atomic!Found(Seen[1], Seen[2], request[g])]
      BY <2>2, RequestFacts, SameOperators DEF SeenCommit
    <3> QED BY <3>1, <3>2, <3>3 DEF Answers, Atomic!Commit
  <2>3. ASSUME NEW g \in Goroutine, SeenReturn(g) PROVE Atomic!Return(g)
    BY <2>3 DEF SeenReturn, SameSeen, Answers, Atomic!Return
  <2>4. ASSUME SeenStutter PROVE UNCHANGED Atomic!storeVars
    BY <2>4 DEF SeenStutter, SameSeen, Answers, Atomic!storeVars
  <2>5. Atomic!Request = Request
    BY DEF Atomic!Request, Request, Atomic!Metadata, Metadata
  <2> QED BY <1>2, <2>1, <2>2, <2>3, <2>4, <2>5, SeenSteps DEF Atomic!Next
<1> QED BY <1>1, <1>2, RegistryInvariant, PTL DEF RegistrySpec, RegistryIsAtomic, Atomic!Spec

\* What is true of the maps a caller sees.
SeenSound == Sound(Seen[1], Seen[2]) /\ LatestFound(Seen[1], Seen[2], SeenLatest)

LEMMA SeenSoundInvariant == RegistrySpec => []SeenSound
<1>1. RegistryInit => SeenSound
  BY DEF RegistryInit, Init, SeenSound, Seen, SeenLatest, Sound, LatestFound
<1>2. ASSUME RInv, RInv', SeenSound, [RegistryNext]_registryVars
      PROVE  SeenSound'
  <2>1. ASSUME SameSeen PROVE SeenSound'
    BY <1>2, <2>1 DEF SameSeen, SeenSound, Sound, LatestFound
  <2>2. ASSUME NEW g \in Goroutine, SeenCommit(g) PROVE SeenSound'
    <3>1. request[g] \in Request
      BY <2>2, RequestFacts DEF SeenCommit
    <3>2. Seen' = Effect(Seen[1], Seen[2], request[g])
      BY <2>2 DEF SeenCommit
    <3>3. Sound(Seen[1], Seen[2])'
      BY <1>2, <3>1, <3>2, EffectSound DEF SeenSound, Sound
    <3>4. LatestFound(Seen[1], Seen[2], SeenLatest)'
      <4>1. LatestFound(Effect(Seen[1], Seen[2], request[g])[1], Effect(Seen[1], Seen[2], request[g])[2],
                        IF request[g].op \in {"add", "merge"}
                        THEN Indexed(SeenLatest, request[g].s, NewMetadata(Seen[1], request[g]))
                        ELSE SeenLatest)
        BY <1>2, <3>1, EffectLatest DEF SeenSound
      <4>2. LatestFound(Seen'[1], Seen'[2], SeenLatest')
        BY <2>2, <3>2, <4>1 DEF SeenCommit
      <4> QED BY <4>2 DEF LatestFound
    <3> QED BY <3>3, <3>4 DEF SeenSound
  <2> QED BY <1>2, <2>1, <2>2, SeenSteps DEF SeenCall, SeenReturn, SeenStutter
<1> QED BY <1>1, <1>2, RegistryInvariant, PTL DEF RegistrySpec

\* GetByID never leads to a schema that is not registered or has another id
\* (addLocked, Remove, Clear).
THEOREM IndexSoundHolds == RegistrySpec => []IndexSound
<1>1. SeenSound => IndexSound
  BY DEF SeenSound, IndexSound, AtRest, Seen, Sound
<1> QED BY <1>1, SeenSoundInvariant, PTL

\* The schema indexed last under an id is found by it while it has the id,
\* whatever is removed or renamed in between (registry.go:61, :102).
THEOREM LastIsFoundHolds == RegistrySpec => []LastIsFound
<1>1. RegistryTypeOK /\ SeenSound => LastIsFound
  BY StoreAssumption DEF RegistryTypeOK, SeenSound, LastIsFound, AtRest, Seen, SeenLatest, LatestFound, At
<1> QED BY <1>1, SeenSoundInvariant, RegistryTypeCorrect, PTL

\* Configuring and parsing at the same time change none of this: what holds of
\* the registry alone holds of the process.
THEOREM GlobalsImplementRegistry == GlobalsSpec => RegistrySpec
<1>1. GlobalsInit => RegistryInit
  BY DEF GlobalsInit
<1>2. [GlobalsNext]_vars => [RegistryNext]_registryVars
  BY DEF GlobalsNext, StartCall, Step, Finished, CallRegistry, CallConfigure, CallParse, vars, RegistryNext
<1> QED BY <1>1, <1>2, PTL DEF GlobalsSpec, RegistrySpec

-----------------------------------------------------------------------------
(* Messages. *)


Parsing == {"resolve", "getter", "run", "nested", "error"}

\* The configuration a goroutine has loaded, and the current one, have been
\* current since its call began.
Loaded(g) ==
  /\ step[g] # "idle" => config \in during[g] /\ outcome[g] = None
  /\ step[g] \in {"nested", "error", "store"} => cfg[g] \in during[g]

\* The issues raised so far are those of the plan; each one's inner issues speak
\* for one configuration.
RaisedSoFar(g) ==
  /\ Len(raw[g]) <= Len(parse[g].plan)
  /\ \A i \in DOMAIN raw[g] : \E c \in during[g] :
       FinalizedWith(raw[g][i].inner, parse[g].plan[i].inner, parse[g].ctx, c)

Raised(g) ==
  /\ step[g] \in Parsing => parse[g] \in ParseCall /\ RaisedSoFar(g)
  /\ step[g] \in Parsing \ {"error"} => final[g] = <<>>

\* The issues finalized so far, of the next container or of the error.
Finalized(g) ==
  /\ step[g] = "nested" =>
       /\ MoreToRaise(g)
       /\ Len(nested[g]) <= Len(Due(g).inner)
       /\ \A i \in DOMAIN nested[g] :
            nested[g][i] = FinalizeIssue(Due(g).inner[i], parse[g].ctx, cfg[g])
  /\ step[g] = "error" =>
       /\ ~MoreToRaise(g) /\ raw[g] # <<>>
       /\ Len(final[g]) <= Len(raw[g])
       /\ \A i \in DOMAIN final[g] : final[g][i] = FinalizeIssue(raw[g][i], parse[g].ctx, cfg[g])

\* An error holds the issues of its plan, finalized with one configuration.
Reported(g) == Ended(g, "error") =>
  /\ parse[g] \in ParseCall /\ RaisedSoFar(g) /\ ~MoreToRaise(g)
  /\ \E c \in during[g] : FinalizedWith(final[g], raw[g], parse[g].ctx, c)

Local(g) == Loaded(g) /\ Raised(g) /\ Finalized(g) /\ Reported(g)

\* The getter runs in one parse, once.
GetterOnce ==
  /\ \A g \in Goroutine : step[g] = "getter" => getter = "running"
  /\ \A g, h \in Goroutine : step[g] = "getter" /\ step[h] = "getter" => g = h
  /\ inner => getter = "done"

\* A goroutine that configures alone has loaded the current configuration.
Configuring == \A g \in Goroutine :
  /\ step[g] \in {"load", "store"} => given[g] \in Config
  /\ step[g] = "store" /\ (\A h \in Goroutine \ {g} : given[h] = None) => cfg[g] = config

MInv ==
  /\ MessagesTypeOK /\ (\A g \in Goroutine : Local(g))
  /\ GetterOnce /\ GetterAllOrNothing /\ Configuring /\ ConfigureReturnsPrevious

-----------------------------------------------------------------------------
(* FinalizeIssue. *)

\* The first map that speaks is one of the chain.
LEMMA FirstSpeaker ==
  ASSUME NEW S \in SUBSET (1 .. 4), S # {}
  PROVE  Min(S) \in S
  <1>1. \E x \in S : \A y \in S : x <= y
    <2>0. \A y \in S : y \in {1, 2, 3, 4}
      OBVIOUS
    <2>1. CASE 1 \in S
      <3>1. 1 \in S /\ \A y \in S : 1 <= y
        BY <2>0, <2>1
      <3> QED
        BY <3>1
    <2>2. CASE 1 \notin S /\ 2 \in S
      <3>1. 2 \in S /\ \A y \in S : 2 <= y
        BY <2>0, <2>2
      <3> QED
        BY <3>1
    <2>3. CASE 1 \notin S /\ 2 \notin S /\ 3 \in S
      <3>1. 3 \in S /\ \A y \in S : 3 <= y
        BY <2>0, <2>3
      <3> QED
        BY <3>1
    <2>4. CASE 1 \notin S /\ 2 \notin S /\ 3 \notin S
      <3>0. \A y \in S : y = 4
        BY <2>0, <2>4
      <3>1. 4 \in S
        BY <3>0
      <3>2. \A y \in S : 4 <= y
        BY <3>0
      <3> QED
        BY <3>1, <3>2
    <2> QED
      BY <2>1, <2>2, <2>3, <2>4
  <1> QED
    BY <1>1 DEF Min

\* Every issue gets a message.
LEMMA MessageFacts ==
  ASSUME NEW iss, NEW ctx, NEW c \in Config
  PROVE  MessageOf(iss, ctx, c) \in Message
  <1> DEFINE S == Speakers(iss, ctx, c)
  <1>1. CASE S = {}
    BY <1>1 DEF MessageOf, Message
  <1>2. CASE S # {}
    <2>1. Min(S) \in 1 .. 4
      BY <1>2, FirstSpeaker DEF Speakers
    <2> DEFINE source == Chain(iss, ctx, c)[Min(S)]
    <2>2. source.by \in {"errMap", "ctx", "custom", "locale"} /\ source.of \in {None, c}
      BY <2>1 DEF Chain
    <2>3. MessageOf(iss, ctx, c) = [by |-> source.by, of |-> source.of]
      BY <1>2 DEF MessageOf
    <2> HIDE DEF source
    <2>4. \A x \in {"errMap", "ctx", "custom", "locale"}, y \in Config \cup {None} :
            [by |-> x, of |-> y] \in Message
      BY DEF Message
    <2> QED
      BY <2>2, <2>3, <2>4
  <1> QED
    BY <1>1, <1>2

\* What is left of an issue that was finalized: a message, no error map, and its
\* input only if the caller asked for it.
LEMMA FinalizeFacts ==
  ASSUME NEW nests, NEW iss \in IssueWith(nests), NEW ctx, NEW c \in Config
  PROVE  /\ FinalizeIssue(iss, ctx, c) \in IssueWith(nests)
         /\ FinalizeIssue(iss, ctx, c).message # Silent
         /\ FinalizeIssue(iss, ctx, c).errMap = NoMap
         /\ FinalizeIssue(iss, ctx, c).input => ctx.reportInput
         /\ FinalizeIssue(iss, ctx, c).inner = iss.inner
  <1> DEFINE m == IF iss.message = Silent THEN MessageOf(iss, ctx, c) ELSE iss.message
             b == iss.input /\ ctx.reportInput
  <1>1. m \in Message
    BY MessageFacts DEF IssueWith
  <1>2. m # Silent
    <2> HIDE DEF m
    <2>1. m.by # "none" /\ Silent.by = "none"
      BY <1>1 DEF Message, Silent
    <2> QED
      BY <2>1
  <1>3. b \in BOOLEAN /\ (b => ctx.reportInput)
    OBVIOUS
  <1>4. FinalizeIssue(iss, ctx, c) = [iss EXCEPT !.message = m, !.input = b, !.errMap = NoMap]
    BY DEF FinalizeIssue
  <1> HIDE DEF m, b
  <1> QED
    BY <1>1, <1>2, <1>3, <1>4 DEF IssueWith

-----------------------------------------------------------------------------
(* Facts the steps share. *)

\* The shape of the locals of a goroutine.
LEMMA LocalTypes ==
  ASSUME MessagesTypeOK, NEW g \in Goroutine
  PROVE  /\ raw[g] \in Seq(Issue) /\ Len(raw[g]) \in Nat /\ DOMAIN raw[g] = 1 .. Len(raw[g])
         /\ \A i \in DOMAIN raw[g] : raw[g][i] \in Issue
         /\ final[g] \in Seq(Issue) /\ Len(final[g]) \in Nat /\ DOMAIN final[g] = 1 .. Len(final[g])
         /\ nested[g] \in Seq(Leaf) /\ Len(nested[g]) \in Nat /\ DOMAIN nested[g] = 1 .. Len(nested[g])
  <1>1. raw[g] \in Seq(Issue) /\ final[g] \in Seq(Issue) /\ nested[g] \in Seq(Leaf)
    BY DEF MessagesTypeOK
  <1> QED
    BY <1>1, LenProperties, ElementOfSeq

\* The plan of a parse, and the issue that is due.
LEMMA DueFacts ==
  ASSUME MessagesTypeOK, NEW g \in Goroutine, parse[g] \in ParseCall
  PROVE  /\ parse[g].plan \in Seq(Issue) /\ Len(parse[g].plan) \in Nat
         /\ MoreToRaise(g) =>
              /\ Due(g) \in Issue /\ Due(g).inner \in Seq(Leaf) /\ Len(Due(g).inner) \in Nat
              /\ DOMAIN Due(g).inner = 1 .. Len(Due(g).inner)
              /\ \A i \in DOMAIN Due(g).inner : Due(g).inner[i] \in Leaf
  <1>1. parse[g].plan \in Seq(Issue) /\ Len(parse[g].plan) \in Nat
    BY MessagesAssumption, LenProperties DEF ParseCall
  <1>2. ASSUME MoreToRaise(g) PROVE Due(g) \in Issue
    <2>1. Len(raw[g]) + 1 \in 1 .. Len(parse[g].plan)
      BY <1>1, <1>2, LocalTypes DEF MoreToRaise
    <2> QED
      BY <1>1, <2>1, ElementOfSeq DEF Due
  <1>3. \A iss \in Issue : iss.inner \in Seq(Leaf)
    BY DEF Issue, IssueWith
  <1> QED
    BY <1>1, <1>2, <1>3, LenProperties, ElementOfSeq

\* What a goroutine holds survives a step of another one, whatever that one does
\* to the configuration.
LEMMA Bystander ==
  ASSUME NEW h \in Goroutine, Local(h), during[h] \subseteq during'[h],
         step[h] # "idle" => config' \in during'[h],
         step'[h] = step[h], parse'[h] = parse[h], cfg'[h] = cfg[h], raw'[h] = raw[h],
         final'[h] = final[h], nested'[h] = nested[h], outcome'[h] = outcome[h]
  PROVE  Local(h)'
  <1>1. Loaded(h)'
    BY DEF Local, Loaded
  <1>2. RaisedSoFar(h) => RaisedSoFar(h)'
    BY DEF RaisedSoFar
  <1>3. Raised(h)'
    BY <1>2 DEF Local, Raised
  <1>4. (MoreToRaise(h)' <=> MoreToRaise(h)) /\ Due(h)' = Due(h)
    BY DEF MoreToRaise, Due
  <1>5. Finalized(h)'
    BY <1>4 DEF Local, Finalized
  <1>6. Reported(h)'
    BY <1>2, <1>4 DEF Local, Reported, Ended
  <1> QED
    BY <1>1, <1>3, <1>5, <1>6 DEF Local

\* A step of a parse past its getter leaves the getter and Configure alone.
LEMMA ParseStep ==
  ASSUME MInv, NEW g \in Goroutine,
         step[g] \in {"run", "nested", "error"}, step'[g] \in {"run", "nested", "error", "idle"},
         \A h \in Goroutine : h # g => step'[h] = step[h] /\ outcome'[h] = outcome[h] /\ cfg'[h] = cfg[h],
         UNCHANGED <<config, getter, inner, given, during, replaced>>,
         outcome'[g] = outcome[g] \/ outcome'[g].status \in {"ok", "error"}
  PROVE  (GetterOnce /\ GetterAllOrNothing /\ Configuring /\ ConfigureReturnsPrevious)'
  <1>1. GetterOnce'
    BY DEF MInv, GetterOnce
  <1>2. GetterAllOrNothing'
    BY DEF MInv, GetterAllOrNothing, Ended
  <1>3. Configuring'
    BY DEF MInv, Configuring
  <1>4. ConfigureReturnsPrevious'
    BY DEF MInv, ConfigureReturnsPrevious, Ended
  <1> QED
    BY <1>1, <1>2, <1>3, <1>4

-----------------------------------------------------------------------------
(* The steps of Configure. *)

LEMMA MessagesInitInv == MessagesInit => MInv
  <1> SUFFICES ASSUME MessagesInit PROVE MInv
    OBVIOUS
  <1>1. MessagesTypeOK
    <2>1. <<>> \in Seq(Issue) /\ <<>> \in Seq(Leaf)
      OBVIOUS
    <2> QED
      BY <2>1 DEF MessagesInit, MessagesTypeOK
  <1>2. \A g \in Goroutine : Local(g)
    BY DEF MessagesInit, Local, Loaded, Raised, Finalized, Reported, Parsing, Ended
  <1>3. GetterOnce /\ GetterAllOrNothing /\ Configuring /\ ConfigureReturnsPrevious
    BY DEF MessagesInit, GetterOnce, GetterAllOrNothing, Configuring, ConfigureReturnsPrevious, Ended
  <1> QED
    BY <1>1, <1>2, <1>3 DEF MInv

LEMMA BeginConfigureInv ==
  ASSUME MInv, NEW g \in Goroutine, NEW c \in Config, BeginConfigure(g, c) PROVE MInv'
  <1>0. /\ MessagesTypeOK /\ (\A h \in Goroutine : Local(h))
        /\ GetterOnce /\ GetterAllOrNothing /\ Configuring /\ ConfigureReturnsPrevious
    BY DEF MInv
  <1>1. /\ step[g] = "idle" /\ step'[g] = "load" /\ given'[g] = c /\ outcome'[g] = None
        /\ during'[g] = {config}
        /\ \A h \in Goroutine : h # g =>
             /\ step'[h] = step[h] /\ given'[h] = given[h] /\ outcome'[h] = outcome[h]
             /\ during'[h] = during[h]
        /\ UNCHANGED <<config, getter, inner, parse, cfg, raw, final, nested, replaced>>
    BY <1>0 DEF BeginConfigure, Jump, MessagesTypeOK
  <1>2. MessagesTypeOK'
    BY <1>0 DEF BeginConfigure, Jump, MessagesTypeOK
  <1>3. \A h \in Goroutine : Local(h)'
    <2>1. \A h \in Goroutine : h # g => Local(h)'
      BY <1>0, <1>1, Bystander DEF Local, Loaded
    <2>2. Local(g)'
      BY <1>0, <1>1 DEF Local, Loaded, Raised, Finalized, Reported, Parsing, Ended
    <2> QED
      BY <2>1, <2>2
  <1>4. GetterOnce'
    BY <1>0, <1>1 DEF GetterOnce
  <1>5. GetterAllOrNothing'
    BY <1>0, <1>1 DEF GetterAllOrNothing, Ended
  <1>6. Configuring'
    BY <1>0, <1>1, MessagesAssumption DEF Configuring
  <1>7. ConfigureReturnsPrevious'
    BY <1>0, <1>1, MessagesAssumption DEF ConfigureReturnsPrevious, Ended
  <1> QED
    BY <1>2, <1>3, <1>4, <1>5, <1>6, <1>7 DEF MInv

LEMMA LoadPreviousInv == ASSUME MInv, NEW g \in Goroutine, LoadPrevious(g) PROVE MInv'
  <1>0. /\ MessagesTypeOK /\ (\A h \in Goroutine : Local(h))
        /\ GetterOnce /\ GetterAllOrNothing /\ Configuring /\ ConfigureReturnsPrevious
    BY DEF MInv
  <1>1. /\ step[g] = "load" /\ step'[g] = "store" /\ cfg'[g] = config
        /\ \A h \in Goroutine : h # g => step'[h] = step[h] /\ cfg'[h] = cfg[h]
        /\ UNCHANGED <<config, getter, inner, parse, given, raw, final, nested, outcome, during, replaced>>
    BY <1>0 DEF LoadPrevious, Jump, MessagesTypeOK
  <1>2. MessagesTypeOK'
    BY <1>0 DEF LoadPrevious, Jump, MessagesTypeOK
  <1>3. \A h \in Goroutine : Local(h)'
    <2>1. \A h \in Goroutine : h # g => Local(h)'
      BY <1>0, <1>1, Bystander DEF Local, Loaded
    <2>2. Local(g)'
      BY <1>0, <1>1 DEF Local, Loaded, Raised, Finalized, Reported, Parsing, Ended
    <2> QED
      BY <2>1, <2>2
  <1>4. GetterOnce'
    BY <1>0, <1>1 DEF GetterOnce
  <1>5. GetterAllOrNothing'
    BY <1>0, <1>1 DEF GetterAllOrNothing, Ended
  <1>6. Configuring'
    BY <1>0, <1>1 DEF Configuring
  <1>7. ConfigureReturnsPrevious'
    BY <1>0, <1>1 DEF ConfigureReturnsPrevious, Ended
  <1> QED
    BY <1>2, <1>3, <1>4, <1>5, <1>6, <1>7 DEF MInv

\* The one step that changes the configuration: every call that is running has
\* the new one in its window.
LEMMA StoreNewInv == ASSUME MInv, NEW g \in Goroutine, StoreNew(g) PROVE MInv'
  <1>0. /\ MessagesTypeOK /\ (\A h \in Goroutine : Local(h))
        /\ GetterOnce /\ GetterAllOrNothing /\ Configuring /\ ConfigureReturnsPrevious
    BY DEF MInv
  <1>1. /\ step[g] = "store" /\ step'[g] = "idle" /\ config' = given[g]
        /\ replaced'[g] = config
        /\ outcome'[g] = [status |-> "replaced", prev |-> cfg[g]]
        /\ during'[g] = during[g] /\ cfg[g] \in during[g] /\ given[g] \in Config
        /\ \A h \in Goroutine : h # g =>
             /\ step'[h] = step[h] /\ outcome'[h] = outcome[h] /\ replaced'[h] = replaced[h]
             /\ during'[h] = IF step[h] = "idle" THEN during[h] ELSE during[h] \cup {given[g]}
        /\ UNCHANGED <<getter, inner, parse, cfg, given, raw, final, nested>>
    BY <1>0 DEF StoreNew, Replace, Jump, MessagesTypeOK, Local, Loaded, Configuring
  <1>2. MessagesTypeOK'
    <2>1. during' \in [Goroutine -> SUBSET Config]
      BY <1>0, <1>1 DEF StoreNew, Replace, MessagesTypeOK
    <2>2. outcome' \in [Goroutine -> {None} \cup Outcome]
      <3>1. [status |-> "replaced", prev |-> cfg[g]] \in Outcome
        BY <1>0, <1>1 DEF MessagesTypeOK, Outcome
      <3> QED
        BY <1>0, <3>1 DEF StoreNew, MessagesTypeOK
    <2> QED
      BY <1>0, <1>1, <2>1, <2>2 DEF StoreNew, Replace, Jump, MessagesTypeOK
  <1>3. \A h \in Goroutine : Local(h)'
    <2>1. \A h \in Goroutine : h # g => Local(h)'
      BY <1>0, <1>1, Bystander DEF Local, Loaded
    <2>2. Local(g)'
      BY <1>0, <1>1 DEF Local, Loaded, Raised, Finalized, Reported, Parsing, Ended
    <2> QED
      BY <2>1, <2>2
  <1>4. GetterOnce'
    BY <1>0, <1>1 DEF GetterOnce
  <1>5. GetterAllOrNothing'
    <2>1. \A h \in Goroutine, s \in {"nil inner", "getter panic"} : Ended(h, s)' => Ended(h, s)
      <3> TAKE h \in Goroutine, s \in {"nil inner", "getter panic"}
      <3>1. outcome'[g].status = "replaced"
        <4>1. outcome'[g] = [status |-> "replaced", prev |-> cfg[g]]
          BY <1>1
        <4>2. \A p : [status |-> "replaced", prev |-> p].status = "replaced"
          OBVIOUS
        <4> QED
          BY <4>1, <4>2, Zenon
      <3>2. CASE h = g
        BY <3>1, <3>2 DEF Ended
      <3>3. CASE h # g
        BY <1>0, <1>1, <3>3 DEF Ended
      <3> QED
        BY <3>2, <3>3
    <2> QED
      BY <1>0, <1>1, <2>1 DEF GetterAllOrNothing
  <1>6. Configuring'
    BY <1>0, <1>1, MessagesAssumption DEF Configuring
  <1>7. ConfigureReturnsPrevious'
    <2>1. (\A h \in Goroutine \ {g} : given[h] = None) => cfg[g] = config
      BY <1>0, <1>1 DEF Configuring
    <2>2. \A h \in Goroutine : h # g => during[h] \subseteq during'[h]
      BY <1>0, <1>1
    <2> SUFFICES ASSUME NEW h \in Goroutine, Ended(h, "replaced")'
                 PROVE  /\ outcome'[h].prev \in during'[h]
                        /\ (\A k \in Goroutine \ {h} : given[k] = None) => outcome'[h].prev = replaced'[h]
      BY <1>0, <1>1 DEF ConfigureReturnsPrevious
    <2>3. CASE h = g
      BY <1>0, <1>1, <2>1, <2>3
    <2>4. CASE h # g
      BY <1>0, <1>1, <2>2, <2>4 DEF ConfigureReturnsPrevious, Ended
    <2> QED
      BY <2>3, <2>4
  <1> QED
    BY <1>2, <1>3, <1>4, <1>5, <1>6, <1>7 DEF MInv

-----------------------------------------------------------------------------
(* The steps of a parse. *)

LEMMA BeginParseInv ==
  ASSUME MInv, NEW g \in Goroutine, NEW ctx \in ParseCtxs, NEW plan \in Plans, BeginParse(g, ctx, plan)
  PROVE  MInv'
  <1>0. /\ MessagesTypeOK /\ (\A h \in Goroutine : Local(h))
        /\ GetterOnce /\ GetterAllOrNothing /\ Configuring /\ ConfigureReturnsPrevious
    BY DEF MInv
  <1>1. /\ step[g] = "idle" /\ step'[g] = "resolve" /\ parse'[g] = [ctx |-> ctx, plan |-> plan]
        /\ raw'[g] = <<>> /\ final'[g] = <<>> /\ outcome'[g] = None /\ during'[g] = {config}
        /\ \A h \in Goroutine : h # g =>
             /\ step'[h] = step[h] /\ parse'[h] = parse[h] /\ raw'[h] = raw[h]
             /\ final'[h] = final[h] /\ outcome'[h] = outcome[h] /\ during'[h] = during[h]
        /\ UNCHANGED <<config, getter, inner, cfg, given, nested, replaced>>
    BY <1>0 DEF BeginParse, Jump, MessagesTypeOK
  <1>2. parse'[g] \in ParseCall
    BY <1>0, <1>1 DEF ParseCall
  <1>3. MessagesTypeOK'
    <2>1. <<>> \in Seq(Issue)
      OBVIOUS
    <2>2. parse' \in [Goroutine -> {None} \cup ParseCall]
      BY <1>0, <1>1, <1>2 DEF BeginParse, MessagesTypeOK
    <2> QED
      BY <1>0, <2>1, <2>2 DEF BeginParse, Jump, MessagesTypeOK
  <1>4. \A h \in Goroutine : Local(h)'
    <2>1. \A h \in Goroutine : h # g => Local(h)'
      BY <1>0, <1>1, Bystander DEF Local, Loaded
    <2>2. RaisedSoFar(g)'
      <3>1. plan \in Seq(Issue) /\ Len(plan) \in Nat
        BY MessagesAssumption, LenProperties
      <3>2. Len(raw'[g]) = 0 /\ DOMAIN raw'[g] = {}
        BY <1>0, <1>1
      <3> QED
        BY <1>0, <1>1, <3>1, <3>2 DEF RaisedSoFar
    <2>3. Local(g)'
      BY <1>0, <1>1, <1>2, <2>2 DEF Local, Loaded, Raised, Finalized, Reported, Parsing, Ended
    <2> QED
      BY <2>1, <2>3
  <1>5. GetterOnce'
    BY <1>0, <1>1 DEF GetterOnce
  <1>6. GetterAllOrNothing'
    BY <1>0, <1>1 DEF GetterAllOrNothing, Ended
  <1>7. Configuring'
    BY <1>0, <1>1 DEF Configuring
  <1>8. ConfigureReturnsPrevious'
    BY <1>0, <1>1 DEF ConfigureReturnsPrevious, Ended
  <1> QED
    BY <1>3, <1>4, <1>5, <1>6, <1>7, <1>8 DEF MInv

\* once.Do: the getter starts, ends, or has ended.
LEMMA GetterInv ==
  ASSUME MInv, NEW g \in Goroutine, RunGetter(g) \/ GetterEnds(g) \/ Resolved(g)
  PROVE  MInv'
  <1>0. /\ MessagesTypeOK /\ (\A h \in Goroutine : Local(h))
        /\ GetterOnce /\ GetterAllOrNothing /\ Configuring /\ ConfigureReturnsPrevious
    BY DEF MInv
  <1>1. /\ step[g] \in {"resolve", "getter"} /\ step'[g] \in {"getter", "run", "idle"}
        /\ outcome'[g] \in {outcome[g], [status |-> "getter panic"], [status |-> "nil inner"]}
        /\ outcome'[g] # outcome[g] => step'[g] = "idle"
        /\ \A h \in Goroutine : h # g => step'[h] = step[h] /\ outcome'[h] = outcome[h]
        /\ UNCHANGED <<config, parse, cfg, given, raw, final, nested, during, replaced>>
    BY <1>0 DEF RunGetter, GetterEnds, Resolved, Jump, MessagesTypeOK
  <1>2. MessagesTypeOK'
    <2>1. outcome' \in [Goroutine -> {None} \cup Outcome]
      <3>1. [status |-> "getter panic"] \in Outcome /\ [status |-> "nil inner"] \in Outcome
        BY DEF Outcome
      <3> QED
        BY <1>0, <3>1 DEF RunGetter, GetterEnds, Resolved, MessagesTypeOK
    <2> QED
      BY <1>0, <1>1, <2>1 DEF RunGetter, GetterEnds, Resolved, Jump, MessagesTypeOK
  <1>3. ~Ended(g, "error")' /\ ~Ended(g, "replaced")'
    <2>1. outcome[g] = None
      BY <1>0, <1>1 DEF Local, Loaded
    <2>2. outcome'[g] \in {None, [status |-> "getter panic"], [status |-> "nil inner"]}
      BY <1>1, <2>1
    <2>3. [status |-> "getter panic"].status \notin {"error", "replaced"}
          /\ [status |-> "nil inner"].status \notin {"error", "replaced"}
      OBVIOUS
    <2> QED
      BY <2>2, <2>3 DEF Ended
  <1>4. \A h \in Goroutine : Local(h)'
    <2>1. \A h \in Goroutine : h # g => Local(h)'
      BY <1>0, <1>1, Bystander DEF Local, Loaded
    <2>2. RaisedSoFar(g)' <=> RaisedSoFar(g)
      BY <1>0, <1>1 DEF RaisedSoFar
    <2>3. Local(g)'
      BY <1>0, <1>1, <1>3, <2>2 DEF Local, Loaded, Raised, Finalized, Reported, Parsing
    <2> QED
      BY <2>1, <2>3
  <1>5. GetterOnce' /\ GetterAllOrNothing'
    <2>0. \A h \in Goroutine : h # g => \A s : Ended(h, s)' <=> Ended(h, s)
      BY <1>1 DEF Ended
    <2>1. CASE RunGetter(g)
      <3>1. getter = "unused" /\ getter' = "running" /\ UNCHANGED <<inner, outcome>> /\ step'[g] = "getter"
        BY <1>0, <2>1 DEF RunGetter, Jump, MessagesTypeOK
      <3>2. \A h \in Goroutine : \A s : Ended(h, s)' <=> Ended(h, s)
        BY <3>1 DEF Ended
      <3> QED
        BY <1>0, <1>1, <3>1, <3>2 DEF GetterOnce, GetterAllOrNothing
    <2>2. CASE GetterEnds(g)
      <3>1. step[g] = "getter" /\ getter = "running" /\ getter' = "done" /\ ~inner
            /\ \A h \in Goroutine : ~Ended(h, "nil inner") /\ ~Ended(h, "getter panic")
        BY <1>0, <2>2 DEF GetterEnds, GetterOnce, GetterAllOrNothing
      <3>2. CASE inner' /\ step'[g] = "run" /\ outcome'[g] = outcome[g]
        <4>1. \A h \in Goroutine : \A s : Ended(h, s)' <=> Ended(h, s)
          BY <1>1, <3>2 DEF Ended
        <4> QED
          BY <1>0, <1>1, <3>1, <3>2, <4>1 DEF GetterOnce, GetterAllOrNothing
      <3>3. CASE inner' = inner /\ step'[g] = "idle"
        BY <1>0, <1>1, <3>1, <3>3 DEF GetterOnce, GetterAllOrNothing
      <3> QED
        BY <1>0, <2>2, <3>2, <3>3 DEF GetterEnds, Jump, MessagesTypeOK
    <2>3. CASE Resolved(g)
      <3>1. step[g] = "resolve" /\ getter = "done" /\ UNCHANGED <<getter, inner>>
        BY <2>3 DEF Resolved
      <3>2. CASE inner
        <4>1. step'[g] = "run" /\ UNCHANGED outcome
          BY <1>0, <2>3, <3>2 DEF Resolved, Jump, MessagesTypeOK
        <4>2. \A h \in Goroutine : \A s : Ended(h, s)' <=> Ended(h, s)
          BY <4>1 DEF Ended
        <4> QED
          BY <1>0, <1>1, <3>1, <3>2, <4>1, <4>2 DEF GetterOnce, GetterAllOrNothing
      <3>3. CASE ~inner
        <4>1. step'[g] = "idle"
          BY <1>0, <2>3, <3>3 DEF Resolved, Jump, MessagesTypeOK
        <4> QED
          BY <1>0, <1>1, <3>1, <3>3, <4>1 DEF GetterOnce, GetterAllOrNothing
      <3> QED
        BY <3>2, <3>3
    <2> QED
      BY <2>1, <2>2, <2>3
  <1>6. Configuring'
    BY <1>0, <1>1 DEF Configuring
  <1>7. ConfigureReturnsPrevious'
    <2>1. \A h \in Goroutine : Ended(h, "replaced")' => h # g /\ Ended(h, "replaced")
      BY <1>0, <1>1, <1>3 DEF Ended
    <2> QED
      BY <1>0, <1>1, <2>1 DEF ConfigureReturnsPrevious
  <1> QED
    BY <1>2, <1>4, <1>5, <1>6, <1>7 DEF MInv

\* The configuration is loaded for the inner issues of a container, or for the error.
LEMMA LoadInv == ASSUME MInv, NEW g \in Goroutine, LoadForNested(g) \/ LoadForError(g) PROVE MInv'
  <1>0. /\ MessagesTypeOK /\ (\A h \in Goroutine : Local(h))
        /\ GetterOnce /\ GetterAllOrNothing /\ Configuring /\ ConfigureReturnsPrevious
    BY DEF MInv
  <1>1. /\ step[g] = "run" /\ step'[g] \in {"nested", "error"} /\ cfg'[g] = config
        /\ \A h \in Goroutine : h # g =>
             step'[h] = step[h] /\ cfg'[h] = cfg[h] /\ nested'[h] = nested[h]
        /\ UNCHANGED <<config, getter, inner, parse, given, raw, final, outcome, during, replaced>>
        /\ step'[g] = "nested" => MoreToRaise(g) /\ nested'[g] = <<>>
        /\ step'[g] = "error" => ~MoreToRaise(g) /\ raw[g] # <<>>
    BY <1>0 DEF LoadForNested, LoadForError, Jump, MessagesTypeOK
  <1>2. MessagesTypeOK'
    <2>1. <<>> \in Seq(Leaf)
      OBVIOUS
    <2>2. cfg' \in [Goroutine -> {None} \cup Config] /\ nested' \in [Goroutine -> Seq(Leaf)]
      BY <1>0, <2>1 DEF LoadForNested, LoadForError, MessagesTypeOK
    <2> QED
      BY <1>0, <1>1, <2>2 DEF LoadForNested, LoadForError, Jump, MessagesTypeOK
  <1>3. \A h \in Goroutine : Local(h)'
    <2>1. \A h \in Goroutine : h # g => Local(h)'
      BY <1>0, <1>1, Bystander DEF Local, Loaded
    <2>2. /\ RaisedSoFar(g)' <=> RaisedSoFar(g)
          /\ MoreToRaise(g)' <=> MoreToRaise(g)
          /\ Due(g)' = Due(g)
      BY <1>0, <1>1 DEF RaisedSoFar, MoreToRaise, Due
    <2>3. parse[g] \in ParseCall /\ final[g] = <<>> /\ outcome[g] = None
      BY <1>0, <1>1 DEF Local, Loaded, Raised, Parsing
    <2>4. Loaded(g)' /\ Raised(g)' /\ Reported(g)'
      BY <1>0, <1>1, <2>2, <2>3 DEF Local, Loaded, Raised, Reported, Parsing, Ended
    <2>5. Finalized(g)'
      <3>1. step'[g] = "nested" => Len(Due(g).inner) \in Nat /\ Len(nested'[g]) = 0 /\ DOMAIN nested'[g] = {}
        BY <1>0, <1>1, <2>3, DueFacts
      <3>2. Len(raw[g]) \in Nat /\ Len(final[g]) = 0 /\ DOMAIN final[g] = {}
        BY <2>3, LocalTypes
      <3> QED
        BY <1>0, <1>1, <2>2, <3>1, <3>2 DEF Finalized
    <2> QED
      BY <2>1, <2>4, <2>5 DEF Local
  <1>4. (GetterOnce /\ GetterAllOrNothing /\ Configuring /\ ConfigureReturnsPrevious)'
    BY <1>0, <1>1, ParseStep
  <1> QED
    BY <1>2, <1>3, <1>4 DEF MInv

\* finalizeNestedIssues: the next inner issue of a container.
LEMMA FinalizeNestedInv == ASSUME MInv, NEW g \in Goroutine, FinalizeNested(g) PROVE MInv'
  <1>0. MessagesTypeOK /\ \A h \in Goroutine : Local(h)
    BY DEF MInv
  <1> DEFINE k == Len(nested[g]) + 1
             new == FinalizeIssue(Due(g).inner[k], parse[g].ctx, cfg[g])
  <1>1. /\ step[g] = "nested" /\ Len(nested[g]) < Len(Due(g).inner)
        /\ nested'[g] = Append(nested[g], new)
        /\ \A h \in Goroutine : h # g => nested'[h] = nested[h]
        /\ UNCHANGED <<config, getter, inner, step, parse, cfg, given, raw, final, outcome, during, replaced>>
    BY <1>0 DEF FinalizeNested, MessagesTypeOK
  <1>2. /\ parse[g] \in ParseCall /\ MoreToRaise(g) /\ cfg[g] \in during[g] /\ cfg[g] \in Config
        /\ \A i \in DOMAIN nested[g] :
             nested[g][i] = FinalizeIssue(Due(g).inner[i], parse[g].ctx, cfg[g])
    <2>1. during[g] \subseteq Config
      BY <1>0 DEF MessagesTypeOK
    <2> QED
      BY <1>0, <1>1, <2>1 DEF Local, Loaded, Raised, Finalized, Parsing
  <1>3. /\ Len(nested[g]) \in Nat /\ nested[g] \in Seq(Leaf) /\ DOMAIN nested[g] = 1 .. Len(nested[g])
        /\ Len(Due(g).inner) \in Nat /\ Due(g).inner[k] \in Leaf
    BY <1>0, <1>1, <1>2, LocalTypes, DueFacts
  <1>4. new \in Leaf
    BY <1>2, <1>3, FinalizeFacts DEF Leaf
  <1> HIDE DEF new
  <1>5. /\ nested'[g] \in Seq(Leaf) /\ Len(nested'[g]) = k /\ DOMAIN nested'[g] = 1 .. k
        /\ \A i \in 1 .. k : nested'[g][i] = IF i < k THEN nested[g][i] ELSE new
    BY <1>1, <1>3, <1>4, AppendProperties
  <1>6. MessagesTypeOK'
    <2>1. nested' \in [Goroutine -> Seq(Leaf)]
      BY <1>0, <1>1, <1>5 DEF FinalizeNested, MessagesTypeOK
    <2> QED
      BY <1>0, <1>1, <2>1 DEF MessagesTypeOK
  <1>7. \A h \in Goroutine : Local(h)'
    <2>1. \A h \in Goroutine : h # g => Local(h)'
      BY <1>0, <1>1, Bystander DEF Local, Loaded
    <2>2. /\ RaisedSoFar(g)' <=> RaisedSoFar(g)
          /\ MoreToRaise(g)' <=> MoreToRaise(g)
          /\ Due(g)' = Due(g)
      BY <1>1 DEF RaisedSoFar, MoreToRaise, Due
    <2>3. Loaded(g)' /\ Raised(g)' /\ Reported(g)'
      BY <1>0, <1>1, <2>2 DEF Local, Loaded, Raised, Reported, Parsing, Ended
    <2>4. Finalized(g)'
      <3>1. \A i \in 1 .. k : nested'[g][i] = FinalizeIssue(Due(g).inner[i], parse[g].ctx, cfg[g])
        <4> TAKE i \in 1 .. k
        <4>1. CASE i < k
          BY <1>2, <1>3, <1>5, <4>1
        <4>2. CASE i = k
          BY <1>3, <1>5, <4>2 DEF new
        <4> QED
          BY <1>3, <4>1, <4>2
      <3>2. k <= Len(Due(g).inner)
        BY <1>1, <1>3
      <3> HIDE DEF k
      <3> QED
        BY <1>1, <1>2, <1>5, <2>2, <3>1, <3>2 DEF Finalized
    <2> QED
      BY <2>1, <2>3, <2>4 DEF Local
  <1>8. (GetterOnce /\ GetterAllOrNothing /\ Configuring /\ ConfigureReturnsPrevious)'
    BY <1>1, ParseStep
  <1> QED
    BY <1>6, <1>7, <1>8 DEF MInv

\* The next issue of the plan is raised, with its inner issues finalized.
LEMMA AddIssueInv == ASSUME MInv, NEW g \in Goroutine, AddIssue(g) PROVE MInv'
  <1>0. MessagesTypeOK /\ \A h \in Goroutine : Local(h)
    BY DEF MInv
  <1> DEFINE k == Len(raw[g]) + 1
             nests == IF Due(g).inner = <<>> THEN <<>> ELSE nested[g]
             new == [Due(g) EXCEPT !.inner = nests]
  <1>1. /\ step[g] \in {"run", "nested"} /\ step'[g] = "run"
        /\ step[g] = "run" => MoreToRaise(g) /\ Due(g).inner = <<>>
        /\ step[g] = "nested" => Len(nested[g]) = Len(Due(g).inner)
        /\ raw'[g] = Append(raw[g], new)
        /\ \A h \in Goroutine : h # g => raw'[h] = raw[h] /\ step'[h] = step[h]
        /\ UNCHANGED <<config, getter, inner, parse, cfg, given, final, nested, outcome, during, replaced>>
    BY <1>0 DEF AddIssue, Jump, MessagesTypeOK
  <1>2. /\ parse[g] \in ParseCall /\ MoreToRaise(g) /\ RaisedSoFar(g) /\ final[g] = <<>>
        /\ config \in during[g] /\ outcome[g] = None
        /\ step[g] = "nested" => cfg[g] \in during[g]
    BY <1>0, <1>1 DEF Local, Loaded, Raised, Finalized, Parsing
  <1>3. /\ Len(raw[g]) \in Nat /\ raw[g] \in Seq(Issue) /\ DOMAIN raw[g] = 1 .. Len(raw[g])
        /\ nested[g] \in Seq(Leaf) /\ DOMAIN nested[g] = 1 .. Len(nested[g])
        /\ Due(g) \in Issue /\ Len(Due(g).inner) \in Nat
        /\ DOMAIN Due(g).inner = 1 .. Len(Due(g).inner)
        /\ Len(parse[g].plan) \in Nat
    BY <1>0, <1>2, LocalTypes, DueFacts
  <1>4. \E c \in during[g] : FinalizedWith(nests, Due(g).inner, parse[g].ctx, c)
    <2>1. CASE Due(g).inner = <<>>
      <3>1. FinalizedWith(nests, Due(g).inner, parse[g].ctx, config)
        BY <2>1 DEF FinalizedWith
      <3> QED
        BY <1>2, <3>1
    <2>2. CASE Due(g).inner # <<>>
      <3>1. step[g] = "nested" /\ nests = nested[g]
        BY <1>1, <2>2
      <3>2. \A i \in DOMAIN nested[g] :
              nested[g][i] = FinalizeIssue(Due(g).inner[i], parse[g].ctx, cfg[g])
        BY <1>0, <3>1 DEF Local, Finalized
      <3>3. FinalizedWith(nests, Due(g).inner, parse[g].ctx, cfg[g])
        BY <1>1, <1>3, <3>1, <3>2 DEF FinalizedWith
      <3> QED
        BY <1>2, <3>1, <3>3
    <2> QED
      BY <2>1, <2>2
  <1>5. new \in Issue /\ new.inner = nests
    <2>1. nests \in Seq(Leaf)
      BY <1>3
    <2> HIDE DEF nests
    <2> QED
      BY <1>3, <2>1 DEF Issue, IssueWith
  <1> HIDE DEF new, nests
  <1>6. /\ raw'[g] \in Seq(Issue) /\ Len(raw'[g]) = k /\ DOMAIN raw'[g] = 1 .. k
        /\ \A i \in 1 .. k : raw'[g][i] = IF i < k THEN raw[g][i] ELSE new
    BY <1>1, <1>3, <1>5, AppendProperties
  <1>7. MessagesTypeOK'
    <2>1. raw' \in [Goroutine -> Seq(Issue)]
      <3>1. raw' = [raw EXCEPT ![g] = raw'[g]]
        BY <1>0, <1>6 DEF AddIssue, MessagesTypeOK
      <3> QED
        BY <1>0, <1>6, <3>1 DEF MessagesTypeOK
    <2>2. step' \in [Goroutine -> {"idle", "load", "store", "resolve", "getter", "run", "nested", "error"}]
      BY <1>0 DEF AddIssue, Jump, MessagesTypeOK
    <2> QED
      BY <1>0, <1>1, <2>1, <2>2 DEF MessagesTypeOK
  <1>8. \A h \in Goroutine : Local(h)'
    <2>1. \A h \in Goroutine : h # g => Local(h)'
      BY <1>0, <1>1, Bystander DEF Local, Loaded
    <2>2. RaisedSoFar(g)'
      <3>1. k <= Len(parse[g].plan)
        BY <1>2, <1>3 DEF MoreToRaise
      <3>2. ASSUME NEW i \in 1 .. k
            PROVE  \E c \in during[g] :
                     FinalizedWith(raw'[g][i].inner, parse[g].plan[i].inner, parse[g].ctx, c)
        <4>1. CASE i < k
          <5>1. i \in DOMAIN raw[g] /\ raw'[g][i] = raw[g][i]
            BY <1>3, <1>6, <4>1
          <5> QED
            BY <1>2, <5>1 DEF RaisedSoFar
        <4>2. CASE i = k
          <5>1. raw'[g][i].inner = nests /\ parse[g].plan[i] = Due(g)
            BY <1>3, <1>5, <1>6, <4>2 DEF Due
          <5> QED
            BY <1>4, <5>1
        <4> QED
          BY <1>3, <4>1, <4>2
      <3> HIDE DEF k
      <3> QED
        BY <1>1, <1>6, <3>1, <3>2 DEF RaisedSoFar
    <2>3. Local(g)'
      BY <1>0, <1>1, <1>2, <2>2 DEF Local, Loaded, Raised, Finalized, Reported, Parsing, Ended
    <2> QED
      BY <2>1, <2>3
  <1>9. (GetterOnce /\ GetterAllOrNothing /\ Configuring /\ ConfigureReturnsPrevious)'
    BY <1>1, ParseStep
  <1> QED
    BY <1>7, <1>8, <1>9 DEF MInv

\* newError: the next issue of the error.
LEMMA FinalizeTopInv == ASSUME MInv, NEW g \in Goroutine, FinalizeTop(g) PROVE MInv'
  <1>0. MessagesTypeOK /\ \A h \in Goroutine : Local(h)
    BY DEF MInv
  <1> DEFINE k == Len(final[g]) + 1
             new == FinalizeIssue(raw[g][k], parse[g].ctx, cfg[g])
  <1>1. /\ step[g] = "error" /\ Len(final[g]) < Len(raw[g])
        /\ final'[g] = Append(final[g], new)
        /\ \A h \in Goroutine : h # g => final'[h] = final[h]
        /\ UNCHANGED <<config, getter, inner, step, parse, cfg, given, raw, nested, outcome, during, replaced>>
    BY <1>0 DEF FinalizeTop, MessagesTypeOK
  <1>2. /\ cfg[g] \in during[g] /\ cfg[g] \in Config
        /\ \A i \in DOMAIN final[g] : final[g][i] = FinalizeIssue(raw[g][i], parse[g].ctx, cfg[g])
        /\ ~MoreToRaise(g) /\ raw[g] # <<>> /\ outcome[g] = None
    <2>1. during[g] \subseteq Config
      BY <1>0 DEF MessagesTypeOK
    <2> QED
      BY <1>0, <1>1, <2>1 DEF Local, Loaded, Finalized
  <1>3. /\ Len(final[g]) \in Nat /\ final[g] \in Seq(Issue) /\ DOMAIN final[g] = 1 .. Len(final[g])
        /\ Len(raw[g]) \in Nat /\ raw[g][k] \in Issue
    BY <1>0, <1>1, LocalTypes
  <1>4. new \in Issue
    BY <1>2, <1>3, FinalizeFacts DEF Issue
  <1> HIDE DEF new
  <1>5. /\ final'[g] \in Seq(Issue) /\ Len(final'[g]) = k /\ DOMAIN final'[g] = 1 .. k
        /\ \A i \in 1 .. k : final'[g][i] = IF i < k THEN final[g][i] ELSE new
    BY <1>1, <1>3, <1>4, AppendProperties
  <1>6. MessagesTypeOK'
    <2>1. final' \in [Goroutine -> Seq(Issue)]
      BY <1>0, <1>1, <1>5 DEF FinalizeTop, MessagesTypeOK
    <2> QED
      BY <1>0, <1>1, <2>1 DEF MessagesTypeOK
  <1>7. \A h \in Goroutine : Local(h)'
    <2>1. \A h \in Goroutine : h # g => Local(h)'
      BY <1>0, <1>1, Bystander DEF Local, Loaded
    <2>2. (RaisedSoFar(g)' <=> RaisedSoFar(g)) /\ (MoreToRaise(g)' <=> MoreToRaise(g))
      BY <1>1 DEF RaisedSoFar, MoreToRaise
    <2>3. Loaded(g)' /\ Raised(g)' /\ Reported(g)'
      BY <1>0, <1>1, <1>2, <2>2 DEF Local, Loaded, Raised, Reported, Parsing, Ended
    <2>4. Finalized(g)'
      <3>1. \A i \in 1 .. k : final'[g][i] = FinalizeIssue(raw[g][i], parse[g].ctx, cfg[g])
        <4> TAKE i \in 1 .. k
        <4>1. CASE i < k
          BY <1>2, <1>3, <1>5, <4>1
        <4>2. CASE i = k
          BY <1>3, <1>5, <4>2 DEF new
        <4> QED
          BY <1>3, <4>1, <4>2
      <3>2. k <= Len(raw[g])
        BY <1>1, <1>3
      <3> HIDE DEF k
      <3> QED
        BY <1>1, <1>2, <1>5, <2>2, <3>1, <3>2 DEF Finalized
    <2> QED
      BY <2>1, <2>3, <2>4 DEF Local
  <1>8. (GetterOnce /\ GetterAllOrNothing /\ Configuring /\ ConfigureReturnsPrevious)'
    BY <1>1, ParseStep
  <1> QED
    BY <1>6, <1>7, <1>8 DEF MInv

\* A parse returns, with an error or without one.
LEMMA EndParseInv == ASSUME MInv, NEW g \in Goroutine, EndParse(g) PROVE MInv'
  <1>0. MessagesTypeOK /\ \A h \in Goroutine : Local(h)
    BY DEF MInv
  <1> DEFINE status == IF raw[g] = <<>> THEN "ok" ELSE "error"
  <1>1. /\ step[g] \in {"run", "error"} /\ step'[g] = "idle"
        /\ step[g] = "error" => Len(final[g]) = Len(raw[g])
        /\ step[g] = "run" => parse[g].plan = <<>>
        /\ outcome'[g] = [status |-> status]
        /\ \A h \in Goroutine : h # g => step'[h] = step[h] /\ outcome'[h] = outcome[h]
        /\ UNCHANGED <<config, getter, inner, parse, cfg, given, raw, final, nested, during, replaced>>
    BY <1>0 DEF EndParse, Jump, MessagesTypeOK
  <1>2. outcome'[g].status = status /\ status \in {"ok", "error"} /\ (status = "error" => raw[g] # <<>>)
    <2>1. \A x : [status |-> x].status = x
      OBVIOUS
    <2> QED
      BY <1>1, <2>1, Zenon
  <1>3. MessagesTypeOK'
    <2>1. [status |-> status] \in Outcome
      BY DEF Outcome
    <2>2. outcome' \in [Goroutine -> {None} \cup Outcome]
      BY <1>0, <2>1 DEF EndParse, MessagesTypeOK
    <2>3. step' \in [Goroutine -> {"idle", "load", "store", "resolve", "getter", "run", "nested", "error"}]
      BY <1>0 DEF EndParse, Jump, MessagesTypeOK
    <2> QED
      BY <1>0, <1>1, <2>2, <2>3 DEF MessagesTypeOK
  <1> HIDE DEF status
  <1>4. \A h \in Goroutine : Local(h)'
    <2>1. \A h \in Goroutine : h # g => Local(h)'
      BY <1>0, <1>1, Bystander DEF Local, Loaded
    <2>2. (RaisedSoFar(g)' <=> RaisedSoFar(g)) /\ (MoreToRaise(g)' <=> MoreToRaise(g))
      BY <1>1 DEF RaisedSoFar, MoreToRaise
    <2>3. parse[g] \in ParseCall /\ RaisedSoFar(g)
      BY <1>0, <1>1 DEF Local, Raised, Parsing
    <2>4. Reported(g)'
      <3> SUFFICES ASSUME raw[g] # <<>>
                   PROVE  /\ ~MoreToRaise(g)
                          /\ \E c \in during[g] : FinalizedWith(final[g], raw[g], parse[g].ctx, c)
        BY <1>1, <1>2, <2>2, <2>3 DEF Reported, Ended
      <3>1. step[g] = "error"
        <4>1. Len(raw[g]) \in Nat /\ Len(raw[g]) # 0
          BY <1>0, LocalTypes, EmptySeq
        <4>2. step[g] = "run" => Len(raw[g]) <= 0
          BY <1>1, <2>3 DEF RaisedSoFar
        <4> QED
          BY <1>1, <4>1, <4>2
      <3>2. /\ ~MoreToRaise(g) /\ cfg[g] \in during[g]
            /\ \A i \in DOMAIN final[g] : final[g][i] = FinalizeIssue(raw[g][i], parse[g].ctx, cfg[g])
        BY <1>0, <3>1 DEF Local, Loaded, Finalized
      <3>3. DOMAIN final[g] = DOMAIN raw[g] /\ Len(final[g]) = Len(raw[g])
        BY <1>0, <1>1, <3>1, LocalTypes
      <3> QED
        BY <3>2, <3>3 DEF FinalizedWith
    <2>5. Loaded(g)' /\ Raised(g)' /\ Finalized(g)'
      BY <1>1 DEF Loaded, Raised, Finalized, Parsing
    <2> QED
      BY <2>1, <2>4, <2>5 DEF Local
  <1>5. (GetterOnce /\ GetterAllOrNothing /\ Configuring /\ ConfigureReturnsPrevious)'
    BY <1>1, <1>2, ParseStep
  <1> QED
    BY <1>3, <1>4, <1>5 DEF MInv

-----------------------------------------------------------------------------
(* The results. *)

LEMMA MessagesInv == GlobalsSpec => []MInv
  <1>1. GlobalsInit => MInv
    BY MessagesInitInv DEF GlobalsInit
  <1>2. ASSUME MInv, [GlobalsNext]_vars PROVE MInv'
    <2>1. CASE UNCHANGED messageVars
      <3>1. MessagesTypeOK'
        BY <1>2, <2>1 DEF MInv, messageVars, MessagesTypeOK
      <3>2. \A h \in Goroutine : Local(h)'
        BY <1>2, <2>1, Bystander DEF MInv, messageVars, Local, Loaded
      <3>3. GetterOnce' /\ GetterAllOrNothing' /\ Configuring' /\ ConfigureReturnsPrevious'
        BY <1>2, <2>1 DEF MInv, messageVars, GetterOnce, GetterAllOrNothing, Configuring,
                          ConfigureReturnsPrevious, Ended
      <3> QED
        BY <3>1, <3>2, <3>3 DEF MInv
    <2>2. ASSUME NEW g \in Goroutine, MessagesStep(g) PROVE MInv'
      BY <1>2, <2>2, LoadPreviousInv, StoreNewInv, GetterInv, LoadInv, FinalizeNestedInv, AddIssueInv,
         FinalizeTopInv, EndParseInv
         DEF MessagesStep
    <2>3. ASSUME NEW g \in Goroutine, CallConfigure(g) \/ CallParse(g) PROVE MInv'
      BY <1>2, <2>3, BeginConfigureInv, BeginParseInv DEF CallConfigure, CallParse
    <2> QED
      BY <1>2, <2>1, <2>2, <2>3
         DEF GlobalsNext, StartCall, Step, Finished, CallRegistry, vars
  <1> QED
    BY <1>1, <1>2, PTL DEF GlobalsSpec

\* The registry's maps and lock, the configuration and the locals of the calls
\* keep their types, for any number of goroutines, schemas, ids and issues.
THEOREM GlobalsTypeCorrect == GlobalsSpec => []GlobalsTypeOK
  <1>1. MInv => MessagesTypeOK
    BY DEF MInv
  <1> QED
    BY <1>1, MessagesInv, RegistryTypeCorrect, GlobalsImplementRegistry, PTL DEF GlobalsTypeOK

\* An error lists one issue for each one of the plan, finalized from it.
LEMMA ErrorFacts ==
  ASSUME MInv, NEW g \in Goroutine, Ended(g, "error"), NEW i \in DOMAIN parse[g].plan
  PROVE  /\ i \in DOMAIN raw[g] /\ i \in DOMAIN final[g] /\ DOMAIN final[g] = DOMAIN parse[g].plan
         /\ raw[g][i] \in Issue /\ parse[g].plan[i] \in Issue /\ during[g] \subseteq Config
         /\ \E c \in during[g] : FinalizedWith(final[g], raw[g], parse[g].ctx, c)
         /\ \E c \in during[g] : final[g][i] = FinalizeIssue(raw[g][i], parse[g].ctx, c)
         /\ final[g][i].inner = raw[g][i].inner
         /\ \E c \in during[g] :
              FinalizedWith(raw[g][i].inner, parse[g].plan[i].inner, parse[g].ctx, c)
  <1>0. MessagesTypeOK /\ Reported(g)
    BY DEF MInv, Local
  <1>1. /\ parse[g] \in ParseCall /\ RaisedSoFar(g) /\ ~MoreToRaise(g)
        /\ \E c \in during[g] : FinalizedWith(final[g], raw[g], parse[g].ctx, c)
    BY <1>0 DEF Reported
  <1>2. /\ Len(raw[g]) \in Nat /\ DOMAIN raw[g] = 1 .. Len(raw[g])
        /\ \A j \in DOMAIN raw[g] : raw[g][j] \in Issue
        /\ DOMAIN final[g] = 1 .. Len(final[g])
    BY <1>0, LocalTypes
  <1>3. /\ Len(parse[g].plan) \in Nat /\ DOMAIN parse[g].plan = 1 .. Len(parse[g].plan)
        /\ parse[g].plan[i] \in Issue
    BY <1>0, <1>1, DueFacts, LenProperties, ElementOfSeq
  <1>4. Len(raw[g]) = Len(parse[g].plan)
    BY <1>1, <1>2, <1>3 DEF RaisedSoFar, MoreToRaise
  <1>5. PICK c \in during[g] : FinalizedWith(final[g], raw[g], parse[g].ctx, c)
    BY <1>1
  <1>6. i \in DOMAIN raw[g] /\ DOMAIN final[g] = DOMAIN parse[g].plan
    BY <1>2, <1>3, <1>4, <1>5 DEF FinalizedWith
  <1>7. final[g][i] = FinalizeIssue(raw[g][i], parse[g].ctx, c)
    BY <1>5, <1>6 DEF FinalizedWith
  <1>8. during[g] \subseteq Config
    BY <1>0 DEF MessagesTypeOK
  <1>9. final[g][i].inner = raw[g][i].inner
    BY <1>2, <1>5, <1>6, <1>7, <1>8, FinalizeFacts DEF Issue
  <1>10. \E d \in during[g] :
           FinalizedWith(raw[g][i].inner, parse[g].plan[i].inner, parse[g].ctx, d)
    BY <1>1, <1>6 DEF RaisedSoFar
  <1> QED
    BY <1>1, <1>2, <1>3, <1>5, <1>6, <1>7, <1>8, <1>9, <1>10

\* The issues an error lists side by side all speak for one configuration, one
\* that was current while the parse ran, whatever Configure did meanwhile.
THEOREM OneConfigurationHolds == GlobalsSpec => []OneConfiguration
  <1>1. MInv => OneConfiguration
    <2> SUFFICES ASSUME MInv, NEW g \in Goroutine, Ended(g, "error")
                 PROVE  /\ \E c \in during[g] : FinalizedWith(final[g], raw[g], parse[g].ctx, c)
                        /\ \A i \in DOMAIN parse[g].plan : \E c \in during[g] :
                             FinalizedWith(final[g][i].inner, parse[g].plan[i].inner, parse[g].ctx, c)
      BY DEF OneConfiguration
    <2>1. \E c \in during[g] : FinalizedWith(final[g], raw[g], parse[g].ctx, c)
      BY DEF MInv, Local, Reported
    <2>2. \A i \in DOMAIN parse[g].plan : \E c \in during[g] :
            FinalizedWith(final[g][i].inner, parse[g].plan[i].inner, parse[g].ctx, c)
      BY ErrorFacts
    <2> QED
      BY <2>1, <2>2
  <1> QED
    BY <1>1, MessagesInv, PTL

\* No error that leaves a parse holds a raw issue, at any depth: FinalizeIssue has
\* given each one a message, and taken its error map and its input.
THEOREM NothingRawHolds == GlobalsSpec => []NothingRaw
  <1>1. MInv => NothingRaw
    <2> SUFFICES ASSUME MInv, NEW g \in Goroutine, Ended(g, "error"), NEW i \in DOMAIN final[g],
                        NEW iss \in {final[g][i]} \cup Range(final[g][i].inner)
                 PROVE  iss.message # Silent /\ iss.errMap = NoMap
                        /\ (iss.input => parse[g].ctx.reportInput)
      BY DEF NothingRaw
    <2>1. i \in DOMAIN parse[g].plan
      <3>1. /\ parse[g] \in ParseCall /\ RaisedSoFar(g) /\ ~MoreToRaise(g) /\ MessagesTypeOK
            /\ \E c \in during[g] : FinalizedWith(final[g], raw[g], parse[g].ctx, c)
        BY DEF MInv, Local, Reported
      <3>2. /\ Len(raw[g]) \in Nat /\ i \in 1 .. Len(final[g]) /\ Len(final[g]) = Len(raw[g])
        BY <3>1, LocalTypes DEF FinalizedWith
      <3>3. Len(parse[g].plan) \in Nat /\ DOMAIN parse[g].plan = 1 .. Len(parse[g].plan)
        BY <3>1, DueFacts, LenProperties
      <3> QED
        BY <3>1, <3>2, <3>3 DEF RaisedSoFar, MoreToRaise
    <2>2. /\ raw[g][i] \in Issue /\ parse[g].plan[i] \in Issue /\ during[g] \subseteq Config
          /\ final[g][i].inner = raw[g][i].inner
      BY <2>1, ErrorFacts
    <2>3. CASE iss = final[g][i]
      <3>1. PICK c \in during[g] : iss = FinalizeIssue(raw[g][i], parse[g].ctx, c)
        BY <2>1, <2>3, ErrorFacts
      <3> QED
        BY <2>2, <3>1, FinalizeFacts DEF Issue
    <2>4. CASE iss \in Range(final[g][i].inner)
      <3> DEFINE nest == parse[g].plan[i].inner
      <3>1. nest \in Seq(Leaf)
        BY <2>2 DEF Issue, IssueWith
      <3> HIDE DEF nest
      <3>2. PICK c \in during[g] : FinalizedWith(raw[g][i].inner, nest, parse[g].ctx, c)
        BY <2>1, ErrorFacts DEF nest
      <3>3. raw[g][i].inner \in Seq(Leaf)
        BY <2>2 DEF Issue, IssueWith
      <3>4. PICK j \in DOMAIN raw[g][i].inner : iss = raw[g][i].inner[j]
        BY <2>2, <2>4 DEF Range
      <3>5. j \in DOMAIN nest /\ nest[j] \in Leaf
        <4>1. DOMAIN raw[g][i].inner = 1 .. Len(raw[g][i].inner) /\ DOMAIN nest = 1 .. Len(nest)
          BY <3>1, <3>3, LenProperties
        <4>2. j \in DOMAIN nest
          BY <3>2, <4>1 DEF FinalizedWith
        <4> QED
          BY <3>1, <4>1, <4>2, ElementOfSeq
      <3>6. iss = FinalizeIssue(nest[j], parse[g].ctx, c)
        BY <3>2, <3>4, <3>5 DEF FinalizedWith
      <3> QED
        BY <2>2, <3>5, <3>6, FinalizeFacts DEF Leaf
    <2> QED
      BY <2>3, <2>4
  <1> QED
    BY <1>1, MessagesInv, PTL

\* Configure returns a configuration that others could see during the call and,
\* when no other goroutine configures, the one it replaced, so that it can be put
\* back.
THEOREM ConfigureReturnsPreviousHolds == GlobalsSpec => []ConfigureReturnsPrevious
  <1>1. MInv => ConfigureReturnsPrevious
    BY DEF MInv
  <1> QED
    BY <1>1, MessagesInv, PTL

\* A Lazy is all or nothing: parses succeed only with the schema its getter
\* returned, and once a parse has seen it missing none ever gets past it.
THEOREM GetterAllOrNothingHolds == GlobalsSpec => []GetterAllOrNothing
  <1>1. MInv => GetterAllOrNothing
    BY DEF MInv
  <1> QED
    BY <1>1, MessagesInv, PTL
=============================================================================
