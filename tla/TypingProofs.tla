---------------------------- MODULE TypingProofs ----------------------------
(***************************************************************************)
(* Type correctness of the engine (TypeOK of Engine), for every set of     *)
(* values V that the schemas and the callbacks stay in (Typed, of Engine)  *)
(* and that is closed under building containers (Closed, below): say, the  *)
(* values that can be built from some atoms in finitely many steps.        *)
(*                                                                         *)
(* A frame indexes sequences that other steps filled: the kids of its      *)
(* schema, the keys of an object, the build of its payload, the payloads   *)
(* it holds.  TypeInv says that each index is in its sequence.             *)
(***************************************************************************)
EXTENDS IssueProofs

\* A container may be given other elements of the set, an object at most one
\* for each key.
Closed(V) ==
  \A v \in V : \A e \in Seq(V) :
    (v.t = "obj" => Len(e) <= Len(KeyNames)) => WithElements(v, e) \in V

Data(V) ==
  /\ value \in [PayloadId -> V]
  /\ build \in [PayloadId -> Seq(V)]
  /\ issues \in [PayloadId -> Seq(Issue)]
  /\ base \in [PayloadId -> Path]
  /\ graph \in Schemas

EntryPc == {"keys", "key", "entry", "value"}
FieldPc == {"fields", "field"}
ItemPc == {"items", "item", "slots", "slot"}

\* The fields of a frame, its loop index and the keys it goes through.
FrameTyped(f) ==
  /\ f.n \in Node /\ f.pc \in Pc /\ f.i \in Nat /\ f.start \in Nat /\ f.flag \in BOOLEAN
  /\ f.marks \in Seq(Nat)
  /\ f.pc \notin {"fields", "parsed"} => f.i >= 1
  /\ f.pc \in EntryPc => \A j \in 1 .. Len(f.marks) : f.marks[j] \in 1 .. Len(KeyNames)
  /\ f.pc \in {"key", "entry", "value"} => f.i <= Len(f.marks)
  /\ f.pc \in {"entry", "value"} => f.start \in 0 .. Len(KeyNames)

\* What a frame builds fits the value it belongs to; an option has a payload.
Fitting(f) ==
  /\ f.pc = "option" => f.kids # <<>>
  /\ f.pc \in FieldPc \cup EntryPc => Len(build[f.p]) <= Len(KeyNames)
  /\ f.pc \in ItemPc => value[f.p].t # "obj"

FramesTyped ==
  \A g \in Goroutine, i \in Nat : \A f : FrameAt(g, i, f) => FrameTyped(f) /\ Fitting(f)

TypeInv(V) == Data(V) /\ FramesTyped

Known(V) == Typed(V) /\ Closed(V) /\ Inv /\ IssueInv /\ TypeInv(V)

-----------------------------------------------------------------------------
(* What is known of the values, the schemas and the running frame. *)

\* The elements of a value, and of an object no more than there are keys.
LEMMA ElementsTyped ==
  ASSUME NEW V, Typed(V), NEW v \in V
  PROVE  /\ v.e \in Seq(V) /\ Len(v.e) \in Nat /\ DOMAIN v.e = 1 .. Len(v.e)
         /\ \A j \in 1 .. Len(v.e) : v.e[j] \in V
         /\ v.t = "obj" => Len(v.e) <= Len(KeyNames)
         /\ \A j \in Nat : j >= 1 => Element(v, j) \in V
         /\ Keys(v) \subseteq 1 .. Len(v.e)
         /\ Missing \in V /\ Null \in V
         /\ KeyNames \in Seq(V) /\ Len(KeyNames) \in Nat
  <1>1. v.e \in Seq(V) /\ (v.t = "obj" => Len(v.e) <= Len(KeyNames)) /\ KeyNames \in Seq(V)
        /\ Missing \in V /\ Null \in V
    BY DEF Typed
  <1>2. PICK e : e = v.e
    OBVIOUS
  <1>3. Len(e) \in Nat /\ DOMAIN e = 1 .. Len(e) /\ \A j \in 1 .. Len(e) : e[j] \in V
    BY <1>1, <1>2, LenProperties, ElementOfSeq
  <1>4. \A j \in Nat : j >= 1 => Element(v, j) \in V
    BY <1>1, <1>2, <1>3 DEF Element
  <1>5. Keys(v) \subseteq 1 .. Len(e)
    BY <1>2, <1>3 DEF Keys
  <1>6. Len(KeyNames) \in Nat
    BY <1>1, LenProperties
  <1> QED
    BY <1>1, <1>2, <1>3, <1>4, <1>5, <1>6

\* The internals of a schema.
LEMMA SchemaTyped ==
  ASSUME NEW V, Typed(V), graph \in Schemas, NEW n \in Node
  PROVE  /\ graph[n].kind \in Kind /\ graph[n].kids \in Seq(Node)
         /\ graph[n].rest \in Node \cup {NoNode} /\ graph[n].checks \in Seq(CheckOf)
         /\ graph[n].to \in V /\ graph[n].key \in Nat \ {0}
         /\ WellFormed(graph[n])
  <1>1. PICK shape \in Shapes : graph = Constructed(shape)
    BY DEF Schemas
  <1>2. PICK s : s = shape[n]
    OBVIOUS
  <1>3. PICK in, out : graph[n] = [s EXCEPT !.optIn = in, !.optOut = out]
    BY <1>1, <1>2 DEF Constructed
  <1>4. s \in SchemaOf(V) /\ WellFormed(s)
    BY <1>2 DEF Typed
  <1>5. /\ graph[n].kind = s.kind /\ graph[n].kids = s.kids /\ graph[n].rest = s.rest
        /\ graph[n].checks = s.checks /\ graph[n].to = s.to /\ graph[n].key = s.key
        /\ graph[n].mode = s.mode /\ graph[n].fn = s.fn /\ graph[n].bfn = s.bfn
    BY <1>3, <1>4 DEF SchemaOf
  <1>6. /\ s.kind \in Kind /\ s.kids \in Seq(Node) /\ s.rest \in Node \cup {NoNode}
        /\ s.checks \in Seq(CheckOf) /\ s.to \in V /\ s.key \in Nat \ {0}
    BY <1>4 DEF SchemaOf
  <1>7. WellFormed(graph[n])
    BY <1>4, <1>5 DEF WellFormed
  <1> QED
    BY <1>5, <1>6, <1>7

LEMMA KidTyped ==
  ASSUME NEW V, Known(V), NEW g \in Goroutine, Top(g).n \in Node,
         NEW k \in Nat, k >= 1, k <= Len(NodeOf(g).kids)
  PROVE  Kid(g, k) \in Node
  <1>1. NodeOf(g).kids \in Seq(Node)
    BY SchemaTyped DEF Known, TypeInv, Data, NodeOf
  <1>2. k \in 1 .. Len(NodeOf(g).kids)
    BY <1>1, LenProperties
  <1> QED
    BY <1>1, <1>2, ElementOfSeq DEF Kid

\* The running frame and its payload.
LEMMA TopTyped ==
  ASSUME NEW V, Known(V), NEW g \in Goroutine, stack[g] # <<>>
  PROVE  /\ IsFrame(Top(g)) /\ FrameOK(Top(g)) /\ FrameTyped(Top(g)) /\ Fitting(Top(g))
         /\ Top(g).p \in PayloadId /\ pool[Top(g).p] = 0
         /\ value[Top(g).p] \in V /\ build[Top(g).p] \in Seq(V)
         /\ issues[Top(g).p] \in Seq(Issue) /\ base[Top(g).p] \in Seq(Nat)
  <1>1. IsFrame(Top(g)) /\ FrameOK(Top(g)) /\ Top(g).p \in PayloadId /\ pool[Top(g).p] = 0
    BY TopHolds DEF Known
  <1>2. FrameAt(g, Len(stack[g]), Top(g)) /\ Len(stack[g]) \in Nat
    BY TopAt DEF Known
  <1>3. FrameTyped(Top(g)) /\ Fitting(Top(g))
    BY <1>2 DEF Known, TypeInv, FramesTyped
  <1>4. /\ value[Top(g).p] \in V /\ build[Top(g).p] \in Seq(V)
        /\ issues[Top(g).p] \in Seq(Issue) /\ base[Top(g).p] \in Seq(Nat)
    BY <1>1 DEF Known, TypeInv, Data, Path
  <1> QED
    BY <1>1, <1>3, <1>4

-----------------------------------------------------------------------------
(* What a step does to values, issues and builds. *)

Changes(V, g) ==
  /\ Data(V)'
  /\ graph' = graph
  /\ \A q \in PayloadId : pool[q] = 0 /\ q # Top(g).p /\ q \notin Range(Top(g).kids) =>
       value'[q] = value[q]
  /\ \A q \in PayloadId : q # Top(g).p => build'[q] = build[q]

\* field is old but for a member of S at p.
Set(field, old, p, S) == field = old \/ \E x \in S : field = [old EXCEPT ![p] = x]

LEMMA SetTyped ==
  ASSUME NEW S, NEW old, old \in [PayloadId -> S], NEW p, NEW field, Set(field, old, p, S)
  PROVE  field \in [PayloadId -> S]
  <1>1. CASE field = old
    BY <1>1
  <1>2. CASE \E x \in S : field = [old EXCEPT ![p] = x]
    <2>1. PICK x \in S : field = [old EXCEPT ![p] = x]
      BY <1>2
    <2> QED
      BY <2>1
  <1> QED
    BY <1>1, <1>2 DEF Set

\* A step that writes to the payload of its frame only.
Wrote(V, g) ==
  /\ UNCHANGED <<base, graph>>
  /\ Set(value', value, Top(g).p, V)
  /\ Set(issues', issues, Top(g).p, Seq(Issue))
  /\ Set(build', build, Top(g).p, Seq(V))

LEMMA WroteChanges ==
  ASSUME NEW V, Known(V), NEW g \in Goroutine, Wrote(V, g)
  PROVE  Changes(V, g)
  <1>1. /\ value \in [PayloadId -> V] /\ build \in [PayloadId -> Seq(V)]
        /\ issues \in [PayloadId -> Seq(Issue)] /\ base \in [PayloadId -> Path]
        /\ graph \in Schemas
    BY DEF Known, TypeInv, Data
  <1>2. PICK p : p = Top(g).p
    OBVIOUS
  <1>3. /\ Set(value', value, p, V) /\ Set(issues', issues, p, Seq(Issue))
        /\ Set(build', build, p, Seq(V)) /\ base' = base /\ graph' = graph
    BY <1>2 DEF Wrote
  <1>4. /\ value' \in [PayloadId -> V]
        /\ \A q \in PayloadId : q # p => value'[q] = value[q]
    <2>1. value' \in [PayloadId -> V]
      BY <1>1, <1>3, SetTyped
    <2>2. ASSUME NEW q \in PayloadId, q # p PROVE value'[q] = value[q]
      BY <1>1, <1>3, <2>2 DEF Set
    <2> QED
      BY <2>1, <2>2
  <1>5. issues' \in [PayloadId -> Seq(Issue)]
    BY <1>1, <1>3, SetTyped
  <1>6. /\ build' \in [PayloadId -> Seq(V)]
        /\ \A q \in PayloadId : q # p => build'[q] = build[q]
    <2>1. build' \in [PayloadId -> Seq(V)]
      BY <1>1, <1>3, SetTyped
    <2>2. ASSUME NEW q \in PayloadId, q # p PROVE build'[q] = build[q]
      BY <1>1, <1>3, <2>2 DEF Set
    <2> QED
      BY <2>1, <2>2
  <1>7. Schemas' = Schemas
    BY DEF Schemas, Constructed, OptInOf, OptOutOf
  <1>8. Data(V)'
    BY <1>1, <1>3, <1>4, <1>5, <1>6 DEF Data, Schemas
  <1> QED
    BY <1>2, <1>3, <1>4, <1>6, <1>8 DEF Changes

\* A step that takes payload cp from the pool.
LEMMA TookChanges ==
  ASSUME NEW V, Known(V), NEW g \in Goroutine, UNCHANGED <<graph, build>>,
         NEW cp \in PayloadId, NEW v \in V, NEW c, NEW path \in Seq(Nat), Acquire(cp, v, c, path)
  PROVE  Changes(V, g) /\ \A q \in PayloadId : pool[q] = 0 => value'[q] = value[q]
  <1>1. /\ value \in [PayloadId -> V] /\ build \in [PayloadId -> Seq(V)]
        /\ issues \in [PayloadId -> Seq(Issue)] /\ base \in [PayloadId -> Path]
        /\ graph \in Schemas /\ pool \in [PayloadId -> Nat]
    BY DEF Known, TypeInv, Data, Inv, Types
  <1>2. /\ pool[cp] > 0 /\ build' = build /\ graph' = graph
        /\ value' = [value EXCEPT ![cp] = v]
        /\ issues' = [issues EXCEPT ![cp] = <<>>]
        /\ base' = [base EXCEPT ![cp] = path]
    BY DEF Acquire
  <1>3. value' \in [PayloadId -> V] /\ \A q \in PayloadId : q # cp => value'[q] = value[q]
    BY <1>1, <1>2
  <1>4. <<>> \in Seq(Issue)
    BY EmptySeq
  <1>5. issues' \in [PayloadId -> Seq(Issue)]
    BY <1>1, <1>2, <1>4
  <1>6. base' \in [PayloadId -> Path]
    BY <1>1, <1>2 DEF Path
  <1>7. Data(V)'
    BY <1>1, <1>2, <1>3, <1>5, <1>6 DEF Data, Schemas
  <1> QED
    BY <1>1, <1>2, <1>3, <1>7 DEF Changes

\* A step that gives back the payloads of its frame.
LEMMA GaveChanges ==
  ASSUME NEW V, Known(V), NEW g \in Goroutine, UNCHANGED <<base, graph>>,
         NEW val, NEW iss, NEW ab, ReleaseAll(Top(g).kids, val, iss, ab),
         Set(val, value, Top(g).p, V), Set(iss, issues, Top(g).p, Seq(Issue)),
         Set(build', build, Top(g).p, Seq(V))
  PROVE  /\ Changes(V, g)
         /\ \A q \in PayloadId : q \notin Range(Top(g).kids) => value'[q] = val[q]
  <1>1. /\ value \in [PayloadId -> V] /\ build \in [PayloadId -> Seq(V)]
        /\ issues \in [PayloadId -> Seq(Issue)] /\ base \in [PayloadId -> Path]
        /\ graph \in Schemas /\ base' = base /\ graph' = graph
    BY DEF Known, TypeInv, Data
  <1>2. PICK p, kids : p = Top(g).p /\ kids = Range(Top(g).kids)
    OBVIOUS
  <1>3. /\ Set(val, value, p, V) /\ Set(iss, issues, p, Seq(Issue)) /\ Set(build', build, p, Seq(V))
        /\ issues' = iss /\ value' = Zeroed(val, kids, Null)
    BY <1>2 DEF ReleaseAll
  <1>4. /\ val \in [PayloadId -> V]
        /\ \A q \in PayloadId : q # p => val[q] = value[q]
    <2>1. val \in [PayloadId -> V]
      BY <1>1, <1>3, SetTyped
    <2>2. ASSUME NEW q \in PayloadId, q # p PROVE val[q] = value[q]
      BY <1>1, <1>3, <2>2 DEF Set
    <2> QED
      BY <2>1, <2>2
  <1>5. issues' \in [PayloadId -> Seq(Issue)]
    BY <1>1, <1>3, SetTyped
  <1>6. /\ build' \in [PayloadId -> Seq(V)]
        /\ \A q \in PayloadId : q # p => build'[q] = build[q]
    <2>1. build' \in [PayloadId -> Seq(V)]
      BY <1>1, <1>3, SetTyped
    <2>2. ASSUME NEW q \in PayloadId, q # p PROVE build'[q] = build[q]
      BY <1>1, <1>3, <2>2 DEF Set
    <2> QED
      BY <2>1, <2>2
  <1>7. Null \in V
    BY DEF Known, Typed
  <1>8. value' \in [PayloadId -> V] /\ \A q \in PayloadId : q \notin kids => value'[q] = val[q]
    BY <1>3, <1>4, <1>7 DEF Zeroed
  <1>9. Data(V)'
    BY <1>1, <1>5, <1>6, <1>8 DEF Data, Schemas
  <1> QED
    BY <1>1, <1>2, <1>4, <1>6, <1>8, <1>9 DEF Changes

-----------------------------------------------------------------------------
(* The frames after a step. *)

\* The frames that do not run are typed and fit as before.
LEMMA OthersTyped ==
  ASSUME NEW V, Known(V), NEW g \in Goroutine, stack[g] # <<>>, Changes(V, g),
         NEW h \in Goroutine, NEW i \in Nat, NEW f, FrameAt(h, i, f),
         h # g \/ i # Len(stack[g])
  PROVE  FrameTyped(f) /\ Fitting(f)'
  <1>1. FrameTyped(f) /\ Fitting(f)
    BY DEF Known, TypeInv, FramesTyped
  <1>2. /\ h = g => f.pc \in SelfPc \cup AwayPc
        /\ h # g \/ f.pc \in AwayPc => f.p # Top(g).p
        /\ h # g => f.p \notin Range(Top(g).kids)
    BY OtherFrames DEF Known, IssueInv
  <1>3. f.p \in PayloadId /\ pool[f.p] = 0
    BY FrameIs DEF Known
  <1>4. h = g => f.p \notin Range(Top(g).kids)
    BY <1>3, Unused DEF Known
  <1>5. f.pc \in FieldPc \cup EntryPc \cup ItemPc =>
          value'[f.p] = value[f.p] /\ build'[f.p] = build[f.p]
    <2>1. f.pc \in FieldPc \cup EntryPc \cup ItemPc => f.pc \notin SelfPc
      BY DEF FieldPc, EntryPc, ItemPc, SelfPc
    <2> QED
      BY <1>2, <1>3, <1>4, <2>1 DEF Changes
  <1> QED
    BY <1>1, <1>5 DEF Fitting

\* The running frame goes on to f.
LEMMA GoTyped ==
  ASSUME NEW V, Known(V), NEW g \in Goroutine, stack[g] # <<>>, Changes(V, g),
         NEW f, Goto(g, f), FrameTyped(f), Fitting(f)'
  PROVE  TypeInv(V)'
  <1>1. PICK t : t = Len(stack[g])
    OBVIOUS
  <1>2. /\ \A h \in Goroutine : h # g => stack'[h] = stack[h]
        /\ t \in Nat /\ t >= 1 /\ Len(stack'[g]) = t
        /\ \A i \in 1 .. t : stack'[g][i] = IF i = t THEN f ELSE stack[g][i]
    BY <1>1, GotoAt DEF Known, Inv
  <1>3. ASSUME NEW h \in Goroutine, NEW i \in Nat, NEW e, FrameAt(h, i, e)'
        PROVE  FrameTyped(e) /\ Fitting(e)'
    <2>1. CASE h = g /\ i = t
      <3>1. e = f
        BY <1>2, <1>3, <2>1 DEF FrameAt
      <3> QED
        BY <3>1
    <2>2. CASE ~(h = g /\ i = t)
      <3>1. FrameAt(h, i, e) /\ (h # g \/ i # Len(stack[g]))
        BY <1>1, <1>2, <1>3, <2>2 DEF FrameAt
      <3> QED
        BY <3>1, OthersTyped
    <2> QED
      BY <2>1, <2>2
  <1>4. FramesTyped'
    BY <1>3 DEF FramesTyped, FrameTyped
  <1> QED
    BY <1>4 DEF Changes, TypeInv

\* ... and runs schema n.
LEMMA EnterTyped ==
  ASSUME NEW V, Known(V), NEW g \in Goroutine, stack[g] # <<>>, Changes(V, g),
         NEW f, NEW n \in Node, NEW q, Enter(g, f, n, q), FrameTyped(f), Fitting(f)'
  PROVE  TypeInv(V)'
  <1>1. PICK t, new : t = Len(stack[g]) /\ new = NewFrame(n, q)
    OBVIOUS
  <1>2. /\ \A h \in Goroutine : h # g => stack'[h] = stack[h]
        /\ t \in Nat /\ t >= 1 /\ Len(stack'[g]) = t + 1
        /\ \A i \in 1 .. t + 1 : stack'[g][i] =
             IF i = t + 1 THEN new ELSE IF i = t THEN f ELSE stack[g][i]
    BY <1>1, EnteredFrames DEF Known
  <1>3. FrameTyped(new) /\ Fitting(new)'
    BY <1>1, EmptySeq DEF NewFrame, FrameTyped, Fitting, Pc, EntryPc, FieldPc, ItemPc
  <1>4. ASSUME NEW h \in Goroutine, NEW i \in Nat, NEW e, FrameAt(h, i, e)'
        PROVE  FrameTyped(e) /\ Fitting(e)'
    <2>1. CASE h = g /\ i = t
      <3>1. e = f
        BY <1>2, <1>4, <2>1 DEF FrameAt
      <3> QED
        BY <3>1
    <2>2. CASE h = g /\ i = t + 1
      <3>1. e = new
        BY <1>2, <1>4, <2>2 DEF FrameAt
      <3> QED
        BY <1>3, <3>1
    <2>3. CASE ~(h = g /\ i = t) /\ ~(h = g /\ i = t + 1)
      <3>1. FrameAt(h, i, e) /\ (h # g \/ i # Len(stack[g]))
        BY <1>1, <1>2, <1>4, <2>3 DEF FrameAt
      <3> QED
        BY <3>1, OthersTyped
    <2> QED
      BY <2>1, <2>2, <2>3
  <1>5. FramesTyped'
    BY <1>4 DEF FramesTyped, FrameTyped
  <1> QED
    BY <1>5 DEF Changes, TypeInv

\* The running frame ends.
LEMMA ReturnTyped ==
  ASSUME NEW V, Known(V), NEW g \in Goroutine, stack[g] # <<>>, Changes(V, g), Return(g)
  PROVE  TypeInv(V)'
  <1>1. PICK t : t = Len(stack[g])
    OBVIOUS
  <1>2. /\ \A h \in Goroutine : h # g => stack'[h] = stack[h]
        /\ t \in Nat /\ t >= 1 /\ Len(stack'[g]) = t - 1
        /\ \A i \in 1 .. t - 1 : stack'[g][i] = stack[g][i]
    BY <1>1, ReturnAt DEF Known, Inv
  <1>3. ASSUME NEW h \in Goroutine, NEW i \in Nat, NEW e, FrameAt(h, i, e)'
        PROVE  FrameTyped(e) /\ Fitting(e)'
    <2>1. FrameAt(h, i, e) /\ (h # g \/ i # Len(stack[g]))
      BY <1>1, <1>2, <1>3 DEF FrameAt
    <2> QED
      BY <2>1, OthersTyped
  <1>4. FramesTyped'
    BY <1>3 DEF FramesTyped, FrameTyped
  <1> QED
    BY <1>4 DEF Changes, TypeInv

-----------------------------------------------------------------------------
(* What the actions write. *)

\* Labels without a claim of their own.
QuietPc == Pc \ (EntryPc \cup FieldPc \cup ItemPc \cup {"option"})

LEMMA QuietFrame ==
  ASSUME NEW f, f.n \in Node, f.pc \in QuietPc, f.i \in Nat, f.start \in Nat,
         f.flag \in BOOLEAN, f.marks \in Seq(Nat), f.pc # "parsed" => f.i >= 1
  PROVE  FrameTyped(f) /\ Fitting(f)'
  BY DEF FrameTyped, Fitting, QuietPc, EntryPc, FieldPc, ItemPc

\* The running frame goes on to a label without a claim.
LEMMA QuietTyped ==
  ASSUME NEW V, Known(V), NEW g \in Goroutine, stack[g] # <<>>, NEW pc \in QuietPc,
         pc = "parsed" \/ Top(g).pc \notin {"fields", "parsed"},
         NEW f, f = [Top(g) EXCEPT !.pc = pc]
  PROVE  FrameTyped(f) /\ Fitting(f)'
  <1>1. PICK top : top = Top(g)
    OBVIOUS
  <1>2. IsFrame(top) /\ FrameTyped(top)
    BY <1>1, TopTyped
  <1>3. /\ f.n = top.n /\ f.pc = pc /\ f.i = top.i /\ f.start = top.start
        /\ f.flag = top.flag /\ f.marks = top.marks
    BY <1>1, <1>2 DEF IsFrame
  <1>4. f.pc # "parsed" => f.i >= 1
    BY <1>1, <1>2, <1>3 DEF FrameTyped
  <1> QED
    BY <1>2, <1>3, <1>4, QuietFrame DEF FrameTyped

LEMMA JumpTyped ==
  ASSUME NEW V, Known(V), NEW g \in Goroutine, stack[g] # <<>>, Changes(V, g),
         NEW pc \in QuietPc, pc = "parsed" \/ Top(g).pc \notin {"fields", "parsed"}, Jump(g, pc)
  PROVE  TypeInv(V)'
  <1>1. PICK f : f = [Top(g) EXCEPT !.pc = pc] /\ Goto(g, f)
    BY DEF Jump
  <1>2. FrameTyped(f) /\ Fitting(f)'
    BY <1>1, QuietTyped
  <1> QED
    BY <1>1, <1>2, GoTyped

LEMMA RunSelfTyped ==
  ASSUME NEW V, Known(V), NEW g \in Goroutine, stack[g] # <<>>, Changes(V, g),
         NEW pc \in QuietPc, pc = "parsed" \/ Top(g).pc \notin {"fields", "parsed"},
         NEW n \in Node, RunSelf(g, pc, n)
  PROVE  TypeInv(V)'
  <1>1. PICK f : f = [Top(g) EXCEPT !.pc = pc] /\ Enter(g, f, n, Top(g).p)
    BY DEF RunSelf
  <1>2. FrameTyped(f) /\ Fitting(f)'
    BY <1>1, QuietTyped
  <1> QED
    BY <1>1, <1>2, EnterTyped

\* What a callback gives.
LEMMA CallbackTyped ==
  ASSUME NEW V, Known(V), NEW f \in Fn, NEW v \in V
  PROVE  Apply(f, v).val \in V /\ Apply(f, v).cont \in Cont
  <1>1. PICK r : r = Apply(f, v)
    OBVIOUS
  <1>2. r \in Answers(V)
    BY <1>1 DEF Known, Typed
  <1> QED
    BY <1>1, <1>2 DEF Answers

LEMMA IssueTyped ==
  ASSUME NEW p, base[p] \in Seq(Nat), NEW code \in Code, NEW cont \in Cont,
         NEW path \in Seq(Nat)
  PROVE  IssueAt(p, code, cont, path) \in Issue
  <1>1. PICK b : b = base[p]
    OBVIOUS
  <1>2. b \o path \in Seq(Nat)
    BY <1>1, ConcatProperties
  <1> QED
    BY <1>1, <1>2 DEF IssueAt, Issue, Path

LEMMA RaiseTyped ==
  ASSUME NEW p, issues[p] \in Seq(Issue), NEW e \in Issue
  PROVE  /\ Append(issues[p], e) \in Seq(Issue)
         /\ Raise(p, e) => Set(issues', issues, p, Seq(Issue))
  <1>1. Append(issues[p], e) \in Seq(Issue)
    BY AppendProperties
  <1>2. Raise(p, e) => issues' = [issues EXCEPT ![p] = Append(issues[p], e)]
    BY DEF Raise
  <1> QED
    BY <1>1, <1>2 DEF Set

\* The frame of a schema that is running.
LEMMA AtTyped ==
  ASSUME NEW V, Known(V), NEW g \in Goroutine, NEW pc, NEW kinds, At(g, pc, kinds)
  PROVE  /\ stack[g] # <<>> /\ Top(g).pc = pc /\ Top(g).n \in Node /\ NodeOf(g).kind \in kinds
         /\ NodeOf(g).kids \in Seq(Node) /\ Len(NodeOf(g).kids) \in Nat
         /\ NodeOf(g).rest \in Node \cup {NoNode} /\ NodeOf(g).checks \in Seq(CheckOf)
         /\ NodeOf(g).to \in V /\ NodeOf(g).key \in Nat \ {0} /\ WellFormed(NodeOf(g))
  <1>1. stack[g] # <<>> /\ Top(g).pc = pc /\ NodeOf(g).kind \in kinds
    BY DEF At
  <1>2. Top(g).n \in Node
    BY <1>1, TopTyped DEF FrameTyped
  <1>3. graph[Top(g).n].kids \in Seq(Node)
    BY <1>2, SchemaTyped DEF Known, TypeInv, Data
  <1>4. Len(NodeOf(g).kids) \in Nat
    BY <1>3, LenProperties DEF NodeOf
  <1> QED
    BY <1>1, <1>2, <1>4, SchemaTyped DEF Known, TypeInv, Data, NodeOf

-----------------------------------------------------------------------------
(* The checks. *)

LEMMA CheckTyped ==
  ASSUME NEW V, Known(V), NEW g \in Goroutine, CheckStep(g)
  PROVE  TypeInv(V)'
  <1>1. PICK top, p : top = Top(g) /\ p = Top(g).p
    OBVIOUS
  <1>2. call[g].busy /\ stack[g] # <<>> /\ top.pc \in {"parsed", "checks"}
    BY <1>1 DEF CheckStep, StartChecks, SkipCheck, RunCheck, EndChecks, At
  <1>3. /\ IsFrame(top) /\ FrameTyped(top) /\ p = top.p /\ value[p] \in V
        /\ issues[p] \in Seq(Issue) /\ base[p] \in Seq(Nat)
    BY <1>1, <1>2, TopTyped
  <1>4. top.pc = "checks" => top.i >= 1
    BY <1>3 DEF FrameTyped
  <1>5. UNCHANGED <<value, issues, base, build, graph>> => Changes(V, g)
    BY WroteChanges DEF Wrote, Set
  <1>6. CASE StartChecks(g)
    <2>1. Changes(V, g)
      BY <1>5, <1>6 DEF StartChecks, payloadVars
    <2>2. CASE Return(g)
      BY <1>2, <2>1, <2>2, ReturnTyped
    <2>3. CASE ~Return(g)
      <3>1. PICK f : /\ f = [top EXCEPT !.pc = "checks", !.i = 1,
                                        !.flag = AbortedFrom(aborted[top.p], issues[top.p], 0)]
                     /\ Goto(g, f)
        BY <1>1, <1>6, <2>3 DEF StartChecks
      <3>2. AbortedFrom(aborted[top.p], issues[top.p], 0) \in BOOLEAN
        BY DEF AbortedFrom
      <3>3. f.n = top.n /\ f.pc = "checks" /\ f.i = 1 /\ f.start = top.start
            /\ f.flag \in BOOLEAN /\ f.marks = top.marks
        BY <1>3, <3>1, <3>2 DEF IsFrame
      <3>4. FrameTyped(f) /\ Fitting(f)'
        BY <1>3, <3>3, QuietFrame DEF FrameTyped, QuietPc, Pc, EntryPc, FieldPc, ItemPc
      <3> QED
        BY <1>2, <2>1, <3>1, <3>4, GoTyped
    <2> QED
      BY <2>2, <2>3
  <1>7. CASE SkipCheck(g)
    <2>1. Changes(V, g)
      BY <1>5, <1>7 DEF SkipCheck, payloadVars
    <2>2. PICK f : f = [top EXCEPT !.i = @ + 1] /\ Goto(g, f)
      BY <1>1, <1>7 DEF SkipCheck
    <2>3. /\ f.n = top.n /\ f.pc = top.pc /\ f.i = top.i + 1 /\ f.start = top.start
          /\ f.flag = top.flag /\ f.marks = top.marks
      BY <1>3, <2>2 DEF IsFrame
    <2>4. FrameTyped(f) /\ Fitting(f)'
      BY <1>2, <1>3, <2>3, QuietFrame DEF FrameTyped, QuietPc, Pc, EntryPc, FieldPc, ItemPc
    <2> QED
      BY <1>2, <2>1, <2>2, <2>4, GoTyped
  <1>8. CASE RunCheck(g)
    <2>1. PICK ch, r, grown :
            /\ ch = Check(g) /\ r = Apply(ch.fn, value[p])
            /\ grown = Append(issues[p], IssueAt(p, "check", ContOf(ch, r), <<>>))
      OBVIOUS
    <2>2. /\ Top(g).i <= Len(NodeOf(g).checks) /\ Top(g).pc = "checks" /\ UNCHANGED <<base, build, graph>>
          /\ NodeOf(g).checks \in Seq(CheckOf)
      BY <1>8, AtTyped DEF RunCheck
    <2>3. ch \in CheckOf
      <3>1. top.i \in 1 .. Len(NodeOf(g).checks)
        BY <1>1, <1>3, <1>4, <2>2, LenProperties DEF FrameTyped
      <3> QED
        BY <1>1, <2>1, <2>2, <3>1, ElementOfSeq DEF Check
    <2>4. ch.fn \in Fn
      BY <2>3 DEF CheckOf
    <2>5. r.val \in V /\ r.cont \in Cont
      BY <1>3, <2>1, <2>4, CallbackTyped
    <2>6. ContOf(ch, r) \in Cont
      BY <2>5 DEF ContOf, Cont
    <2>7. IssueAt(p, "check", ContOf(ch, r), <<>>) \in Issue
      BY <1>3, <2>6, IssueTyped, EmptySeq DEF Code
    <2>8. grown \in Seq(Issue)
      BY <1>3, <2>1, <2>7, RaiseTyped
    <2>9. PICK f, flag : /\ f = [top EXCEPT !.i = @ + 1, !.flag = flag] /\ Goto(g, f)
                         /\ flag \in BOOLEAN
                         /\ Set(value', value, p, V) /\ Set(issues', issues, p, Seq(Issue))
      <3>1. CASE value' = [value EXCEPT ![p] = r.val] /\ Goto(g, [top EXCEPT !.i = @ + 1])
                 /\ issues' = issues
        <4>1. PICK f : f = [top EXCEPT !.i = @ + 1] /\ Goto(g, f)
          BY <3>1
        <4>2. f = [top EXCEPT !.i = @ + 1, !.flag = top.flag] /\ top.flag \in BOOLEAN
          BY <1>3, <4>1 DEF IsFrame, FrameTyped
        <4> QED
          BY <2>5, <3>1, <4>1, <4>2 DEF Set
      <3>2. CASE /\ issues' = [issues EXCEPT ![p] = grown]
                 /\ Goto(g, [top EXCEPT !.i = @ + 1, !.flag = StillAborted(top, grown)])
                 /\ value' = value
        <4>1. StillAborted(top, grown) \in BOOLEAN
          BY DEF StillAborted
        <4> QED
          BY <2>8, <3>2, <4>1 DEF Set
      <3> QED
        BY <1>1, <1>8, <2>1, <3>1, <3>2 DEF RunCheck
    <2>10. Changes(V, g)
      BY <1>1, <2>2, <2>9, WroteChanges DEF Wrote, Set
    <2>11. /\ f.n = top.n /\ f.pc = top.pc /\ f.i = top.i + 1 /\ f.start = top.start
           /\ f.flag \in BOOLEAN /\ f.marks = top.marks
      BY <1>3, <2>9 DEF IsFrame
    <2>12. FrameTyped(f) /\ Fitting(f)'
      <3>1. f.pc = "checks" /\ "checks" \in QuietPc
        BY <1>1, <2>2, <2>11 DEF QuietPc, Pc, EntryPc, FieldPc, ItemPc
      <3>2. f.n \in Node /\ f.i \in Nat /\ f.i >= 1 /\ f.start \in Nat /\ f.marks \in Seq(Nat)
        BY <1>1, <1>3, <2>2, <2>11 DEF FrameTyped
      <3> QED
        BY <2>11, <3>1, <3>2, QuietFrame
    <2> QED
      BY <1>2, <2>9, <2>10, <2>12, GoTyped
  <1>9. CASE EndChecks(g)
    <2>1. Changes(V, g) /\ Return(g)
      BY <1>5, <1>9 DEF EndChecks, payloadVars
    <2> QED
      BY <1>2, <2>1, ReturnTyped
  <1> QED
    BY <1>6, <1>7, <1>8, <1>9 DEF CheckStep

-----------------------------------------------------------------------------
(* The wrappers: they write to their payload, and run an inner schema on it *)
(* or are done.                                                            *)

Plainly(V, g) ==
  Wrote(V, g) /\ \E pc \in QuietPc : Jump(g, pc) \/ \E n \in Node : RunSelf(g, pc, n)

LEMMA PlainlyTyped ==
  ASSUME NEW V, Known(V), NEW g \in Goroutine, stack[g] # <<>>,
         Top(g).pc \notin {"fields", "parsed"}, Plainly(V, g)
  PROVE  TypeInv(V)'
  <1>1. Changes(V, g)
    BY WroteChanges DEF Plainly
  <1>2. PICK pc \in QuietPc : Jump(g, pc) \/ \E n \in Node : RunSelf(g, pc, n)
    BY DEF Plainly
  <1> QED
    BY <1>1, <1>2, JumpTyped, RunSelfTyped

LEMMA KidsTyped ==
  ASSUME NEW V, Known(V), NEW g \in Goroutine, NEW pc, NEW kinds, At(g, pc, kinds)
  PROVE  /\ kinds \subseteq Wrapping => Kid(g, 1) \in Node
         /\ kinds \subseteq {"pipe", "codec", "intersection", "record", "map"} =>
              Kid(g, 1) \in Node /\ Kid(g, 2) \in Node
  <1>1. /\ NodeOf(g).kids \in Seq(Node) /\ WellFormed(NodeOf(g)) /\ NodeOf(g).kind \in kinds
        /\ Len(NodeOf(g).kids) \in Nat /\ Top(g).n \in Node
    BY AtTyped
  <1>2. \/ Kid(g, 1) \in Node /\ (Len(NodeOf(g).kids) >= 2 => Kid(g, 2) \in Node)
        \/ Len(NodeOf(g).kids) = 0
    BY <1>1, KidTyped
  <1>3. NodeOf(g).kids # <<>> => Len(NodeOf(g).kids) # 0
    BY <1>1, EmptySeq
  <1> QED
    BY <1>1, <1>2, <1>3 DEF WellFormed

\* Actions that write nothing.
LEMMA StillTyped ==
  ASSUME NEW V, NEW g, UNCHANGED <<payloadVars, build, graph>>
  PROVE  Wrote(V, g)
  BY DEF Wrote, Set, payloadVars

LEMMA EnterWrapperTyped ==
  ASSUME NEW V, Known(V), NEW g \in Goroutine,
         \/ EnterAlias(g) \/ EnterNullable(g) \/ EnterNonOptional(g) \/ EnterCatch(g)
         \/ EnterTransform(g) \/ EnterPipe(g) \/ RunSecond(g)
  PROVE  TypeInv(V)'
  <1>1. Wrote(V, g)
    BY StillTyped DEF EnterAlias, EnterNullable, EnterNonOptional, EnterCatch, EnterTransform,
       EnterPipe, RunSecond
  <1>2. PICK pc, kinds : At(g, pc, kinds) /\ pc \in {"enter", "pipe"}
    BY DEF EnterAlias, EnterNullable, EnterNonOptional, EnterCatch, EnterTransform,
       EnterPipe, RunSecond
  <1>3. stack[g] # <<>> /\ Top(g).pc \notin {"fields", "parsed"}
    BY <1>2 DEF At
  <1>4. "parsed" \in QuietPc /\ "nonoptional" \in QuietPc /\ "catch" \in QuietPc
        /\ "transform" \in QuietPc /\ "pipe" \in QuietPc /\ "codec" \in QuietPc
    BY DEF QuietPc, Pc, EntryPc, FieldPc, ItemPc
  <1>5. CASE EnterAlias(g) \/ EnterNullable(g) \/ EnterNonOptional(g) \/ EnterCatch(g)
             \/ EnterTransform(g)
    <2>1. Kid(g, 1) \in Node
      BY <1>5, KidsTyped DEF EnterAlias, EnterNullable, EnterNonOptional, EnterCatch,
         EnterTransform, Wrapping, Aliases
    <2>2. Plainly(V, g)
      BY <1>1, <1>4, <1>5, <2>1 DEF Plainly, EnterAlias, EnterNullable, EnterNonOptional,
         EnterCatch, EnterTransform
    <2> QED
      BY <1>3, <2>2, PlainlyTyped
  <1>6. CASE EnterPipe(g) \/ RunSecond(g)
    <2>1. Kid(g, 1) \in Node /\ Kid(g, 2) \in Node
      BY <1>6, KidsTyped DEF EnterPipe, RunSecond
    <2>2. EnterPipe(g) => NodeOf(g).kind \in QuietPc
      BY <1>4 DEF EnterPipe, At
    <2>3. Plainly(V, g)
      BY <1>1, <1>4, <1>6, <2>1, <2>2 DEF Plainly, EnterPipe, RunSecond
    <2> QED
      BY <1>3, <2>3, PlainlyTyped
  <1> QED
    BY <1>5, <1>6

LEMMA OptionalTyped ==
  ASSUME NEW V, Known(V), NEW g \in Goroutine, EnterOptional(g)
  PROVE  TypeInv(V)'
  <1>1. PICK top : top = Top(g)
    OBVIOUS
  <1>2. /\ stack[g] # <<>> /\ top.pc = "enter" /\ Changes(V, g) /\ Wrote(V, g)
        /\ Kid(g, 1) \in Node
    BY <1>1, StillTyped, WroteChanges, KidsTyped DEF EnterOptional, At, Wrapping, Aliases
  <1>3. IsFrame(top) /\ FrameTyped(top) /\ issues[top.p] \in Seq(Issue)
    BY <1>1, <1>2, TopTyped
  <1>4. CASE Traits(Kid(g, 1)).optIn
    <2>1. PICK f : /\ f = [top EXCEPT !.pc = "rescue", !.flag = (value[top.p] = Missing),
                                      !.start = Len(issues[top.p])]
                   /\ Enter(g, f, Kid(g, 1), top.p)
      BY <1>1, <1>4 DEF EnterOptional
    <2>2. Len(issues[top.p]) \in Nat
      BY <1>3, LenProperties
    <2>3. /\ f.n = top.n /\ f.pc = "rescue" /\ f.i = top.i /\ f.start \in Nat
          /\ f.flag \in BOOLEAN /\ f.marks = top.marks
      BY <1>3, <2>1, <2>2 DEF IsFrame
    <2>4. FrameTyped(f) /\ Fitting(f)'
      BY <1>2, <1>3, <2>3, QuietFrame DEF FrameTyped, QuietPc, Pc, EntryPc, FieldPc, ItemPc
    <2> QED
      BY <1>2, <2>1, <2>4, EnterTyped
  <1>5. CASE ~Traits(Kid(g, 1)).optIn
    <2>1. Jump(g, "parsed") \/ RunSelf(g, "parsed", Kid(g, 1))
      BY <1>5 DEF EnterOptional
    <2>2. "parsed" \in QuietPc
      BY DEF QuietPc, Pc, EntryPc, FieldPc, ItemPc
    <2> QED
      BY <1>1, <1>2, <2>1, <2>2, PlainlyTyped DEF Plainly
  <1> QED
    BY <1>4, <1>5

LEMMA AfterWrapperTyped ==
  ASSUME NEW V, Known(V), NEW g \in Goroutine,
         Rescue(g) \/ RejectMissing(g) \/ DefaultAfter(g) \/ CatchIssues(g) \/ FirstFailed(g)
  PROVE  TypeInv(V)'
  <1>1. PICK p : p = Top(g).p
    OBVIOUS
  <1>2. PICK pc, kinds : At(g, pc, kinds)
                         /\ pc \in {"rescue", "nonoptional", "default", "catch", "transform", "pipe", "codec"}
    BY DEF Rescue, RejectMissing, DefaultAfter, CatchIssues, FirstFailed
  <1>3. /\ stack[g] # <<>> /\ Top(g).pc \notin {"fields", "parsed"} /\ NodeOf(g).to \in V
        /\ Missing \in V
    BY <1>2, AtTyped DEF Known, Typed
  <1>4. value[p] \in V /\ issues[p] \in Seq(Issue) /\ base[p] \in Seq(Nat)
    BY <1>1, <1>3, TopTyped
  <1>5. UNCHANGED <<base, build, graph>> /\ Jump(g, "parsed")
    BY DEF Rescue, RejectMissing, DefaultAfter, CatchIssues, FirstFailed
  <1>6. <<>> \in Seq(Issue) /\ <<>> \in Seq(Nat)
    BY EmptySeq
  <1>7. CASE Rescue(g)
    <2>1. CASE Top(g).flag /\ Len(issues[p]) > Top(g).start
      <3>1. Top(g).start \in Nat
        BY <1>3, TopTyped DEF FrameTyped
      <3>2. SubSeq(issues[p], 1, Top(g).start) \in Seq(Issue)
        BY <1>4, <2>1, <3>1, SubSeqProperties, LenProperties
      <3>3. /\ issues' = [issues EXCEPT ![p] = SubSeq(issues[p], 1, Top(g).start)]
            /\ value' = [value EXCEPT ![p] = Missing]
        BY <1>1, <1>7, <2>1 DEF Rescue
      <3> QED
        BY <1>3, <3>2, <3>3, <1>1, <1>5, PlainlyTyped DEF Plainly, Wrote, Set, QuietPc, Pc,
           EntryPc, FieldPc, ItemPc
    <2>2. CASE ~(Top(g).flag /\ Len(issues[p]) > Top(g).start)
      <3>1. issues' = issues /\ value' = value
        BY <1>1, <1>7, <2>2 DEF Rescue
      <3> QED
        BY <1>3, <3>1, <1>5, PlainlyTyped DEF Plainly, Wrote, Set, QuietPc, Pc, EntryPc,
           FieldPc, ItemPc
    <2> QED
      BY <2>1, <2>2
  <1>8. CASE RejectMissing(g)
    <2>1. PICK e : e = IssueAt(p, "invalid_type", "unset", <<>>)
      OBVIOUS
    <2>2. e \in Issue
      BY <1>4, <1>6, <2>1, IssueTyped DEF Code, Cont
    <2>3. (Raise(p, e) \/ issues' = issues) /\ value' = value
      BY <1>1, <1>8, <2>1 DEF RejectMissing
    <2>4. Set(issues', issues, p, Seq(Issue))
      BY <1>4, <2>2, <2>3, RaiseTyped DEF Set
    <2> QED
      BY <1>1, <1>3, <1>5, <2>3, <2>4, PlainlyTyped DEF Plainly, Wrote, Set, QuietPc, Pc,
         EntryPc, FieldPc, ItemPc
  <1>9. CASE DefaultAfter(g)
    <2>1. PICK v \in V : value' = [value EXCEPT ![p] = v]
      BY <1>1, <1>3, <1>4, <1>9 DEF DefaultAfter
    <2>2. issues' = issues
      BY <1>9 DEF DefaultAfter
    <2> QED
      BY <1>1, <1>3, <1>5, <2>1, <2>2, PlainlyTyped DEF Plainly, Wrote, Set, QuietPc, Pc,
         EntryPc, FieldPc, ItemPc
  <1>10. CASE CatchIssues(g)
    <2>1. \/ value' = value /\ issues' = issues
          \/ value' = [value EXCEPT ![p] = NodeOf(g).to] /\ issues' = [issues EXCEPT ![p] = <<>>]
      BY <1>1, <1>10 DEF CatchIssues
    <2>2. Set(value', value, p, V) /\ Set(issues', issues, p, Seq(Issue))
      BY <1>3, <1>6, <2>1 DEF Set
    <2> QED
      BY <1>1, <1>3, <1>5, <2>2, PlainlyTyped DEF Plainly, Wrote, Set, QuietPc, Pc,
         EntryPc, FieldPc, ItemPc
  <1>11. CASE FirstFailed(g)
    <2>1. value' = value /\ issues' = issues
      BY <1>11 DEF FirstFailed
    <2> QED
      BY <1>3, <1>5, <2>1, PlainlyTyped DEF Plainly, Wrote, Set, QuietPc, Pc, EntryPc,
         FieldPc, ItemPc
  <1> QED
    BY <1>7, <1>8, <1>9, <1>10, <1>11

\* The actions that give the inner schema another value.
LEMMA ReplaceTyped ==
  ASSUME NEW V, Known(V), NEW g \in Goroutine, EnterDefault(g) \/ EnterPrefault(g)
  PROVE  TypeInv(V)'
  <1>1. PICK p : p = Top(g).p
    OBVIOUS
  <1>2. PICK kinds : At(g, "enter", kinds) /\ kinds \subseteq Wrapping
    BY DEF EnterDefault, EnterPrefault, Wrapping, Aliases
  <1>3. /\ stack[g] # <<>> /\ Top(g).pc \notin {"fields", "parsed"} /\ NodeOf(g).to \in V
        /\ Kid(g, 1) \in Node
    BY <1>2, AtTyped, KidsTyped
  <1>4. value[p] \in V
    BY <1>1, <1>3, TopTyped
  <1>5. UNCHANGED <<issues, base, build, graph>>
    BY DEF EnterDefault, EnterPrefault
  <1>6. Set(value', value, p, V)
    BY <1>1, <1>3, <1>4 DEF EnterDefault, EnterPrefault, Set
  <1>7. Jump(g, "parsed") \/ \E pc \in {"parsed", "default"} : RunSelf(g, pc, Kid(g, 1))
    BY DEF EnterDefault, EnterPrefault
  <1>8. Plainly(V, g)
    BY <1>1, <1>3, <1>5, <1>6, <1>7 DEF Plainly, Wrote, Set, QuietPc, Pc, EntryPc, FieldPc, ItemPc
  <1> QED
    BY <1>3, <1>8, PlainlyTyped

\* The actions that make a callback.
LEMMA CallingTyped ==
  ASSUME NEW V, Known(V), NEW g \in Goroutine, Leaf(g) \/ Convert(g) \/ Preprocess(g)
  PROVE  TypeInv(V)'
  <1>1. PICK p : p = Top(g).p
    OBVIOUS
  <1>2. PICK pc, kinds : /\ At(g, pc, kinds) /\ pc \in {"enter", "transform", "codec"}
                         /\ kinds \subseteq {"leaf", "transform", "codec", "preprocess"}
                         /\ Leaf(g) => kinds = {"leaf"}
                         /\ Convert(g) => kinds \in {{"transform"}, {"codec"}}
                         /\ Preprocess(g) => kinds = {"preprocess"}
    BY DEF Leaf, Convert, Preprocess, At
  <1>3. /\ stack[g] # <<>> /\ Top(g).pc \notin {"fields", "parsed"} /\ WellFormed(NodeOf(g))
        /\ NodeOf(g).kind \in kinds
    BY <1>2, AtTyped
  <1>4. value[p] \in V /\ issues[p] \in Seq(Issue) /\ base[p] \in Seq(Nat) /\ <<>> \in Seq(Nat)
    BY <1>1, <1>3, TopTyped, EmptySeq
  <1>5. Callback(g) \in Fn /\ NodeOf(g).fn \in Fn
    BY <1>2, <1>3 DEF Callback, WellFormed
  <1>6. UNCHANGED <<base, build, graph>>
    BY DEF Leaf, Convert, Preprocess
  <1>7. ASSUME NEW code \in Code, NEW cont \in Cont
        PROVE  Raise(p, IssueAt(p, code, cont, <<>>)) => Set(issues', issues, p, Seq(Issue))
    BY <1>4, IssueTyped, RaiseTyped
  <1>8. "parsed" \in QuietPc
    BY DEF QuietPc, Pc, EntryPc, FieldPc, ItemPc
  <1>9. CASE Leaf(g)
    <2>1. PICK r : r = Apply(NodeOf(g).fn, value[p])
      OBVIOUS
    <2>2. r.val \in V
      BY <1>4, <1>5, <2>1, CallbackTyped
    <2>3. /\ \/ value' = [value EXCEPT ![p] = r.val] /\ issues' = issues
             \/ Raise(p, IssueAt(p, "invalid_type", "unset", <<>>)) /\ value' = value
          /\ Jump(g, "parsed")
      BY <1>1, <1>9, <2>1 DEF Leaf
    <2>4. Set(value', value, p, V) /\ Set(issues', issues, p, Seq(Issue))
      BY <1>7, <2>2, <2>3 DEF Set, Code, Cont
    <2>5. Plainly(V, g)
      BY <1>1, <1>6, <1>8, <2>3, <2>4 DEF Plainly, Wrote, Set
    <2> QED
      BY <1>3, <2>5, PlainlyTyped
  <1>10. CASE Convert(g)
    <2>1. PICK r : r = Apply(Callback(g), value[p])
      OBVIOUS
    <2>2. r.val \in V /\ r.cont \in Cont
      BY <1>4, <1>5, <2>1, CallbackTyped
    <2>3. PICK cont \in Cont, k \in {1, 2} :
            \/ /\ value' = [value EXCEPT ![p] = r.val] /\ issues' = issues
               /\ IF NodeOf(g).kind = "codec" THEN RunSelf(g, "parsed", Kid(g, k))
                  ELSE Jump(g, "parsed")
            \/ Raise(p, IssueAt(p, "custom", cont, <<>>)) /\ value' = value /\ Jump(g, "parsed")
      <3>1. PICK cont, k : /\ cont = (IF r.res = "error" THEN "unset" ELSE r.cont)
                           /\ k = (IF call[g].encode THEN 1 ELSE 2)
        OBVIOUS
      <3>2. cont \in Cont /\ k \in {1, 2}
        BY <2>2, <3>1 DEF Cont
      <3>3. \/ /\ value' = [value EXCEPT ![p] = r.val] /\ issues' = issues
               /\ IF NodeOf(g).kind = "codec" THEN RunSelf(g, "parsed", Kid(g, k))
                  ELSE Jump(g, "parsed")
            \/ Raise(p, IssueAt(p, "custom", cont, <<>>)) /\ value' = value /\ Jump(g, "parsed")
        BY <1>1, <1>10, <2>1, <3>1 DEF Convert
      <3> QED
        BY <3>2, <3>3
    <2>4. Set(value', value, p, V) /\ Set(issues', issues, p, Seq(Issue))
      BY <1>7, <2>2, <2>3 DEF Set, Code
    <2>5. NodeOf(g).kind = "codec" => Kid(g, 1) \in Node /\ Kid(g, 2) \in Node
      <3>1. NodeOf(g).kind = "codec" => At(g, pc, {"codec"})
        BY <1>2 DEF At
      <3> QED
        BY <3>1, KidsTyped
    <2>6. Jump(g, "parsed") \/ \E n \in Node : RunSelf(g, "parsed", n)
      BY <2>3, <2>5
    <2>7. Plainly(V, g)
      BY <1>1, <1>6, <1>8, <2>4, <2>6 DEF Plainly, Wrote, Set
    <2> QED
      BY <1>3, <2>7, PlainlyTyped
  <1>11. CASE Preprocess(g)
    <2>1. PICK r : r = Apply(NodeOf(g).fn, value[p])
      OBVIOUS
    <2>2. r.val \in V /\ r.cont \in Cont
      BY <1>4, <1>5, <2>1, CallbackTyped
    <2>3. /\ value' = [value EXCEPT ![p] = r.val]
          /\ \/ RunSelf(g, "parsed", Kid(g, 1)) /\ issues' = issues
             \/ Raise(p, IssueAt(p, "custom", r.cont, <<>>)) /\ Jump(g, "parsed")
      BY <1>1, <1>11, <2>1 DEF Preprocess
    <2>4. Set(value', value, p, V) /\ Set(issues', issues, p, Seq(Issue))
      BY <1>7, <2>2, <2>3 DEF Set, Code
    <2>5. Kid(g, 1) \in Node
      BY <1>2, <1>11, KidsTyped DEF Wrapping
    <2>6. Plainly(V, g)
      BY <1>1, <1>6, <1>8, <2>3, <2>4, <2>5 DEF Plainly, Wrote, Set
    <2> QED
      BY <1>3, <2>6, PlainlyTyped
  <1> QED
    BY <1>9, <1>10, <1>11

LEMMA WrapperTyped ==
  ASSUME NEW V, Known(V), NEW g \in Goroutine, WrapperStep(g)
  PROVE  TypeInv(V)'
  BY EnterWrapperTyped, OptionalTyped, AfterWrapperTyped, ReplaceTyped, CallingTyped
     DEF WrapperStep

-----------------------------------------------------------------------------
(* Payloads taken and given back. *)

\* The fields a frame has.
IsRecord(f) ==
  f = [n |-> f.n, pc |-> f.pc, p |-> f.p, i |-> f.i, start |-> f.start,
       flag |-> f.flag, kids |-> f.kids, marks |-> f.marks]

LEMMA RunOnTyped ==
  ASSUME NEW V, Known(V), NEW g \in Goroutine, stack[g] # <<>>, UNCHANGED <<graph, build>>,
         NEW f, IsRecord(f), f.p = Top(g).p, f.kids = Top(g).kids, FrameTyped(f),
         Fitting(f) \/ f.pc = "option",
         NEW n \in Node, NEW v \in V, NEW c, NEW path \in Seq(Nat), RunOn(g, f, n, v, c, path)
  PROVE  TypeInv(V)'
  <1>1. PICK cp \in PayloadId : /\ Acquire(cp, v, c, path)
                                /\ Enter(g, [f EXCEPT !.kids = Append(@, cp)], n, cp)
    BY DEF RunOn
  <1>2. Changes(V, g) /\ \A q \in PayloadId : pool[q] = 0 => value'[q] = value[q]
    BY <1>1, TookChanges
  <1>3. value'[f.p] = value[f.p] /\ build' = build
    BY <1>2, TopTyped
  <1>4. PICK h : h = [f EXCEPT !.kids = Append(f.kids, cp)] /\ Enter(g, h, n, cp)
    BY <1>1
  <1>5. /\ h.n = f.n /\ h.pc = f.pc /\ h.p = f.p /\ h.i = f.i /\ h.start = f.start
        /\ h.flag = f.flag /\ h.marks = f.marks /\ h.kids = Append(f.kids, cp)
    BY <1>4 DEF IsRecord
  <1>6. FrameTyped(h)
    BY <1>5 DEF FrameTyped
  <1>7. h.kids # <<>>
    <2>1. f.kids \in Seq(PayloadId)
      BY TopTyped DEF IsFrame
    <2>2. Len(Append(f.kids, cp)) = Len(f.kids) + 1 /\ Len(f.kids) \in Nat
      BY <2>1, AppendProperties, LenProperties
    <2>3. Len(h.kids) # 0
      BY <1>5, <2>2
    <2> QED
      BY <2>3, NilIsSeq
  <1>8. Fitting(h)'
    BY <1>3, <1>5, <1>7 DEF Fitting, FieldPc, EntryPc, ItemPc
  <1> QED
    BY <1>2, <1>4, <1>6, <1>8, EnterTyped

LEMMA PathTyped ==
  ASSUME NEW b \in Seq(Nat), NEW seg \in Nat
  PROVE  Append(b, seg) \in Seq(Nat) /\ <<seg>> \in Seq(Nat)
  BY AppendProperties

LEMMA RunChildTyped ==
  ASSUME NEW V, Known(V), NEW g \in Goroutine, stack[g] # <<>>, UNCHANGED <<graph, build>>,
         NEW f, IsRecord(f), f.p = Top(g).p, f.kids = Top(g).kids, FrameTyped(f), Fitting(f),
         NEW n \in Node, NEW v \in V, NEW seg \in Nat, RunChild(g, f, n, v, seg)
  PROVE  TypeInv(V)'
  <1>1. PICK path, c : path = Append(base[f.p], seg) /\ c = ChildCtx(g, f.p)
    OBVIOUS
  <1>2. path \in Seq(Nat)
    BY <1>1, TopTyped, PathTyped
  <1>3. RunOn(g, f, n, v, c, path)
    BY <1>1 DEF RunChild
  <1> QED
    BY <1>2, <1>3, RunOnTyped

\* The payloads of the frame are given back, with what they left.
LEMMA GiveTyped ==
  ASSUME NEW V, Known(V), NEW g \in Goroutine, stack[g] # <<>>, UNCHANGED <<base, graph>>,
         NEW p, p = Top(g).p, NEW added \in Seq(Issue),
         ReleaseAll(Top(g).kids, value, [issues EXCEPT ![p] = @ \o added], aborted),
         NEW out \in Seq(V), build' = [build EXCEPT ![p] = out],
         NEW f, Goto(g, f), f.p = p, FrameTyped(f), f.pc # "option",
         f.pc \in FieldPc \cup EntryPc => Len(out) <= Len(KeyNames),
         f.pc \in ItemPc => value[p].t # "obj"
  PROVE  TypeInv(V)'
  <1>1. p \in PayloadId /\ pool[p] = 0 /\ issues[p] \in Seq(Issue)
    BY TopTyped
  <1>2. issues[p] \o added \in Seq(Issue)
    BY <1>1, ConcatProperties
  <1>3. PICK iss : iss = [issues EXCEPT ![p] = issues[p] \o added]
                   /\ ReleaseAll(Top(g).kids, value, iss, aborted)
    OBVIOUS
  <1>4. /\ Set(iss, issues, Top(g).p, Seq(Issue)) /\ Set(build', build, Top(g).p, Seq(V))
        /\ Set(value, value, Top(g).p, V)
    BY <1>2, <1>3 DEF Set
  <1>5. Changes(V, g) /\ \A q \in PayloadId : q \notin Range(Top(g).kids) => value'[q] = value[q]
    BY <1>3, <1>4, GaveChanges
  <1>6. p \notin Range(Top(g).kids)
    <2>1. FrameAt(g, Len(stack[g]), Top(g)) /\ Len(stack[g]) \in Nat
      BY TopAt DEF Known
    <2>2. PICK top, t : top = Top(g) /\ t = Len(stack[g])
      OBVIOUS
    <2>3. FrameAt(g, t, top) /\ t \in Nat
      BY <2>1, <2>2
    <2>4. p \in Range(Top(g).kids) => top.p # p
      BY <1>1, <2>3, Unused DEF Known
    <2> QED
      BY <2>2, <2>4
  <1>7. value'[p] = value[p]
    BY <1>1, <1>5, <1>6
  <1>8. build'[p] = out
    BY <1>1 DEF Known, TypeInv, Data
  <1>9. Fitting(f)'
    BY <1>7, <1>8 DEF Fitting
  <1> QED
    BY <1>5, <1>9, GoTyped

-----------------------------------------------------------------------------
(* Lists of issues. *)

\* A sequence from its elements.
LEMMA SeqFrom ==
  ASSUME NEW S, NEW s, IsSeq(s), \A i \in 1 .. Len(s) : s[i] \in S
  PROVE  s \in Seq(S)
  <1>1. Len(s) \in Nat /\ DOMAIN s = 1 .. Len(s) /\ s = [i \in 1 .. Len(s) |-> s[i]]
    BY SeqFacts DEF IsSeq
  <1>2. PICK n \in Nat : n = Len(s)
    BY <1>1
  <1>3. s \in [1 .. n -> S]
    BY <1>1, <1>2
  <1> QED
    BY <1>2, <1>3, SeqDef

LEMMA PrefixTyped ==
  ASSUME NEW iss \in Seq(Issue), NEW seg \in Nat
  PROVE  Prefixed(iss, seg) \in Seq(Issue)
  <1>1. Len(iss) \in Nat /\ DOMAIN iss = 1 .. Len(iss) /\ \A i \in 1 .. Len(iss) : iss[i] \in Issue
    BY LenProperties, ElementOfSeq
  <1>2. ASSUME NEW e \in Issue PROVE [e EXCEPT !.path = <<seg>> \o @] \in Issue
    <2>1. e.path \in Seq(Nat)
      BY DEF Issue, Path
    <2>2. <<seg>> \o e.path \in Seq(Nat)
      BY <2>1, ConcatProperties, PathTyped, EmptySeq
    <2> QED
      BY <2>2 DEF Issue, Path
  <1>3. PICK n \in Nat : n = Len(iss)
    BY <1>1
  <1>4. Prefixed(iss, seg) \in [1 .. n -> Issue]
    BY <1>1, <1>2, <1>3 DEF Prefixed
  <1> QED
    BY <1>3, <1>4, SeqDef

-----------------------------------------------------------------------------
(* Objects. *)

LEMMA WrongTypeTyped ==
  ASSUME NEW V, Known(V), NEW g \in Goroutine, WrongType(g)
  PROVE  TypeInv(V)'
  <1>1. PICK p, e : p = Top(g).p /\ e = IssueAt(p, "invalid_type", "unset", <<>>)
    OBVIOUS
  <1>2. stack[g] # <<>> /\ Top(g).pc \notin {"fields", "parsed"}
    BY DEF WrongType, At
  <1>3. issues[p] \in Seq(Issue) /\ e \in Issue
    BY <1>1, <1>2, TopTyped, IssueTyped, EmptySeq DEF Code, Cont
  <1>4. Raise(p, e) /\ UNCHANGED <<value, base, build, graph>> /\ Jump(g, "parsed")
    BY <1>1 DEF WrongType
  <1>5. Set(issues', issues, p, Seq(Issue))
    BY <1>3, <1>4, RaiseTyped
  <1>6. Plainly(V, g)
    BY <1>1, <1>4, <1>5 DEF Plainly, Wrote, Set, QuietPc, Pc, EntryPc, FieldPc, ItemPc
  <1> QED
    BY <1>2, <1>6, PlainlyTyped

\* The output of an object or a record starts with every key absent.
LEMMA AbsentKeys ==
  ASSUME NEW V, Known(V), NEW v \in V, v.t = "obj",
         NEW out, out = [k \in DOMAIN v.e |-> Missing]
  PROVE  out \in Seq(V) /\ Len(out) = Len(v.e) /\ Len(out) <= Len(KeyNames)
  <1>1. /\ Len(v.e) \in Nat /\ DOMAIN v.e = 1 .. Len(v.e) /\ Missing \in V
        /\ Len(v.e) <= Len(KeyNames)
    BY ElementsTyped DEF Known
  <1>2. PICK n \in Nat : n = Len(v.e)
    BY <1>1
  <1>3. out \in [1 .. n -> V] /\ DOMAIN out = 1 .. n
    BY <1>1, <1>2
  <1>4. out \in Seq(V)
    BY <1>2, <1>3, SeqDef
  <1>5. Len(out) = n
    BY <1>2, <1>3, <1>4, LenProperties
  <1> QED
    BY <1>1, <1>2, <1>4, <1>5

LEMMA EnterObjectTyped ==
  ASSUME NEW V, Known(V), NEW g \in Goroutine, EnterObject(g)
  PROVE  TypeInv(V)'
  <1>1. PICK top, p, out : /\ top = Top(g) /\ p = top.p
                           /\ out = [k \in DOMAIN value[p].e |-> Missing]
    OBVIOUS
  <1>2. PICK f : f = [top EXCEPT !.pc = "fields", !.i = 0] /\ Goto(g, f)
    BY <1>1 DEF EnterObject
  <1>3. /\ stack[g] # <<>> /\ value[p].t = "obj" /\ build' = [build EXCEPT ![p] = out]
        /\ UNCHANGED <<value, issues, base, graph>>
    BY <1>1 DEF EnterObject, At, payloadVars
  <1>4. IsFrame(top) /\ FrameTyped(top) /\ p \in PayloadId /\ value[p] \in V
    BY <1>1, <1>3, TopTyped
  <1>5. out \in Seq(V) /\ Len(out) <= Len(KeyNames)
    BY <1>1, <1>3, <1>4, AbsentKeys
  <1>6. Changes(V, g)
    BY <1>1, <1>3, <1>5, WroteChanges DEF Wrote, Set
  <1>7. build'[p] = out
    BY <1>3, <1>4 DEF Known, TypeInv, Data
  <1>8. /\ f.n = top.n /\ f.pc = "fields" /\ f.p = p /\ f.i = 0 /\ f.start = top.start
        /\ f.flag = top.flag /\ f.marks = top.marks
    BY <1>1, <1>2, <1>4 DEF IsFrame
  <1>9. FrameTyped(f)
    BY <1>4, <1>8 DEF FrameTyped, Pc, EntryPc
  <1>10. Fitting(f)'
    BY <1>5, <1>7, <1>8 DEF Fitting, ItemPc
  <1> QED
    BY <1>2, <1>3, <1>6, <1>9, <1>10, GoTyped

\* The next key is a key of the value.
LEMMA KeysLeftTyped ==
  ASSUME NEW V, Known(V), NEW g \in Goroutine, stack[g] # <<>>, KeysLeft(g) # {}
  PROVE  /\ Min(KeysLeft(g)) \in Nat /\ Min(KeysLeft(g)) >= 1
         /\ Min(KeysLeft(g)) \in KeysLeft(g)
  <1>1. PICK v : v = value[Top(g).p] /\ v \in V
    BY TopTyped
  <1>2. DOMAIN v.e = 1 .. Len(v.e) /\ Len(v.e) \in Nat
    BY <1>1, ElementsTyped DEF Known
  <1>3. KeysLeft(g) \subseteq 1 .. Len(v.e)
    BY <1>1, <1>2 DEF KeysLeft
  <1>4. Min(KeysLeft(g)) \in KeysLeft(g)
    BY <1>2, <1>3, MinIs
  <1> QED
    BY <1>2, <1>3, <1>4

LEMMA RunFieldTyped ==
  ASSUME NEW V, Known(V), NEW g \in Goroutine, RunField(g)
  PROVE  TypeInv(V)'
  <1>1. PICK top, p, k, child : /\ top = Top(g) /\ p = top.p /\ k = Min(KeysLeft(g))
                                /\ child = IF k \in Shape(top.n) THEN Kid(g, k) ELSE NodeOf(g).rest
    OBVIOUS
  <1>2. PICK f, v : /\ f = [top EXCEPT !.pc = "field", !.i = k] /\ v = Element(value[p], k)
                    /\ RunChild(g, f, child, v, k)
    BY <1>1 DEF RunField
  <1>3. /\ At(g, "fields", {"object"}) /\ KeysLeft(g) # {} /\ UNCHANGED <<graph, build>>
    BY DEF RunField
  <1>4. /\ stack[g] # <<>> /\ top.pc = "fields" /\ NodeOf(g).kids \in Seq(Node)
        /\ Len(NodeOf(g).kids) \in Nat /\ WellFormed(NodeOf(g)) /\ top.n \in Node
    BY <1>1, <1>3, AtTyped
  <1>5. IsFrame(top) /\ FrameTyped(top) /\ Fitting(top) /\ p \in PayloadId /\ value[p] \in V
    BY <1>1, <1>4, TopTyped
  <1>6. k \in Nat /\ k >= 1 /\ k \in KeysLeft(g)
    BY <1>1, <1>3, <1>4, KeysLeftTyped
  <1>7. child \in Node
    <2>1. CASE k \in Shape(top.n)
      <3>1. k <= Len(NodeOf(g).kids)
        BY <1>1, <1>4, <2>1 DEF Shape, NodeOf
      <3> QED
        BY <1>1, <1>4, <1>6, <2>1, <3>1, KidTyped
    <2>2. CASE k \notin Shape(top.n)
      <3>1. NodeOf(g).mode = "catchall"
        BY <1>1, <1>6, <2>2 DEF KeysLeft
      <3> QED
        BY <1>1, <1>4, <2>2, <3>1 DEF WellFormed
    <2> QED
      BY <2>1, <2>2
  <1>8. v \in V
    BY <1>2, <1>5, <1>6, ElementsTyped DEF Known
  <1>9. /\ f.n = top.n /\ f.pc = "field" /\ f.p = p /\ f.i = k /\ f.start = top.start
        /\ f.flag = top.flag /\ f.marks = top.marks /\ f.kids = top.kids /\ IsRecord(f)
    BY <1>1, <1>2, <1>5 DEF IsFrame, IsRecord
  <1>10. FrameTyped(f)
    BY <1>5, <1>6, <1>9 DEF FrameTyped, Pc, EntryPc
  <1>11. Fitting(f)
    BY <1>1, <1>4, <1>5, <1>9 DEF Fitting, FieldPc, ItemPc
  <1> QED
    BY <1>1, <1>2, <1>3, <1>4, <1>6, <1>7, <1>8, <1>9, <1>10, <1>11, RunChildTyped
\* What a child leaves.
LEMMA ChildTyped ==
  ASSUME NEW V, Known(V), NEW g \in Goroutine, stack[g] # <<>>, Top(g).pc \in OneChild,
         NEW cp, cp = Top(g).kids[1]
  PROVE  cp \in PayloadId /\ value[cp] \in V /\ issues[cp] \in Seq(Issue)
  <1>1. PICK f : f = Top(g)
    OBVIOUS
  <1>2. f.kids \in Seq(PayloadId) /\ Len(f.kids) >= 1
    BY <1>1, TopTyped DEF IsFrame, FrameOK
  <1>3. 1 \in 1 .. Len(f.kids)
    BY <1>2, LenProperties
  <1>4. cp \in PayloadId
    BY <1>1, <1>2, <1>3, ElementOfSeq
  <1> QED
    BY <1>4 DEF Known, TypeInv, Data

\* One element of a sequence is another one.
LEMMA WithOne ==
  ASSUME NEW S, NEW s \in Seq(S), NEW k, NEW x \in S
  PROVE  [s EXCEPT ![k] = x] \in Seq(S) /\ Len([s EXCEPT ![k] = x]) = Len(s)
  <1>1. Len(s) \in Nat /\ DOMAIN s = 1 .. Len(s) /\ s \in [1 .. Len(s) -> S]
    BY LenProperties
  <1>2. PICK n \in Nat : n = Len(s)
    BY <1>1
  <1>3. PICK t : t = [s EXCEPT ![k] = x]
    OBVIOUS
  <1>4. t \in [1 .. n -> S] /\ DOMAIN t = 1 .. n
    BY <1>1, <1>2, <1>3
  <1>5. t \in Seq(S)
    BY <1>2, <1>4, SeqDef
  <1>6. Len(t) = n
    BY <1>2, <1>4, <1>5, LenProperties
  <1> QED
    BY <1>2, <1>3, <1>5, <1>6

LEMMA FieldDoneTyped ==
  ASSUME NEW V, Known(V), NEW g \in Goroutine, FieldDone(g)
  PROVE  TypeInv(V)'
  <1>1. PICK top, p, cp, k, dropped :
          /\ top = Top(g) /\ p = top.p /\ cp = top.kids[1] /\ k = top.i
          /\ dropped = (/\ k \in Shape(top.n) /\ k \notin Keys(value[p])
                        /\ Traits(Kid(g, k)).optIn /\ Traits(Kid(g, k)).optOut)
    OBVIOUS
  <1>2. PICK added, x, f :
          /\ added = (IF dropped THEN <<>> ELSE Prefixed(issues[cp], k))
          /\ x = (IF dropped THEN Missing ELSE value[cp])
          /\ f = [top EXCEPT !.pc = "fields", !.kids = <<>>]
    OBVIOUS
  <1>3. /\ ReleaseAll(top.kids, value, [issues EXCEPT ![p] = @ \o added], aborted)
        /\ build' = [build EXCEPT ![p][k] = x] /\ Goto(g, f) /\ UNCHANGED <<base, graph>>
    BY <1>1, <1>2 DEF FieldDone
  <1>4. stack[g] # <<>> /\ top.pc = "field"
    BY <1>1 DEF FieldDone, At
  <1>5. /\ IsFrame(top) /\ FrameTyped(top) /\ Fitting(top) /\ p \in PayloadId
        /\ build[p] \in Seq(V) /\ Missing \in V
    BY <1>1, <1>4, TopTyped DEF Known, Typed
  <1>6. value[cp] \in V /\ issues[cp] \in Seq(Issue)
    BY <1>1, <1>4, ChildTyped DEF OneChild
  <1>7. added \in Seq(Issue) /\ x \in V
    <2>1. k \in Nat
      BY <1>1, <1>5 DEF FrameTyped
    <2>2. Prefixed(issues[cp], k) \in Seq(Issue) /\ <<>> \in Seq(Issue)
      BY <1>6, <2>1, PrefixTyped, EmptySeq
    <2> QED
      BY <1>2, <1>5, <1>6, <2>2
  <1>8. PICK out : out = [build[p] EXCEPT ![k] = x]
    OBVIOUS
  <1>9. out \in Seq(V) /\ Len(out) = Len(build[p]) /\ build' = [build EXCEPT ![p] = out]
    BY <1>3, <1>5, <1>7, <1>8, WithOne
  <1>10. Len(out) <= Len(KeyNames)
    BY <1>1, <1>4, <1>5, <1>9 DEF Fitting, FieldPc
  <1>11. /\ f.n = top.n /\ f.pc = "fields" /\ f.p = p /\ f.i = top.i /\ f.start = top.start
         /\ f.flag = top.flag /\ f.marks = top.marks
    BY <1>1, <1>2, <1>5 DEF IsFrame
  <1>12. FrameTyped(f)
    BY <1>5, <1>11 DEF FrameTyped, Pc, EntryPc
  <1>13. f.pc # "option" /\ f.pc \notin ItemPc
    BY <1>11 DEF ItemPc
  <1> QED
    BY <1>1, <1>3, <1>4, <1>7, <1>9, <1>10, <1>11, <1>12, <1>13, GiveTyped

\* The elements of a value replaced: the frame is done.
LEMMA ReplacedTyped ==
  ASSUME NEW V, Known(V), NEW g \in Goroutine, stack[g] # <<>>, NEW p, p = Top(g).p,
         UNCHANGED <<base, graph>>, Set(issues', issues, p, Seq(Issue)),
         NEW out \in Seq(V), value[p].t = "obj" => Len(out) <= Len(KeyNames),
         value' = [value EXCEPT ![p] = WithElements(@, out)],
         build' = [build EXCEPT ![p] = <<>>]
  PROVE  Changes(V, g)
  <1>1. value[p] \in V
    BY TopTyped
  <1>2. PICK v : v = WithElements(value[p], out)
    OBVIOUS
  <1>3. v \in V
    BY <1>1, <1>2 DEF Known, Closed
  <1>4. value' = [value EXCEPT ![p] = v]
    BY <1>2
  <1>5. <<>> \in Seq(V)
    BY EmptySeq
  <1>6. Set(value', value, p, V) /\ Set(build', build, p, Seq(V))
    BY <1>3, <1>4, <1>5 DEF Set
  <1> QED
    BY <1>6, WroteChanges DEF Wrote

\* The report of unknown keys.
LEMMA ReportTyped ==
  ASSUME NEW p, base[p] \in Seq(Nat), issues[p] \in Seq(Issue), NEW unknown \in SUBSET Nat,
         NEW e, e = [IssueAt(p, "unrecognized_keys", "unset", <<>>) EXCEPT !.keys = unknown],
         Raise(p, e) \/ issues' = issues
  PROVE  Set(issues', issues, p, Seq(Issue))
  <1>1. PICK d : d = IssueAt(p, "unrecognized_keys", "unset", <<>>)
    OBVIOUS
  <1>2. d \in Issue
    BY <1>1, IssueTyped, EmptySeq DEF Code, Cont
  <1>3. e \in Issue
    BY <1>1, <1>2 DEF Issue
  <1> QED
    BY <1>3, RaiseTyped DEF Set

LEMMA EndFieldsTyped ==
  ASSUME NEW V, Known(V), NEW g \in Goroutine, EndFields(g)
  PROVE  TypeInv(V)'
  <1>1. PICK top, p, unknown, copied, report :
          /\ top = Top(g) /\ p = top.p /\ unknown = Keys(value[p]) \ Shape(top.n)
          /\ copied = [k \in DOMAIN build[p] |->
                         IF k \in unknown /\ NodeOf(g).mode = "loose"
                         THEN value[p].e[k] ELSE build[p][k]]
          /\ report = [IssueAt(p, "unrecognized_keys", "unset", <<>>) EXCEPT !.keys = unknown]
    OBVIOUS
  <1>2. /\ Raise(p, report) \/ issues' = issues
        /\ value' = [value EXCEPT ![p] = WithElements(@, copied)]
        /\ build' = [build EXCEPT ![p] = <<>>]
        /\ Jump(g, "parsed") /\ UNCHANGED <<base, graph>>
    BY <1>1 DEF EndFields
  <1>3. stack[g] # <<>> /\ top.pc = "fields"
    BY <1>1 DEF EndFields, At
  <1>4. /\ Fitting(top) /\ p \in PayloadId /\ build[p] \in Seq(V) /\ value[p] \in V
        /\ issues[p] \in Seq(Issue) /\ base[p] \in Seq(Nat)
    BY <1>1, <1>3, TopTyped
  <1>5. PICK v, b : v = value[p] /\ b = build[p]
    OBVIOUS
  <1>6. /\ Len(v.e) \in Nat /\ DOMAIN v.e = 1 .. Len(v.e) /\ Keys(v) \subseteq 1 .. Len(v.e)
        /\ \A j \in 1 .. Len(v.e) : v.e[j] \in V
    BY <1>4, <1>5, ElementsTyped DEF Known
  <1>7. /\ Len(b) \in Nat /\ DOMAIN b = 1 .. Len(b) /\ \A j \in 1 .. Len(b) : b[j] \in V
    BY <1>4, <1>5, LenProperties, ElementOfSeq
  <1>8. PICK n \in Nat : n = Len(b)
    BY <1>7
  <1>9. copied \in [1 .. n -> V] /\ DOMAIN copied = 1 .. n
    <2>1. \A k \in 1 .. n : k \in unknown => v.e[k] \in V
      BY <1>1, <1>5, <1>6
    <2> QED
      BY <1>1, <1>5, <1>7, <1>8, <2>1
  <1>10. copied \in Seq(V)
    BY <1>8, <1>9, SeqDef
  <1>11. Len(copied) = n
    BY <1>8, <1>9, <1>10, LenProperties
  <1>12. Len(copied) <= Len(KeyNames)
    BY <1>3, <1>1, <1>4, <1>5, <1>8, <1>11 DEF Fitting, FieldPc
  <1>13. Set(issues', issues, p, Seq(Issue))
    <2>1. unknown \in SUBSET Nat
      BY <1>1, <1>5, <1>6
    <2> QED
      BY <1>1, <1>2, <1>4, <2>1, ReportTyped
  <1>14. Changes(V, g)
    BY <1>1, <1>2, <1>3, <1>10, <1>12, <1>13, ReplacedTyped
  <1> QED
    BY <1>2, <1>3, <1>14, JumpTyped DEF QuietPc, Pc, EntryPc, FieldPc, ItemPc

-----------------------------------------------------------------------------
(* Arrays, sets and tuples. *)

LEMMA EnterArrayTyped ==
  ASSUME NEW V, Known(V), NEW g \in Goroutine, EnterArray(g)
  PROVE  TypeInv(V)'
  <1>1. PICK top, p : top = Top(g) /\ p = top.p
    OBVIOUS
  <1>2. PICK f : f = [top EXCEPT !.pc = "items", !.i = 1] /\ Goto(g, f)
    BY <1>1 DEF EnterArray
  <1>3. /\ stack[g] # <<>> /\ value[p].t = "arr" /\ build' = [build EXCEPT ![p] = <<>>]
        /\ UNCHANGED <<value, issues, base, graph>>
    BY <1>1 DEF EnterArray, At, payloadVars
  <1>4. IsFrame(top) /\ FrameTyped(top)
    BY <1>1, <1>3, TopTyped
  <1>5. <<>> \in Seq(V)
    BY EmptySeq
  <1>6. Changes(V, g)
    BY <1>1, <1>3, <1>5, WroteChanges DEF Wrote, Set
  <1>7. /\ f.n = top.n /\ f.pc = "items" /\ f.p = p /\ f.i = 1 /\ f.start = top.start
        /\ f.flag = top.flag /\ f.marks = top.marks
    BY <1>1, <1>2, <1>4 DEF IsFrame
  <1>8. FrameTyped(f)
    BY <1>4, <1>7 DEF FrameTyped, Pc, EntryPc
  <1>9. Fitting(f)'
    BY <1>3, <1>7 DEF Fitting, FieldPc, EntryPc
  <1> QED
    BY <1>2, <1>3, <1>6, <1>8, <1>9, GoTyped

LEMMA RunItemTyped ==
  ASSUME NEW V, Known(V), NEW g \in Goroutine, RunItem(g)
  PROVE  TypeInv(V)'
  <1>1. PICK top, p, f, v, rest :
          /\ top = Top(g) /\ p = top.p /\ f = [top EXCEPT !.pc = "item"]
          /\ v = Element(value[p], top.i) /\ rest = NodeOf(g).rest
    OBVIOUS
  <1>2. /\ At(g, "items", {"array", "set", "tuple"}) /\ rest # NoNode /\ UNCHANGED <<graph, build>>
    BY <1>1 DEF RunItem
  <1>3. stack[g] # <<>> /\ top.pc = "items" /\ rest \in Node
    BY <1>1, <1>2, AtTyped
  <1>4. /\ IsFrame(top) /\ FrameTyped(top) /\ Fitting(top) /\ p \in PayloadId
        /\ value[p] \in V /\ base[p] \in Seq(Nat)
    BY <1>1, <1>3, TopTyped
  <1>5. top.i \in Nat /\ top.i >= 1
    BY <1>3, <1>4 DEF FrameTyped
  <1>6. v \in V
    BY <1>1, <1>4, <1>5, ElementsTyped DEF Known
  <1>7. /\ f.n = top.n /\ f.pc = "item" /\ f.p = p /\ f.i = top.i /\ f.start = top.start
        /\ f.flag = top.flag /\ f.marks = top.marks /\ f.kids = top.kids /\ IsRecord(f)
    BY <1>1, <1>4 DEF IsFrame, IsRecord
  <1>8. FrameTyped(f)
    BY <1>4, <1>5, <1>7 DEF FrameTyped, Pc, EntryPc
  <1>9. Fitting(f)
    BY <1>1, <1>3, <1>4, <1>7 DEF Fitting, FieldPc, EntryPc, ItemPc
  <1>10. RunOn(g, f, rest, v, NoCtx, base[p]) \/ RunChild(g, f, rest, v, top.i)
    BY <1>1, <1>7 DEF RunItem
  <1> QED
    BY <1>1, <1>2, <1>3, <1>4, <1>5, <1>6, <1>7, <1>8, <1>9, <1>10, RunOnTyped, RunChildTyped

LEMMA ItemDoneTyped ==
  ASSUME NEW V, Known(V), NEW g \in Goroutine, ItemDone(g)
  PROVE  TypeInv(V)'
  <1>1. PICK top, p, cp : top = Top(g) /\ p = top.p /\ cp = top.kids[1]
    OBVIOUS
  <1>2. PICK added, out, f :
          /\ added = (IF NodeOf(g).kind = "set" THEN issues[cp] ELSE Prefixed(issues[cp], top.i))
          /\ out = Collected(NodeOf(g).kind, build[p], value[cp])
          /\ f = [top EXCEPT !.pc = "items", !.i = @ + 1, !.kids = <<>>]
    OBVIOUS
  <1>3. /\ ReleaseAll(top.kids, value, [issues EXCEPT ![p] = @ \o added], aborted)
        /\ build' = [build EXCEPT ![p] = out] /\ Goto(g, f) /\ UNCHANGED <<base, graph>>
    BY <1>1, <1>2 DEF ItemDone
  <1>4. stack[g] # <<>> /\ top.pc = "item"
    BY <1>1 DEF ItemDone, At
  <1>5. IsFrame(top) /\ FrameTyped(top) /\ Fitting(top) /\ build[p] \in Seq(V)
    BY <1>1, <1>4, TopTyped
  <1>6. value[cp] \in V /\ issues[cp] \in Seq(Issue)
    BY <1>1, <1>4, ChildTyped DEF OneChild
  <1>7. added \in Seq(Issue)
    BY <1>2, <1>5, <1>6, PrefixTyped DEF FrameTyped
  <1>8. out \in Seq(V)
    <2>1. Append(build[p], value[cp]) \in Seq(V)
      BY <1>5, <1>6, AppendProperties
    <2> QED
      BY <1>2, <1>5, <2>1 DEF Collected
  <1>9. /\ f.n = top.n /\ f.pc = "items" /\ f.p = p /\ f.i = top.i + 1 /\ f.start = top.start
        /\ f.flag = top.flag /\ f.marks = top.marks
    BY <1>1, <1>2, <1>5 DEF IsFrame
  <1>10. FrameTyped(f)
    BY <1>5, <1>9 DEF FrameTyped, Pc, EntryPc
  <1>11. value[p].t # "obj" /\ f.pc # "option" /\ f.pc \notin FieldPc \cup EntryPc
    BY <1>1, <1>4, <1>5, <1>9 DEF Fitting, ItemPc, FieldPc, EntryPc
  <1> QED
    BY <1>1, <1>3, <1>4, <1>7, <1>8, <1>9, <1>10, <1>11, GiveTyped

LEMMA EndItemsTyped ==
  ASSUME NEW V, Known(V), NEW g \in Goroutine, EndItems(g)
  PROVE  TypeInv(V)'
  <1>1. PICK top, p, n, out :
          /\ top = Top(g) /\ p = top.p /\ n = Len(value[p].e)
          /\ out = (IF NodeOf(g).kind = "tuple" THEN Trimmed(build[p], n) ELSE build[p])
    OBVIOUS
  <1>2. /\ value' = [value EXCEPT ![p] = WithElements(@, out)]
        /\ build' = [build EXCEPT ![p] = <<>>]
        /\ Jump(g, "parsed") /\ UNCHANGED <<issues, base, graph>>
    BY <1>1 DEF EndItems
  <1>3. stack[g] # <<>> /\ top.pc = "items"
    BY <1>1 DEF EndItems, At
  <1>4. Fitting(top) /\ build[p] \in Seq(V) /\ value[p] \in V
    BY <1>1, <1>3, TopTyped
  <1>5. value[p].t # "obj"
    BY <1>1, <1>3, <1>4 DEF Fitting, ItemPc
  <1>6. n \in Nat /\ Len(build[p]) \in Nat
    BY <1>1, <1>4, ElementsTyped, LenProperties DEF Known
  <1>7. PICK b : b = build[p]
    OBVIOUS
  <1>8. Trimmed(b, n) \in Seq(V)
    <2>1. PICK m : m = (IF Len(b) > n THEN n ELSE Len(b))
      OBVIOUS
    <2>2. m \in Nat /\ m <= Len(b)
      BY <1>6, <1>7, <2>1
    <2>3. SubSeq(b, 1, m) \in Seq(V)
      BY <1>4, <1>7, <2>2, SubSeqProperties
    <2> QED
      BY <2>1, <2>3 DEF Trimmed
  <1>9. out \in Seq(V)
    BY <1>1, <1>4, <1>7, <1>8
  <1>10. Changes(V, g)
    BY <1>1, <1>2, <1>3, <1>5, <1>9, ReplacedTyped DEF Set
  <1> QED
    BY <1>2, <1>3, <1>10, JumpTyped DEF QuietPc, Pc, EntryPc, FieldPc, ItemPc

LEMMA EnterTupleTyped ==
  ASSUME NEW V, Known(V), NEW g \in Goroutine, EnterTuple(g)
  PROVE  TypeInv(V)'
  <1>1. PICK top, p, low, high :
          /\ top = Top(g) /\ p = top.p
          /\ low = IssueAt(p, "too_small", "unset", <<>>)
          /\ high = IssueAt(p, "too_big", "unset", <<>>)
    OBVIOUS
  <1>2. PICK pc, f : /\ pc \in {"parsed", "slots"} /\ f = [top EXCEPT !.pc = pc, !.i = 1]
                     /\ Goto(g, f)
    BY <1>1 DEF EnterTuple
  <1>3. /\ stack[g] # <<>> /\ value[p].t = "arr" /\ build' = [build EXCEPT ![p] = <<>>]
        /\ UNCHANGED <<value, base, graph>>
        /\ Raise(p, low) \/ Raise(p, high) \/ issues' = issues
    BY <1>1 DEF EnterTuple, At
  <1>4. IsFrame(top) /\ FrameTyped(top) /\ issues[p] \in Seq(Issue) /\ base[p] \in Seq(Nat)
    BY <1>1, <1>3, TopTyped
  <1>5. <<>> \in Seq(V) /\ low \in Issue /\ high \in Issue
    BY <1>1, <1>4, EmptySeq, IssueTyped DEF Code, Cont
  <1>6. Set(issues', issues, p, Seq(Issue))
    BY <1>3, <1>4, <1>5, RaiseTyped DEF Set
  <1>7. Changes(V, g)
    BY <1>1, <1>3, <1>5, <1>6, WroteChanges DEF Wrote, Set
  <1>8. /\ f.n = top.n /\ f.pc = pc /\ f.p = p /\ f.i = 1 /\ f.start = top.start
        /\ f.flag = top.flag /\ f.marks = top.marks
    BY <1>1, <1>2, <1>4 DEF IsFrame
  <1>9. FrameTyped(f)
    BY <1>2, <1>4, <1>8 DEF FrameTyped, Pc, EntryPc
  <1>10. Fitting(f)'
    BY <1>2, <1>3, <1>8 DEF Fitting, FieldPc, EntryPc
  <1> QED
    BY <1>2, <1>3, <1>7, <1>9, <1>10, GoTyped

LEMMA RunSlotTyped ==
  ASSUME NEW V, Known(V), NEW g \in Goroutine, RunSlot(g)
  PROVE  TypeInv(V)'
  <1>1. PICK top, p, v : top = Top(g) /\ p = top.p /\ v = Element(value[p], top.i)
    OBVIOUS
  <1>2. PICK f : /\ f = [top EXCEPT !.pc = "slot", !.marks = Append(@, Len(issues[p]))]
                 /\ RunChild(g, f, Kid(g, top.i), v, top.i)
    BY <1>1 DEF RunSlot
  <1>3. /\ At(g, "slots", {"tuple"}) /\ top.i <= Len(NodeOf(g).kids) /\ UNCHANGED <<graph, build>>
    BY <1>1 DEF RunSlot
  <1>4. stack[g] # <<>> /\ top.pc = "slots" /\ top.n \in Node
    BY <1>1, <1>3, AtTyped
  <1>5. /\ IsFrame(top) /\ FrameTyped(top) /\ Fitting(top) /\ p \in PayloadId
        /\ value[p] \in V /\ issues[p] \in Seq(Issue)
    BY <1>1, <1>4, TopTyped
  <1>6. top.i \in Nat /\ top.i >= 1 /\ top.marks \in Seq(Nat)
    BY <1>4, <1>5 DEF FrameTyped
  <1>7. v \in V /\ Kid(g, top.i) \in Node
    BY <1>1, <1>3, <1>4, <1>5, <1>6, ElementsTyped, KidTyped DEF Known
  <1>8. Append(top.marks, Len(issues[p])) \in Seq(Nat)
    <2>1. Len(issues[p]) \in Nat
      BY <1>5, LenProperties
    <2> QED
      BY <1>6, <2>1, AppendProperties
  <1>9. /\ f.n = top.n /\ f.pc = "slot" /\ f.p = p /\ f.i = top.i /\ f.start = top.start
        /\ f.flag = top.flag /\ f.marks \in Seq(Nat) /\ f.kids = top.kids /\ IsRecord(f)
    BY <1>1, <1>2, <1>5, <1>8 DEF IsFrame, IsRecord
  <1>10. FrameTyped(f)
    BY <1>5, <1>6, <1>9 DEF FrameTyped, Pc, EntryPc
  <1>11. Fitting(f)
    BY <1>1, <1>4, <1>5, <1>9 DEF Fitting, FieldPc, EntryPc, ItemPc
  <1> QED
    BY <1>1, <1>2, <1>3, <1>4, <1>6, <1>7, <1>9, <1>10, <1>11, RunChildTyped

LEMMA SlotDoneTyped ==
  ASSUME NEW V, Known(V), NEW g \in Goroutine, SlotDone(g)
  PROVE  TypeInv(V)'
  <1>1. PICK top, p, cp : top = Top(g) /\ p = top.p /\ cp = top.kids[1]
    OBVIOUS
  <1>2. PICK added, out, f :
          /\ added = Prefixed(issues[cp], top.i) /\ out = Append(build[p], value[cp])
          /\ f = [top EXCEPT !.pc = "slots", !.i = @ + 1, !.kids = <<>>]
    OBVIOUS
  <1>3. /\ ReleaseAll(top.kids, value, [issues EXCEPT ![p] = @ \o added], aborted)
        /\ build' = [build EXCEPT ![p] = out] /\ Goto(g, f) /\ UNCHANGED <<base, graph>>
    BY <1>1, <1>2 DEF SlotDone
  <1>4. stack[g] # <<>> /\ top.pc = "slot"
    BY <1>1 DEF SlotDone, At
  <1>5. IsFrame(top) /\ FrameTyped(top) /\ Fitting(top) /\ build[p] \in Seq(V)
    BY <1>1, <1>4, TopTyped
  <1>6. value[cp] \in V /\ issues[cp] \in Seq(Issue)
    BY <1>1, <1>4, ChildTyped DEF OneChild
  <1>7. added \in Seq(Issue)
    BY <1>2, <1>5, <1>6, PrefixTyped DEF FrameTyped
  <1>8. out \in Seq(V)
    BY <1>2, <1>5, <1>6, AppendProperties
  <1>9. /\ f.n = top.n /\ f.pc = "slots" /\ f.p = p /\ f.i = top.i + 1 /\ f.start = top.start
        /\ f.flag = top.flag /\ f.marks = top.marks
    BY <1>1, <1>2, <1>5 DEF IsFrame
  <1>10. FrameTyped(f)
    BY <1>5, <1>9 DEF FrameTyped, Pc, EntryPc
  <1>11. value[p].t # "obj" /\ f.pc # "option" /\ f.pc \notin FieldPc \cup EntryPc
    BY <1>1, <1>4, <1>5, <1>9 DEF Fitting, ItemPc, FieldPc, EntryPc
  <1> QED
    BY <1>1, <1>3, <1>4, <1>7, <1>8, <1>9, <1>10, <1>11, GiveTyped

LEMMA AssembleTyped ==
  ASSUME NEW V, Known(V), NEW g \in Goroutine, Assemble(g)
  PROVE  TypeInv(V)'
  <1>1. PICK f, p : f = Top(g) /\ p = f.p
    OBVIOUS
  <1>2. stack[g] # <<>> /\ f.pc = "slots" /\ UNCHANGED <<value, base, graph>>
    BY <1>1 DEF Assemble, At
  <1>3. /\ IsFrame(f) /\ FrameOK(f) /\ FrameTyped(f) /\ Fitting(f) /\ p \in PayloadId
        /\ build[p] \in Seq(V) /\ issues[p] \in Seq(Issue)
    BY <1>1, <1>2, TopTyped
  <1>4. Noted(f)
    BY <1>2, <1>3 DEF FrameOK
  <1>5. PICK h : Goto(g, h) /\ h = [f EXCEPT !.pc = "items", !.marks = <<>>]
    BY <1>1 DEF Assemble
  <1> DEFINE n == Len(value[p].e)
             after(k) == IF k < Len(f.marks) THEN f.marks[k + 1] ELSE Len(issues[p])
             swallowed(k) == after(k) > f.marks[k] /\ k > TupleOptStart(RequiredOut(f.n))
             stops == {k \in DOMAIN build[p] :
                         k > n /\ (swallowed(k) \/ build[p][k] = Missing)}
             stop == Min(stops)
  <1>6. IF stops = {}
        THEN UNCHANGED <<issues, build>>
        ELSE /\ build' = [build EXCEPT ![p] = SubSeq(@, 1, stop - 1)]
             /\ issues' = [issues EXCEPT ![p] =
                             IF swallowed(stop) THEN SubSeq(@, 1, f.marks[stop]) ELSE @]
    BY <1>1, Zenon DEF Assemble
  <1>7. Set(issues', issues, p, Seq(Issue)) /\ Set(build', build, p, Seq(V))
    <2>1. CASE stops = {}
      <3> HIDE DEF stops, stop
      <3> QED
        BY <1>6, <2>1 DEF Set
    <2>2. CASE stops # {}
      <3>1. /\ DOMAIN build[p] = 1 .. Len(build[p]) /\ Len(build[p]) \in Nat
            /\ Len(f.marks) = Len(build[p]) /\ f.marks \in Seq(Nat)
        BY <1>1, <1>2, <1>3, <1>4, LenProperties DEF Noted
      <3>2. stops \subseteq 1 .. Len(build[p])
        BY <3>1
      <3> HIDE DEF stops
      <3>3. stop \in 1 .. Len(build[p])
        <4>1. stops \in SUBSET Nat
          BY <3>1, <3>2
        <4> QED
          BY <2>2, <3>2, <4>1, MinIs
      <3> HIDE DEF stop, swallowed
      <3>4. f.marks[stop] \in Nat /\ f.marks[stop] <= Len(issues[p])
        BY <1>1, <1>4, <3>1, <3>3, ElementOfSeq DEF Noted
      <3>5. SubSeq(issues[p], 1, f.marks[stop]) \in Seq(Issue)
        BY <1>3, <3>4, SubSeqProperties
      <3>6. SubSeq(build[p], 1, stop - 1) \in Seq(V)
        <4>1. PICK m : m = stop - 1
          OBVIOUS
        <4>2. m \in Nat /\ m <= Len(build[p])
          BY <3>1, <3>3, <4>1
        <4>3. SubSeq(build[p], 1, m) \in Seq(V)
          BY <1>3, <4>2, SubSeqProperties
        <4> QED
          BY <4>1, <4>3
      <3> QED
        BY <1>3, <1>6, <2>2, <3>5, <3>6 DEF Set
    <2> QED
      BY <2>1, <2>2
  <1> HIDE DEF stops, stop, swallowed
  <1>8. Changes(V, g)
    BY <1>1, <1>2, <1>7, WroteChanges DEF Wrote, Set
  <1>9. /\ h.n = f.n /\ h.pc = "items" /\ h.p = p /\ h.i = f.i /\ h.start = f.start
        /\ h.flag = f.flag /\ h.marks = <<>>
    BY <1>1, <1>3, <1>5 DEF IsFrame
  <1>10. FrameTyped(h)
    BY <1>2, <1>3, <1>9, EmptySeq DEF FrameTyped, Pc, EntryPc
  <1>11. Fitting(h)'
    BY <1>1, <1>2, <1>3, <1>9 DEF Fitting, FieldPc, EntryPc, ItemPc
  <1> QED
    BY <1>2, <1>5, <1>8, <1>10, <1>11, GoTyped

LEMMA ContainerTyped ==
  ASSUME NEW V, Known(V), NEW g \in Goroutine, ContainerStep(g)
  PROVE  TypeInv(V)'
  BY WrongTypeTyped, EnterObjectTyped, RunFieldTyped, FieldDoneTyped, EndFieldsTyped,
     EnterArrayTyped, RunItemTyped, ItemDoneTyped, EndItemsTyped, EnterTupleTyped,
     RunSlotTyped, SlotDoneTyped, AssembleTyped DEF ContainerStep

-----------------------------------------------------------------------------
(* Records and maps. *)

\* Put keeps an output within the keys.
LEMMA PutTyped ==
  ASSUME NEW V, Known(V), NEW e \in Seq(V), NEW k \in Nat, NEW v \in V
  PROVE  /\ Put(e, k, v) \in Seq(V)
         /\ k <= Len(KeyNames) /\ Len(e) <= Len(KeyNames) => Len(Put(e, k, v)) <= Len(KeyNames)
  <1>1. PICK m, out : m = (IF k > Len(e) THEN k ELSE Len(e)) /\ out = Put(e, k, v)
    OBVIOUS
  <1>2. Len(e) \in Nat /\ \A j \in 1 .. Len(e) : e[j] \in V
    BY LenProperties, ElementOfSeq
  <1>3. m \in Nat /\ Missing \in V
    BY <1>1, <1>2 DEF Known, Typed
  <1>4. out = [j \in 1 .. m |-> IF j = k THEN v ELSE IF j <= Len(e) THEN e[j] ELSE Missing]
    BY <1>1 DEF Put
  <1>5. out \in [1 .. m -> V] /\ DOMAIN out = 1 .. m
    BY <1>2, <1>3, <1>4
  <1>6. out \in Seq(V)
    BY <1>3, <1>5, SeqDef
  <1>7. Len(out) = m
    BY <1>3, <1>5, <1>6, LenProperties
  <1> QED
    BY <1>1, <1>2, <1>6, <1>7

\* The keys a record or a map goes through are keys of a name.
LEMMA OrdersTyped ==
  ASSUME NEW V, Known(V), NEW n, NEW v \in V, v.t = "obj", NEW order \in Orders(n, v)
  PROVE  /\ order \in Seq(Nat)
         /\ \A j \in 1 .. Len(order) : order[j] \in 1 .. Len(KeyNames)
  <1>1. /\ Keys(v) \subseteq 1 .. Len(v.e) /\ Len(v.e) \in Nat /\ Len(v.e) <= Len(KeyNames)
        /\ KeyNames \in Seq(V) /\ Len(KeyNames) \in Nat
    BY ElementsTyped DEF Known
  <1>2. DOMAIN KeyNames = 1 .. Len(KeyNames)
    BY <1>1, LenProperties
  <1>3. Keys(v) \subseteq 1 .. Len(KeyNames)
    BY <1>1
  <1>4. EntryKeys(n, v) \subseteq 1 .. Len(KeyNames)
    BY <1>2, <1>3 DEF EntryKeys, Expected, Exhaustive
  <1>5. PICK S : S = EntryKeys(n, v)
    OBVIOUS
  <1>6. order \in SetToSeqs(S)
    BY <1>5 DEF Orders
  <1>7. order \in [1 .. Cardinality(S) -> S]
    BY <1>6 DEF SetToSeqs
  <1>8. S \subseteq Nat
    BY <1>1, <1>4, <1>5
  <1>9. IsFiniteSet(S)
    <2>1. IsFiniteSet(1 .. Len(KeyNames))
      BY <1>1, FS_Interval
    <2> QED
      BY <1>4, <1>5, <2>1, FS_Subset
  <1>10. Cardinality(S) \in Nat
    BY <1>9, FS_CardinalityType
  <1>11. PICK c \in Nat : c = Cardinality(S)
    BY <1>10
  <1>12. order \in Seq(S) /\ order \in Seq(Nat)
    <2>1. order \in [1 .. c -> S]
      BY <1>7, <1>11
    <2>2. order \in [1 .. c -> Nat]
      BY <1>8, <2>1
    <2> QED
      BY <2>1, <2>2, SeqDef
  <1>13. \A j \in 1 .. Len(order) : order[j] \in S
    BY <1>12, ElementOfSeq
  <1> QED
    BY <1>4, <1>5, <1>12, <1>13

LEMMA EnterEntriesTyped ==
  ASSUME NEW V, Known(V), NEW g \in Goroutine, EnterEntries(g)
  PROVE  TypeInv(V)'
  <1>1. PICK top, p, out : /\ top = Top(g) /\ p = top.p
                           /\ out = [k \in DOMAIN value[p].e |-> Missing]
    OBVIOUS
  <1>2. PICK order, f : /\ order \in Orders(top.n, value[p])
                        /\ f = [top EXCEPT !.pc = "keys", !.i = 1, !.marks = order]
                        /\ Goto(g, f)
    BY <1>1 DEF EnterEntries
  <1>3. /\ stack[g] # <<>> /\ value[p].t = "obj" /\ build' = [build EXCEPT ![p] = out]
        /\ UNCHANGED <<value, issues, base, graph>>
    BY <1>1 DEF EnterEntries, At, payloadVars
  <1>4. IsFrame(top) /\ FrameTyped(top) /\ p \in PayloadId /\ value[p] \in V
    BY <1>1, <1>3, TopTyped
  <1>5. out \in Seq(V) /\ Len(out) <= Len(KeyNames)
    BY <1>1, <1>3, <1>4, AbsentKeys
  <1>6. Changes(V, g)
    BY <1>1, <1>3, <1>5, WroteChanges DEF Wrote, Set
  <1>7. build'[p] = out
    BY <1>3, <1>4 DEF Known, TypeInv, Data
  <1>8. order \in Seq(Nat) /\ \A j \in 1 .. Len(order) : order[j] \in 1 .. Len(KeyNames)
    BY <1>2, <1>3, <1>4, OrdersTyped
  <1>9. /\ f.n = top.n /\ f.pc = "keys" /\ f.p = p /\ f.i = 1 /\ f.start = top.start
        /\ f.flag = top.flag /\ f.marks = order
    BY <1>1, <1>2, <1>4 DEF IsFrame
  <1>10. FrameTyped(f)
    BY <1>4, <1>8, <1>9 DEF FrameTyped, Pc, EntryPc
  <1>11. Fitting(f)'
    BY <1>5, <1>7, <1>9 DEF Fitting, ItemPc
  <1> QED
    BY <1>2, <1>3, <1>6, <1>10, <1>11, GoTyped

\* The key that runs is a key of a name.
LEMMA MarkTyped ==
  ASSUME NEW f, FrameTyped(f), f.pc \in EntryPc, f.i <= Len(f.marks)
  PROVE  f.marks[f.i] \in Nat /\ f.marks[f.i] \in 1 .. Len(KeyNames)
  <1>1. f.i \in 1 .. Len(f.marks) /\ f.marks \in Seq(Nat)
    BY LenProperties DEF FrameTyped, EntryPc
  <1> QED
    BY <1>1, ElementOfSeq DEF FrameTyped

LEMMA RunKeyTyped ==
  ASSUME NEW V, Known(V), NEW g \in Goroutine, RunKey(g)
  PROVE  TypeInv(V)'
  <1>1. PICK top, p, k, v, path, f :
          /\ top = Top(g) /\ p = top.p /\ k = top.marks[top.i] /\ v = KeyNames[k]
          /\ path = Append(base[p], k) /\ f = [top EXCEPT !.pc = "key"]
    OBVIOUS
  <1>2. /\ At(g, "keys", {"record", "map"}) /\ top.i <= Len(top.marks) /\ UNCHANGED <<graph, build>>
        /\ RunOn(g, f, Kid(g, 1), v, call[g].ctx, path)
    BY <1>1 DEF RunKey, KeyValue
  <1>3. stack[g] # <<>> /\ top.pc = "keys" /\ Kid(g, 1) \in Node
    BY <1>1, <1>2, AtTyped, KidsTyped
  <1>4. IsFrame(top) /\ FrameTyped(top) /\ Fitting(top) /\ base[p] \in Seq(Nat)
    BY <1>1, <1>3, TopTyped
  <1>5. k \in Nat /\ k \in 1 .. Len(KeyNames)
    BY <1>1, <1>2, <1>3, <1>4, MarkTyped DEF EntryPc
  <1>6. v \in V /\ path \in Seq(Nat)
    <2>1. KeyNames \in Seq(V)
      BY DEF Known, Typed
    <2> QED
      BY <1>1, <1>4, <1>5, <2>1, ElementOfSeq, PathTyped
  <1>7. /\ f.n = top.n /\ f.pc = "key" /\ f.p = p /\ f.i = top.i /\ f.start = top.start
        /\ f.flag = top.flag /\ f.marks = top.marks /\ f.kids = top.kids /\ IsRecord(f)
    BY <1>1, <1>4 DEF IsFrame, IsRecord
  <1>8. FrameTyped(f)
    BY <1>2, <1>3, <1>4, <1>7 DEF FrameTyped, Pc, EntryPc
  <1>9. Fitting(f)
    BY <1>1, <1>3, <1>4, <1>7 DEF Fitting, EntryPc, ItemPc
  <1> QED
    BY <1>1, <1>2, <1>3, <1>6, <1>7, <1>8, <1>9, RunOnTyped

LEMMA RunEntryTyped ==
  ASSUME NEW V, Known(V), NEW g \in Goroutine, RunEntry(g)
  PROVE  TypeInv(V)'
  <1>1. PICK top, p, k, v, path, f :
          /\ top = Top(g) /\ p = top.p /\ k = top.marks[top.i] /\ v = Element(value[p], k)
          /\ path = Append(base[p], k) /\ f = [top EXCEPT !.pc = "value"]
    OBVIOUS
  <1>2. At(g, "entry", {"record", "map"}) /\ UNCHANGED <<graph, build>>
    BY DEF RunEntry
  <1>3. stack[g] # <<>> /\ top.pc = "entry" /\ Kid(g, 2) \in Node
    BY <1>1, <1>2, AtTyped, KidsTyped
  <1>4. /\ IsFrame(top) /\ FrameTyped(top) /\ Fitting(top) /\ base[p] \in Seq(Nat)
        /\ value[p] \in V
    BY <1>1, <1>3, TopTyped
  <1>5. k \in Nat /\ k \in 1 .. Len(KeyNames)
    BY <1>1, <1>3, <1>4, MarkTyped DEF EntryPc, FrameTyped
  <1>6. v \in V /\ path \in Seq(Nat)
    BY <1>1, <1>4, <1>5, ElementsTyped, PathTyped DEF Known
  <1>7. /\ f.n = top.n /\ f.pc = "value" /\ f.p = p /\ f.i = top.i /\ f.start = top.start
        /\ f.flag = top.flag /\ f.marks = top.marks /\ f.kids = top.kids /\ IsRecord(f)
    BY <1>1, <1>4 DEF IsFrame, IsRecord
  <1>8. RunOn(g, f, Kid(g, 2), v, call[g].ctx, path) \/ RunChild(g, f, Kid(g, 2), v, k)
    BY <1>1, <1>7 DEF RunEntry
  <1>9. FrameTyped(f)
    BY <1>3, <1>4, <1>7 DEF FrameTyped, Pc, EntryPc
  <1>10. Fitting(f)
    BY <1>1, <1>3, <1>4, <1>7 DEF Fitting, EntryPc, ItemPc
  <1> QED
    BY <1>1, <1>2, <1>3, <1>5, <1>6, <1>7, <1>8, <1>9, <1>10, RunOnTyped, RunChildTyped
\* The place of a key after its schema has run is that of a key, or 0.
LEMMA OutKeyTyped ==
  ASSUME NEW V, Known(V), NEW kind, NEW v, NEW k \in 1 .. Len(KeyNames)
  PROVE  OutKey(kind, v, k) \in 0 .. Len(KeyNames) /\ OutKey(kind, v, k) \in Nat
  <1>1. KeyNames \in Seq(V)
    BY DEF Known, Typed
  <1>2. DOMAIN KeyNames = 1 .. Len(KeyNames) /\ Len(KeyNames) \in Nat
    BY <1>1, LenProperties
  <1>3. OutKey(kind, v, k) \in DOMAIN KeyNames \cup {0, k}
    <2>1. PICK named : named = {j \in DOMAIN KeyNames : KeyNames[j] = v}
      OBVIOUS
    <2>2. OutKey(kind, v, k) = IF named # {} THEN CHOOSE j \in named : TRUE
                               ELSE IF kind = "map" THEN 0 ELSE k
      BY <2>1 DEF OutKey
    <2>3. named # {} => (CHOOSE j \in named : TRUE) \in DOMAIN KeyNames
      BY <2>1
    <2> QED
      BY <2>2, <2>3
  <1> QED
    BY <1>2, <1>3

LEMMA KeyDoneTyped ==
  ASSUME NEW V, Known(V), NEW g \in Goroutine, KeyDone(g)
  PROVE  TypeInv(V)'
  <1>1. PICK top, p, cp, k, skipped, failed :
          /\ top = Top(g) /\ p = top.p /\ cp = top.kids[1] /\ k = top.marks[top.i]
          /\ failed = (issues[cp] # <<>>) /\ skipped = (failed /\ NodeOf(g).kind = "record")
    OBVIOUS
  <1>2. PICK added, f :
          /\ added = CASE ~failed \/ PassesKeys(top.n) -> <<>>
                       [] NodeOf(g).kind = "map" -> Prefixed(issues[cp], k)
                       [] OTHER -> <<IssueAt(p, "invalid_key", "unset", <<k>>)>>
          /\ f = [top EXCEPT !.pc = IF skipped THEN "keys" ELSE "entry", !.kids = <<>>,
                             !.i = IF skipped THEN @ + 1 ELSE @, !.start = OutKey(NodeOf(g).kind, value[cp], k)]
    OBVIOUS
  <1>3. /\ ReleaseAll(top.kids, value, [issues EXCEPT ![p] = @ \o added], aborted)
        /\ build' = (IF skipped /\ PassesKeys(top.n)
                     THEN [build EXCEPT ![p] = Put(@, k, Element(value[p], k))] ELSE build)
        /\ Goto(g, f) /\ UNCHANGED <<base, graph>>
    BY <1>1, <1>2, Zenon DEF KeyDone
  <1>4. stack[g] # <<>> /\ top.pc = "key"
    BY <1>1 DEF KeyDone, At
  <1>5. /\ IsFrame(top) /\ FrameTyped(top) /\ Fitting(top) /\ build[p] \in Seq(V)
        /\ value[p] \in V /\ base[p] \in Seq(Nat) /\ p \in PayloadId
    BY <1>1, <1>4, TopTyped
  <1>6. value[cp] \in V /\ issues[cp] \in Seq(Issue)
    BY <1>1, <1>4, ChildTyped DEF OneChild
  <1>7. k \in Nat /\ k \in 1 .. Len(KeyNames)
    BY <1>1, <1>4, <1>5, MarkTyped DEF EntryPc, FrameTyped
  <1>8. added \in Seq(Issue)
    <2>1. <<k>> \in Seq(Nat)
      BY <1>7, PathTyped, EmptySeq
    <2>2. IssueAt(p, "invalid_key", "unset", <<k>>) \in Issue
      BY <1>5, <2>1, IssueTyped DEF Code, Cont
    <2>3. PICK e : e = IssueAt(p, "invalid_key", "unset", <<k>>)
      OBVIOUS
    <2>4. <<e>> \in Seq(Issue) /\ <<>> \in Seq(Issue) /\ Prefixed(issues[cp], k) \in Seq(Issue)
      BY <1>6, <1>7, <2>2, <2>3, PrefixTyped, EmptySeq
    <2> QED
      BY <1>2, <2>3, <2>4
  <1>9. PICK out \in Seq(V) : build' = [build EXCEPT ![p] = out] /\ Len(out) <= Len(KeyNames)
    <2>1. Len(build[p]) <= Len(KeyNames)
      BY <1>1, <1>4, <1>5 DEF Fitting, EntryPc
    <2>2. Element(value[p], k) \in V
      BY <1>5, <1>7, ElementsTyped DEF Known
    <2>3. PICK put : put = Put(build[p], k, Element(value[p], k))
      OBVIOUS
    <2>4. put \in Seq(V) /\ Len(put) <= Len(KeyNames)
      BY <1>5, <1>7, <2>1, <2>2, <2>3, PutTyped
    <2>5. build' = [build EXCEPT ![p] = put] \/ build' = build
      BY <1>3, <2>3
    <2>6. build = [build EXCEPT ![p] = build[p]]
      BY <1>5 DEF Known, TypeInv, Data
    <2> QED
      BY <1>5, <2>1, <2>4, <2>5, <2>6
  <1>10. /\ OutKey(NodeOf(g).kind, value[cp], k) \in 0 .. Len(KeyNames)
         /\ OutKey(NodeOf(g).kind, value[cp], k) \in Nat
    BY <1>7, OutKeyTyped
  <1>11. /\ f.n = top.n /\ f.p = p /\ f.start = OutKey(NodeOf(g).kind, value[cp], k)
         /\ f.flag = top.flag /\ f.marks = top.marks
         /\ \/ f.pc = "keys" /\ f.i = top.i + 1
            \/ f.pc = "entry" /\ f.i = top.i
    <2>1. CASE skipped
      BY <1>1, <1>2, <1>5, <2>1 DEF IsFrame
    <2>2. CASE ~skipped
      BY <1>1, <1>2, <1>5, <2>2 DEF IsFrame
    <2> QED
      BY <2>1, <2>2
  <1>12. FrameTyped(f)
    BY <1>4, <1>5, <1>10, <1>11 DEF FrameTyped, Pc, EntryPc
  <1>13. f.pc # "option" /\ f.pc \notin ItemPc
    BY <1>11 DEF ItemPc
  <1> QED
    BY <1>1, <1>3, <1>4, <1>8, <1>9, <1>11, <1>12, <1>13, GiveTyped

LEMMA EntryDoneTyped ==
  ASSUME NEW V, Known(V), NEW g \in Goroutine, EntryDone(g)
  PROVE  TypeInv(V)'
  <1>1. PICK top, p, cp, k, absent :
          /\ top = Top(g) /\ p = top.p /\ cp = top.kids[1] /\ k = top.marks[top.i]
          /\ absent = (Exhaustive(top.n) /\ value[cp] = Missing)
    OBVIOUS
  <1>2. PICK added, out, f :
          /\ added = Prefixed(issues[cp], k)
          /\ out = (IF absent THEN build[p] ELSE Put(build[p], top.start, value[cp]))
          /\ f = [top EXCEPT !.pc = "keys", !.i = @ + 1, !.kids = <<>>]
    OBVIOUS
  <1>3. /\ ReleaseAll(top.kids, value, [issues EXCEPT ![p] = @ \o added], aborted)
        /\ build' = [build EXCEPT ![p] = out] /\ Goto(g, f) /\ UNCHANGED <<base, graph>>
    BY <1>1, <1>2 DEF EntryDone
  <1>4. stack[g] # <<>> /\ top.pc = "value"
    BY <1>1 DEF EntryDone, At
  <1>5. IsFrame(top) /\ FrameTyped(top) /\ Fitting(top) /\ build[p] \in Seq(V)
    BY <1>1, <1>4, TopTyped
  <1>6. value[cp] \in V /\ issues[cp] \in Seq(Issue)
    BY <1>1, <1>4, ChildTyped DEF OneChild
  <1>7. k \in Nat /\ top.start \in Nat /\ top.start <= Len(KeyNames)
    BY <1>1, <1>4, <1>5, MarkTyped DEF EntryPc, FrameTyped
  <1>8. added \in Seq(Issue)
    BY <1>2, <1>6, <1>7, PrefixTyped
  <1>9. Len(build[p]) <= Len(KeyNames)
    BY <1>1, <1>4, <1>5 DEF Fitting, EntryPc
  <1>10. out \in Seq(V) /\ Len(out) <= Len(KeyNames)
    <2>1. PICK put : put = Put(build[p], top.start, value[cp])
      OBVIOUS
    <2>2. put \in Seq(V) /\ Len(put) <= Len(KeyNames)
      BY <1>5, <1>6, <1>7, <1>9, <2>1, PutTyped
    <2> QED
      BY <1>2, <1>5, <1>9, <2>1, <2>2
  <1>11. /\ f.n = top.n /\ f.pc = "keys" /\ f.p = p /\ f.i = top.i + 1 /\ f.start = top.start
         /\ f.flag = top.flag /\ f.marks = top.marks
    BY <1>1, <1>2, <1>5 DEF IsFrame
  <1>12. FrameTyped(f)
    BY <1>4, <1>5, <1>11 DEF FrameTyped, Pc, EntryPc
  <1>13. f.pc # "option" /\ f.pc \notin ItemPc
    BY <1>11 DEF ItemPc
  <1> QED
    BY <1>1, <1>3, <1>4, <1>8, <1>10, <1>11, <1>12, <1>13, GiveTyped

LEMMA EndEntriesTyped ==
  ASSUME NEW V, Known(V), NEW g \in Goroutine, EndEntries(g)
  PROVE  TypeInv(V)'
  <1>1. PICK top, p, unknown, report :
          /\ top = Top(g) /\ p = top.p
          /\ unknown = (IF Exhaustive(top.n) THEN Keys(value[p]) \ Expected(top.n) ELSE {})
          /\ report = [IssueAt(p, "unrecognized_keys", "unset", <<>>) EXCEPT !.keys = unknown]
    OBVIOUS
  <1>2. PICK f : f = [top EXCEPT !.pc = "parsed", !.marks = <<>>] /\ Goto(g, f)
    BY <1>1 DEF EndEntries
  <1>3. /\ Raise(p, report) \/ issues' = issues
        /\ value' = [value EXCEPT ![p] = WithElements(@, build[p])]
        /\ build' = [build EXCEPT ![p] = <<>>] /\ UNCHANGED <<base, graph>>
    BY <1>1 DEF EndEntries
  <1>4. stack[g] # <<>> /\ top.pc = "keys"
    BY <1>1 DEF EndEntries, At
  <1>5. /\ IsFrame(top) /\ FrameTyped(top) /\ Fitting(top) /\ build[p] \in Seq(V)
        /\ value[p] \in V /\ issues[p] \in Seq(Issue) /\ base[p] \in Seq(Nat)
    BY <1>1, <1>4, TopTyped
  <1>6. Len(build[p]) <= Len(KeyNames)
    BY <1>1, <1>4, <1>5 DEF Fitting, EntryPc
  <1>7. unknown \in SUBSET Nat
    <2>1. Keys(value[p]) \subseteq 1 .. Len(value[p].e) /\ Len(value[p].e) \in Nat
      BY <1>5, ElementsTyped DEF Known
    <2> QED
      BY <1>1, <2>1
  <1>8. Set(issues', issues, p, Seq(Issue))
    BY <1>1, <1>3, <1>5, <1>7, ReportTyped
  <1>9. Changes(V, g)
    BY <1>1, <1>3, <1>4, <1>5, <1>6, <1>8, ReplacedTyped
  <1>10. /\ f.n = top.n /\ f.pc = "parsed" /\ f.i = top.i /\ f.start = top.start
         /\ f.flag = top.flag /\ f.marks = <<>>
    BY <1>2, <1>5 DEF IsFrame
  <1>11. FrameTyped(f) /\ Fitting(f)'
    BY <1>5, <1>10, EmptySeq, QuietFrame DEF FrameTyped, QuietPc, Pc, EntryPc, FieldPc, ItemPc
  <1> QED
    BY <1>1, <1>2, <1>4, <1>9, <1>11, GoTyped

LEMMA EntryTyped ==
  ASSUME NEW V, Known(V), NEW g \in Goroutine, EntryStep(g)
  PROVE  TypeInv(V)'
  BY EnterEntriesTyped, RunKeyTyped, KeyDoneTyped, RunEntryTyped, EntryDoneTyped,
     EndEntriesTyped DEF EntryStep

-----------------------------------------------------------------------------
(* Unions and intersections. *)

\* The options' payloads are given back and the union goes on to its checks.
LEMMA SettleTyped ==
  ASSUME NEW V, Known(V), NEW g \in Goroutine, stack[g] # <<>>, UNCHANGED <<base, graph, build>>,
         NEW p, p = Top(g).p, NEW val, NEW iss, Settle(g, val, iss),
         Set(val, value, p, V), Set(iss, issues, p, Seq(Issue))
  PROVE  TypeInv(V)'
  <1>1. PICK top : top = Top(g)
    OBVIOUS
  <1>2. PICK f : f = [top EXCEPT !.pc = "parsed", !.kids = <<>>] /\ Goto(g, f)
    BY <1>1 DEF Settle
  <1>3. ReleaseAll(Top(g).kids, val, iss, aborted)
    BY DEF Settle
  <1>4. Set(build', build, p, Seq(V))
    BY DEF Set
  <1>5. Changes(V, g)
    BY <1>3, <1>4, GaveChanges
  <1>6. IsFrame(top) /\ FrameTyped(top)
    BY <1>1, TopTyped
  <1>7. /\ f.n = top.n /\ f.pc = "parsed" /\ f.i = top.i /\ f.start = top.start
        /\ f.flag = top.flag /\ f.marks = top.marks
    BY <1>2, <1>6 DEF IsFrame
  <1>8. FrameTyped(f) /\ Fitting(f)'
    BY <1>6, <1>7, QuietFrame DEF FrameTyped, QuietPc, Pc, EntryPc, FieldPc, ItemPc
  <1> QED
    BY <1>2, <1>5, <1>8, GoTyped

LEMMA EnterUnionTyped ==
  ASSUME NEW V, Known(V), NEW g \in Goroutine, EnterUnion(g)
  PROVE  TypeInv(V)'
  <1>1. PICK kinds : At(g, "enter", kinds)
    BY DEF EnterUnion
  <1>2. stack[g] # <<>> /\ Top(g).pc = "enter" /\ Top(g).n \in Node
    BY <1>1, AtTyped
  <1>3. "parsed" \in QuietPc /\ "options" \in QuietPc /\ "choices" \in QuietPc
    BY DEF QuietPc, Pc, EntryPc, FieldPc, ItemPc
  <1>4. Wrote(V, g)
    BY StillTyped DEF EnterUnion
  <1>5. \/ Len(NodeOf(g).kids) = 1 /\ RunSelf(g, "parsed", Kid(g, 1))
        \/ \E pc \in QuietPc : Jump(g, pc)
    BY <1>3 DEF EnterUnion
  <1>6. Len(NodeOf(g).kids) = 1 => Kid(g, 1) \in Node
    BY <1>2, KidTyped
  <1>7. Plainly(V, g)
    BY <1>3, <1>4, <1>5, <1>6 DEF Plainly
  <1> QED
    BY <1>2, <1>7, PlainlyTyped

\* An option is run on the value of the union.
LEMMA RunOptionTyped ==
  ASSUME NEW V, Known(V), NEW g \in Goroutine, RunOption(g) \/ RunChoice(g)
  PROVE  TypeInv(V)'
  <1>1. PICK top, p : top = Top(g) /\ p = Top(g).p
    OBVIOUS
  <1>2. PICK pc, kinds, next : /\ At(g, pc, kinds) /\ pc \in {"options", "choices"}
                               /\ next \in {"option", "choice"}
                               /\ top.i <= Len(NodeOf(g).kids) /\ UNCHANGED <<graph, build>>
                               /\ RunApart(g, [top EXCEPT !.pc = next], Kid(g, top.i))
    BY <1>1 DEF RunOption, RunChoice
  <1>3. PICK f : f = [top EXCEPT !.pc = next] /\ RunApart(g, f, Kid(g, top.i))
    BY <1>2
  <1>4. /\ stack[g] # <<>> /\ top.pc \in {"options", "choices"} /\ top.n \in Node
    BY <1>1, <1>2, AtTyped
  <1>5. /\ IsFrame(top) /\ FrameTyped(top) /\ p = top.p /\ value[p] \in V /\ base[p] \in Seq(Nat)
    BY <1>1, <1>4, TopTyped
  <1>6. top.i \in Nat /\ top.i >= 1
    BY <1>4, <1>5 DEF FrameTyped
  <1>7. Kid(g, top.i) \in Node
    BY <1>1, <1>2, <1>4, <1>6, KidTyped
  <1>8. /\ f.n = top.n /\ f.pc = next /\ f.p = top.p /\ f.i = top.i /\ f.start = top.start
        /\ f.flag = top.flag /\ f.kids = top.kids /\ f.marks = top.marks /\ IsRecord(f)
    BY <1>3, <1>5 DEF IsFrame, IsRecord
  <1>9. FrameTyped(f)
    BY <1>2, <1>5, <1>6, <1>8 DEF FrameTyped, Pc, EntryPc
  <1>10. Fitting(f) \/ f.pc = "option"
    BY <1>2, <1>8 DEF Fitting, FieldPc, EntryPc, ItemPc
  <1>11. RunOn(g, f, Kid(g, top.i), value[p], NoCtx, base[p])
    BY <1>3, <1>5, <1>8 DEF RunApart
  <1>12. f.p = Top(g).p /\ f.kids = Top(g).kids
    BY <1>1, <1>8
  <1> QED
    BY <1>2, <1>4, <1>5, <1>7, <1>8, <1>9, <1>10, <1>11, <1>12, RunOnTyped

\* The next option.
LEMMA NextOptionTyped ==
  ASSUME NEW V, Known(V), NEW g \in Goroutine, stack[g] # <<>>,
         UNCHANGED <<value, issues, base, build, graph>>, Top(g).pc \in {"option", "choice"},
         NEW pc \in {"options", "choices"}, Goto(g, [Top(g) EXCEPT !.pc = pc, !.i = @ + 1])
  PROVE  TypeInv(V)'
  <1>1. PICK top : top = Top(g)
    OBVIOUS
  <1>2. PICK f : f = [top EXCEPT !.pc = pc, !.i = @ + 1] /\ Goto(g, f)
    BY <1>1
  <1>3. IsFrame(top) /\ FrameTyped(top)
    BY <1>1, TopTyped
  <1>4. Changes(V, g)
    BY WroteChanges DEF Wrote, Set
  <1>5. /\ f.n = top.n /\ f.pc = pc /\ f.i = top.i + 1 /\ f.start = top.start
        /\ f.flag = top.flag /\ f.marks = top.marks
    BY <1>2, <1>3 DEF IsFrame
  <1>6. FrameTyped(f) /\ Fitting(f)'
    BY <1>3, <1>5, QuietFrame DEF FrameTyped, QuietPc, Pc, EntryPc, FieldPc, ItemPc
  <1> QED
    BY <1>2, <1>4, <1>6, GoTyped

\* A payload that the frame holds.
LEMMA HeldTyped ==
  ASSUME NEW V, Known(V), NEW g \in Goroutine, stack[g] # <<>>,
         NEW k \in 1 .. Len(Top(g).kids), NEW cp, cp = Top(g).kids[k]
  PROVE  cp \in PayloadId /\ value[cp] \in V /\ issues[cp] \in Seq(Issue)
  <1>1. PICK f : f = Top(g)
    OBVIOUS
  <1>2. f.kids \in Seq(PayloadId)
    BY <1>1, TopTyped DEF IsFrame
  <1>3. cp \in PayloadId
    BY <1>1, <1>2, ElementOfSeq
  <1> QED
    BY <1>3 DEF Known, TypeInv, Data

LEMMA OptionDoneTyped ==
  ASSUME NEW V, Known(V), NEW g \in Goroutine, OptionDone(g) \/ ChoiceDone(g)
  PROVE  TypeInv(V)'
  <1>1. PICK top, p, cp : top = Top(g) /\ p = top.p /\ cp = Last(top.kids)
    OBVIOUS
  <1>2. PICK pc, kinds : At(g, pc, kinds) /\ pc \in {"option", "choice"}
                         /\ (OptionDone(g) => pc = "option")
    BY DEF OptionDone, ChoiceDone
  <1>3. stack[g] # <<>> /\ top.pc = pc /\ UNCHANGED <<base, build, graph>>
    BY <1>1, <1>2 DEF OptionDone, ChoiceDone, At, payloadVars
  <1>4. CASE /\ UNCHANGED <<value, issues>>
             /\ \E q \in {"options", "choices"} : Goto(g, [top EXCEPT !.pc = q, !.i = @ + 1])
    BY <1>1, <1>2, <1>3, <1>4, NextOptionTyped
  <1>5. CASE OptionDone(g) /\ Settle(g, [value EXCEPT ![p] = value[cp]], issues)
    <2>1. top.kids # <<>> /\ top.kids \in Seq(PayloadId)
      BY <1>1, <1>2, <1>3, <1>5, TopTyped DEF Fitting, IsFrame
    <2>2. Len(top.kids) \in 1 .. Len(top.kids) /\ cp = top.kids[Len(top.kids)]
      BY <1>1, <2>1, SeqIsSeq, PopAt DEF Last
    <2>3. value[cp] \in V
      BY <1>1, <1>3, <2>2, HeldTyped
    <2>4. PICK val : val = [value EXCEPT ![p] = value[cp]] /\ Settle(g, val, issues)
      BY <1>5
    <2>5. Set(val, value, p, V) /\ Set(issues, issues, p, Seq(Issue))
      BY <2>3, <2>4 DEF Set
    <2> QED
      BY <1>1, <1>3, <2>4, <2>5, SettleTyped
  <1>6. CASE OptionDone(g)
    BY <1>1, <1>4, <1>5, <1>6 DEF OptionDone
  <1>7. CASE ChoiceDone(g)
    BY <1>1, <1>4, <1>7 DEF ChoiceDone, payloadVars
  <1> QED
    BY <1>6, <1>7

\* One of a set of places.
LEMMA TheOnly ==
  ASSUME NEW S, NEW ks, ks \subseteq S, Cardinality(ks) = 1
  PROVE  (CHOOSE k \in ks : TRUE) \in S
  <1>1. ks # {}
    <2>1. Cardinality({}) = 0
      BY FS_EmptySet
    <2> QED
      BY <2>1
  <1> QED
    BY <1>1

\* The union takes the value of one of its options, and perhaps its issues.
LEMMA OptionsFailedTyped ==
  ASSUME NEW V, Known(V), NEW g \in Goroutine, OptionsFailed(g) \/ EndChoices(g)
  PROVE  TypeInv(V)'
  <1>1. PICK top, p : top = Top(g) /\ p = top.p
    OBVIOUS
  <1>2. /\ \E pc, kinds : At(g, pc, kinds)
        /\ UNCHANGED <<base, graph, build>>
    BY DEF OptionsFailed, EndChoices
  <1>3. stack[g] # <<>>
    BY <1>2, AtTyped
  <1>4. IsFrame(top) /\ issues[p] \in Seq(Issue) /\ base[p] \in Seq(Nat)
    BY <1>1, <1>3, TopTyped
  <1>5. DOMAIN top.kids = 1 .. Len(top.kids)
    BY <1>4, LenProperties DEF IsFrame
  <1>6. PICK e : e = InvalidUnion(p, <<>>)
    OBVIOUS
  <1>7. e \in Issue
    BY <1>4, <1>6, IssueTyped, EmptySeq DEF InvalidUnion, Code, Cont
  <1>8. Append(issues[p], e) \in Seq(Issue)
    BY <1>4, <1>7, AppendProperties
  <1>9. CASE Settle(g, value, [issues EXCEPT ![p] = Append(@, e)])
    <2>1. PICK iss : iss = [issues EXCEPT ![p] = Append(issues[p], e)] /\ Settle(g, value, iss)
      BY <1>9
    <2>2. Set(iss, issues, p, Seq(Issue)) /\ Set(value, value, p, V)
      BY <1>8, <2>1 DEF Set
    <2> QED
      BY <1>1, <1>2, <1>3, <2>1, <2>2, SettleTyped
  <1>10. CASE \E k \in 1 .. Len(top.kids) :
                \/ Settle(g, [value EXCEPT ![p] = value[top.kids[k]]], issues)
                \/ Settle(g, [value EXCEPT ![p] = value[top.kids[k]]],
                             [issues EXCEPT ![p] = @ \o issues[top.kids[k]]])
    <2>1. PICK k \in 1 .. Len(top.kids) :
                \/ Settle(g, [value EXCEPT ![p] = value[top.kids[k]]], issues)
                \/ Settle(g, [value EXCEPT ![p] = value[top.kids[k]]],
                             [issues EXCEPT ![p] = @ \o issues[top.kids[k]]])
      BY <1>10
    <2>2. PICK cp : cp = top.kids[k]
      OBVIOUS
    <2>3. value[cp] \in V /\ issues[cp] \in Seq(Issue)
      BY <1>1, <1>3, <2>2, HeldTyped
    <2>4. issues[p] \o issues[cp] \in Seq(Issue)
      BY <1>4, <2>3, ConcatProperties
    <2>5. PICK val, iss : /\ Settle(g, val, iss) /\ val = [value EXCEPT ![p] = value[cp]]
                          /\ iss = issues \/ iss = [issues EXCEPT ![p] = issues[p] \o issues[cp]]
      BY <2>1, <2>2
    <2>6. Set(val, value, p, V) /\ Set(iss, issues, p, Seq(Issue))
      BY <2>3, <2>4, <2>5 DEF Set
    <2> QED
      BY <1>1, <1>2, <1>3, <2>5, <2>6, SettleTyped
  <1>11. CASE OptionsFailed(g)
    <2> DEFINE alive == {k \in DOMAIN top.kids :
                           ~AbortedFrom(aborted[top.kids[k]], issues[top.kids[k]], 0)}
               one == CHOOSE k \in alive : TRUE
    <2>1. \/ /\ Cardinality(alive) = 1
             /\ Settle(g, [value EXCEPT ![p] = value[top.kids[one]]],
                          [issues EXCEPT ![p] = @ \o issues[top.kids[one]]])
          \/ Settle(g, value, [issues EXCEPT ![p] = Append(@, e)])
      BY <1>1, <1>6, <1>11, Zenon DEF OptionsFailed
    <2>2. alive \subseteq 1 .. Len(top.kids)
      BY <1>5
    <2> HIDE DEF alive
    <2>3. Cardinality(alive) = 1 => one \in 1 .. Len(top.kids)
      BY <2>2, TheOnly, Zenon
    <2> HIDE DEF one
    <2> QED
      BY <1>9, <1>10, <2>1, <2>3
  <1>12. CASE EndChoices(g)
    <2> DEFINE wins == {k \in DOMAIN top.kids : Succeeded(top.kids[k])}
               one == CHOOSE k \in wins : TRUE
    <2>1. \/ /\ Cardinality(wins) = 1
             /\ Settle(g, [value EXCEPT ![p] = value[top.kids[one]]], issues)
          \/ Settle(g, value, [issues EXCEPT ![p] = Append(@, e)])
      BY <1>1, <1>6, <1>12, Zenon DEF EndChoices
    <2>2. wins \subseteq 1 .. Len(top.kids)
      BY <1>5
    <2> HIDE DEF wins
    <2>3. Cardinality(wins) = 1 => one \in 1 .. Len(top.kids)
      BY <2>2, TheOnly, Zenon
    <2> HIDE DEF one
    <2> QED
      BY <1>9, <1>10, <2>1, <2>3
  <1> QED
    BY <1>11, <1>12

\* The dispatch of a discriminated union.
LEMMA EnterDiscUnionTyped ==
  ASSUME NEW V, Known(V), NEW g \in Goroutine, EnterDiscUnion(g)
  PROVE  TypeInv(V)'
  <1>1. PICK top, p : top = Top(g) /\ p = top.p
    OBVIOUS
  <1>2. At(g, "enter", {"discunion"}) /\ UNCHANGED <<value, base, graph, build>>
    BY DEF EnterDiscUnion
  <1>3. /\ stack[g] # <<>> /\ Top(g).pc = "enter" /\ Top(g).n \in Node
        /\ NodeOf(g).key \in Nat \ {0} /\ NodeOf(g).kids \in Seq(Node) /\ Len(NodeOf(g).kids) \in Nat
    BY <1>2, AtTyped
  <1>4. issues[p] \in Seq(Issue) /\ base[p] \in Seq(Nat)
    BY <1>1, <1>3, TopTyped
  <1>5. "parsed" \in QuietPc /\ "options" \in QuietPc
    BY DEF QuietPc, Pc, EntryPc, FieldPc, ItemPc
  <1>6. CASE \E code \in Code, path \in Seq(Nat) :
               Raise(p, IssueAt(p, code, "unset", path)) /\ Jump(g, "parsed")
    <2>1. PICK code \in Code, path \in Seq(Nat) :
            Raise(p, IssueAt(p, code, "unset", path)) /\ Jump(g, "parsed")
      BY <1>6
    <2>2. PICK e : e = IssueAt(p, code, "unset", path)
      OBVIOUS
    <2>3. e \in Issue
      BY <1>4, <2>2, IssueTyped DEF Cont
    <2>4. Set(issues', issues, p, Seq(Issue))
      BY <1>4, <2>1, <2>2, <2>3, RaiseTyped
    <2>5. Plainly(V, g)
      BY <1>1, <1>2, <1>5, <2>1, <2>4 DEF Plainly, Wrote, Set
    <2> QED
      BY <1>3, <2>5, PlainlyTyped
  <1>7. CASE UNCHANGED issues /\ (Jump(g, "options") \/ \E n \in Node : RunSelf(g, "parsed", n))
    <2>1. Plainly(V, g)
      BY <1>1, <1>2, <1>5, <1>7 DEF Plainly, Wrote, Set
    <2> QED
      BY <1>3, <2>1, PlainlyTyped
  <1>8. PICK found : /\ found \subseteq Shape(top.n)
                     /\ \/ Raise(p, IssueAt(p, "invalid_type", "unset", <<>>)) /\ Jump(g, "parsed")
                        \/ found # {} /\ RunSelf(g, "parsed", Kid(g, Min(found))) /\ UNCHANGED issues
                        \/ Jump(g, "options") /\ UNCHANGED issues
                        \/ Raise(p, IssueAt(p, "invalid_union", "unset", <<NodeOf(g).key>>))
                           /\ Jump(g, "parsed")
    <2> DEFINE found == {k \in Shape(top.n) : Element(value[p], NodeOf(g).key) \in NodeOf(g).disc[k]}
    <2>1. \/ Raise(p, IssueAt(p, "invalid_type", "unset", <<>>)) /\ Jump(g, "parsed")
          \/ found # {} /\ RunSelf(g, "parsed", Kid(g, Min(found))) /\ UNCHANGED issues
          \/ Jump(g, "options") /\ UNCHANGED issues
          \/ Raise(p, InvalidUnion(p, <<NodeOf(g).key>>)) /\ Jump(g, "parsed")
      BY <1>1, Zenon DEF EnterDiscUnion
    <2>2. found \subseteq Shape(top.n)
      OBVIOUS
    <2> HIDE DEF found
    <2> QED
      BY <2>1, <2>2 DEF InvalidUnion
  <1>9. <<>> \in Seq(Nat) /\ <<NodeOf(g).key>> \in Seq(Nat)
    BY <1>3, EmptySeq, PathTyped
  <1>10. found # {} => Kid(g, Min(found)) \in Node
    <2>1. Shape(top.n) = 1 .. Len(NodeOf(g).kids)
      BY <1>1, <1>3, LenProperties DEF Shape, NodeOf
    <2>2. SUFFICES ASSUME found # {} PROVE Kid(g, Min(found)) \in Node
      OBVIOUS
    <2>3. found \subseteq Nat
      BY <1>8, <2>1
    <2>4. Min(found) \in found
      BY <2>2, <2>3, MinIs
    <2>5. Min(found) \in 1 .. Len(NodeOf(g).kids)
      BY <1>8, <2>1, <2>4
    <2> QED
      BY <1>3, <2>5, KidTyped
  <1> QED
    BY <1>6, <1>7, <1>8, <1>9, <1>10 DEF Code

\* The payloads of the two sides, and the left side.
LEMMA SidesTyped ==
  ASSUME NEW V, Known(V), NEW g \in Goroutine, EnterIntersection(g) \/ RunLeft(g)
  PROVE  TypeInv(V)'
  <1>1. PICK top, p : top = Top(g) /\ p = top.p
    OBVIOUS
  <1>2. PICK pc : /\ At(g, pc, {"intersection"}) /\ pc \in {"enter", "left"}
                  /\ UNCHANGED <<graph, build>>
    BY DEF EnterIntersection, RunLeft
  <1>3. stack[g] # <<>> /\ top.pc \in {"enter", "left"} /\ Kid(g, 1) \in Node
    BY <1>1, <1>2, AtTyped, KidsTyped
  <1>4. IsFrame(top) /\ FrameTyped(top) /\ value[p] \in V /\ base[p] \in Seq(Nat)
    BY <1>1, <1>3, TopTyped
  <1>5. PICK next, kids, cp :
          /\ cp \in PayloadId /\ next \in {"left", "right"}
          /\ Acquire(cp, value[p], NoCtx, base[p])
          /\ \/ Goto(g, [top EXCEPT !.pc = next, !.kids = kids])
             \/ \E q : Enter(g, [top EXCEPT !.pc = next, !.kids = kids], Kid(g, 1), q)
    <2>1. CASE EnterIntersection(g)
      BY <1>1, <2>1 DEF EnterIntersection
    <2>2. CASE RunLeft(g)
      <3>1. PICK cp \in PayloadId :
              /\ Acquire(cp, value[p], NoCtx, base[p])
              /\ Enter(g, [top EXCEPT !.pc = "right", !.kids = Append(@, cp)], Kid(g, 1), top.kids[1])
        BY <1>1, <2>2 DEF RunLeft
      <3>2. \E kids : Enter(g, [top EXCEPT !.pc = "right", !.kids = kids], Kid(g, 1), top.kids[1])
        BY <3>1
      <3> QED
        BY <3>1, <3>2
    <2> QED
      BY <2>1, <2>2
  <1>6. Changes(V, g)
    BY <1>2, <1>4, <1>5, TookChanges
  <1>7. PICK f : /\ f = [top EXCEPT !.pc = next, !.kids = kids]
                 /\ Goto(g, f) \/ \E q : Enter(g, f, Kid(g, 1), q)
    BY <1>5
  <1>8. /\ f.n = top.n /\ f.pc = next /\ f.i = top.i /\ f.start = top.start
        /\ f.flag = top.flag /\ f.marks = top.marks
    BY <1>4, <1>7 DEF IsFrame
  <1>9. FrameTyped(f) /\ Fitting(f)'
    BY <1>3, <1>4, <1>5, <1>8, QuietFrame DEF FrameTyped, QuietPc, Pc, EntryPc, FieldPc, ItemPc
  <1> QED
    BY <1>3, <1>6, <1>7, <1>9, GoTyped, EnterTyped

LEMMA RunRightTyped ==
  ASSUME NEW V, Known(V), NEW g \in Goroutine, RunRight(g)
  PROVE  TypeInv(V)'
  <1>1. PICK top : top = Top(g)
    OBVIOUS
  <1>2. At(g, "right", {"intersection"}) /\ UNCHANGED <<payloadVars, graph, build>>
    BY DEF RunRight
  <1>3. stack[g] # <<>> /\ top.pc = "right" /\ Kid(g, 2) \in Node
    BY <1>1, <1>2, AtTyped, KidsTyped
  <1>4. PICK f, q : f = [top EXCEPT !.pc = "merge"] /\ Enter(g, f, Kid(g, 2), q)
    BY <1>1 DEF RunRight
  <1>5. "merge" \in QuietPc
    BY DEF QuietPc, Pc, EntryPc, FieldPc, ItemPc
  <1>6. FrameTyped(f) /\ Fitting(f)'
    BY <1>1, <1>3, <1>4, <1>5, QuietTyped
  <1>7. Changes(V, g)
    BY <1>2, StillTyped, WroteChanges
  <1> QED
    BY <1>3, <1>4, <1>6, <1>7, EnterTyped

\* The issues selected from a list of issues.
LEMMA SelectedTyped ==
  ASSUME NEW iss \in Seq(Issue), NEW unrecognized
  PROVE  /\ Selected(iss, unrecognized) \in Seq(Issue)
         /\ Selected(iss, unrecognized) = <<>> =>
              \A i \in 1 .. Len(iss) : IsUnrecognized(iss[i]) # unrecognized
  <1> DEFINE T == {e \in Issue : IsUnrecognized(e) = unrecognized}
  <1>1. PICK s : s = Selected(iss, unrecognized)
    OBVIOUS
  <1>2. /\ s \in Seq(T)
        /\ s = <<>> => \A i \in 1 .. Len(iss) : IsUnrecognized(iss[i]) # unrecognized
    BY <1>1, SelectedIs
  <1>3. \A i \in 1 .. Len(s) : s[i] \in Issue
    BY <1>2, ElementOfSeq
  <1>4. IsSeq(s)
    BY <1>2, SeqIsSeq
  <1>5. s \in Seq(Issue)
    BY <1>3, <1>4, SeqFrom
  <1> QED
    BY <1>1, <1>2, <1>5

\* The keys a list of issues reports.
LEMMA ReportedTyped ==
  ASSUME NEW iss \in Seq(Issue)
  PROVE  /\ KeysReported(iss) \subseteq Nat
         /\ Selected(iss, TRUE) = <<>> => KeysReported(iss) = {}
  <1>1. IsSeq(iss) /\ DOMAIN iss = 1 .. Len(iss) /\ \A i \in 1 .. Len(iss) : iss[i] \in Issue
    BY SeqIsSeq, LenProperties, ElementOfSeq
  <1>2. \A i \in 1 .. Len(iss) : iss[i].keys \subseteq Nat
    BY <1>1 DEF Issue
  <1>3. KeysReported(iss) \subseteq Nat
    BY <1>1, <1>2 DEF KeysReported
  <1>4. ASSUME Selected(iss, TRUE) = <<>> PROVE KeysReported(iss) = {}
    <2>1. \A i \in 1 .. Len(iss) : IsUnrecognized(iss[i]) # TRUE
      BY <1>4, SelectedTyped
    <2> QED
      BY <1>1, <2>1, KeysIn DEF IsUnrecognized
  <1> QED
    BY <1>3, <1>4

LEMMA JoinTyped ==
  ASSUME NEW n, NEW l \in Seq(Issue), NEW r \in Seq(Issue)
  PROVE  JoinedIssues(n, l, r) \in Seq(Issue)
  <1> DEFINE sides == graph[n].kids
             shapes == Shape(sides[1]) \cup Shape(sides[2])
             report == IF \A k \in 1 .. 2 : graph[sides[k]].kind = "object"
                       THEN (KeysReported(l) \cup KeysReported(r)) \ shapes
                       ELSE KeysReported(l) \cap KeysReported(r)
             lefts == Selected(l, TRUE)
             rights == Selected(r, TRUE)
             kept == IF lefts # <<>> THEN Last(lefts) ELSE Head(rights)
             others == Selected(l \o r, FALSE)
             told == IF report = {} THEN <<>> ELSE <<[kept EXCEPT !.keys = report]>>
  <1>1. JoinedIssues(n, l, r) = others \o told
    BY Zenon DEF JoinedIssues
  <1>2. others \in Seq(Issue)
    BY ConcatProperties, SelectedTyped
  <1>3. lefts \in Seq(Issue) /\ rights \in Seq(Issue)
    BY SelectedTyped
  <1>4. report \subseteq Nat
    BY ReportedTyped
  <1>5. report # {} => lefts # <<>> \/ rights # <<>>
    BY ReportedTyped
  <1> HIDE DEF report, lefts, rights, others
  <1>6. \A s \in Seq(Issue) : s # <<>> => Last(s) \in Issue /\ Head(s) \in Issue
    <2> SUFFICES ASSUME NEW s \in Seq(Issue), s # <<>> PROVE Last(s) \in Issue /\ Head(s) \in Issue
      OBVIOUS
    <2>1. Len(s) \in 1 .. Len(s) /\ 1 \in 1 .. Len(s)
      BY SeqIsSeq, PopAt
    <2>2. Head(s) = s[1]
      BY HeadTailProperties
    <2> QED
      BY <2>1, <2>2, ElementOfSeq DEF Last
  <1>7. told \in Seq(Issue)
    <2>1. CASE report = {}
      BY <2>1, EmptySeq
    <2>2. CASE report # {}
      <3>1. PICK k, e : k = kept /\ e = [k EXCEPT !.keys = report]
        OBVIOUS
      <3>2. k \in Issue
        BY <1>3, <1>5, <1>6, <2>2, <3>1
      <3>3. e \in Issue
        BY <1>4, <3>1, <3>2 DEF Issue
      <3>4. <<e>> \in Seq(Issue)
        BY <3>3, AppendProperties, EmptySeq
      <3> QED
        BY <2>2, <3>1, <3>4
    <2> QED
      BY <2>1, <2>2
  <1> HIDE DEF told
  <1> QED
    BY <1>1, <1>2, <1>7, ConcatProperties

\* The two sides meet.
LEMMA MergeSidesTyped ==
  ASSUME NEW V, Known(V), NEW g \in Goroutine, MergeSides(g)
  PROVE  TypeInv(V)'
  <1>1. PICK top, p, l, r : top = Top(g) /\ p = top.p /\ l = top.kids[1] /\ r = top.kids[2]
    OBVIOUS
  <1>2. At(g, "merge", {"intersection"}) /\ UNCHANGED <<base, graph, build>>
    BY DEF MergeSides
  <1>3. stack[g] # <<>> /\ top.pc = "merge"
    BY <1>1, <1>2, AtTyped
  <1>4. /\ IsFrame(top) /\ Len(top.kids) >= 2 /\ issues[p] \in Seq(Issue) /\ base[p] \in Seq(Nat)
    BY <1>1, <1>3, TopTyped DEF FrameOK
  <1>5. 1 \in 1 .. Len(top.kids) /\ 2 \in 1 .. Len(top.kids)
    BY <1>4, LenProperties DEF IsFrame
  <1>6. /\ value[l] \in V /\ issues[l] \in Seq(Issue)
        /\ value[r] \in V /\ issues[r] \in Seq(Issue)
    BY <1>1, <1>3, <1>5, HeldTyped
  <1>7. PICK merged : merged = MergeValues(value[l], value[r])
    OBVIOUS
  <1>8. merged.path \in Seq(Nat) /\ (merged.ok => merged.val \in V)
    BY <1>6, <1>7 DEF Known, Typed, Path
  <1>9. PICK joined, e : /\ joined = issues[p] \o JoinedIssues(top.n, issues[l], issues[r])
                         /\ e = IssueAt(p, "custom", "unset", merged.path)
    OBVIOUS
  <1>10. joined \in Seq(Issue)
    BY <1>4, <1>6, <1>9, JoinTyped, ConcatProperties
  <1>11. e \in Issue
    BY <1>4, <1>8, <1>9, IssueTyped DEF Code, Cont
  <1>12. Append(joined, e) \in Seq(Issue)
    BY <1>10, <1>11, AppendProperties
  <1>13. PICK val, iss : /\ Settle(g, val, iss)
                         /\ val = value \/ (merged.ok /\ val = [value EXCEPT ![p] = merged.val])
                         /\ \/ iss = [issues EXCEPT ![p] = joined]
                            \/ iss = [issues EXCEPT ![p] = Append(joined, e)]
    <2>1. \/ Settle(g, value, [issues EXCEPT ![p] = joined])
          \/ merged.ok /\ Settle(g, [value EXCEPT ![p] = merged.val], [issues EXCEPT ![p] = joined])
          \/ Settle(g, value, [issues EXCEPT ![p] = Append(joined, e)])
      BY <1>1, <1>7, <1>9, Zenon DEF MergeSides
    <2> QED
      BY <2>1
  <1>14. Set(val, value, p, V) /\ Set(iss, issues, p, Seq(Issue))
    BY <1>8, <1>10, <1>12, <1>13 DEF Set
  <1> QED
    BY <1>1, <1>2, <1>3, <1>13, <1>14, SettleTyped

LEMMA UnionTyped ==
  ASSUME NEW V, Known(V), NEW g \in Goroutine, UnionStep(g)
  PROVE  TypeInv(V)'
  BY EnterUnionTyped, RunOptionTyped, OptionDoneTyped, OptionsFailedTyped, EnterDiscUnionTyped,
     SidesTyped, RunRightTyped, MergeSidesTyped DEF UnionStep

LEMMA StepTyped ==
  ASSUME NEW V, Known(V), NEW g \in Goroutine, Step(g)
  PROVE  TypeInv(V)'
  BY WrapperTyped, ContainerTyped, EntryTyped, UnionTyped, CheckTyped DEF Step

-----------------------------------------------------------------------------
(* The steps that begin and end a call. *)

\* The payloads the call of h holds keep their values and builds.
KeptFor(h) == \A q \in PayloadId :
  CallOwns(h, q) \/ (\E i, j \in Nat : KidOwns(h, i, j, q)) =>
    value'[q] = value[q] /\ build'[q] = build[q]

LEMMA KeptTyped ==
  ASSUME NEW V, Known(V), NEW h \in Goroutine, KeptFor(h),
         NEW i \in Nat, NEW f, FrameAt(h, i, f)
  PROVE  FrameTyped(f) /\ Fitting(f)'
  <1>1. FrameTyped(f) /\ Fitting(f)
    BY DEF Known, TypeInv, FramesTyped
  <1>2. f.p \in PayloadId /\ RunsOn(h, i, f.p)
    BY FrameIs DEF Known
  <1>3. CallOwns(h, f.p) \/ \E k, j \in Nat : KidOwns(h, k, j, f.p)
    BY <1>2 DEF Known, Inv, Chain
  <1>4. value'[f.p] = value[f.p] /\ build'[f.p] = build[f.p]
    BY <1>2, <1>3 DEF KeptFor
  <1> QED
    BY <1>1, <1>4 DEF Fitting

\* A step that gives g another stack.
LEMMA CallTyped ==
  ASSUME NEW V, Known(V), NEW g \in Goroutine, Data(V)',
         \A h \in Goroutine : h # g => stack'[h] = stack[h] /\ KeptFor(h),
         \A i \in Nat : \A f : FrameAt(g, i, f)' => FrameTyped(f) /\ Fitting(f)'
  PROVE  TypeInv(V)'
  <1>1. ASSUME NEW h \in Goroutine, NEW i \in Nat, NEW f, FrameAt(h, i, f)'
        PROVE  FrameTyped(f) /\ Fitting(f)'
    <2>1. CASE h = g
      BY <1>1, <2>1
    <2>2. CASE h # g
      <3>1. FrameAt(h, i, f)
        BY <1>1, <2>2 DEF FrameAt
      <3> QED
        BY <2>2, <3>1, KeptTyped
    <2> QED
      BY <2>1, <2>2
  <1>2. FramesTyped'
    BY <1>1 DEF FramesTyped, FrameTyped
  <1> QED
    BY <1>2 DEF TypeInv

\* A call begins on a payload from the pool.
LEMMA StartTyped ==
  ASSUME NEW V, Known(V), NEW g \in Goroutine, StartCall(g)
  PROVE  TypeInv(V)'
  <1>1. PICK p, v, c : /\ p \in PayloadId /\ v \in Inputs /\ Acquire(p, v, c, <<>>)
                       /\ stack' = [stack EXCEPT ![g] = <<NewFrame(Root, p)>>]
                       /\ graph' = graph /\ build' = build
    BY DEF StartCall
  <1>2. /\ value \in [PayloadId -> V] /\ build \in [PayloadId -> Seq(V)]
        /\ issues \in [PayloadId -> Seq(Issue)] /\ base \in [PayloadId -> Path]
        /\ graph \in Schemas /\ pool \in [PayloadId -> Nat]
        /\ stack = [h \in Goroutine |-> stack[h]] /\ v \in V
    BY <1>1 DEF Known, TypeInv, Data, Inv, Types, Typed
  <1>3. /\ pool[p] > 0 /\ value' = [value EXCEPT ![p] = v]
        /\ issues' = [issues EXCEPT ![p] = <<>>] /\ base' = [base EXCEPT ![p] = <<>>]
    BY <1>1 DEF Acquire
  <1>4. <<>> \in Seq(Issue) /\ <<>> \in Path
    BY EmptySeq DEF Path
  <1>5. value' \in [PayloadId -> V] /\ issues' \in [PayloadId -> Seq(Issue)]
        /\ base' \in [PayloadId -> Path]
    BY <1>2, <1>3, <1>4
  <1>6. Data(V)'
    BY <1>1, <1>2, <1>5 DEF Data, Schemas
  <1>7. ASSUME NEW h \in Goroutine, h # g PROVE stack'[h] = stack[h] /\ KeptFor(h)
    <2>1. stack'[h] = stack[h]
      BY <1>1, <1>2, <1>7
    <2>2. ASSUME NEW q \in PayloadId, CallOwns(h, q) \/ \E i, j \in Nat : KidOwns(h, i, j, q)
          PROVE  value'[q] = value[q] /\ build'[q] = build[q]
      <3>1. pool[q] = 0
        BY <2>2 DEF Known, Inv, Own
      <3> QED
        BY <1>1, <1>2, <1>3, <3>1
    <2> QED
      BY <2>1, <2>2 DEF KeptFor
  <1>8. PICK new : new = NewFrame(Root, p)
    OBVIOUS
  <1>9. FrameTyped(new) /\ Fitting(new)'
    BY <1>8, EmptySeq, FramesAssumption DEF NewFrame, FrameTyped, Fitting, Pc, EntryPc, FieldPc, ItemPc
  <1>10. ASSUME NEW i \in Nat, NEW f, FrameAt(g, i, f)' PROVE FrameTyped(f) /\ Fitting(f)'
    <2>1. stack'[g] = <<new>>
      BY <1>1, <1>2, <1>8
    <2>2. f = new
      BY <1>10, <2>1, SingleIsSeq DEF FrameAt
    <2> QED
      BY <1>9, <2>2
  <1> QED
    BY <1>6, <1>7, <1>10, CallTyped

\* A call ends: what it held is zeroed.
LEMMA EndTyped ==
  ASSUME NEW V, Known(V), NEW g \in Goroutine, UNCHANGED <<base, graph, build>>,
         stack' = [stack EXCEPT ![g] = <<>>], NEW ps, value' = Zeroed(value, ps, Null),
         issues' = issues \/ issues' = Zeroed(issues, ps, <<>>),
         \A q \in PayloadId : q \in ps =>
           CallOwns(g, q) \/ \E i, j \in Nat : KidOwns(g, i, j, q)
  PROVE  TypeInv(V)'
  <1>1. /\ value \in [PayloadId -> V] /\ build \in [PayloadId -> Seq(V)]
        /\ issues \in [PayloadId -> Seq(Issue)] /\ base \in [PayloadId -> Path]
        /\ graph \in Schemas /\ stack = [h \in Goroutine |-> stack[h]] /\ Null \in V
    BY DEF Known, TypeInv, Data, Inv, Types, Typed
  <1>2. value' \in [PayloadId -> V] /\ \A q \in PayloadId : q \notin ps => value'[q] = value[q]
    BY <1>1 DEF Zeroed
  <1>3. issues' \in [PayloadId -> Seq(Issue)]
    <2>1. <<>> \in Seq(Issue)
      BY EmptySeq
    <2> QED
      BY <1>1, <2>1 DEF Zeroed
  <1>4. Data(V)'
    BY <1>1, <1>2, <1>3 DEF Data, Schemas
  <1>5. stack'[g] = <<>> /\ \A h \in Goroutine : h # g => stack'[h] = stack[h]
    BY <1>1
  <1>6. ASSUME NEW h \in Goroutine, h # g PROVE KeptFor(h)
    <2> SUFFICES ASSUME NEW q \in PayloadId,
                        CallOwns(h, q) \/ \E i, j \in Nat : KidOwns(h, i, j, q)
                 PROVE  value'[q] = value[q] /\ build'[q] = build[q]
      BY DEF KeptFor
    <2>1. ~(CallOwns(g, q) \/ \E i, j \in Nat : KidOwns(g, i, j, q))
      BY <1>6 DEF Known, Inv, Own
    <2> QED
      BY <1>2, <2>1
  <1>7. \A i \in Nat : \A f : ~FrameAt(g, i, f)'
    BY <1>5, NilIsSeq DEF FrameAt
  <1> QED
    BY <1>4, <1>5, <1>6, <1>7, CallTyped

LEMMA FinishTyped ==
  ASSUME NEW V, Known(V), NEW g \in Goroutine, FinishCall(g)
  PROVE  TypeInv(V)'
  <1>1. PICK p : p = call[g].p
    OBVIOUS
  <1>2. /\ ReleaseAll(<<p>>, value, issues, aborted) /\ UNCHANGED <<base, graph, stack, build>>
        /\ call[g].busy /\ stack[g] = <<>>
    BY <1>1 DEF FinishCall
  <1>3. stack' = [stack EXCEPT ![g] = <<>>]
    BY <1>2 DEF Known, Inv, Types
  <1>4. value' = Zeroed(value, Range(<<p>>), Null) /\ issues' = issues
    BY <1>2 DEF ReleaseAll
  <1>5. \A q \in PayloadId : q \in Range(<<p>>) => CallOwns(g, q)
    <2>1. Range(<<p>>) = {p}
      BY DEF Range
    <2> QED
      BY <1>1, <1>2, <2>1 DEF CallOwns
  <1> QED
    BY <1>2, <1>3, <1>4, <1>5, EndTyped

LEMMA PanicTyped ==
  ASSUME NEW V, Known(V), NEW g \in Goroutine, Panic(g)
  PROVE  TypeInv(V)'
  <1>1. Types /\ call[g].busy
    BY DEF Known, Inv, Panic
  <1>2. \A q \in PayloadId :
          q \in Held(g) <=> CallOwns(g, q) \/ \E i, j \in Nat : KidOwns(g, i, j, q)
    BY <1>1, HeldIs
  <1>3. /\ value' = Zeroed(value, Held(g), Null) /\ issues' = Zeroed(issues, Held(g), <<>>)
        /\ stack' = [stack EXCEPT ![g] = <<>>] /\ UNCHANGED <<base, graph, build>>
    BY DEF Panic
  <1> QED
    BY <1>2, <1>3, EndTyped

LEMMA InitTyped ==
  ASSUME NEW V, Typed(V), Init
  PROVE  TypeInv(V)
  <1>1. /\ value = [p \in PayloadId |-> Null] /\ issues = [p \in PayloadId |-> <<>>]
        /\ base = [p \in PayloadId |-> <<>>] /\ build = [p \in PayloadId |-> <<>>]
        /\ graph \in Schemas
    BY DEF Init, PayloadInit
  <1>2. Null \in V /\ <<>> \in Seq(Issue) /\ <<>> \in Path /\ <<>> \in Seq(V)
    BY EmptySeq DEF Typed, Path
  <1>3. Data(V)
    BY <1>1, <1>2 DEF Data
  <1>4. \A g \in Goroutine : stack[g] = <<>>
    BY DEF Init
  <1>5. \A g \in Goroutine, i \in Nat : \A f : ~FrameAt(g, i, f)
    BY <1>4, NilIsSeq DEF FrameAt
  <1> QED
    BY <1>3, <1>5 DEF TypeInv, FramesTyped

LEMMA StutterTyped ==
  ASSUME NEW V, TypeInv(V), UNCHANGED vars
  PROVE  TypeInv(V)'
  <1>1. UNCHANGED <<value, issues, base, graph, stack, build>>
    BY DEF vars
  <1>2. Data(V)'
    BY <1>1 DEF TypeInv, Data, Schemas
  <1>3. \A g \in Goroutine, i \in Nat : \A f : FrameAt(g, i, f)' <=> FrameAt(g, i, f)
    BY <1>1 DEF FrameAt
  <1>4. \A f : Fitting(f)' <=> Fitting(f)
    BY <1>1 DEF Fitting
  <1>5. FramesTyped'
    BY <1>3, <1>4 DEF TypeInv, FramesTyped, FrameTyped
  <1> QED
    BY <1>2, <1>5 DEF TypeInv

\* In every state values, issues and builds are typed, and every frame indexes
\* what its schema, its payload and its children have.
THEOREM TypeInvariance ==
  ASSUME NEW V, Typed(V), Closed(V)
  PROVE  Spec => []TypeInv(V)
  <1>1. Inv /\ IssueInv /\ TypeInv(V) /\ [Next]_vars => TypeInv(V)'
    <2> SUFFICES ASSUME Inv, IssueInv, TypeInv(V), [Next]_vars PROVE TypeInv(V)'
      OBVIOUS
    <2>1. Known(V)
      BY DEF Known
    <2>2. CASE UNCHANGED vars
      BY <2>2, StutterTyped
    <2>3. CASE \E g \in Goroutine : StartCall(g) \/ FinishCall(g) \/ Panic(g) \/ Step(g)
      BY <2>1, <2>3, StartTyped, FinishTyped, PanicTyped, StepTyped
    <2>4. CASE Finished
      BY <2>2, <2>4 DEF Finished
    <2> QED
      BY <2>2, <2>3, <2>4 DEF Next
  <1>2. Init => TypeInv(V)
    BY InitTyped
  <1> QED
    BY <1>1, <1>2, IssueInvariance, PTL DEF Spec

\* The frames of a stack are frames.
LEMMA StackTyped ==
  ASSUME NEW V, Types, TypeInv(V), NEW g \in Goroutine
  PROVE  stack[g] \in Seq(Frame)
  <1>1. PICK s : s = stack[g]
    OBVIOUS
  <1>2. IsSeq(s) /\ \A i \in 1 .. Len(s) : IsFrame(s[i])
    BY <1>1 DEF Types, IsStack
  <1>3. Len(s) \in Nat
    BY <1>2, LenProperties DEF IsSeq
  <1>4. ASSUME NEW i \in 1 .. Len(s) PROVE s[i] \in Frame
    <2>1. PICK f : f = s[i]
      OBVIOUS
    <2>2. FrameAt(g, i, f) /\ i \in Nat
      BY <1>1, <1>3, <2>1 DEF FrameAt
    <2>3. FrameTyped(f) /\ IsFrame(f)
      BY <1>2, <2>1, <2>2 DEF TypeInv, FramesTyped
    <2>4. f \in Frame
      BY <2>3 DEF FrameTyped, IsFrame, Frame
    <2> QED
      BY <2>1, <2>4
  <1> QED
    BY <1>1, <1>2, <1>4, SeqFrom

\* Payloads, frames and calls stay well formed through every step of every
\* goroutine: what a parse function reads from its schema, its payload and its
\* children is there (Payload of payload.go, Internals of schema.go), whatever
\* the values are, if the callbacks and mergeValues return values of V.
THEOREM TypeCorrect ==
  ASSUME NEW V, Typed(V), Closed(V)
  PROVE  Spec => []TypeOK
  <1>1. Inv /\ TypeInv(V) => TypeOK
    <2> SUFFICES ASSUME Inv, TypeInv(V) PROVE TypeOK
      OBVIOUS
    <2>1. \A g \in Goroutine : stack[g] \in Seq(Frame)
      BY StackTyped DEF Inv
    <2>2. stack \in [Goroutine -> Seq(Frame)]
      BY <2>1 DEF Inv, Types
    <2> QED
      BY <2>2 DEF TypeOK, Inv, Types, TypeInv, Data
  <1> QED
    BY <1>1, TypeInvariance, IssueInvariance, PTL
=============================================================================
