----------------------------- MODULE IssueProofs -----------------------------
(***************************************************************************)
(* The issues of the engine, proved for any schemas, inputs and callbacks: *)
(* schemas are entered on payloads without issues, the abort flag of       *)
(* runChecks is what the issues say, and paths lead to where the issues    *)
(* were raised.                                                            *)
(*                                                                         *)
(* Who owns a payload (EngineProofs) says who may write its issues; what   *)
(* is new here is what each kind of frame relies on until it runs again.   *)
(***************************************************************************)
EXTENDS EngineProofs, WellFoundedInduction

-----------------------------------------------------------------------------
(* Least numbers. *)

LEMMA NatWellFounded == IsWellFoundedOn({ss \in Nat \X Nat : ss[1] < ss[2]}, Nat)
  BY NatLessThanWellFounded, Zenon DEF OpToRel

\* A set of numbers has a least one: induction, by the least counterexample.
LEMMA Least ==
  ASSUME NEW T \in SUBSET Nat, T # {}
  PROVE  \E n \in T : \A m \in T : n <= m
  <1> DEFINE R == {ss \in Nat \X Nat : ss[1] < ss[2]}
  <1>1. IsWellFoundedOn(R, Nat)
    BY NatWellFounded
  <1>2. \A x, y \in Nat : y < x => <<y, x>> \in R
    OBVIOUS
  <1> HIDE DEF R
  <1>3. PICK x \in T : \A y \in T : ~(<<y, x>> \in R)
    BY <1>1, WFMin
  <1>4. \A y \in T : ~(y < x)
    BY <1>2, <1>3
  <1> QED
    BY <1>4

LEMMA MinIs ==
  ASSUME NEW T \in SUBSET Nat, T # {}
  PROVE  Min(T) \in T /\ \A m \in T : Min(T) <= m
  <1>1. \E n \in T : \A m \in T : n <= m
    BY Least
  <1> QED
    BY <1>1, Zenon DEF Min

-----------------------------------------------------------------------------
(* Selected. *)

Among(iss, unrecognized, k, f) ==
  f = [i \in 0 .. k |->
        IF i = 0 THEN <<>>
        ELSE IF IsUnrecognized(iss[i]) = unrecognized THEN Append(f[i - 1], iss[i])
        ELSE f[i - 1]]

\* The recursive function in Selected exists.
LEMMA AmongExists ==
  ASSUME NEW iss, NEW unrecognized, NEW k \in Nat
  PROVE  \E f : Among(iss, unrecognized, k, f)
  <1> DEFINE Next1(f, i) == IF IsUnrecognized(iss[i]) = unrecognized THEN Append(f[i - 1], iss[i])
                            ELSE f[i - 1]
             Bad == {j \in Nat : ~\E f : Among(iss, unrecognized, j, f)}
  <1>1. SUFFICES ASSUME Bad # {} PROVE FALSE
    OBVIOUS
  <1>2. PICK j \in Bad : \A m \in Bad : j <= m
    <2>1. Bad \in SUBSET Nat
      OBVIOUS
    <2> HIDE DEF Bad
    <2> QED
      BY <1>1, <2>1, Least
  <1>3. CASE j = 0
    <2>1. Among(iss, unrecognized, 0, [i \in 0 .. 0 |-> <<>>])
      BY DEF Among
    <2> QED
      BY <1>3, <2>1
  <1>4. CASE j # 0
    <2>1. j \in Nat /\ j - 1 \in Nat /\ j - 1 \notin Bad
      BY <1>2, <1>4
    <2>2. PICK f : Among(iss, unrecognized, j - 1, f)
      BY <2>1
    <2>3. f = [i \in 0 .. j - 1 |-> IF i = 0 THEN <<>> ELSE Next1(f, i)]
      BY <2>2 DEF Among
    <2> DEFINE h == [i \in 0 .. j |-> IF i = j THEN Next1(f, j) ELSE f[i]]
    <2>4. \A i \in 0 .. j - 1 : h[i] = f[i]
      BY <2>1
    <2>5. \A i \in 0 .. j : i # 0 => Next1(h, i) = Next1(f, i)
      <3> SUFFICES ASSUME NEW i \in 0 .. j, i # 0 PROVE Next1(h, i) = Next1(f, i)
        OBVIOUS
      <3>1. i - 1 \in 0 .. j - 1
        BY <2>1
      <3>2. h[i - 1] = f[i - 1]
        BY <2>4, <3>1
      <3> HIDE DEF h
      <3> QED
        BY <3>2
    <2>6. \A i \in 0 .. j : h[i] = IF i = 0 THEN <<>> ELSE Next1(f, i)
      <3> SUFFICES ASSUME NEW i \in 0 .. j PROVE h[i] = IF i = 0 THEN <<>> ELSE Next1(f, i)
        OBVIOUS
      <3>1. CASE i = j
        BY <1>4, <3>1
      <3>2. CASE i # j
        <4>1. i \in 0 .. j - 1 /\ h[i] = f[i]
          BY <2>1, <2>4, <3>2
        <4> HIDE DEF h, Next1
        <4> QED
          BY <2>3, <4>1
      <3> QED
        BY <3>1, <3>2
    <2>7. h = [i \in 0 .. j |-> h[i]]
      OBVIOUS
    <2> HIDE DEF h, Next1
    <2>8. h = [i \in 0 .. j |-> IF i = 0 THEN <<>> ELSE Next1(h, i)]
      <3>1. \A i \in 0 .. j : h[i] = IF i = 0 THEN <<>> ELSE Next1(h, i)
        BY <2>5, <2>6
      <3> QED
        BY <2>7, <3>1
    <2>9. Among(iss, unrecognized, j, h)
      BY <2>8 DEF Among, Next1
    <2> QED
      BY <2>9
  <1> QED
    BY <1>3, <1>4

\* The issues selected are issues of the list, and none is missing when there are any.
LEMMA SelectedIs ==
  ASSUME NEW S, NEW iss \in Seq(S), NEW unrecognized
  PROVE  /\ Selected(iss, unrecognized) \in Seq({e \in S : IsUnrecognized(e) = unrecognized})
         /\ Selected(iss, unrecognized) = <<>> =>
              \A i \in 1 .. Len(iss) : IsUnrecognized(iss[i]) # unrecognized
  <1> DEFINE k == Len(iss)
             T == {e \in S : IsUnrecognized(e) = unrecognized}
             f == CHOOSE f : Among(iss, unrecognized, k, f)
             Good(i) == /\ f[i] \in Seq(T)
                        /\ f[i] = <<>> => \A m \in 1 .. i : IsUnrecognized(iss[m]) # unrecognized
             Bad == {i \in 0 .. k : ~Good(i)}
  <1>1. k \in Nat /\ \A i \in 1 .. k : iss[i] \in S
    BY LenProperties, ElementOfSeq
  <1>2. Selected(iss, unrecognized) = f[k]
    BY Zenon DEF Selected, Among
  <1>3. Among(iss, unrecognized, k, f)
    BY <1>1, AmongExists
  <1> HIDE DEF f, k
  <1>4. f[0] = <<>>
    BY <1>1, <1>3 DEF Among
  <1>5. \A i \in 1 .. k : f[i] = IF IsUnrecognized(iss[i]) = unrecognized
                                THEN Append(f[i - 1], iss[i]) ELSE f[i - 1]
    <2> SUFFICES ASSUME NEW i \in 1 .. k
                 PROVE  f[i] = IF IsUnrecognized(iss[i]) = unrecognized
                               THEN Append(f[i - 1], iss[i]) ELSE f[i - 1]
      OBVIOUS
    <2>1. i \in 0 .. k /\ i # 0
      BY <1>1
    <2> QED
      BY <1>3, <2>1 DEF Among
  <1>6. Bad = {}
    <2>1. SUFFICES ASSUME Bad # {} PROVE FALSE
      OBVIOUS
    <2>2. PICK i \in Bad : \A m \in Bad : i <= m
      <3>1. Bad \in SUBSET Nat
        BY <1>1
      <3> HIDE DEF Bad
      <3> QED
        BY <2>1, <3>1, Least
    <2>3. Good(0)
      BY <1>4, EmptySeq
    <2>4. i \in 1 .. k /\ i - 1 \in 0 .. k /\ Good(i - 1)
      <3>1. i \in 1 .. k /\ i - 1 \in 0 .. k
        BY <1>1, <2>2, <2>3
      <3>2. i - 1 \notin Bad
        BY <2>2, <3>1
      <3> HIDE DEF Good
      <3> QED
        BY <3>1, <3>2
    <2>5. PICK g : g = f[i - 1]
      OBVIOUS
    <2>6. g \in Seq(T) /\ iss[i] \in S
      BY <1>1, <2>4, <2>5
    <2>7. CASE IsUnrecognized(iss[i]) = unrecognized
      <3>1. f[i] = Append(g, iss[i]) /\ iss[i] \in T
        BY <1>5, <2>4, <2>5, <2>6, <2>7
      <3>2. Append(g, iss[i]) \in Seq(T) /\ Append(g, iss[i]) # <<>>
        <4> HIDE DEF T
        <4>1. Append(g, iss[i]) \in Seq(T) /\ Len(Append(g, iss[i])) = Len(g) + 1 /\ Len(g) \in Nat
          BY <2>6, <3>1, AppendAt, LenProperties
        <4>2. Len(<<>>) = 0
          BY EmptySeq
        <4>3. Append(g, iss[i]) # <<>>
          BY <4>1, <4>2
        <4> QED
          BY <4>1, <4>3
      <3>3. Good(i)
        BY <3>1, <3>2
      <3> QED
        BY <2>2, <3>3
    <2>8. CASE IsUnrecognized(iss[i]) # unrecognized
      <3>1. f[i] = g
        BY <1>5, <2>4, <2>5, <2>8
      <3>2. \A m \in 1 .. i : m = i \/ m \in 1 .. i - 1
        BY <2>4
      <3>3. Good(i)
        BY <2>4, <2>5, <2>8, <3>1, <3>2
      <3> QED
        BY <2>2, <3>3
    <2> QED
      BY <2>7, <2>8
  <1>7. Good(k)
    <2>1. k \in 0 .. k /\ k \notin Bad
      BY <1>1, <1>6
    <2> HIDE DEF Good
    <2> QED
      BY <2>1
  <1> QED
    BY <1>2, <1>7 DEF k

-----------------------------------------------------------------------------
(* Lists of issues. *)

\* mergeValues gives the place where two values do not merge (a []any in the code).
MergesArePaths == \A v, w : MergeValues(v, w).path \in Path

\* e is an issue of a payload whose value is at b.
Placed(b, e) ==
  /\ e = [code |-> e.code, cont |-> e.cont, path |-> e.path, at |-> e.at, keys |-> e.keys]
  /\ IsSeq(e.path)
  /\ e.at = b \o e.path

AllPlaced(b, iss) == \A i \in 1 .. Len(iss) : Placed(b, iss[i])
SoundList(b, iss) == IsSeq(iss) /\ (MergesArePaths => AllPlaced(b, iss))

LEMMA SeqFacts ==
  ASSUME NEW s, IsSeq(s)
  PROVE  Len(s) \in Nat /\ DOMAIN s = 1 .. Len(s) /\ s \in Seq({s[i] : i \in 1 .. Len(s)})
  BY LenProperties DEF IsSeq

\* Two sequences are sequences over one set.
LEMMA ConcatAt ==
  ASSUME NEW s, IsSeq(s), NEW u, IsSeq(u)
  PROVE  /\ IsSeq(s \o u) /\ Len(s \o u) = Len(s) + Len(u)
         /\ \A i \in 1 .. Len(s) + Len(u) :
              (s \o u)[i] = IF i <= Len(s) THEN s[i] ELSE u[i - Len(s)]
  <1> DEFINE S == {s[i] : i \in 1 .. Len(s)} \cup {u[i] : i \in 1 .. Len(u)}
  <1>1. s \in Seq(S) /\ u \in Seq(S)
    BY SeqMonotonic DEF IsSeq
  <1> HIDE DEF S
  <1>2. /\ s \o u \in Seq(S) /\ Len(s \o u) = Len(s) + Len(u)
        /\ \A i \in 1 .. Len(s) + Len(u) :
              (s \o u)[i] = IF i <= Len(s) THEN s[i] ELSE u[i - Len(s)]
    BY <1>1, ConcatProperties
  <1> QED
    BY <1>2, SeqIsSeq

LEMMA SingleIsSeq == ASSUME NEW e PROVE IsSeq(<<e>>) /\ Len(<<e>>) = 1 /\ <<e>>[1] = e
  <1>1. <<e>> \in Seq({e})
    OBVIOUS
  <1> QED
    BY <1>1, SeqIsSeq

LEMMA NilIsSeq == IsSeq(<<>>) /\ Len(<<>>) = 0
  BY SeqIsSeq, EmptySeq

\* One step of a path may be taken from the left to the right of the concatenation.
LEMMA StepOver ==
  ASSUME NEW b, IsSeq(b), NEW k, NEW s, IsSeq(s)
  PROVE  Append(b, k) \o s = b \o (<<k>> \o s)
  <1> DEFINE S == {b[i] : i \in 1 .. Len(b)} \cup {s[i] : i \in 1 .. Len(s)} \cup {k}
  <1>1. b \in Seq(S) /\ s \in Seq(S) /\ k \in S
    BY SeqMonotonic DEF IsSeq
  <1> HIDE DEF S
  <1>2. <<k>> \in Seq(S) /\ Len(<<k>>) = 1 /\ <<k>>[1] = k
    BY <1>1
  <1>3. Append(b, k) = b \o <<k>>
    <2>1. /\ Append(b, k) \in Seq(S) /\ Len(Append(b, k)) = Len(b) + 1
          /\ \A i \in 1 .. Len(b) + 1 : Append(b, k)[i] = IF i = Len(b) + 1 THEN k ELSE b[i]
      BY <1>1, AppendAt
    <2>2. /\ b \o <<k>> \in Seq(S) /\ Len(b \o <<k>>) = Len(b) + 1
          /\ \A i \in 1 .. Len(b) + 1 :
               (b \o <<k>>)[i] = IF i <= Len(b) THEN b[i] ELSE <<k>>[i - Len(b)]
      BY <1>1, <1>2, ConcatProperties
    <2>3. Len(b) \in Nat
      BY <1>1, LenProperties
    <2>4. \A i \in 1 .. Len(b) + 1 : Append(b, k)[i] = (b \o <<k>>)[i]
      BY <1>2, <2>1, <2>2, <2>3
    <2> QED
      BY <2>1, <2>2, <2>4, SeqEqual
  <1> QED
    BY <1>1, <1>2, <1>3, ConcatAssociative

LEMMA SoundNil == ASSUME NEW b PROVE SoundList(b, <<>>)
  BY NilIsSeq DEF SoundList, AllPlaced

LEMMA SoundAppend ==
  ASSUME NEW b, NEW iss, SoundList(b, iss), NEW e, MergesArePaths => Placed(b, e)
  PROVE  SoundList(b, Append(iss, e))
  <1>1. /\ IsSeq(iss) /\ IsSeq(Append(iss, e)) /\ Len(Append(iss, e)) = Len(iss) + 1
        /\ \A i \in 1 .. Len(iss) + 1 : Append(iss, e)[i] = IF i = Len(iss) + 1 THEN e ELSE iss[i]
    BY PushAt DEF SoundList
  <1>2. Len(iss) \in Nat
    BY <1>1, SeqFacts
  <1>3. ASSUME MergesArePaths, NEW i \in 1 .. Len(iss) + 1
        PROVE  Placed(b, Append(iss, e)[i])
    <2>1. CASE i = Len(iss) + 1
      BY <1>1, <1>3, <2>1
    <2>2. CASE i # Len(iss) + 1
      <3>1. i \in 1 .. Len(iss) /\ Append(iss, e)[i] = iss[i]
        BY <1>1, <1>2, <2>2
      <3> QED
        BY <1>3, <3>1 DEF SoundList, AllPlaced
    <2> QED
      BY <2>1, <2>2
  <1> QED
    BY <1>1, <1>3 DEF SoundList, AllPlaced

LEMMA SoundConcat ==
  ASSUME NEW b, NEW s, SoundList(b, s), NEW u, SoundList(b, u)
  PROVE  SoundList(b, s \o u)
  <1>1. /\ IsSeq(s) /\ IsSeq(u) /\ IsSeq(s \o u) /\ Len(s \o u) = Len(s) + Len(u)
        /\ \A i \in 1 .. Len(s) + Len(u) :
              (s \o u)[i] = IF i <= Len(s) THEN s[i] ELSE u[i - Len(s)]
    BY ConcatAt DEF SoundList
  <1>2. Len(s) \in Nat /\ Len(u) \in Nat
    BY <1>1, SeqFacts
  <1>3. ASSUME MergesArePaths, NEW i \in 1 .. Len(s) + Len(u)
        PROVE  Placed(b, (s \o u)[i])
    <2>1. CASE i <= Len(s)
      <3>1. i \in 1 .. Len(s) /\ (s \o u)[i] = s[i]
        BY <1>1, <1>2, <2>1
      <3> QED
        BY <1>3, <3>1 DEF SoundList, AllPlaced
    <2>2. CASE ~(i <= Len(s))
      <3>1. i - Len(s) \in 1 .. Len(u) /\ (s \o u)[i] = u[i - Len(s)]
        BY <1>1, <1>2, <2>2
      <3> QED
        BY <1>3, <3>1 DEF SoundList, AllPlaced
    <2> QED
      BY <2>1, <2>2
  <1> QED
    BY <1>1, <1>3 DEF SoundList, AllPlaced

\* SubSeq(iss, 1, n), as the rescues and the truncation of a tuple cut issues.
LEMMA SoundCut ==
  ASSUME NEW b, NEW iss, SoundList(b, iss), NEW n \in Nat, n <= Len(iss)
  PROVE  SoundList(b, SubSeq(iss, 1, n)) /\ Len(SubSeq(iss, 1, n)) = n
  <1> DEFINE S == {iss[i] : i \in 1 .. Len(iss)}
  <1>1. Len(iss) \in Nat /\ \A i \in 1 .. n : i \in 1 .. Len(iss) /\ iss[i] \in S
    BY SeqFacts DEF SoundList
  <1> HIDE DEF S
  <1>2. /\ SubSeq(iss, 1, n) \in Seq(S)
        /\ Len(SubSeq(iss, 1, n)) = IF 1 <= n THEN n - 1 + 1 ELSE 0
        /\ \A i \in 1 .. n - 1 + 1 : SubSeq(iss, 1, n)[i] = iss[1 + i - 1]
    BY <1>1, SubSeqProperties
  <1>3. Len(SubSeq(iss, 1, n)) = n /\ \A i \in 1 .. n : SubSeq(iss, 1, n)[i] = iss[i]
    BY <1>2
  <1>4. IsSeq(SubSeq(iss, 1, n))
    BY <1>2, SeqIsSeq
  <1> QED
    BY <1>1, <1>3, <1>4 DEF SoundList, AllPlaced

\* PrependPath moves the issues of a child to its parent.
LEMMA SoundPrefix ==
  ASSUME NEW b, IsSeq(b), NEW k, NEW iss, SoundList(Append(b, k), iss)
  PROVE  SoundList(b, Prefixed(iss, k))
  <1> DEFINE moved == Prefixed(iss, k)
             S == {moved[i] : i \in 1 .. Len(iss)}
  <1>1. IsSeq(iss) /\ Len(iss) \in Nat /\ DOMAIN iss = 1 .. Len(iss)
    BY SeqFacts DEF SoundList
  <1>2. moved = [i \in 1 .. Len(iss) |-> [iss[i] EXCEPT !.path = <<k>> \o @]]
    BY <1>1 DEF Prefixed
  <1>3. moved \in [1 .. Len(iss) -> S]
    BY <1>2
  <1>4. moved \in Seq(S) /\ Len(moved) = Len(iss)
    <2> HIDE DEF S, moved
    <2> QED
      BY <1>1, <1>3
  <1>5. IsSeq(moved)
    BY <1>4, SeqIsSeq
  <1>6. ASSUME MergesArePaths, NEW i \in 1 .. Len(iss)
        PROVE  Placed(b, moved[i])
    <2>1. PICK e : e = iss[i]
      OBVIOUS
    <2>2. Placed(Append(b, k), e)
      BY <1>6, <2>1 DEF SoundList, AllPlaced
    <2>3. moved[i] = [e EXCEPT !.path = <<k>> \o e.path]
      BY <1>2, <2>1
    <2>4. moved[i] = [code |-> e.code, cont |-> e.cont, path |-> <<k>> \o e.path,
                      at |-> e.at, keys |-> e.keys]
      BY <2>2, <2>3 DEF Placed
    <2>5. PICK s : s = e.path
      OBVIOUS
    <2>6. IsSeq(s) /\ e.at = Append(b, k) \o s
      BY <2>2, <2>5 DEF Placed
    <2>7. IsSeq(<<k>> \o s)
      BY <2>6, SingleIsSeq, ConcatAt
    <2>8. e.at = b \o (<<k>> \o s)
      BY <2>6, StepOver
    <2> HIDE DEF moved
    <2>9. moved[i].path = <<k>> \o s /\ moved[i].at = e.at
      BY <2>4, <2>5
    <2> QED
      BY <2>4, <2>5, <2>7, <2>8, <2>9 DEF Placed
  <1> QED
    BY <1>4, <1>5, <1>6 DEF SoundList, AllPlaced

\* The issues of an intersection are those of its sides, at the same place.
LEMMA KeysIn ==
  ASSUME NEW s, IsSeq(s), KeysReported(s) # {}
  PROVE  \E i \in 1 .. Len(s) : IsUnrecognized(s[i])
  <1>1. DOMAIN s = 1 .. Len(s)
    BY SeqFacts
  <1> QED
    BY <1>1 DEF KeysReported

LEMMA SoundSelected ==
  ASSUME NEW b, NEW s, SoundList(b, s), NEW unrecognized
  PROVE  /\ SoundList(b, Selected(s, unrecognized))
         /\ Selected(s, unrecognized) = <<>> =>
              \A i \in 1 .. Len(s) : IsUnrecognized(s[i]) # unrecognized
  <1> DEFINE S == {s[i] : i \in 1 .. Len(s)}
             T == {e \in S : IsUnrecognized(e) = unrecognized}
  <1>1. s \in Seq(S)
    BY DEF SoundList, IsSeq
  <1>2. MergesArePaths => \A e \in S : Placed(b, e)
    BY DEF SoundList, AllPlaced
  <1> HIDE DEF S
  <1>3. PICK u : u = Selected(s, unrecognized)
    OBVIOUS
  <1>4. /\ u \in Seq(T)
        /\ u = <<>> => \A i \in 1 .. Len(s) : IsUnrecognized(s[i]) # unrecognized
    BY <1>1, <1>3, SelectedIs
  <1>5. \A i \in 1 .. Len(u) : u[i] \in S
    BY <1>4, ElementOfSeq
  <1>6. IsSeq(u)
    BY <1>4, SeqIsSeq
  <1> QED
    BY <1>2, <1>3, <1>4, <1>5, <1>6 DEF SoundList, AllPlaced

LEMMA SoundJoin ==
  ASSUME NEW b, NEW n, NEW l, SoundList(b, l), NEW r, SoundList(b, r)
  PROVE  SoundList(b, JoinedIssues(n, l, r))
  <1> DEFINE sides == graph[n].kids
             shapes == Shape(sides[1]) \cup Shape(sides[2])
             report == IF \A k \in 1 .. 2 : graph[sides[k]].kind = "object"
                       THEN (KeysReported(l) \cup KeysReported(r)) \ shapes
                       ELSE KeysReported(l) \cap KeysReported(r)
             lefts == Selected(l, TRUE)
             rights == Selected(r, TRUE)
             kept == IF lefts # <<>> THEN Last(lefts) ELSE Head(rights)
             others == Selected(l \o r, FALSE)
             told == IF report = {} THEN <<>> ELSE <<[kept EXCEPT !.keys = report]>>
  <1>1. JoinedIssues(n, l, r) = others \o told
    BY Zenon DEF JoinedIssues
  <1>2. SoundList(b, others)
    BY SoundConcat, SoundSelected
  <1>3. report # {} => KeysReported(l) # {} \/ KeysReported(r) # {}
    OBVIOUS
  <1>4. SoundList(b, lefts) /\ SoundList(b, rights)
    BY SoundSelected
  <1>5. /\ lefts = <<>> => KeysReported(l) = {}
        /\ rights = <<>> => KeysReported(r) = {}
    <2>1. \A s : SoundList(b, s) /\ Selected(s, TRUE) = <<>> => KeysReported(s) = {}
      <3> SUFFICES ASSUME NEW s, SoundList(b, s), Selected(s, TRUE) = <<>>, KeysReported(s) # {}
                   PROVE  FALSE
        OBVIOUS
      <3>1. \A i \in 1 .. Len(s) : IsUnrecognized(s[i]) # TRUE
        BY SoundSelected
      <3>2. IsSeq(s)
        BY DEF SoundList
      <3>3. \E i \in 1 .. Len(s) : IsUnrecognized(s[i])
        BY <3>2, KeysIn
      <3> QED
        BY <3>1, <3>3 DEF IsUnrecognized
    <2> QED
      BY <2>1
  <1> HIDE DEF report, lefts, rights, others
  <1>6. ASSUME report # {}, MergesArePaths PROVE Placed(b, kept)
    <2>1. CASE lefts # <<>>
      <3>1. IsSeq(lefts) /\ Len(lefts) \in 1 .. Len(lefts)
        BY <1>4, <2>1, PopAt DEF SoundList
      <3> QED
        BY <1>4, <1>6, <2>1, <3>1 DEF SoundList, AllPlaced, Last
    <2>2. CASE lefts = <<>>
      <3>1. rights # <<>>
        BY <1>3, <1>5, <1>6, <2>2
      <3>2. IsSeq(rights) /\ 1 \in 1 .. Len(rights)
        BY <1>4, <3>1, PopAt DEF SoundList
      <3>3. Head(rights) = rights[1]
        BY <3>1, <3>2, HeadTailProperties DEF IsSeq
      <3> QED
        BY <1>4, <1>6, <2>2, <3>2, <3>3 DEF SoundList, AllPlaced
    <2> QED
      BY <2>1, <2>2
  <1>7. SoundList(b, told)
    <2>1. CASE report = {}
      BY <2>1, SoundNil
    <2>2. CASE report # {}
      <3>1. PICK e : e = [kept EXCEPT !.keys = report]
        OBVIOUS
      <3>2. PICK k : k = kept
        OBVIOUS
      <3>3. MergesArePaths => Placed(b, e)
        <4>1. SUFFICES ASSUME MergesArePaths PROVE Placed(b, e)
          OBVIOUS
        <4>2. Placed(b, k)
          BY <1>6, <2>2, <3>2, <4>1
        <4> HIDE DEF kept
        <4>3. e = [code |-> k.code, cont |-> k.cont, path |-> k.path, at |-> k.at, keys |-> report]
          BY <3>1, <3>2, <4>2 DEF Placed
        <4> QED
          BY <4>2, <4>3 DEF Placed
      <3>4. told = <<e>> /\ IsSeq(<<e>>) /\ Len(<<e>>) = 1 /\ <<e>>[1] = e
        BY <2>2, <3>1, SingleIsSeq
      <3> HIDE DEF told
      <3> QED
        BY <3>3, <3>4 DEF SoundList, AllPlaced
    <2> QED
      BY <2>1, <2>2
  <1> HIDE DEF told
  <1> QED
    BY <1>1, <1>2, <1>7, SoundConcat

-----------------------------------------------------------------------------
(* What a frame relies on while the frames above it run. *)

\* Where the frame above runs on the same payload, and where on another one.
SelfPc == {"parsed", "rescue", "nonoptional", "default", "catch", "transform", "pipe", "codec"}
AwayPc == {"field", "item", "slot", "key", "value", "option", "choice", "right", "merge"}

OneChild == {"field", "item", "slot", "key", "value"}
Beside == {"options", "option", "choices", "choice", "left", "right", "merge"}

\* The place of the child of such a frame.
ChildPlace(f) ==
  IF f.pc \in {"key", "value"} THEN Append(base[f.p], f.marks[f.i])
  ELSE IF f.pc = "item" /\ graph[f.n].kind = "set" THEN base[f.p]
  ELSE Append(base[f.p], f.i)

\* A tuple has noted the number of issues before each item it has built or runs.
Noted(f) ==
  /\ f.marks \in Seq(Nat)
  /\ IsSeq(build[f.p])
  /\ Len(f.marks) = Len(build[f.p]) + (IF f.pc = "slot" THEN 1 ELSE 0)
  /\ \A k \in 1 .. Len(f.marks) : f.marks[k] <= Len(issues[f.p])

FrameOK(f) ==
  /\ f.pc = "enter" => issues[f.p] = <<>> /\ f.marks = <<>>
  /\ f.pc = "checks" => f.flag = AbortedFrom(aborted[f.p], issues[f.p], 0)
  /\ f.pc = "rescue" => f.start \in Nat
  /\ f.pc \in {"slots", "slot"} => Noted(f)
  /\ f.pc \in OneChild => Len(f.kids) >= 1 /\ base[f.kids[1]] = ChildPlace(f)
  /\ f.pc \in Beside => \A j \in 1 .. Len(f.kids) : base[f.kids[j]] = base[f.p]
  /\ f.pc = "left" => Len(f.kids) = 1 /\ issues[f.kids[1]] = <<>>
  /\ f.pc = "right" => issues[f.kids[2]] = <<>>
  /\ f.pc = "merge" => Len(f.kids) >= 2

FrameAt(g, i, f) == i \in 1 .. Len(stack[g]) /\ f = stack[g][i]

FramesOK == \A g \in Goroutine, i \in Nat : \A f : FrameAt(g, i, f) => FrameOK(f)

\* A frame below the running one waits for it, and nothing above it runs on its
\* payload, nor on the one an intersection keeps for its right side.
Apart ==
  /\ \A g \in Goroutine, i \in Nat : \A f :
       FrameAt(g, i, f) /\ i # Len(stack[g]) => f.pc \in SelfPc \cup AwayPc
  /\ \A g \in Goroutine, i, j \in Nat : \A f, h :
       FrameAt(g, i, f) /\ FrameAt(g, j, h) /\ i < j =>
         /\ f.pc \in AwayPc => h.p # f.p
         /\ f.pc = "right" => h.p # f.kids[2]

\* The issues of the payloads in use are placed below the payload's value.
Sounds == \A q \in PayloadId : pool[q] = 0 => IsSeq(base[q]) /\ SoundList(base[q], issues[q])

Fields ==
  /\ issues = [q \in PayloadId |-> issues[q]]
  /\ base = [q \in PayloadId |-> base[q]]
  /\ build = [q \in PayloadId |-> build[q]]

IssueInv == Fields /\ FramesOK /\ Apart /\ Sounds

-----------------------------------------------------------------------------
(* A step of g writes the payload of its running frame and the ones it     *)
(* takes from the pool or gives back; the other frames do not notice.      *)

Effect(g) ==
  /\ issues' = [q \in PayloadId |-> issues'[q]]
  /\ base' = [q \in PayloadId |-> base'[q]]
  /\ build' = [q \in PayloadId |-> build'[q]]
  /\ graph' = graph
  /\ \A q \in PayloadId : pool[q] = 0 => base'[q] = base[q]
  /\ \A q \in PayloadId : pool[q] = 0 /\ q # Top(g).p => issues'[q] = issues[q]
  /\ \A q \in PayloadId : q # Top(g).p => build'[q] = build[q]
  /\ \A q \in PayloadId : pool[q] = 0 /\ q # Top(g).p /\ q \notin Range(Top(g).kids) =>
       aborted'[q] = aborted[q]
  /\ \A q \in PayloadId : pool[q] # 0 /\ pool'[q] = 0 => IsSeq(base'[q]) /\ issues'[q] = <<>>
  /\ \A q \in PayloadId : q = Top(g).p => SoundList(base'[q], issues'[q])

LEMMA SoundsKept ==
  ASSUME IssueInv, NEW g \in Goroutine, Effect(g)
  PROVE  Fields' /\ Sounds'
  <1>1. Fields'
    BY DEF Effect, Fields
  <1>2. ASSUME NEW q \in PayloadId, pool'[q] = 0
        PROVE  IsSeq(base'[q]) /\ SoundList(base'[q], issues'[q])
    <2>1. CASE pool[q] # 0
      <3>1. IsSeq(base'[q]) /\ issues'[q] = <<>>
        BY <1>2, <2>1 DEF Effect
      <3>2. SoundList(base'[q], <<>>)
        BY SoundNil
      <3> QED
        BY <3>1, <3>2
    <2>2. CASE pool[q] = 0
      <3>1. base'[q] = base[q] /\ IsSeq(base[q]) /\ SoundList(base[q], issues[q])
        BY <2>2 DEF Effect, IssueInv, Sounds
      <3>2. CASE q = Top(g).p
        BY <3>1, <3>2 DEF Effect
      <3>3. CASE q # Top(g).p
        <4>1. issues'[q] = issues[q]
          BY <2>2, <3>3 DEF Effect
        <4> QED
          BY <3>1, <4>1
      <3> QED
        BY <3>2, <3>3
    <2> QED
      BY <2>1, <2>2
  <1> QED
    BY <1>1, <1>2 DEF Sounds

\* The frame of the index is a frame of the stack.
LEMMA FrameIs ==
  ASSUME Inv, NEW g \in Goroutine, NEW i \in Nat, NEW f, FrameAt(g, i, f)
  PROVE  /\ IsFrame(f) /\ f.p \in PayloadId /\ RunsOn(g, i, f.p) /\ pool[f.p] = 0
         /\ Len(f.kids) \in Nat /\ DOMAIN f.kids = 1 .. Len(f.kids)
         /\ \A j \in 1 .. Len(f.kids) :
              f.kids[j] \in PayloadId /\ KidOwns(g, i, j, f.kids[j]) /\ pool[f.kids[j]] = 0
  <1>1. IsFrame(f)
    BY DEF Inv, Types, IsStack, FrameAt
  <1>2. f.p \in PayloadId /\ RunsOn(g, i, f.p)
    BY <1>1 DEF IsFrame, RunsOn, FrameAt
  <1>3. pool[f.p] = 0
    BY <1>2, RunningHeld
  <1>4. f.kids \in Seq(PayloadId)
    BY <1>1 DEF IsFrame
  <1>5. /\ Len(f.kids) \in Nat /\ DOMAIN f.kids = 1 .. Len(f.kids)
        /\ \A j \in 1 .. Len(f.kids) : j \in Nat /\ f.kids[j] \in PayloadId
    BY <1>4, LenProperties, ElementOfSeq
  <1>6. \A j \in 1 .. Len(f.kids) : KidOwns(g, i, j, f.kids[j])
    BY DEF KidOwns, FrameAt
  <1>7. \A j \in 1 .. Len(f.kids) : pool[f.kids[j]] = 0
    BY <1>5, <1>6 DEF Inv, Own
  <1> QED
    BY <1>1, <1>2, <1>3, <1>5, <1>6, <1>7

\* The running frame.
LEMMA TopAt ==
  ASSUME Inv, NEW g \in Goroutine, stack[g] # <<>>
  PROVE  /\ Len(stack[g]) \in Nat /\ Len(stack[g]) >= 1
         /\ FrameAt(g, Len(stack[g]), Top(g))
         /\ IsFrame(Top(g)) /\ Top(g).p \in PayloadId /\ pool[Top(g).p] = 0
         /\ RunsOn(g, Len(stack[g]), Top(g).p)
  <1>1. Len(stack[g]) \in Nat /\ Len(stack[g]) >= 1
    BY PopAt DEF Inv, Types, IsStack
  <1>2. FrameAt(g, Len(stack[g]), Top(g))
    BY <1>1 DEF FrameAt, Top, Last
  <1>3. PICK f : f = Top(g)
    OBVIOUS
  <1>4. FrameAt(g, Len(stack[g]), f)
    BY <1>2, <1>3
  <1>5. IsFrame(f) /\ f.p \in PayloadId /\ pool[f.p] = 0 /\ RunsOn(g, Len(stack[g]), f.p)
    BY <1>1, <1>4, FrameIs
  <1> QED
    BY <1>1, <1>2, <1>3, <1>5

\* Frames of different goroutines run on different payloads.
LEMMA Separate ==
  ASSUME Inv, NEW g \in Goroutine, NEW h \in Goroutine, NEW i \in Nat, NEW p \in PayloadId,
         RunsOn(g, i, p)
  PROVE  /\ \A j \in Nat : RunsOn(h, j, p) => g = h
         /\ \A j, k \in Nat : KidOwns(h, j, k, p) => g = h /\ j < i
  <1>1. \/ CallOwns(g, p)
        \/ \E k, j \in Nat : k < i /\ KidOwns(g, k, j, p)
    BY DEF Inv, Chain
  <1>2. \A j \in Nat : RunsOn(h, j, p) => \/ CallOwns(h, p)
                                          \/ \E k, m \in Nat : KidOwns(h, k, m, p)
    BY DEF Inv, Chain
  <1>3. \A j \in Nat : RunsOn(h, j, p) => g = h
    BY <1>1, <1>2 DEF Inv, Own
  <1>4. \A j, k \in Nat : KidOwns(h, j, k, p) => g = h /\ j < i
    BY <1>1 DEF Inv, Own
  <1> QED
    BY <1>3, <1>4

\* What the step of g leaves alone in the other frames.
LEMMA OtherFrames ==
  ASSUME Inv, Apart, NEW g \in Goroutine, stack[g] # <<>>,
         NEW h \in Goroutine, NEW i \in Nat, NEW f, FrameAt(h, i, f), h # g \/ i # Len(stack[g])
  PROVE  /\ h = g => f.pc \in SelfPc \cup AwayPc
         /\ h # g \/ f.pc \in AwayPc => f.p # Top(g).p
         /\ f.pc = "right" => f.kids[2] # Top(g).p
         /\ \A j \in 1 .. Len(f.kids) : h # g => f.kids[j] # Top(g).p
         /\ h # g => f.p \notin Range(Top(g).kids)
  <1> DEFINE t == Len(stack[g])
  <1>1. /\ t \in Nat /\ t >= 1 /\ FrameAt(g, t, Top(g)) /\ Top(g).p \in PayloadId
        /\ RunsOn(g, t, Top(g).p)
    BY TopAt
  <1>2. PICK top : top = Top(g)
    OBVIOUS
  <1>3. /\ FrameAt(g, t, top) /\ top.p \in PayloadId /\ RunsOn(g, t, top.p)
        /\ DOMAIN top.kids = 1 .. Len(top.kids) /\ Len(top.kids) \in Nat
        /\ \A j \in 1 .. Len(top.kids) : top.kids[j] \in PayloadId /\ KidOwns(g, t, j, top.kids[j])
    BY <1>1, <1>2, FrameIs
  <1>4. /\ f.p \in PayloadId /\ RunsOn(h, i, f.p) /\ Len(f.kids) \in Nat
        /\ \A j \in 1 .. Len(f.kids) : f.kids[j] \in PayloadId /\ KidOwns(h, i, j, f.kids[j])
    BY FrameIs
  <1>5. h = g => i < t
    BY <1>1 DEF FrameAt
  <1>6. h = g => f.pc \in SelfPc \cup AwayPc
    BY DEF Apart
  <1>7. h = g /\ f.pc \in AwayPc => f.p # top.p
    BY <1>1, <1>3, <1>5 DEF Apart
  <1>8. h # g => f.p # top.p
    BY <1>1, <1>3, <1>4, Separate
  <1>9. h = g /\ f.pc = "right" => f.kids[2] # top.p
    BY <1>1, <1>3, <1>5 DEF Apart
  <1>10. \A j \in 1 .. Len(f.kids) : h # g => f.kids[j] # top.p
    <2>1. \A j \in 1 .. Len(f.kids) : j \in Nat
      BY <1>4
    <2> QED
      BY <1>1, <1>3, <1>4, <2>1, Separate
  <1>11. h # g /\ f.pc = "right" => f.kids[2] # top.p
    <2>1. f.pc = "right" => 2 \in 1 .. Len(f.kids)
      BY <1>4, FrameIs DEF IsFrame
    <2> QED
      BY <1>10, <2>1
  <1>12. h # g => f.p \notin Range(top.kids)
    <2>1. \A j \in 1 .. Len(top.kids) : j \in Nat
      BY <1>3
    <2>2. \A j \in 1 .. Len(top.kids) : h # g => top.kids[j] # f.p
      BY <1>1, <1>3, <1>4, <2>1, Separate
    <2> QED
      BY <1>3, <2>2 DEF Range
  <1> QED
    BY <1>2, <1>6, <1>7, <1>8, <1>9, <1>10, <1>11, <1>12

\* ... so they are as before.
LEMMA FrameStays ==
  ASSUME Inv, IssueInv, NEW g \in Goroutine, stack[g] # <<>>, Effect(g),
         NEW h \in Goroutine, NEW i \in Nat, NEW f, FrameAt(h, i, f), h # g \/ i # Len(stack[g])
  PROVE  FrameOK(f)'
  <1>1. FrameOK(f)
    BY DEF IssueInv, FramesOK
  <1>2. /\ IsFrame(f) /\ f.p \in PayloadId /\ pool[f.p] = 0 /\ Len(f.kids) \in Nat
        /\ \A j \in 1 .. Len(f.kids) : f.kids[j] \in PayloadId /\ pool[f.kids[j]] = 0
    BY FrameIs
  <1>3. /\ h = g => f.pc \in SelfPc \cup AwayPc
        /\ h # g \/ f.pc \in AwayPc => f.p # Top(g).p
        /\ f.pc = "right" => f.kids[2] # Top(g).p
        /\ \A j \in 1 .. Len(f.kids) : h # g => f.kids[j] # Top(g).p
        /\ h # g => f.p \notin Range(Top(g).kids)
    BY OtherFrames DEF IssueInv
  <1>4. base'[f.p] = base[f.p] /\ \A j \in 1 .. Len(f.kids) : base'[f.kids[j]] = base[f.kids[j]]
    BY <1>2 DEF Effect
  <1>5. f.pc \notin SelfPc => issues'[f.p] = issues[f.p] /\ build'[f.p] = build[f.p]
    BY <1>2, <1>3 DEF Effect
  <1>6. f.pc = "checks" => aborted'[f.p] = aborted[f.p]
    BY <1>2, <1>3 DEF Effect, SelfPc, AwayPc
  <1>7. f.pc = "enter" => issues'[f.p] = <<>> /\ f.marks = <<>>
    BY <1>1, <1>5 DEF FrameOK, SelfPc
  <1>8. f.pc = "checks" => f.flag = AbortedFrom(aborted'[f.p], issues'[f.p], 0)
    BY <1>1, <1>5, <1>6 DEF FrameOK, SelfPc
  <1>9. f.pc = "rescue" => f.start \in Nat
    BY <1>1 DEF FrameOK
  <1>10. f.pc \in {"slots", "slot"} => Noted(f)'
    BY <1>1, <1>5 DEF FrameOK, SelfPc, Noted
  <1>11. f.pc \in OneChild => Len(f.kids) >= 1 /\ base'[f.kids[1]] = ChildPlace(f)'
    <2>1. SUFFICES ASSUME f.pc \in OneChild
                   PROVE  Len(f.kids) >= 1 /\ base'[f.kids[1]] = ChildPlace(f)'
      OBVIOUS
    <2>2. Len(f.kids) >= 1 /\ base[f.kids[1]] = ChildPlace(f)
      BY <1>1, <2>1 DEF FrameOK
    <2>3. base'[f.kids[1]] = base[f.kids[1]]
      BY <1>2, <1>4, <2>2
    <2>4. ChildPlace(f)' = ChildPlace(f)
      BY <1>4 DEF ChildPlace, Effect
    <2> QED
      BY <2>2, <2>3, <2>4
  <1>12. f.pc \in Beside => \A j \in 1 .. Len(f.kids) : base'[f.kids[j]] = base'[f.p]
    BY <1>1, <1>4 DEF FrameOK
  <1>13. f.pc = "left" => Len(f.kids) = 1 /\ issues'[f.kids[1]] = <<>>
    <2>1. SUFFICES ASSUME f.pc = "left" PROVE Len(f.kids) = 1 /\ issues'[f.kids[1]] = <<>>
      OBVIOUS
    <2>2. Len(f.kids) = 1 /\ issues[f.kids[1]] = <<>> /\ h # g
      BY <1>1, <1>3, <2>1 DEF FrameOK, SelfPc, AwayPc
    <2> QED
      BY <1>2, <1>3, <2>2 DEF Effect
  <1>14. f.pc = "right" => issues'[f.kids[2]] = <<>>
    <2>1. SUFFICES ASSUME f.pc = "right" PROVE issues'[f.kids[2]] = <<>>
      OBVIOUS
    <2>2. 2 \in 1 .. Len(f.kids) /\ issues[f.kids[2]] = <<>>
      BY <1>1, <1>2, <2>1 DEF FrameOK, IsFrame
    <2> QED
      BY <1>2, <1>3, <2>1, <2>2 DEF Effect
  <1>15. f.pc = "merge" => Len(f.kids) >= 2
    BY <1>1 DEF FrameOK
  <1> QED
    BY <1>7, <1>8, <1>9, <1>10, <1>11, <1>12, <1>13, <1>14, <1>15 DEF FrameOK

\* The running frame goes on to f.
LEMMA GotoIssues ==
  ASSUME Inv, IssueInv, NEW g \in Goroutine, stack[g] # <<>>, Effect(g),
         NEW f, Goto(g, f), f.p = Top(g).p, FrameOK(f)'
  PROVE  IssueInv'
  <1> DEFINE t == Len(stack[g])
  <1>1. /\ \A h \in Goroutine : h # g => stack'[h] = stack[h]
        /\ t \in Nat /\ t >= 1 /\ Len(stack'[g]) = t
        /\ \A i \in 1 .. t : stack'[g][i] = IF i = t THEN f ELSE stack[g][i]
    BY GotoAt DEF Inv
  <1>2. FrameAt(g, t, Top(g))
    BY TopAt
  <1>3. PICK top : top = Top(g)
    OBVIOUS
  <1>4. FrameAt(g, t, top) /\ f.p = top.p
    BY <1>2, <1>3
  <1> HIDE DEF t
  <1>5. \A h \in Goroutine, i \in Nat : \A e :
          FrameAt(h, i, e)' => IF h = g /\ i = t THEN e = f ELSE FrameAt(h, i, e)
    BY <1>1 DEF FrameAt, t
  <1>6. \A h \in Goroutine : Len(stack'[h]) = Len(stack[h])
    BY <1>1 DEF t
  <1>7. FramesOK'
    <2> SUFFICES ASSUME NEW h \in Goroutine, NEW i \in Nat, NEW e, FrameAt(h, i, e)'
                 PROVE  FrameOK(e)'
      BY DEF FramesOK
    <2>1. CASE h = g /\ i = t
      <3>1. e = f
        BY <1>5, <2>1
      <3> QED
        BY <3>1
    <2>2. CASE ~(h = g /\ i = t)
      <3>1. FrameAt(h, i, e) /\ (h # g \/ i # Len(stack[g]))
        BY <1>5, <2>2 DEF t
      <3> QED
        BY <3>1, FrameStays
    <2> QED
      BY <2>1, <2>2
  <1>8. Apart'
    <2>1. ASSUME NEW h \in Goroutine, NEW i \in Nat, NEW e, FrameAt(h, i, e)', i # Len(stack'[h])
          PROVE  e.pc \in SelfPc \cup AwayPc
      <3>1. FrameAt(h, i, e) /\ i # Len(stack[h])
        BY <1>5, <1>6, <2>1 DEF t
      <3> QED
        BY <3>1 DEF IssueInv, Apart
    <2>2. ASSUME NEW h \in Goroutine, NEW i \in Nat, NEW j \in Nat, NEW e, NEW d,
                 FrameAt(h, i, e)', FrameAt(h, j, d)', i < j
          PROVE  /\ e.pc \in AwayPc => d.p # e.p
                 /\ e.pc = "right" => d.p # e.kids[2]
      <3>1. FrameAt(h, i, e)
        <4>1. h = g => j <= t
          BY <1>1, <2>2 DEF FrameAt
        <4>2. ~(h = g /\ i = t)
          BY <1>1, <2>2, <4>1
        <4> QED
          BY <1>5, <2>2, <4>2
      <3>2. PICK c : FrameAt(h, j, c) /\ c.p = d.p
        <4>1. CASE h = g /\ j = t
          BY <1>4, <1>5, <2>2, <4>1
        <4>2. CASE ~(h = g /\ j = t)
          BY <1>5, <2>2, <4>2
        <4> QED
          BY <4>1, <4>2
      <3> QED
        BY <2>2, <3>1, <3>2 DEF IssueInv, Apart
    <2> QED
      BY <2>1, <2>2 DEF Apart
  <1> QED
    BY <1>7, <1>8, SoundsKept DEF IssueInv

\* The running frame returns.
LEMMA ReturnIssues ==
  ASSUME Inv, IssueInv, NEW g \in Goroutine, stack[g] # <<>>, Effect(g), Return(g)
  PROVE  IssueInv'
  <1> DEFINE t == Len(stack[g])
  <1>1. /\ \A h \in Goroutine : h # g => stack'[h] = stack[h]
        /\ t \in Nat /\ t >= 1 /\ Len(stack'[g]) = t - 1
        /\ \A i \in 1 .. t - 1 : stack'[g][i] = stack[g][i]
    BY ReturnAt DEF Inv
  <1>2. \A h \in Goroutine, i \in Nat : \A e :
          FrameAt(h, i, e)' => FrameAt(h, i, e) /\ (h # g \/ i # t)
    BY <1>1 DEF FrameAt
  <1>3. FramesOK'
    BY <1>2, FrameStays DEF FramesOK
  <1>4. Apart'
    <2>1. ASSUME NEW h \in Goroutine, NEW i \in Nat, NEW e, FrameAt(h, i, e)', i # Len(stack'[h])
          PROVE  e.pc \in SelfPc \cup AwayPc
      <3>1. FrameAt(h, i, e) /\ i # Len(stack[h])
        BY <1>1, <1>2, <2>1
      <3> QED
        BY <3>1 DEF IssueInv, Apart
    <2>2. ASSUME NEW h \in Goroutine, NEW i \in Nat, NEW j \in Nat, NEW e, NEW d,
                 FrameAt(h, i, e)', FrameAt(h, j, d)', i < j
          PROVE  /\ e.pc \in AwayPc => d.p # e.p
                 /\ e.pc = "right" => d.p # e.kids[2]
      BY <1>2, <2>2 DEF IssueInv, Apart
    <2> QED
      BY <2>1, <2>2 DEF Apart
  <1> QED
    BY <1>3, <1>4, SoundsKept DEF IssueInv

\* Payload q is none that a frame waits for.
LEMMA Unused ==
  ASSUME Inv, NEW g \in Goroutine, stack[g] # <<>>, NEW q \in PayloadId,
         q \in Range(Top(g).kids) \/ pool[q] # 0,
         NEW i \in Nat, NEW e, FrameAt(g, i, e)
  PROVE  e.p # q /\ (e.pc = "right" /\ i < Len(stack[g]) => e.kids[2] # q)
  <1> DEFINE t == Len(stack[g])
  <1>1. PICK top : top = Top(g)
    OBVIOUS
  <1>2. /\ t \in Nat /\ DOMAIN top.kids = 1 .. Len(top.kids) /\ Len(top.kids) \in Nat
        /\ \A j \in 1 .. Len(top.kids) : KidOwns(g, t, j, top.kids[j])
    BY <1>1, TopAt, FrameIs
  <1>3. /\ RunsOn(g, i, e.p) /\ e.p \in PayloadId /\ pool[e.p] = 0 /\ IsFrame(e)
        /\ \A j \in 1 .. Len(e.kids) :
             e.kids[j] \in PayloadId /\ KidOwns(g, i, j, e.kids[j]) /\ pool[e.kids[j]] = 0
    BY FrameIs
  <1>4. i <= t
    BY <1>2 DEF FrameAt
  <1>5. e.pc = "right" => 2 \in 1 .. Len(e.kids)
    BY FrameIs DEF IsFrame
  <1>6. CASE pool[q] # 0
    BY <1>3, <1>5, <1>6
  <1>7. CASE q \in Range(top.kids)
    <2>1. PICK k \in 1 .. Len(top.kids) : top.kids[k] = q
      BY <1>2, <1>7 DEF Range
    <2>2. k \in Nat /\ KidOwns(g, t, k, q)
      BY <1>2, <2>1
    <2>3. e.p # q
      BY <1>2, <1>3, <1>4, <2>2, Separate
    <2>4. ASSUME e.pc = "right", i < t PROVE e.kids[2] # q
      <3>1. KidOwns(g, i, 2, e.kids[2])
        BY <1>3, <1>5, <2>4
      <3> QED
        BY <1>2, <2>2, <2>4, <3>1 DEF Inv, Own
    <2> QED
      BY <2>3, <2>4
  <1> QED
    BY <1>1, <1>6, <1>7

LEMMA EnteredFrames ==
  ASSUME Inv, NEW g \in Goroutine, stack[g] # <<>>, NEW f, NEW n, NEW q, Enter(g, f, n, q),
         NEW t, t = Len(stack[g])
  PROVE  /\ \A h \in Goroutine : h # g => stack'[h] = stack[h]
         /\ t \in Nat /\ t >= 1 /\ Len(stack'[g]) = t + 1
         /\ \A i \in 1 .. t + 1 : stack'[g][i] =
              IF i = t + 1 THEN NewFrame(n, q) ELSE IF i = t THEN f ELSE stack[g][i]
  BY EnterAt DEF Inv

\* The running frame goes on to f and runs a schema on payload q.
LEMMA EnterIssues ==
  ASSUME Inv, IssueInv, NEW g \in Goroutine, stack[g] # <<>>, Effect(g),
         NEW f, NEW n, NEW q \in PayloadId, Enter(g, f, n, q), f.p = Top(g).p, FrameOK(f)',
         issues'[q] = <<>>,
         \/ f.pc \in SelfPc /\ q = Top(g).p
         \/ f.pc \in AwayPc /\ (q \in Range(Top(g).kids) \/ pool[q] # 0),
         f.pc = "right" => q # f.kids[2]
  PROVE  IssueInv'
  <1>1. PICK t, new : t = Len(stack[g]) /\ new = NewFrame(n, q)
    OBVIOUS
  <1>2. /\ \A h \in Goroutine : h # g => stack'[h] = stack[h]
        /\ t \in Nat /\ t >= 1 /\ Len(stack'[g]) = t + 1
        /\ \A i \in 1 .. t + 1 : stack'[g][i] =
             IF i = t + 1 THEN new ELSE IF i = t THEN f ELSE stack[g][i]
    BY <1>1, EnteredFrames
  <1>3. PICK top : top = Top(g)
    OBVIOUS
  <1>4. FrameAt(g, t, top) /\ f.p = top.p
    BY <1>3, <1>1, TopAt
  <1>5. new.p = q /\ new.pc = "enter" /\ new.marks = <<>>
    BY <1>1 DEF NewFrame
  <1>6. \A h \in Goroutine, i \in Nat : \A e :
          FrameAt(h, i, e)' => IF h = g /\ i = t + 1 THEN e = new
                               ELSE IF h = g /\ i = t THEN e = f
                               ELSE FrameAt(h, i, e) /\ (h = g => i < t)
    BY <1>1, <1>2 DEF FrameAt
  <1>7. FramesOK'
    <2> SUFFICES ASSUME NEW h \in Goroutine, NEW i \in Nat, NEW e, FrameAt(h, i, e)'
                 PROVE  FrameOK(e)'
      BY DEF FramesOK
    <2>1. CASE h = g /\ i = t + 1
      <3>1. e.p = q /\ e.pc = "enter" /\ e.marks = <<>>
        BY <1>5, <1>6, <2>1
      <3> QED
        BY <3>1 DEF FrameOK, OneChild, Beside
    <2>2. CASE h = g /\ i = t
      <3>1. e = f
        BY <1>2, <1>6, <2>2
      <3> QED
        BY <3>1
    <2>3. CASE ~(h = g /\ i = t + 1) /\ ~(h = g /\ i = t)
      <3>1. FrameAt(h, i, e) /\ (h # g \/ i # Len(stack[g]))
        BY <1>6, <1>1, <2>3
      <3> QED
        BY <3>1, FrameStays
    <2> QED
      BY <2>1, <2>2, <2>3
  <1>8. Apart'
    <2>1. ASSUME NEW h \in Goroutine, NEW i \in Nat, NEW e, FrameAt(h, i, e)', i # Len(stack'[h])
          PROVE  e.pc \in SelfPc \cup AwayPc
      <3>1. CASE h = g /\ i = t
        BY <1>2, <1>6, <2>1, <3>1
      <3>2. CASE ~(h = g /\ i = t)
        <4>1. FrameAt(h, i, e) /\ i # Len(stack[h])
          BY <1>2, <1>6, <1>1, <2>1, <3>2
        <4> QED
          BY <4>1 DEF IssueInv, Apart
      <3> QED
        BY <3>1, <3>2
    <2>2. ASSUME NEW h \in Goroutine, NEW i \in Nat, NEW j \in Nat, NEW e, NEW d,
                 FrameAt(h, i, e)', FrameAt(h, j, d)', i < j
          PROVE  /\ e.pc \in AwayPc => d.p # e.p
                 /\ e.pc = "right" => d.p # e.kids[2]
      <3>1. h = g => j <= t + 1
        BY <1>2, <2>2 DEF FrameAt
      <3>2. CASE h = g /\ j = t + 1 /\ i = t
        <4>1. e = f /\ d.p = q
          BY <1>2, <1>5, <1>6, <2>2, <3>2
        <4>2. f.pc \in AwayPc => q # f.p
          <5>1. f.pc \in AwayPc => q \in Range(Top(g).kids) \/ pool[q] # 0
            BY DEF SelfPc, AwayPc
          <5>2. t \in Nat /\ FrameAt(g, t, top)
            BY <1>2, <1>4
          <5> QED
            BY <1>4, <1>1, <5>1, <5>2, Unused
        <4> QED
          BY <4>1, <4>2
      <3>3. CASE h = g /\ j = t + 1 /\ i # t
        <4>1. FrameAt(g, i, e) /\ i < t /\ d.p = q
          BY <1>2, <1>5, <1>6, <2>2, <3>1, <3>3
        <4>2. CASE q = top.p
          BY <1>2, <1>4, <4>1, <4>2 DEF IssueInv, Apart
        <4>3. CASE q # top.p
          <5>1. q \in Range(Top(g).kids) \/ pool[q] # 0
            BY <1>3, <4>3
          <5> QED
            BY <1>1, <4>1, <5>1, Unused
        <4> QED
          BY <4>2, <4>3
      <3>4. CASE ~(h = g /\ j = t + 1)
        <4>1. FrameAt(h, i, e)
          <5>1. h = g => i < t
            BY <1>2, <2>2, <3>1, <3>4
          <5>2. ~(h = g /\ i = t + 1) /\ ~(h = g /\ i = t)
            BY <1>2, <5>1
          <5> QED
            BY <1>6, <2>2, <5>2
        <4>2. PICK c : FrameAt(h, j, c) /\ c.p = d.p
          <5>1. CASE h = g /\ j = t
            BY <1>2, <1>4, <1>6, <2>2, <5>1
          <5>2. CASE ~(h = g /\ j = t)
            BY <1>6, <2>2, <3>4, <5>2
          <5> QED
            BY <5>1, <5>2
        <4> QED
          BY <2>2, <4>1, <4>2 DEF IssueInv, Apart
      <3> QED
        BY <3>2, <3>3, <3>4
    <2> QED
      BY <2>1, <2>2 DEF Apart
  <1> QED
    BY <1>7, <1>8, SoundsKept DEF IssueInv

-----------------------------------------------------------------------------
(* The effects of a step: it writes to its payload, takes a payload from    *)
(* the pool, or gives back the ones it holds.                              *)

\* issues' is issues but for sound ones of payload p; field' is field but for p's.
Told(p) == issues' = issues \/ \E iss : issues' = [issues EXCEPT ![p] = iss] /\ SoundList(base[p], iss)
Built(p) == build' = build \/ \E out : build' = [build EXCEPT ![p] = out]

Writes(g) ==
  /\ UNCHANGED <<pool, base, graph>>
  /\ Told(Top(g).p) /\ Built(Top(g).p)
  /\ aborted' = aborted \/ \E b : aborted' = [aborted EXCEPT ![Top(g).p] = b]

LEMMA OnlyTold ==
  ASSUME IssueInv, NEW p \in PayloadId, pool[p] = 0, Told(p), Built(p)
  PROVE  /\ issues' = [q \in PayloadId |-> issues'[q]]
         /\ build' = [q \in PayloadId |-> build'[q]]
         /\ \A q \in PayloadId : q # p => issues'[q] = issues[q] /\ build'[q] = build[q]
         /\ SoundList(base[p], issues'[p])
  <1>1. /\ issues = [q \in PayloadId |-> issues[q]] /\ build = [q \in PayloadId |-> build[q]]
        /\ SoundList(base[p], issues[p])
    BY DEF IssueInv, Fields, Sounds
  <1>2. /\ build' = [q \in PayloadId |-> build'[q]]
        /\ \A q \in PayloadId : q # p => build'[q] = build[q]
    <2>1. CASE build' = build
      BY <1>1, <2>1
    <2>2. CASE \E out : build' = [build EXCEPT ![p] = out]
      <3>1. PICK out : build' = [build EXCEPT ![p] = out]
        BY <2>2
      <3>2. build' = [q \in PayloadId |-> IF q = p THEN out ELSE build[q]]
        BY <1>1, <3>1, Zenon
      <3> QED
        BY <3>2
    <2> QED
      BY <2>1, <2>2 DEF Built
  <1>3. /\ issues' = [q \in PayloadId |-> issues'[q]]
        /\ \A q \in PayloadId : q # p => issues'[q] = issues[q]
        /\ SoundList(base[p], issues'[p])
    <2>1. CASE issues' = issues
      BY <1>1, <2>1
    <2>2. CASE \E iss : issues' = [issues EXCEPT ![p] = iss] /\ SoundList(base[p], iss)
      <3>1. PICK iss : issues' = [issues EXCEPT ![p] = iss] /\ SoundList(base[p], iss)
        BY <2>2
      <3>2. issues' = [q \in PayloadId |-> IF q = p THEN iss ELSE issues[q]]
        BY <1>1, <3>1, Zenon
      <3> QED
        BY <3>1, <3>2
    <2> QED
      BY <2>1, <2>2 DEF Told
  <1> QED
    BY <1>2, <1>3

LEMMA WritesEffect ==
  ASSUME Inv, IssueInv, NEW g \in Goroutine, stack[g] # <<>>, Writes(g)
  PROVE  Effect(g)
  <1>1. Top(g).p \in PayloadId /\ pool[Top(g).p] = 0
    BY TopAt
  <1>2. PICK p \in PayloadId : p = Top(g).p /\ pool[p] = 0
    BY <1>1
  <1>3. /\ issues' = [q \in PayloadId |-> issues'[q]]
        /\ build' = [q \in PayloadId |-> build'[q]]
        /\ \A q \in PayloadId : q # p => issues'[q] = issues[q] /\ build'[q] = build[q]
        /\ SoundList(base[p], issues'[p])
    BY <1>2, OnlyTold DEF Writes
  <1>4. base' = base /\ pool' = pool /\ graph' = graph
    BY DEF Writes
  <1>5. base' = [q \in PayloadId |-> base'[q]]
    BY <1>4 DEF IssueInv, Fields
  <1>6. \A q \in PayloadId : q # p => aborted'[q] = aborted[q]
    BY <1>2 DEF Writes, Inv, Types
  <1> QED
    BY <1>2, <1>3, <1>4, <1>5, <1>6 DEF Effect

\* RunOn and the two payloads of an Intersection.
LEMMA TakesEffect ==
  ASSUME Inv, IssueInv, NEW g \in Goroutine, stack[g] # <<>>, UNCHANGED <<graph, build>>,
         NEW cp \in PayloadId, NEW v, NEW c, NEW path, IsSeq(path), Acquire(cp, v, c, path)
  PROVE  /\ Effect(g) /\ pool[cp] # 0 /\ issues'[cp] = <<>> /\ base'[cp] = path
         /\ \A q \in PayloadId : pool[q] = 0 =>
              base'[q] = base[q] /\ issues'[q] = issues[q] /\ build'[q] = build[q]
  <1>1. /\ issues = [q \in PayloadId |-> issues[q]] /\ build = [q \in PayloadId |-> build[q]]
        /\ base = [q \in PayloadId |-> base[q]]
        /\ pool \in [PayloadId -> Nat] /\ aborted \in [PayloadId -> BOOLEAN]
    BY DEF IssueInv, Fields, Inv, Types
  <1>2. /\ pool[cp] > 0 /\ build' = build /\ graph' = graph
        /\ pool' = [pool EXCEPT ![cp] = @ - 1]
        /\ issues' = [issues EXCEPT ![cp] = <<>>]
        /\ aborted' = [aborted EXCEPT ![cp] = FALSE]
        /\ base' = [base EXCEPT ![cp] = path]
    BY DEF Acquire
  <1>3. pool[cp] # 0 /\ \A q \in PayloadId : q # cp => pool'[q] = pool[q] /\ aborted'[q] = aborted[q]
    BY <1>1, <1>2
  <1>4. /\ issues' = [q \in PayloadId |-> IF q = cp THEN <<>> ELSE issues[q]]
        /\ base' = [q \in PayloadId |-> IF q = cp THEN path ELSE base[q]]
    BY <1>1, <1>2, Zenon
  <1>5. /\ issues' = [q \in PayloadId |-> issues'[q]] /\ base' = [q \in PayloadId |-> base'[q]]
        /\ issues'[cp] = <<>> /\ base'[cp] = path
        /\ \A q \in PayloadId : q # cp => issues'[q] = issues[q] /\ base'[q] = base[q]
    BY <1>4
  <1>6. PICK p \in PayloadId : p = Top(g).p /\ pool[p] = 0
    BY TopAt
  <1>7. SoundList(base'[p], issues'[p])
    BY <1>3, <1>5, <1>6 DEF IssueInv, Sounds
  <1> QED
    BY <1>1, <1>2, <1>3, <1>5, <1>6, <1>7 DEF Effect

\* ReleaseAll of the payloads of the running frame.
LEMMA GivesEffect ==
  ASSUME Inv, IssueInv, NEW g \in Goroutine, stack[g] # <<>>, UNCHANGED <<base, graph>>,
         NEW val, NEW iss, ReleaseAll(Top(g).kids, val, iss, aborted),
         Told(Top(g).p), Built(Top(g).p)
  PROVE  Effect(g)
  <1>1. PICK f : f = Top(g)
    OBVIOUS
  <1>2. f.p \in PayloadId /\ pool[f.p] = 0 /\ IsFrame(f)
    BY <1>1, TopAt
  <1>3. f.kids \in Seq(PayloadId) /\ Len(f.kids) \in Nat /\ DOMAIN f.kids = 1 .. Len(f.kids)
    BY <1>2, LenProperties DEF IsFrame
  <1>4. PICK p \in PayloadId : p = f.p /\ pool[p] = 0
    BY <1>2
  <1>5. /\ issues' = [q \in PayloadId |-> issues'[q]]
        /\ build' = [q \in PayloadId |-> build'[q]]
        /\ \A q \in PayloadId : q # p => issues'[q] = issues[q] /\ build'[q] = build[q]
        /\ SoundList(base[p], issues'[p])
    BY <1>1, <1>4, OnlyTold
  <1>6. base' = base /\ graph' = graph /\ base' = [q \in PayloadId |-> base'[q]]
    BY DEF IssueInv, Fields
  <1>7. \A q \in PayloadId : q \notin Range(f.kids) => aborted'[q] = aborted[q]
    BY <1>1 DEF ReleaseAll, Zeroed
  <1>8. \A q \in PayloadId : pool[q] # 0 => pool'[q] # 0
    <2> SUFFICES ASSUME NEW q \in PayloadId, pool[q] # 0 PROVE pool'[q] # 0
      OBVIOUS
    <2> DEFINE S == {i \in DOMAIN f.kids : f.kids[i] = q}
    <2>1. pool'[q] = pool[q] + Cardinality(S)
      BY <1>1 DEF ReleaseAll
    <2>2. Cardinality(S) \in Nat
      <3>1. S \subseteq 1 .. Len(f.kids)
        BY <1>3
      <3>2. IsFiniteSet(1 .. Len(f.kids))
        BY <1>3, FS_Interval
      <3>3. IsFiniteSet(S)
        BY <3>1, <3>2, FS_Subset
      <3> QED
        BY <3>3, FS_CardinalityType
    <2>3. pool[q] \in Nat
      BY DEF Inv, Types
    <2> HIDE DEF S
    <2> QED
      BY <2>1, <2>2, <2>3
  <1> QED
    BY <1>1, <1>4, <1>5, <1>6, <1>7, <1>8 DEF Effect

-----------------------------------------------------------------------------
(* Frames without a claim. *)

PlainPc == {"parsed", "nonoptional", "default", "catch", "transform", "pipe", "codec",
            "fields", "items", "keys", "entry"}

LEMMA PlainOK == ASSUME NEW f, f.pc \in PlainPc PROVE FrameOK(f)'
  BY DEF PlainPc, FrameOK, OneChild, Beside

LEMMA ChecksOK ==
  ASSUME NEW f, f.pc = "checks", f.flag = AbortedFrom(aborted'[f.p], issues'[f.p], 0)
  PROVE  FrameOK(f)'
  BY DEF FrameOK, OneChild, Beside

\* What is known of the running frame.
LEMMA TopHolds ==
  ASSUME Inv, IssueInv, NEW g \in Goroutine, stack[g] # <<>>
  PROVE  /\ IsFrame(Top(g)) /\ FrameOK(Top(g)) /\ Top(g).p \in PayloadId /\ pool[Top(g).p] = 0
         /\ IsSeq(base[Top(g).p]) /\ SoundList(base[Top(g).p], issues[Top(g).p])
         /\ IsSeq(issues[Top(g).p])
  <1>1. /\ IsFrame(Top(g)) /\ Top(g).p \in PayloadId /\ pool[Top(g).p] = 0
        /\ FrameAt(g, Len(stack[g]), Top(g)) /\ Len(stack[g]) \in Nat
    BY TopAt
  <1>2. FrameOK(Top(g))
    BY <1>1 DEF IssueInv, FramesOK
  <1> QED
    BY <1>1, <1>2 DEF IssueInv, Sounds, SoundList

\* The running frame writes and goes to a label without a claim.
LEMMA PlainIssues ==
  ASSUME Inv, IssueInv, NEW g \in Goroutine, stack[g] # <<>>, Writes(g),
         NEW f, Goto(g, f), f.p = Top(g).p, f.pc \in PlainPc
  PROVE  IssueInv'
  BY PlainOK, WritesEffect, GotoIssues

LEMMA JumpIssues ==
  ASSUME Inv, IssueInv, NEW g \in Goroutine, stack[g] # <<>>, Writes(g),
         NEW pc \in PlainPc, Jump(g, pc)
  PROVE  IssueInv'
  <1>1. PICK f : f = [Top(g) EXCEPT !.pc = pc] /\ Goto(g, f)
    BY DEF Jump
  <1>2. f.p = Top(g).p /\ f.pc = pc
    BY <1>1, TopHolds DEF IsFrame
  <1> QED
    BY <1>1, <1>2, PlainIssues

\* The running frame runs a schema on its own payload, which has no issues.
LEMMA SelfIssues ==
  ASSUME Inv, IssueInv, NEW g \in Goroutine, stack[g] # <<>>, Writes(g),
         issues'[Top(g).p] = <<>>,
         NEW f, NEW n, Enter(g, f, n, Top(g).p), f.p = Top(g).p, f.pc \in SelfPc, FrameOK(f)'
  PROVE  IssueInv'
  <1>1. f.pc # "right"
    BY DEF SelfPc
  <1>2. Effect(g) /\ Top(g).p \in PayloadId
    BY WritesEffect, TopHolds
  <1> QED
    BY <1>1, <1>2, EnterIssues

LEMMA RunSelfIssues ==
  ASSUME Inv, IssueInv, NEW g \in Goroutine, stack[g] # <<>>, Writes(g),
         issues'[Top(g).p] = <<>>, NEW pc \in SelfPc \ {"rescue"}, NEW n, RunSelf(g, pc, n)
  PROVE  IssueInv'
  <1>1. PICK f : f = [Top(g) EXCEPT !.pc = pc] /\ Enter(g, f, n, Top(g).p)
    BY DEF RunSelf
  <1>2. f.p = Top(g).p /\ f.pc = pc
    BY <1>1, TopHolds DEF IsFrame
  <1>3. FrameOK(f)'
    BY <1>2, PlainOK DEF PlainPc, SelfPc
  <1> QED
    BY <1>1, <1>2, <1>3, SelfIssues

\* An issue raised at a payload is placed below its value.
LEMMA RaisePlaced ==
  ASSUME NEW p, NEW code, NEW cont, NEW path, IsSeq(path)
  PROVE  Placed(base[p], IssueAt(p, code, cont, path))
  BY DEF Placed, IssueAt

LEMMA RaiseSound ==
  ASSUME NEW p, SoundList(base[p], issues[p]), NEW code, NEW cont, NEW path, IsSeq(path)
  PROVE  /\ SoundList(base[p], Append(issues[p], IssueAt(p, code, cont, path)))
         /\ Raise(p, IssueAt(p, code, cont, path)) => Told(p)
  <1>1. PICK e : e = IssueAt(p, code, cont, path)
    OBVIOUS
  <1>2. Placed(base[p], e)
    BY <1>1, RaisePlaced
  <1>3. SoundList(base[p], Append(issues[p], e))
    BY <1>2, SoundAppend
  <1>4. Raise(p, e) => issues' = [issues EXCEPT ![p] = Append(issues[p], e)]
    BY DEF Raise
  <1> QED
    BY <1>1, <1>3, <1>4 DEF Told

\* A scan of the new issue is enough.
LEMMA ScanOn ==
  ASSUME NEW a, NEW iss, NEW grown, Len(iss) \in Nat, Len(grown) = Len(iss) + 1,
         \A i \in 1 .. Len(iss) : grown[i] = iss[i]
  PROVE  AbortedFrom(a, iss, 0) \/ AbortedFrom(a, grown, Len(iss)) <=> AbortedFrom(a, grown, 0)
  <1> DEFINE k == Len(iss)
             New == grown[k + 1].cont # "yes"
             Old == \E i \in 1 .. k : iss[i].cont # "yes"
  <1>1. \A i : i \in 0 + 1 .. k + 1 <=> i \in 1 .. k \/ i = k + 1
    OBVIOUS
  <1>2. \A i : i \in k + 1 .. k + 1 <=> i = k + 1
    OBVIOUS
  <1>3. AbortedFrom(a, iss, 0) <=> a \/ Old
    BY DEF AbortedFrom
  <1>4. AbortedFrom(a, grown, k) <=> a \/ New
    BY <1>2 DEF AbortedFrom
  <1>5. AbortedFrom(a, grown, 0) <=> a \/ Old \/ New
    BY <1>1 DEF AbortedFrom
  <1> QED
    BY <1>3, <1>4, <1>5

\* The checks keep isAborted.
LEMMA CheckIssues ==
  ASSUME Inv, IssueInv, NEW g \in Goroutine, CheckStep(g)
  PROVE  IssueInv'
  <1>1. stack[g] # <<>>
    BY DEF CheckStep, StartChecks, SkipCheck, RunCheck, EndChecks, At
  <1>2. PICK f : f = Top(g)
    OBVIOUS
  <1>3. /\ IsFrame(f) /\ FrameOK(f) /\ f.p \in PayloadId /\ pool[f.p] = 0
        /\ SoundList(base[f.p], issues[f.p]) /\ IsSeq(issues[f.p])
    BY <1>1, <1>2, TopHolds
  <1>4. CASE UNCHANGED payloadVars /\ UNCHANGED <<graph, build>> /\ Return(g)
    BY <1>1, <1>4, WritesEffect, ReturnIssues DEF Writes, Told, Built, payloadVars
  <1>5. CASE StartChecks(g)
    <2>1. UNCHANGED payloadVars /\ UNCHANGED <<graph, build>>
      BY <1>5 DEF StartChecks
    <2>2. CASE NodeOf(g).checks # <<>>
      <3>1. PICK h : /\ Goto(g, h)
                     /\ h = [f EXCEPT !.pc = "checks", !.i = 1,
                                      !.flag = AbortedFrom(aborted[f.p], issues[f.p], 0)]
        BY <1>2, <1>5, <2>2 DEF StartChecks
      <3>2. h.p = f.p /\ h.pc = "checks" /\ h.flag = AbortedFrom(aborted[f.p], issues[f.p], 0)
        BY <1>3, <3>1, Zenon DEF IsFrame
      <3>3. FrameOK(h)'
        BY <2>1, <3>2, ChecksOK DEF payloadVars
      <3> QED
        BY <1>1, <1>2, <2>1, <3>1, <3>2, <3>3, WritesEffect, GotoIssues
        DEF Writes, Told, Built, payloadVars
    <2> QED
      BY <1>4, <1>5, <2>1, <2>2 DEF StartChecks
  <1>6. CASE EndChecks(g)
    BY <1>4, <1>6 DEF EndChecks
  <1>7. f.pc = "checks" => f.flag = AbortedFrom(aborted[f.p], issues[f.p], 0)
    BY <1>3 DEF FrameOK
  <1>8. ASSUME UNCHANGED <<issues, aborted, pool, base, graph, build>>, At(g, "checks", Kind),
               Goto(g, [f EXCEPT !.i = @ + 1])
        PROVE  IssueInv'
    <2>1. PICK h : Goto(g, h) /\ h = [f EXCEPT !.i = @ + 1]
      BY <1>8
    <2>2. h.p = f.p /\ h.pc = "checks" /\ h.flag = f.flag /\ f.pc = "checks"
      BY <1>2, <1>3, <1>8, <2>1, Zenon DEF IsFrame, At
    <2>3. FrameOK(h)'
      BY <1>7, <1>8, <2>2, ChecksOK
    <2> QED
      BY <1>1, <1>2, <1>8, <2>1, <2>2, <2>3, WritesEffect, GotoIssues DEF Writes, Told, Built
  <1>9. CASE SkipCheck(g)
    BY <1>2, <1>8, <1>9 DEF SkipCheck, payloadVars
  <1>10. CASE RunCheck(g)
    <2> DEFINE grown == Append(issues[f.p], IssueAt(f.p, "check", ContOf(Check(g), Apply(Check(g).fn, value[f.p])), <<>>))
    <2>1. At(g, "checks", Kind) /\ UNCHANGED <<aborted, pool, base, graph, build>>
      BY <1>10 DEF RunCheck
    <2>2. CASE UNCHANGED issues /\ Goto(g, [f EXCEPT !.i = @ + 1])
      BY <1>8, <2>1, <2>2
    <2>3. CASE /\ issues' = [issues EXCEPT ![f.p] = grown]
               /\ Goto(g, [f EXCEPT !.i = @ + 1, !.flag = StillAborted(f, grown)])
      <3>1. SoundList(base[f.p], grown)
        BY <1>3, NilIsSeq, RaiseSound
      <3>2. PICK e : e = IssueAt(f.p, "check", ContOf(Check(g), Apply(Check(g).fn, value[f.p])), <<>>)
        OBVIOUS
      <3>3. PICK iss : iss = issues[f.p] /\ IsSeq(iss)
        BY <1>3
      <3>4. grown = Append(iss, e)
        BY <3>2, <3>3
      <3> HIDE DEF grown
      <3>5. PICK h : Goto(g, h) /\ h = [f EXCEPT !.i = @ + 1, !.flag = StillAborted(f, grown)]
        BY <2>3
      <3>6. /\ h.p = f.p /\ h.pc = "checks" /\ h.flag = StillAborted(f, grown)
            /\ f.flag = AbortedFrom(aborted[f.p], iss, 0)
        BY <1>2, <1>3, <1>7, <2>1, <3>3, <3>5, Zenon DEF IsFrame, At
      <3>7. /\ Len(iss) \in Nat /\ Len(grown) = Len(iss) + 1
            /\ \A i \in 1 .. Len(iss) + 1 : grown[i] = IF i = Len(iss) + 1 THEN e ELSE iss[i]
        BY <3>3, <3>4, PushAt, SeqFacts
      <3>8. StillAborted(f, grown) = AbortedFrom(aborted[f.p], grown, 0)
        <4>1. StillAborted(f, grown) <=> f.flag \/ AbortedFrom(aborted[f.p], grown, Len(iss))
          BY <3>3 DEF StillAborted
        <4>2. PICK a : a = aborted[f.p]
          OBVIOUS
        <4>3. AbortedFrom(a, iss, 0) \/ AbortedFrom(a, grown, Len(iss)) <=> AbortedFrom(a, grown, 0)
          <5>1. \A i \in 1 .. Len(iss) : grown[i] = iss[i]
            BY <3>7
          <5> QED
            BY <3>7, <5>1, ScanOn
        <4>4. StillAborted(f, grown) <=> AbortedFrom(aborted[f.p], grown, 0)
          BY <3>6, <4>1, <4>2, <4>3
        <4> QED
          BY <4>4 DEF StillAborted, AbortedFrom
      <3>9. issues'[f.p] = grown /\ aborted'[f.p] = aborted[f.p]
        BY <1>3, <2>1, <2>3 DEF IssueInv, Fields
      <3>10. FrameOK(h)'
        BY <3>6, <3>8, <3>9, ChecksOK
      <3>11. Writes(g)
        BY <1>2, <2>1, <2>3, <3>1 DEF Writes, Told, Built
      <3> QED
        BY <1>1, <1>2, <3>5, <3>6, <3>10, <3>11, WritesEffect, GotoIssues
    <2> QED
      BY <1>2, <1>10, <2>2, <2>3 DEF RunCheck
  <1> QED
    BY <1>5, <1>6, <1>9, <1>10 DEF CheckStep

-----------------------------------------------------------------------------
(* Wrappers. *)

LEMMA Working ==
  ASSUME Inv, IssueInv, NEW g \in Goroutine, NEW pc, NEW kinds, At(g, pc, kinds)
  PROVE  /\ stack[g] # <<>> /\ Top(g).pc = pc
         /\ pc = "enter" => issues[Top(g).p] = <<>> /\ Top(g).marks = <<>>
         /\ \A code, cont : Raise(Top(g).p, IssueAt(Top(g).p, code, cont, <<>>)) => Told(Top(g).p)
  <1>1. stack[g] # <<>> /\ Top(g).pc = pc
    BY DEF At
  <1>2. PICK p : p = Top(g).p
    OBVIOUS
  <1>3. SoundList(base[p], issues[p]) /\ FrameOK(Top(g))
    BY <1>1, <1>2, TopHolds
  <1>4. \A code, cont : Raise(p, IssueAt(p, code, cont, <<>>)) => Told(p)
    BY <1>3, NilIsSeq, RaiseSound
  <1> QED
    BY <1>1, <1>2, <1>3, <1>4 DEF FrameOK

\* Schemas that run another one on their own payload.
LEMMA EnterWrapperIssues ==
  ASSUME Inv, IssueInv, NEW g \in Goroutine,
         \/ EnterAlias(g) \/ EnterNullable(g) \/ EnterNonOptional(g)
         \/ EnterDefault(g) \/ EnterPrefault(g) \/ EnterCatch(g) \/ EnterTransform(g) \/ EnterPipe(g)
  PROVE  IssueInv'
  <1>1. \E kinds : At(g, "enter", kinds)
    BY DEF EnterAlias, EnterNullable, EnterNonOptional, EnterDefault, EnterPrefault, EnterCatch,
           EnterTransform, EnterPipe
  <1>2. /\ UNCHANGED <<issues, pool, base, graph, build, aborted>>
        /\ \/ \E pc \in SelfPc \ {"rescue"}, n \in {Kid(g, 1), Kid(g, 2)} : RunSelf(g, pc, n)
           \/ Jump(g, "parsed")
    <2>1. CASE EnterAlias(g)
      BY <2>1 DEF EnterAlias, payloadVars, SelfPc
    <2>2. CASE EnterNullable(g)
      BY <2>2 DEF EnterNullable, payloadVars, SelfPc
    <2>3. CASE EnterNonOptional(g)
      BY <2>3 DEF EnterNonOptional, payloadVars, SelfPc
    <2>4. CASE EnterDefault(g)
      BY <2>4 DEF EnterDefault, SelfPc
    <2>5. CASE EnterPrefault(g)
      BY <2>5 DEF EnterPrefault, SelfPc
    <2>6. CASE EnterCatch(g)
      BY <2>6 DEF EnterCatch, payloadVars, SelfPc
    <2>7. CASE EnterTransform(g)
      BY <2>7 DEF EnterTransform, payloadVars, SelfPc
    <2>8. CASE EnterPipe(g)
      BY <2>8 DEF EnterPipe, payloadVars, SelfPc, At
    <2> QED
      BY <2>1, <2>2, <2>3, <2>4, <2>5, <2>6, <2>7, <2>8
  <1>3. stack[g] # <<>> /\ issues'[Top(g).p] = <<>> /\ Writes(g)
    BY <1>1, <1>2, Working DEF Writes, Told, Built
  <1>4. CASE Jump(g, "parsed")
    BY <1>3, <1>4, JumpIssues DEF PlainPc
  <1>5. CASE \E pc \in SelfPc \ {"rescue"}, n \in {Kid(g, 1), Kid(g, 2)} : RunSelf(g, pc, n)
    <2>1. PICK pc, n : pc \in SelfPc \ {"rescue"} /\ RunSelf(g, pc, n)
      BY <1>5
    <2> QED
      BY <1>3, <2>1, RunSelfIssues
  <1> QED
    BY <1>2, <1>4, <1>5

\* What they do with what it left.
LEMMA AfterWrapperIssues ==
  ASSUME Inv, IssueInv, NEW g \in Goroutine,
         Leaf(g) \/ RejectMissing(g) \/ DefaultAfter(g) \/ CatchIssues(g) \/ FirstFailed(g)
  PROVE  IssueInv'
  <1>1. \E pc, kinds : At(g, pc, kinds)
    BY DEF Leaf, RejectMissing, DefaultAfter, CatchIssues, FirstFailed
  <1>2. /\ stack[g] # <<>>
        /\ \A code, cont : Raise(Top(g).p, IssueAt(Top(g).p, code, cont, <<>>)) => Told(Top(g).p)
    BY <1>1, Working
  <1>3. Jump(g, "parsed") /\ Writes(g)
    <2>1. CASE Leaf(g)
      BY <1>2, <2>1, Zenon DEF Leaf, Writes, Told, Built
    <2>2. CASE RejectMissing(g)
      BY <1>2, <2>2, Zenon DEF RejectMissing, Writes, Told, Built
    <2>3. CASE DefaultAfter(g)
      BY <2>3 DEF DefaultAfter, Writes, Told, Built
    <2>4. CASE CatchIssues(g)
      BY <2>4, SoundNil DEF CatchIssues, Writes, Told, Built
    <2>5. CASE FirstFailed(g)
      BY <2>5 DEF FirstFailed, Writes, Told, Built
    <2> QED
      BY <2>1, <2>2, <2>3, <2>4, <2>5
  <1> QED
    BY <1>2, <1>3, JumpIssues DEF PlainPc

LEMMA OptionalIssues ==
  ASSUME Inv, IssueInv, NEW g \in Goroutine, EnterOptional(g) \/ Rescue(g)
  PROVE  IssueInv'
  <1>1. PICK f : f = Top(g)
    OBVIOUS
  <1>2. CASE EnterOptional(g)
    <2>1. UNCHANGED <<issues, aborted, pool, base, graph, build>> /\ At(g, "enter", {"optional"})
      BY <1>2 DEF EnterOptional, payloadVars
    <2>2. stack[g] # <<>> /\ issues[f.p] = <<>> /\ issues'[f.p] = <<>> /\ Writes(g) /\ IsFrame(f)
      BY <1>1, <2>1, Working, TopHolds DEF Writes, Told, Built
    <2>3. CASE Enter(g, [f EXCEPT !.pc = "rescue", !.flag = value[f.p] = Missing,
                                  !.start = Len(issues[f.p])], Kid(g, 1), f.p)
      <3>1. PICK h : /\ Enter(g, h, Kid(g, 1), f.p)
                     /\ h = [f EXCEPT !.pc = "rescue", !.flag = value[f.p] = Missing,
                                      !.start = Len(issues[f.p])]
        BY <2>3
      <3>2. h.p = f.p /\ h.pc = "rescue" /\ h.start = Len(issues[f.p])
        BY <2>2, <3>1, Zenon DEF IsFrame
      <3>3. h.start \in Nat
        BY <2>2, <3>2, NilIsSeq
      <3>4. FrameOK(h)'
        BY <3>2, <3>3 DEF FrameOK, OneChild, Beside
      <3> QED
        BY <1>1, <2>2, <3>1, <3>2, <3>4, SelfIssues DEF SelfPc
    <2>4. CASE Jump(g, "parsed")
      BY <2>2, <2>4, JumpIssues DEF PlainPc
    <2>5. CASE RunSelf(g, "parsed", Kid(g, 1))
      BY <1>1, <2>2, <2>5, RunSelfIssues DEF SelfPc
    <2> QED
      BY <1>1, <1>2, <2>3, <2>4, <2>5 DEF EnterOptional
  <1>3. CASE Rescue(g)
    <2>1. At(g, "rescue", {"optional"}) /\ Jump(g, "parsed") /\ UNCHANGED <<aborted, pool, base, graph, build>>
      BY <1>3 DEF Rescue
    <2>2. /\ stack[g] # <<>> /\ f.pc = "rescue" /\ FrameOK(f) /\ SoundList(base[f.p], issues[f.p])
          /\ IsSeq(issues[f.p])
      BY <1>1, <2>1, Working, TopHolds
    <2>3. f.start \in Nat /\ Len(issues[f.p]) \in Nat
      BY <2>2, SeqFacts DEF FrameOK
    <2>4. CASE UNCHANGED issues
      BY <2>1, <2>2, <2>4, JumpIssues DEF Writes, Told, Built, PlainPc
    <2>5. CASE Len(issues[f.p]) > f.start /\ issues' = [issues EXCEPT ![f.p] = SubSeq(@, 1, f.start)]
      <3>1. SoundList(base[f.p], SubSeq(issues[f.p], 1, f.start))
        BY <2>2, <2>3, <2>5, SoundCut
      <3>2. Told(f.p)
        BY <2>5, <3>1 DEF Told
      <3> QED
        BY <1>1, <2>1, <2>2, <3>2, JumpIssues DEF Writes, Built, PlainPc
    <2> QED
      BY <1>1, <1>3, <2>4, <2>5 DEF Rescue
  <1> QED
    BY <1>2, <1>3

LEMMA CallbackIssues ==
  ASSUME Inv, IssueInv, NEW g \in Goroutine, RunSecond(g) \/ Convert(g) \/ Preprocess(g)
  PROVE  IssueInv'
  <1>1. \E pc, kinds : At(g, pc, kinds)
    BY DEF RunSecond, Convert, Preprocess
  <1>2. /\ stack[g] # <<>>
        /\ \A code, cont : Raise(Top(g).p, IssueAt(Top(g).p, code, cont, <<>>)) => Told(Top(g).p)
    BY <1>1, Working
  <1>3. UNCHANGED <<aborted, pool, base, graph, build>>
    BY DEF RunSecond, Convert, Preprocess, payloadVars
  <1>4. issues[Top(g).p] = <<>>
    <2>1. CASE Preprocess(g)
      BY <2>1, Working DEF Preprocess
    <2> QED
      BY <2>1 DEF RunSecond, Convert
  <1>5. \/ Jump(g, "parsed") /\ Told(Top(g).p)
        \/ UNCHANGED issues /\ \E n \in {Kid(g, 1), Kid(g, 2)} : RunSelf(g, "parsed", n)
    <2>1. CASE RunSecond(g)
      BY <2>1 DEF RunSecond, payloadVars
    <2>2. CASE Convert(g)
      <3>1. CASE UNCHANGED issues
        BY <2>2, <3>1 DEF Convert, Told
      <3>2. CASE ~UNCHANGED issues
        BY <1>2, <2>2, <3>2, Zenon DEF Convert
      <3> QED
        BY <3>1, <3>2
    <2>3. CASE Preprocess(g)
      BY <1>2, <2>3, Zenon DEF Preprocess
    <2> QED
      BY <2>1, <2>2, <2>3
  <1>6. CASE Jump(g, "parsed") /\ Told(Top(g).p)
    BY <1>2, <1>3, <1>6, JumpIssues DEF Writes, Built, PlainPc
  <1>7. CASE UNCHANGED issues /\ \E n \in {Kid(g, 1), Kid(g, 2)} : RunSelf(g, "parsed", n)
    <2>1. Writes(g) /\ issues'[Top(g).p] = <<>>
      BY <1>3, <1>4, <1>7 DEF Writes, Told, Built
    <2>2. PICK n : RunSelf(g, "parsed", n)
      BY <1>7
    <2> QED
      BY <1>2, <2>1, <2>2, RunSelfIssues DEF SelfPc
  <1> QED
    BY <1>5, <1>6, <1>7

LEMMA WrapperIssues ==
  ASSUME Inv, IssueInv, NEW g \in Goroutine, WrapperStep(g)
  PROVE  IssueInv'
  BY EnterWrapperIssues, AfterWrapperIssues, OptionalIssues, CallbackIssues DEF WrapperStep

-----------------------------------------------------------------------------
(* Payloads of their own. *)

\* The children of the running frame.
LEMMA ChildSound ==
  ASSUME Inv, IssueInv, NEW g \in Goroutine, stack[g] # <<>>,
         NEW j \in 1 .. Len(Top(g).kids), NEW cp, cp = Top(g).kids[j]
  PROVE  cp \in PayloadId /\ IsSeq(base[cp]) /\ SoundList(base[cp], issues[cp])
  <1>1. PICK f : f = Top(g)
    OBVIOUS
  <1>2. FrameAt(g, Len(stack[g]), f) /\ Len(stack[g]) \in Nat
    BY <1>1, TopAt
  <1>3. cp \in PayloadId /\ pool[cp] = 0
    BY <1>1, <1>2, FrameIs
  <1> QED
    BY <1>3 DEF IssueInv, Sounds

\* The issues of a child are added.
LEMMA AddTold ==
  ASSUME NEW p, SoundList(base[p], issues[p]), NEW added, SoundList(base[p], added),
         issues' = [issues EXCEPT ![p] = @ \o added]
  PROVE  Told(p)
  BY SoundConcat DEF Told

\* The running frame gives back what it holds and goes to a label without a claim.
LEMMA GiveIssues ==
  ASSUME Inv, IssueInv, NEW g \in Goroutine, stack[g] # <<>>, UNCHANGED <<base, graph>>,
         NEW val, NEW iss, ReleaseAll(Top(g).kids, val, iss, aborted),
         Told(Top(g).p), Built(Top(g).p),
         NEW f, Goto(g, f), f.p = Top(g).p, f.pc \in PlainPc
  PROVE  IssueInv'
  BY PlainOK, GivesEffect, GotoIssues

\* RunOn pushes the frame of the child.
LEMMA RunOnIssues ==
  ASSUME Inv, IssueInv, NEW g \in Goroutine, stack[g] # <<>>, UNCHANGED <<graph, build>>,
         NEW f, IsFrame(f), f.p = Top(g).p, f.pc \in AwayPc \ {"right", "merge"},
         NEW n, NEW v, NEW c, NEW path, IsSeq(path), RunOn(g, f, n, v, c, path),
         \A h : \A cp \in PayloadId :
           /\ base'[cp] = path /\ pool[cp] # 0
           /\ \A q \in PayloadId : pool[q] = 0 =>
                base'[q] = base[q] /\ issues'[q] = issues[q] /\ build'[q] = build[q]
           /\ h.p = f.p /\ h.pc = f.pc /\ h.n = f.n /\ h.i = f.i /\ h.marks = f.marks
           /\ h.kids = Append(f.kids, cp)
           => FrameOK(h)'
  PROVE  IssueInv'
  <1>1. PICK cp \in PayloadId :
          /\ Acquire(cp, v, c, path)
          /\ Enter(g, [f EXCEPT !.kids = Append(@, cp)], n, cp)
    BY DEF RunOn
  <1>2. PICK h : Enter(g, h, n, cp) /\ h = [f EXCEPT !.kids = Append(@, cp)]
    BY <1>1
  <1>3. /\ h.p = f.p /\ h.pc = f.pc /\ h.n = f.n /\ h.i = f.i /\ h.marks = f.marks
        /\ h.kids = Append(f.kids, cp)
    BY <1>2, Zenon DEF IsFrame
  <1>4. /\ Effect(g) /\ pool[cp] # 0 /\ issues'[cp] = <<>> /\ base'[cp] = path
        /\ \A q \in PayloadId : pool[q] = 0 =>
             base'[q] = base[q] /\ issues'[q] = issues[q] /\ build'[q] = build[q]
    BY <1>1, TakesEffect
  <1>5. FrameOK(h)'
    BY <1>3, <1>4
  <1>6. h.pc \in AwayPc /\ h.pc # "right"
    BY <1>3
  <1> QED
    BY <1>2, <1>3, <1>4, <1>5, <1>6, EnterIssues

\* ... for an element of a container.
LEMMA ChildIssues ==
  ASSUME Inv, IssueInv, NEW g \in Goroutine, stack[g] # <<>>, UNCHANGED <<graph, build>>,
         NEW f, IsFrame(f), f.p = Top(g).p, f.kids = <<>>, f.pc \in OneChild,
         NEW n, NEW v, NEW c, NEW path, IsSeq(path), path = ChildPlace(f),
         f.pc = "slot" => Noted(f),
         RunOn(g, f, n, v, c, path)
  PROVE  IssueInv'
  <1>1. ASSUME NEW cp \in PayloadId, NEW h, base'[cp] = path, pool[cp] # 0,
               \A q \in PayloadId : pool[q] = 0 =>
                 base'[q] = base[q] /\ issues'[q] = issues[q] /\ build'[q] = build[q],
               h.p = f.p, h.pc = f.pc, h.n = f.n, h.i = f.i, h.marks = f.marks,
               h.kids = Append(f.kids, cp)
        PROVE  FrameOK(h)'
    <2>1. Len(h.kids) = 1 /\ h.kids[1] = cp
      BY <1>1, AppendAt, EmptySeq
    <2>2. f.p \in PayloadId /\ base'[f.p] = base[f.p] /\ issues'[f.p] = issues[f.p] /\ build'[f.p] = build[f.p]
      BY <1>1, TopHolds
    <2>3. ChildPlace(h)' = path
      BY <1>1, <2>2 DEF ChildPlace
    <2>4. h.pc = "slot" => Noted(h)'
      BY <1>1, <2>2 DEF Noted
    <2> QED
      BY <1>1, <2>1, <2>3, <2>4 DEF FrameOK, OneChild, Beside
  <1> QED
    BY <1>1, RunOnIssues DEF OneChild, AwayPc

\* ... for an option.
LEMMA OptionIssues ==
  ASSUME Inv, IssueInv, NEW g \in Goroutine, stack[g] # <<>>, UNCHANGED <<graph, build>>,
         NEW f, IsFrame(f), f.p = Top(g).p, f.kids = Top(g).kids, f.pc \in {"option", "choice"},
         Top(g).pc \in Beside, NEW n, RunApart(g, f, n)
  PROVE  IssueInv'
  <1>1. PICK top : top = Top(g)
    OBVIOUS
  <1>2. /\ IsSeq(base[f.p]) /\ f.p \in PayloadId /\ pool[f.p] = 0
        /\ \A j \in 1 .. Len(f.kids) : base[f.kids[j]] = base[f.p]
    BY TopHolds DEF FrameOK
  <1>3. FrameAt(g, Len(stack[g]), top) /\ Len(stack[g]) \in Nat
    BY <1>1, TopAt
  <1>4. \A j \in 1 .. Len(f.kids) : f.kids[j] \in PayloadId /\ pool[f.kids[j]] = 0
    BY <1>1, <1>3, FrameIs
  <1>5. f.kids \in Seq(PayloadId) /\ Len(f.kids) \in Nat
    BY LenProperties DEF IsFrame
  <1>6. ASSUME NEW cp \in PayloadId, NEW h, base'[cp] = base[f.p], pool[cp] # 0,
               \A q \in PayloadId : pool[q] = 0 =>
                 base'[q] = base[q] /\ issues'[q] = issues[q] /\ build'[q] = build[q],
               h.p = f.p, h.pc = f.pc, h.n = f.n, h.i = f.i, h.marks = f.marks,
               h.kids = Append(f.kids, cp)
        PROVE  FrameOK(h)'
    <2>1. /\ Len(h.kids) = Len(f.kids) + 1
          /\ \A j \in 1 .. Len(f.kids) + 1 : h.kids[j] = IF j = Len(f.kids) + 1 THEN cp ELSE f.kids[j]
      BY <1>5, <1>6, AppendAt
    <2>2. \A j \in 1 .. Len(h.kids) : base'[h.kids[j]] = base'[h.p]
      <3> SUFFICES ASSUME NEW j \in 1 .. Len(h.kids) PROVE base'[h.kids[j]] = base'[h.p]
        OBVIOUS
      <3>1. base'[h.p] = base[f.p]
        BY <1>2, <1>6
      <3>2. CASE j = Len(f.kids) + 1
        BY <1>6, <2>1, <3>1, <3>2
      <3>3. CASE j # Len(f.kids) + 1
        <4>1. j \in 1 .. Len(f.kids) /\ h.kids[j] = f.kids[j]
          BY <1>5, <2>1, <3>3
        <4> QED
          BY <1>2, <1>4, <1>6, <3>1, <4>1
      <3> QED
        BY <3>2, <3>3
    <2> QED
      BY <1>6, <2>2 DEF FrameOK, OneChild
  <1>7. RunOn(g, f, n, value[f.p], NoCtx, base[f.p])
    BY DEF RunApart
  <1>8. f.pc \in AwayPc \ {"right", "merge"}
    BY DEF AwayPc
  <1> QED
    BY <1>2, <1>6, <1>7, <1>8, RunOnIssues

-----------------------------------------------------------------------------
(* Containers. *)

\* An issue may carry keys.
LEMMA ReportTold ==
  ASSUME NEW p, SoundList(base[p], issues[p]), NEW keys,
         Raise(p, [IssueAt(p, "unrecognized_keys", "unset", <<>>) EXCEPT !.keys = keys])
  PROVE  Told(p)
  <1>1. PICK e : e = [IssueAt(p, "unrecognized_keys", "unset", <<>>) EXCEPT !.keys = keys]
    OBVIOUS
  <1>2. Placed(base[p], e)
    BY <1>1, NilIsSeq DEF IssueAt, Placed
  <1>3. SoundList(base[p], Append(issues[p], e))
    BY <1>2, SoundAppend
  <1> QED
    BY <1>1, <1>3 DEF Raise, Told

\* A container begins and ends.
LEMMA ContainerEndsIssues ==
  ASSUME Inv, IssueInv, NEW g \in Goroutine,
         WrongType(g) \/ EnterObject(g) \/ EndFields(g) \/ EnterArray(g) \/ EndItems(g)
  PROVE  IssueInv'
  <1>1. \E pc, kinds : At(g, pc, kinds)
    BY DEF WrongType, EnterObject, EndFields, EnterArray, EndItems
  <1>2. /\ stack[g] # <<>> /\ IsFrame(Top(g)) /\ SoundList(base[Top(g).p], issues[Top(g).p])
        /\ \A code, cont : Raise(Top(g).p, IssueAt(Top(g).p, code, cont, <<>>)) => Told(Top(g).p)
    BY <1>1, Working, TopHolds
  <1>3. CASE WrongType(g)
    <2>1. Raise(Top(g).p, IssueAt(Top(g).p, "invalid_type", "unset", <<>>))
      BY <1>3 DEF WrongType
    <2>2. Told(Top(g).p)
      BY <1>2, <2>1
    <2> QED
      BY <1>2, <1>3, <2>2, JumpIssues DEF WrongType, Writes, Built, PlainPc
  <1>4. CASE EnterObject(g)
    <2>1. Writes(g)
      BY <1>4 DEF EnterObject, Writes, Told, Built, payloadVars
    <2>2. PICK f : Goto(g, f) /\ f = [Top(g) EXCEPT !.pc = "fields", !.i = 0]
      BY <1>4 DEF EnterObject
    <2>3. f.p = Top(g).p /\ f.pc = "fields"
      BY <1>2, <2>2, Zenon DEF IsFrame
    <2> QED
      BY <1>2, <2>1, <2>2, <2>3, PlainIssues DEF PlainPc
  <1>5. CASE EndFields(g)
    <2>1. Told(Top(g).p)
      <3>1. CASE UNCHANGED issues
        BY <3>1 DEF Told
      <3>2. CASE ~UNCHANGED issues
        <4>1. \E keys : Raise(Top(g).p, [IssueAt(Top(g).p, "unrecognized_keys", "unset", <<>>)
                                           EXCEPT !.keys = keys])
          BY <1>5, <3>2 DEF EndFields
        <4> QED
          BY <1>2, <4>1, ReportTold
      <3> QED
        BY <3>1, <3>2
    <2>2. Writes(g)
      BY <1>5, <2>1 DEF EndFields, Writes, Built
    <2> QED
      BY <1>2, <1>5, <2>2, JumpIssues DEF EndFields, PlainPc
  <1>6. CASE EnterArray(g)
    <2>1. Writes(g)
      BY <1>6 DEF EnterArray, Writes, Told, Built, payloadVars
    <2>2. PICK f : Goto(g, f) /\ f = [Top(g) EXCEPT !.pc = "items", !.i = 1]
      BY <1>6 DEF EnterArray
    <2>3. f.p = Top(g).p /\ f.pc = "items"
      BY <1>2, <2>2, Zenon DEF IsFrame
    <2> QED
      BY <1>2, <2>1, <2>2, <2>3, PlainIssues DEF PlainPc
  <1>7. CASE EndItems(g)
    BY <1>2, <1>7, JumpIssues DEF EndItems, Writes, Told, Built, PlainPc
  <1> QED
    BY <1>3, <1>4, <1>5, <1>6, <1>7

\* A container runs an element.
LEMMA ContainerRunsIssues ==
  ASSUME Inv, IssueInv, NEW g \in Goroutine, RunField(g) \/ RunItem(g) \/ RunSlot(g)
  PROVE  IssueInv'
  <1>1. /\ \E pc \in {"fields", "items", "slots"} : \E kinds : At(g, pc, kinds)
        /\ UNCHANGED <<graph, build>>
    BY DEF RunField, RunItem, RunSlot
  <1>2. stack[g] # <<>> /\ Top(g).pc \in {"fields", "items", "slots"}
    BY <1>1, Working
  <1>3. PICK top : top = Top(g)
    OBVIOUS
  <1>4. IsFrame(top) /\ FrameOK(top) /\ IsSeq(base[top.p]) /\ IsSeq(issues[top.p])
    BY <1>2, <1>3, TopHolds
  <1>5. top.kids = <<>>
    BY <1>2, <1>3, <1>4 DEF IsFrame, HoldingPc
  <1>6. \A k : IsSeq(Append(base[top.p], k))
    BY <1>4, PushAt
  <1>7. CASE RunField(g)
    <2>1. PICK k, n, v : RunChild(g, [top EXCEPT !.pc = "field", !.i = k], n, v, k)
      BY <1>3, <1>7 DEF RunField
    <2>2. PICK f : f = [top EXCEPT !.pc = "field", !.i = k] /\ RunChild(g, f, n, v, k)
      BY <2>1
    <2>3. f.p = top.p /\ f.kids = <<>> /\ f.pc = "field" /\ f.i = k
      BY <1>4, <1>5, <2>2, Zenon DEF IsFrame
    <2>4. IsFrame(f)
      BY <1>4, <2>2 DEF IsFrame, HoldingPc
    <2>5. Append(base[top.p], k) = ChildPlace(f)
      BY <2>3 DEF ChildPlace
    <2>6. RunOn(g, f, n, v, ChildCtx(g, f.p), Append(base[top.p], k))
      BY <2>2, <2>3 DEF RunChild
    <2> QED
      BY <1>1, <1>2, <1>3, <1>6, <2>3, <2>4, <2>5, <2>6, ChildIssues DEF OneChild
  <1>8. CASE RunItem(g)
    <2>1. PICK f : /\ f = [top EXCEPT !.pc = "item"]
                   /\ IF NodeOf(g).kind = "set"
                      THEN RunOn(g, f, NodeOf(g).rest, Element(value[f.p], f.i), NoCtx, base[f.p])
                      ELSE RunChild(g, f, NodeOf(g).rest, Element(value[f.p], f.i), f.i)
      BY <1>3, <1>8 DEF RunItem
    <2>2. f.p = top.p /\ f.kids = <<>> /\ f.pc = "item" /\ f.n = top.n
      BY <1>4, <1>5, <2>1, Zenon DEF IsFrame
    <2>3. IsFrame(f)
      BY <1>4, <2>1 DEF IsFrame, HoldingPc
    <2>4. ChildPlace(f) = IF NodeOf(g).kind = "set" THEN base[top.p] ELSE Append(base[top.p], f.i)
      BY <1>3, <2>2 DEF ChildPlace, NodeOf
    <2>5. CASE NodeOf(g).kind = "set"
      BY <1>1, <1>2, <1>3, <1>4, <2>1, <2>2, <2>3, <2>4, <2>5, ChildIssues DEF OneChild
    <2>6. CASE NodeOf(g).kind # "set"
      <3>1. RunOn(g, f, NodeOf(g).rest, Element(value[f.p], f.i), ChildCtx(g, f.p), Append(base[top.p], f.i))
        BY <2>1, <2>2, <2>6 DEF RunChild
      <3> QED
        BY <1>1, <1>2, <1>3, <1>6, <2>2, <2>3, <2>4, <2>6, <3>1, ChildIssues DEF OneChild
    <2> QED
      BY <2>5, <2>6
  <1>9. CASE RunSlot(g)
    <2>1. PICK f, n, v :
            /\ f = [top EXCEPT !.pc = "slot", !.marks = Append(@, Len(issues[top.p]))]
            /\ RunChild(g, f, n, v, top.i)
      BY <1>3, <1>9 DEF RunSlot
    <2>2. /\ f.p = top.p /\ f.kids = <<>> /\ f.pc = "slot" /\ f.i = top.i
          /\ f.marks = Append(top.marks, Len(issues[top.p]))
      BY <1>4, <1>5, <2>1, Zenon DEF IsFrame
    <2>3. IsFrame(f)
      BY <1>4, <2>1 DEF IsFrame, HoldingPc
    <2>4. Append(base[top.p], top.i) = ChildPlace(f)
      BY <2>2 DEF ChildPlace
    <2>5. Noted(f)
      <3>1. Noted(top) /\ top.pc = "slots"
        <4>1. At(g, "slots", {"tuple"})
          BY <1>9 DEF RunSlot
        <4> QED
          BY <1>3, <1>4, <4>1, Working DEF FrameOK
      <3>2. PICK s, k : s = top.marks /\ k = Len(issues[top.p])
        OBVIOUS
      <3>3. s \in Seq(Nat) /\ k \in Nat /\ Len(s) = Len(build[top.p]) /\ Len(s) \in Nat
        BY <1>4, <3>1, <3>2, SeqFacts, LenProperties DEF Noted
      <3>4. /\ Append(s, k) \in Seq(Nat) /\ Len(Append(s, k)) = Len(s) + 1
            /\ \A i \in 1 .. Len(s) + 1 : Append(s, k)[i] = IF i = Len(s) + 1 THEN k ELSE s[i]
        BY <3>3, AppendAt
      <3>5. \A i \in 1 .. Len(Append(s, k)) : Append(s, k)[i] <= k
        BY <3>1, <3>2, <3>3, <3>4 DEF Noted
      <3> QED
        BY <2>2, <3>1, <3>2, <3>3, <3>4, <3>5 DEF Noted
    <2>6. RunOn(g, f, n, v, ChildCtx(g, f.p), Append(base[top.p], top.i))
      BY <2>1, <2>2 DEF RunChild
    <2> QED
      BY <1>1, <1>2, <1>3, <1>6, <2>2, <2>3, <2>4, <2>5, <2>6, ChildIssues DEF OneChild
  <1> QED
    BY <1>7, <1>8, <1>9

\* The child of the running frame is at its place.
LEMMA ChildDone ==
  ASSUME Inv, IssueInv, NEW g \in Goroutine, stack[g] # <<>>, Top(g).pc \in OneChild,
         NEW cp, cp = Top(g).kids[1]
  PROVE  /\ IsSeq(issues[cp])
         /\ SoundList(ChildPlace(Top(g)), issues[cp])
         /\ \A k : ChildPlace(Top(g)) = Append(base[Top(g).p], k) =>
                     SoundList(base[Top(g).p], Prefixed(issues[cp], k))
  <1>1. PICK f : f = Top(g)
    OBVIOUS
  <1>2. IsFrame(f) /\ FrameOK(f) /\ IsSeq(base[f.p])
    BY <1>1, TopHolds
  <1>3. Len(f.kids) >= 1 /\ base[cp] = ChildPlace(f)
    BY <1>1, <1>2 DEF FrameOK
  <1>4. 1 \in 1 .. Len(f.kids)
    BY <1>2, <1>3, LenProperties DEF IsFrame
  <1>5. SoundList(base[cp], issues[cp])
    BY <1>1, <1>4, ChildSound
  <1>6. \A k : ChildPlace(f) = Append(base[f.p], k) => SoundList(base[f.p], Prefixed(issues[cp], k))
    BY <1>2, <1>3, <1>5, SoundPrefix
  <1> QED
    BY <1>1, <1>3, <1>5, <1>6 DEF SoundList

\* A container takes the element's issues over.
LEMMA ContainerTakesIssues ==
  ASSUME Inv, IssueInv, NEW g \in Goroutine, FieldDone(g) \/ ItemDone(g)
  PROVE  IssueInv'
  <1>1. /\ \E pc \in {"field", "item"} : \E kinds : At(g, pc, kinds)
        /\ UNCHANGED <<base, graph>>
    BY DEF FieldDone, ItemDone
  <1>2. stack[g] # <<>> /\ Top(g).pc \in {"field", "item"}
    BY <1>1, Working
  <1>3. PICK f : f = Top(g)
    OBVIOUS
  <1>4. IsFrame(f) /\ SoundList(base[f.p], issues[f.p])
    BY <1>2, <1>3, TopHolds
  <1>5. PICK cp : cp = f.kids[1]
    OBVIOUS
  <1>6. /\ SoundList(ChildPlace(f), issues[cp])
        /\ \A k : ChildPlace(f) = Append(base[f.p], k) => SoundList(base[f.p], Prefixed(issues[cp], k))
    BY <1>2, <1>3, <1>5, ChildDone DEF OneChild
  <1>7. CASE FieldDone(g)
    <2>1. f.pc = "field"
      BY <1>3, <1>7, Working DEF FieldDone
    <2>2. SoundList(base[f.p], Prefixed(issues[cp], f.i))
      BY <1>6, <2>1 DEF ChildPlace
    <2>3. PICK added : /\ ReleaseAll(f.kids, value, [issues EXCEPT ![f.p] = @ \o added], aborted)
                       /\ added \in {<<>>, Prefixed(issues[cp], f.i)}
      BY <1>3, <1>5, <1>7 DEF FieldDone
    <2>4. SoundList(base[f.p], added)
      BY <2>2, <2>3, SoundNil
    <2>5. Told(f.p)
      BY <1>4, <2>3, <2>4, AddTold DEF ReleaseAll
    <2>6. Built(f.p)
      <3>1. \E k, v : build' = [build EXCEPT ![f.p][k] = v]
        BY <1>3, <1>7 DEF FieldDone
      <3> QED
        BY <3>1 DEF Built
    <2>7. PICK h : Goto(g, h) /\ h = [f EXCEPT !.pc = "fields", !.kids = <<>>]
      BY <1>3, <1>7 DEF FieldDone
    <2>8. h.p = f.p /\ h.pc = "fields"
      BY <1>4, <2>7, Zenon DEF IsFrame
    <2> QED
      BY <1>1, <1>2, <1>3, <2>3, <2>5, <2>6, <2>7, <2>8, GiveIssues DEF PlainPc
  <1>8. CASE ItemDone(g)
    <2>1. f.pc = "item"
      BY <1>3, <1>8, Working DEF ItemDone
    <2>2. PICK added : /\ ReleaseAll(f.kids, value, [issues EXCEPT ![f.p] = @ \o added], aborted)
                       /\ added = IF NodeOf(g).kind = "set" THEN issues[cp] ELSE Prefixed(issues[cp], f.i)
      BY <1>3, <1>5, <1>8 DEF ItemDone
    <2>3. SoundList(base[f.p], added)
      <3>1. ChildPlace(f) = IF NodeOf(g).kind = "set" THEN base[f.p] ELSE Append(base[f.p], f.i)
        BY <1>3, <2>1 DEF ChildPlace, NodeOf
      <3> QED
        BY <1>6, <2>2, <3>1
    <2>4. Told(f.p)
      BY <1>4, <2>2, <2>3, AddTold DEF ReleaseAll
    <2>5. Built(f.p)
      BY <1>3, <1>8 DEF ItemDone, Built
    <2>6. PICK h : Goto(g, h) /\ h = [f EXCEPT !.pc = "items", !.i = @ + 1, !.kids = <<>>]
      BY <1>3, <1>8 DEF ItemDone
    <2>7. h.p = f.p /\ h.pc = "items"
      BY <1>4, <2>6, Zenon DEF IsFrame
    <2> QED
      BY <1>1, <1>2, <1>3, <2>2, <2>4, <2>5, <2>6, <2>7, GiveIssues DEF PlainPc
  <1> QED
    BY <1>7, <1>8

\* A tuple notes how many issues there were before each item.
LEMMA NotedOK ==
  ASSUME NEW f, f.pc = "slots", Noted(f)'
  PROVE  FrameOK(f)'
  BY DEF FrameOK, OneChild, Beside

LEMMA SlotIssues ==
  ASSUME Inv, IssueInv, NEW g \in Goroutine, SlotDone(g)
  PROVE  IssueInv'
  <1>1. At(g, "slot", {"tuple"}) /\ UNCHANGED <<base, graph>>
    BY DEF SlotDone
  <1>2. PICK f : f = Top(g)
    OBVIOUS
  <1>3. stack[g] # <<>> /\ f.pc = "slot"
    BY <1>1, <1>2, Working
  <1>4. /\ IsFrame(f) /\ FrameOK(f) /\ f.p \in PayloadId /\ pool[f.p] = 0
        /\ SoundList(base[f.p], issues[f.p]) /\ IsSeq(issues[f.p])
    BY <1>2, <1>3, TopHolds
  <1>5. PICK cp, added : cp = f.kids[1] /\ added = Prefixed(issues[cp], f.i)
    OBVIOUS
  <1>6. SoundList(base[f.p], added)
    <2>1. ChildPlace(f) = Append(base[f.p], f.i)
      BY <1>3 DEF ChildPlace
    <2> QED
      BY <1>2, <1>3, <1>5, <2>1, ChildDone DEF OneChild
  <1>7. /\ ReleaseAll(f.kids, value, [issues EXCEPT ![f.p] = @ \o added], aborted)
        /\ build' = [build EXCEPT ![f.p] = Append(@, value[cp])]
    BY <1>2, <1>5 DEF SlotDone
  <1>8. PICK h : Goto(g, h) /\ h = [f EXCEPT !.pc = "slots", !.i = @ + 1, !.kids = <<>>]
    BY <1>2 DEF SlotDone
  <1>9. h.p = f.p /\ h.pc = "slots" /\ h.marks = f.marks
    BY <1>4, <1>8, Zenon DEF IsFrame
  <1>10. issues'[f.p] = issues[f.p] \o added /\ build'[f.p] = Append(build[f.p], value[cp])
    <2>1. issues' = [issues EXCEPT ![f.p] = @ \o added]
      BY <1>7 DEF ReleaseAll
    <2> QED
      BY <1>4, <1>7, <2>1 DEF IssueInv, Fields
  <1>11. Noted(h)'
    <2>1. Noted(f) /\ IsSeq(build[f.p])
      BY <1>3, <1>4 DEF FrameOK, Noted
    <2>2. /\ Len(issues[f.p] \o added) = Len(issues[f.p]) + Len(added)
          /\ Len(issues[f.p]) \in Nat /\ Len(added) \in Nat
      BY <1>4, <1>6, ConcatAt, SeqFacts DEF SoundList
    <2>3. /\ IsSeq(Append(build[f.p], value[cp])) /\ Len(build[f.p]) \in Nat
          /\ Len(Append(build[f.p], value[cp])) = Len(build[f.p]) + 1
      BY <2>1, PushAt, SeqFacts
    <2>4. f.marks \in Seq(Nat) /\ \A k \in 1 .. Len(f.marks) : f.marks[k] \in Nat
      BY <2>1, ElementOfSeq DEF Noted
    <2> QED
      BY <1>3, <1>9, <1>10, <2>1, <2>2, <2>3, <2>4 DEF Noted
  <1>12. Told(f.p) /\ Built(f.p)
    BY <1>4, <1>6, <1>7, AddTold DEF ReleaseAll, Built
  <1>13. Effect(g)
    BY <1>1, <1>2, <1>3, <1>7, <1>12, GivesEffect
  <1> QED
    BY <1>2, <1>3, <1>8, <1>9, <1>11, <1>13, NotedOK, GotoIssues

LEMMA EnterTupleIssues ==
  ASSUME Inv, IssueInv, NEW g \in Goroutine, EnterTuple(g)
  PROVE  IssueInv'
  <1>1. At(g, "enter", {"tuple"}) /\ UNCHANGED <<aborted, pool, base, graph>>
    BY DEF EnterTuple
  <1>2. PICK f : f = Top(g)
    OBVIOUS
  <1>3. /\ stack[g] # <<>> /\ f.marks = <<>>
        /\ \A code, cont : Raise(f.p, IssueAt(f.p, code, cont, <<>>)) => Told(f.p)
    BY <1>1, <1>2, Working
  <1>4. IsFrame(f) /\ f.p \in PayloadId
    BY <1>2, <1>3, TopHolds
  <1>5. Told(f.p)
    <2>1. CASE UNCHANGED issues
      BY <2>1 DEF Told
    <2>2. CASE ~UNCHANGED issues
      <3>1. \E code : Raise(f.p, IssueAt(f.p, code, "unset", <<>>))
        BY <1>2, <2>2, Zenon DEF EnterTuple
      <3> QED
        BY <1>3, <3>1
    <2> QED
      BY <2>1, <2>2
  <1>6. build' = [build EXCEPT ![f.p] = <<>>]
    BY <1>2 DEF EnterTuple
  <1>7. Writes(g)
    BY <1>1, <1>2, <1>5, <1>6 DEF Writes, Built
  <1>8. PICK pc \in {"parsed", "slots"} : Goto(g, [f EXCEPT !.pc = pc, !.i = 1])
    BY <1>2, Zenon DEF EnterTuple
  <1>9. PICK h : Goto(g, h) /\ h = [f EXCEPT !.pc = pc, !.i = 1]
    BY <1>8
  <1>10. h.p = f.p /\ h.pc = pc /\ h.marks = <<>>
    BY <1>3, <1>4, <1>9, Zenon DEF IsFrame
  <1>11. CASE pc = "parsed"
    BY <1>2, <1>3, <1>7, <1>9, <1>10, <1>11, PlainIssues DEF PlainPc
  <1>12. CASE pc = "slots"
    <2>1. build'[f.p] = <<>>
      BY <1>4, <1>6 DEF IssueInv, Fields
    <2>2. h.marks \in Seq(Nat) /\ Len(h.marks) = 0
      BY <1>10, EmptySeq
    <2>3. Noted(h)'
      BY <1>10, <1>12, <2>1, <2>2, NilIsSeq DEF Noted
    <2> QED
      BY <1>2, <1>3, <1>7, <1>9, <1>10, <1>12, <2>3, NotedOK, WritesEffect, GotoIssues
  <1> QED
    BY <1>11, <1>12

\* The truncation of a tuple drops issues of its items, never one before them.
LEMMA AssembleIssues ==
  ASSUME Inv, IssueInv, NEW g \in Goroutine, Assemble(g)
  PROVE  IssueInv'
  <1>1. At(g, "slots", {"tuple"}) /\ UNCHANGED <<aborted, pool, base, graph>>
    BY DEF Assemble
  <1>2. PICK f : f = Top(g)
    OBVIOUS
  <1>3. stack[g] # <<>> /\ f.pc = "slots"
    BY <1>1, <1>2, Working
  <1>4. IsFrame(f) /\ FrameOK(f) /\ SoundList(base[f.p], issues[f.p])
    BY <1>2, <1>3, TopHolds
  <1>5. Noted(f)
    BY <1>3, <1>4 DEF FrameOK
  <1>6. Goto(g, [f EXCEPT !.pc = "items", !.marks = <<>>])
    BY <1>2 DEF Assemble
  <1>7. PICK h : Goto(g, h) /\ h = [f EXCEPT !.pc = "items", !.marks = <<>>]
    BY <1>6
  <1>8. h.p = f.p /\ h.pc = "items"
    BY <1>4, <1>7, Zenon DEF IsFrame
  <1> DEFINE n == Len(value[f.p].e)
             after(k) == IF k < Len(f.marks) THEN f.marks[k + 1] ELSE Len(issues[f.p])
             swallowed(k) == after(k) > f.marks[k] /\ k > TupleOptStart(RequiredOut(f.n))
             stops == {k \in DOMAIN build[f.p] :
                         k > n /\ (swallowed(k) \/ build[f.p][k] = Missing)}
             stop == Min(stops)
  <1>9. IF stops = {}
        THEN UNCHANGED <<issues, build>>
        ELSE /\ build' = [build EXCEPT ![f.p] = SubSeq(@, 1, stop - 1)]
             /\ issues' = [issues EXCEPT ![f.p] =
                             IF swallowed(stop) THEN SubSeq(@, 1, f.marks[stop]) ELSE @]
    BY <1>2, Zenon DEF Assemble
  <1>10. Told(f.p) /\ Built(f.p)
    <2>1. CASE stops = {}
      <3> HIDE DEF stops, stop
      <3> QED
        BY <1>9, <2>1 DEF Told, Built
    <2>2. CASE stops # {}
      <3>1. DOMAIN build[f.p] = 1 .. Len(f.marks) /\ Len(f.marks) \in Nat
        BY <1>3, <1>5, SeqFacts DEF Noted
      <3>2. stops \subseteq 1 .. Len(f.marks)
        BY <3>1
      <3> HIDE DEF stops
      <3>3. stop \in 1 .. Len(f.marks)
        <4>1. stops \in SUBSET Nat
          BY <3>1, <3>2
        <4> QED
          BY <2>2, <3>2, <4>1, MinIs
      <3> HIDE DEF stop, swallowed
      <3>4. f.marks[stop] \in Nat /\ f.marks[stop] <= Len(issues[f.p])
        BY <1>5, <3>3, ElementOfSeq DEF Noted
      <3>5. SoundList(base[f.p], SubSeq(issues[f.p], 1, f.marks[stop]))
        BY <1>4, <3>4, SoundCut
      <3> QED
        BY <1>4, <1>9, <2>2, <3>5 DEF Told, Built
    <2> QED
      BY <2>1, <2>2
  <1>11. Writes(g)
    BY <1>1, <1>2, <1>10 DEF Writes
  <1> QED
    BY <1>2, <1>3, <1>7, <1>8, <1>11, PlainIssues DEF PlainPc

LEMMA ContainerIssues ==
  ASSUME Inv, IssueInv, NEW g \in Goroutine, ContainerStep(g)
  PROVE  IssueInv'
  BY ContainerEndsIssues, ContainerRunsIssues, ContainerTakesIssues, SlotIssues,
     EnterTupleIssues, AssembleIssues DEF ContainerStep

-----------------------------------------------------------------------------
(* Records and maps. *)

LEMMA EntryEndsIssues ==
  ASSUME Inv, IssueInv, NEW g \in Goroutine, EnterEntries(g) \/ EndEntries(g)
  PROVE  IssueInv'
  <1>1. /\ \E pc, kinds : At(g, pc, kinds)
        /\ UNCHANGED <<aborted, pool, base, graph>>
    BY DEF EnterEntries, EndEntries, payloadVars
  <1>2. PICK f : f = Top(g)
    OBVIOUS
  <1>3. stack[g] # <<>> /\ IsFrame(f) /\ SoundList(base[f.p], issues[f.p])
    BY <1>1, <1>2, Working, TopHolds
  <1>4. CASE EnterEntries(g)
    <2>1. PICK order : Goto(g, [f EXCEPT !.pc = "keys", !.i = 1, !.marks = order])
      BY <1>2, <1>4 DEF EnterEntries
    <2>2. PICK h : Goto(g, h) /\ h = [f EXCEPT !.pc = "keys", !.i = 1, !.marks = order]
      BY <2>1
    <2>3. h.p = f.p /\ h.pc = "keys"
      BY <1>3, <2>2, Zenon DEF IsFrame
    <2>4. Writes(g)
      BY <1>4 DEF EnterEntries, Writes, Told, Built, payloadVars
    <2> QED
      BY <1>2, <1>3, <2>2, <2>3, <2>4, PlainIssues DEF PlainPc
  <1>5. CASE EndEntries(g)
    <2>1. Told(f.p)
      <3>1. CASE UNCHANGED issues
        BY <3>1 DEF Told
      <3>2. CASE ~UNCHANGED issues
        <4>1. \E keys : Raise(f.p, [IssueAt(f.p, "unrecognized_keys", "unset", <<>>)
                                      EXCEPT !.keys = keys])
          BY <1>2, <1>5, <3>2, Zenon DEF EndEntries
        <4> QED
          BY <1>3, <4>1, ReportTold
      <3> QED
        BY <3>1, <3>2
    <2>2. Built(f.p)
      BY <1>2, <1>5 DEF EndEntries, Built
    <2>3. PICK h : Goto(g, h) /\ h = [f EXCEPT !.pc = "parsed", !.marks = <<>>]
      BY <1>2, <1>5 DEF EndEntries
    <2>4. h.p = f.p /\ h.pc = "parsed"
      BY <1>3, <2>3, Zenon DEF IsFrame
    <2>5. Writes(g)
      BY <1>1, <1>2, <2>1, <2>2 DEF Writes
    <2> QED
      BY <1>2, <1>3, <2>3, <2>4, <2>5, PlainIssues DEF PlainPc
  <1> QED
    BY <1>4, <1>5

\* The key and the value of an entry have the path of the key.
LEMMA EntryRunsIssues ==
  ASSUME Inv, IssueInv, NEW g \in Goroutine, RunKey(g) \/ RunEntry(g)
  PROVE  IssueInv'
  <1>1. /\ \E pc \in {"keys", "entry"} : \E kinds : At(g, pc, kinds)
        /\ UNCHANGED <<graph, build>>
    BY DEF RunKey, RunEntry
  <1>2. PICK top : top = Top(g)
    OBVIOUS
  <1>3. stack[g] # <<>> /\ top.pc \in {"keys", "entry"}
    BY <1>1, <1>2, Working
  <1>4. IsFrame(top) /\ IsSeq(base[top.p])
    BY <1>2, <1>3, TopHolds
  <1>5. top.kids = <<>>
    BY <1>3, <1>4 DEF IsFrame, HoldingPc
  <1>5a. PICK pc \in {"key", "value"} : \E f, n, v, c :
          /\ f = [top EXCEPT !.pc = pc]
          /\ RunOn(g, f, n, v, c, Append(base[f.p], f.marks[f.i]))
    <2>1. \A pc : LET f == [top EXCEPT !.pc = pc] IN
            f.p = top.p /\ f.marks = top.marks /\ f.i = top.i
      BY <1>4 DEF IsFrame
    <2>2. CASE RunKey(g)
      <3>1. PICK f : f = [top EXCEPT !.pc = "key"]
        OBVIOUS
      <3>2. RunOn(g, f, Kid(g, 1), KeyValue(top.marks[top.i]), call[g].ctx,
                  Append(base[top.p], top.marks[top.i]))
        BY <1>2, <2>2, <3>1 DEF RunKey
      <3>3. f.p = top.p /\ f.marks = top.marks /\ f.i = top.i
        BY <2>1, <3>1
      <3> QED
        BY <3>1, <3>2, <3>3
    <2>3. CASE RunEntry(g)
      <3>1. PICK f : f = [top EXCEPT !.pc = "value"]
        OBVIOUS
      <3>2. PICK v, c : RunOn(g, f, Kid(g, 2), v, c, Append(base[f.p], f.marks[f.i]))
        BY <1>2, <2>3, <3>1 DEF RunEntry, RunChild
      <3> QED
        BY <3>1, <3>2
    <2> QED
      BY <2>2, <2>3
  <1>6. PICK f, n, v, c :
          /\ f = [top EXCEPT !.pc = pc]
          /\ RunOn(g, f, n, v, c, Append(base[f.p], f.marks[f.i]))
    BY <1>5a
  <1>7. f.p = top.p /\ f.kids = <<>> /\ f.pc = pc
    BY <1>4, <1>5, <1>6, Zenon DEF IsFrame
  <1>8. IsFrame(f)
    BY <1>4, <1>6 DEF IsFrame, HoldingPc
  <1>9. Append(base[f.p], f.marks[f.i]) = ChildPlace(f) /\ IsSeq(Append(base[f.p], f.marks[f.i]))
    BY <1>4, <1>7, PushAt DEF ChildPlace
  <1> QED
    BY <1>1, <1>2, <1>3, <1>6, <1>7, <1>8, <1>9, ChildIssues DEF OneChild

LEMMA EntryTakesIssues ==
  ASSUME Inv, IssueInv, NEW g \in Goroutine, KeyDone(g) \/ EntryDone(g)
  PROVE  IssueInv'
  <1>1. /\ \E pc \in {"key", "value"} : \E kinds : At(g, pc, kinds)
        /\ UNCHANGED <<base, graph>>
    BY DEF KeyDone, EntryDone
  <1>2. PICK f : f = Top(g)
    OBVIOUS
  <1>3. stack[g] # <<>> /\ f.pc \in {"key", "value"}
    BY <1>1, <1>2, Working
  <1>4. IsFrame(f) /\ SoundList(base[f.p], issues[f.p])
    BY <1>2, <1>3, TopHolds
  <1>5. PICK cp, k : cp = f.kids[1] /\ k = f.marks[f.i]
    OBVIOUS
  <1>6. SoundList(base[f.p], Prefixed(issues[cp], k))
    <2>1. ChildPlace(f) = Append(base[f.p], k)
      BY <1>3, <1>5 DEF ChildPlace
    <2> QED
      BY <1>2, <1>3, <1>5, <2>1, ChildDone DEF OneChild
  <1>7. SoundList(base[f.p], <<IssueAt(f.p, "invalid_key", "unset", <<k>>)>>)
    <2>1. PICK e : e = IssueAt(f.p, "invalid_key", "unset", <<k>>)
      OBVIOUS
    <2>2. Placed(base[f.p], e)
      BY <2>1, SingleIsSeq, RaisePlaced
    <2>3. SoundList(base[f.p], <<e>>)
      BY <2>2, SingleIsSeq DEF SoundList, AllPlaced
    <2> QED
      BY <2>1, <2>3
  <1>8. PICK added : /\ ReleaseAll(f.kids, value, [issues EXCEPT ![f.p] = @ \o added], aborted)
                     /\ added \in {<<>>, Prefixed(issues[cp], k),
                                   <<IssueAt(f.p, "invalid_key", "unset", <<k>>)>>}
    <2>1. CASE KeyDone(g)
      BY <1>2, <1>5, <2>1 DEF KeyDone
    <2>2. CASE EntryDone(g)
      BY <1>2, <1>5, <2>2 DEF EntryDone
    <2> QED
      BY <2>1, <2>2
  <1>9. SoundList(base[f.p], added)
    BY <1>6, <1>7, <1>8, SoundNil
  <1>10. Told(f.p)
    BY <1>4, <1>8, <1>9, AddTold DEF ReleaseAll
  <1>11. Built(f.p)
    <2>1. CASE KeyDone(g)
      BY <1>2, <2>1 DEF KeyDone, Built
    <2>2. CASE EntryDone(g)
      BY <1>2, <2>2 DEF EntryDone, Built
    <2> QED
      BY <2>1, <2>2
  <1>12. PICK h : Goto(g, h) /\ h.p = f.p /\ h.pc \in {"keys", "entry"}
    <2>1. CASE KeyDone(g)
      <3>0. PICK pc \in {"keys", "entry"} :
              \E i, start : Goto(g, [f EXCEPT !.pc = pc, !.kids = <<>>, !.i = i, !.start = start])
        BY <1>2, <2>1 DEF KeyDone
      <3>1. PICK i, start : Goto(g, [f EXCEPT !.pc = pc, !.kids = <<>>, !.i = i, !.start = start])
        BY <3>0
      <3>2. PICK h : Goto(g, h) /\ h = [f EXCEPT !.pc = pc, !.kids = <<>>, !.i = i, !.start = start]
        BY <3>1
      <3>3. h.p = f.p /\ h.pc = pc
        BY <1>4, <3>2, Zenon DEF IsFrame
      <3> QED
        BY <3>2, <3>3
    <2>2. CASE EntryDone(g)
      <3>1. PICK h : Goto(g, h) /\ h = [f EXCEPT !.pc = "keys", !.i = @ + 1, !.kids = <<>>]
        BY <1>2, <2>2 DEF EntryDone
      <3>2. h.p = f.p /\ h.pc = "keys"
        BY <1>4, <3>1, Zenon DEF IsFrame
      <3> QED
        BY <3>1, <3>2
    <2> QED
      BY <2>1, <2>2
  <1>13. h.pc \in PlainPc
    BY <1>12 DEF PlainPc
  <1> QED
    BY <1>1, <1>2, <1>3, <1>8, <1>10, <1>11, <1>12, <1>13, GiveIssues

LEMMA EntryIssues ==
  ASSUME Inv, IssueInv, NEW g \in Goroutine, EntryStep(g)
  PROVE  IssueInv'
  BY EntryEndsIssues, EntryRunsIssues, EntryTakesIssues DEF EntryStep

-----------------------------------------------------------------------------
(* Unions. *)

\* The options are done: the running frame gives their payloads back.
LEMMA SettleIssues ==
  ASSUME Inv, IssueInv, NEW g \in Goroutine, stack[g] # <<>>, UNCHANGED <<base, graph, build>>,
         NEW val, NEW iss, Settle(g, val, iss),
         \/ iss = issues
         \/ \E list : /\ iss = [issues EXCEPT ![Top(g).p] = list]
                      /\ SoundList(base[Top(g).p], list)
  PROVE  IssueInv'
  <1>1. PICK f : f = Top(g)
    OBVIOUS
  <1>2. ReleaseAll(f.kids, val, iss, aborted) /\ Goto(g, [f EXCEPT !.pc = "parsed", !.kids = <<>>])
    BY <1>1 DEF Settle
  <1>3. PICK h : Goto(g, h) /\ h = [f EXCEPT !.pc = "parsed", !.kids = <<>>]
    BY <1>2
  <1>4. h.p = f.p /\ h.pc = "parsed"
    <2>1. IsFrame(f)
      BY <1>1, TopHolds
    <2> QED
      BY <1>3, <2>1, Zenon DEF IsFrame
  <1>5. issues' = iss
    BY <1>2 DEF ReleaseAll
  <1>6. Told(f.p) /\ Built(f.p)
    BY <1>1, <1>5 DEF Told, Built
  <1> QED
    BY <1>1, <1>2, <1>3, <1>4, <1>6, GiveIssues DEF PlainPc

\* The running frame, beside its options, goes on to another label of the loop.
LEMMA LoopIssues ==
  ASSUME Inv, IssueInv, NEW g \in Goroutine, stack[g] # <<>>,
         UNCHANGED <<issues, aborted, pool, base, graph, build>>,
         NEW f, Goto(g, f), f.p = Top(g).p, f.kids = Top(g).kids, f.pc \in {"options", "choices"},
         Top(g).kids = <<>> \/ Top(g).pc \in Beside
  PROVE  IssueInv'
  <1>1. Writes(g)
    BY DEF Writes, Told, Built
  <1>2. \A j \in 1 .. Len(f.kids) : base[f.kids[j]] = base[f.p]
    <2>1. CASE Top(g).kids = <<>>
      BY <2>1, EmptySeq
    <2>2. CASE Top(g).pc \in Beside
      BY <2>2, TopHolds DEF FrameOK
    <2> QED
      BY <2>1, <2>2
  <1>3. base' = base
    OBVIOUS
  <1>4. FrameOK(f)'
    BY <1>2, <1>3 DEF FrameOK, OneChild, Beside
  <1> QED
    BY <1>1, <1>4, WritesEffect, GotoIssues

LEMMA EnterUnionIssues ==
  ASSUME Inv, IssueInv, NEW g \in Goroutine, EnterUnion(g)
  PROVE  IssueInv'
  <1>1. At(g, "enter", {"union", "xor"}) /\ UNCHANGED <<issues, aborted, pool, base, graph, build>>
    BY DEF EnterUnion, payloadVars
  <1>2. stack[g] # <<>> /\ Top(g).pc = "enter" /\ issues[Top(g).p] = <<>>
    BY <1>1, Working
  <1>3. PICK f : f = Top(g)
    OBVIOUS
  <1>4. IsFrame(f) /\ f.kids = <<>>
    <2>1. IsFrame(f)
      BY <1>2, <1>3, TopHolds
    <2> QED
      BY <1>2, <1>3, <2>1 DEF IsFrame, HoldingPc
  <1>5. Writes(g)
    BY <1>1 DEF Writes, Told, Built
  <1>6. CASE Len(NodeOf(g).kids) = 1
    <2>1. RunSelf(g, "parsed", Kid(g, 1))
      BY <1>6 DEF EnterUnion
    <2>2. "parsed" \in SelfPc \ {"rescue"} /\ issues'[Top(g).p] = <<>>
      BY <1>1, <1>2 DEF SelfPc
    <2> QED
      BY <1>2, <1>5, <2>1, <2>2, RunSelfIssues
  <1>7. CASE Len(NodeOf(g).kids) # 1
    <2>1. PICK pc \in {"options", "choices"} : Jump(g, pc)
      BY <1>7 DEF EnterUnion
    <2>2. PICK h : Goto(g, h) /\ h = [f EXCEPT !.pc = pc]
      BY <1>3, <2>1 DEF Jump
    <2>3. h.p = f.p /\ h.kids = f.kids /\ h.pc = pc
      BY <1>4, <2>2, Zenon DEF IsFrame
    <2> QED
      BY <1>1, <1>2, <1>3, <1>4, <2>2, <2>3, LoopIssues
  <1> QED
    BY <1>6, <1>7

\* An option runs.
LEMMA RunsOptionIssues ==
  ASSUME Inv, IssueInv, NEW g \in Goroutine, RunOption(g) \/ RunChoice(g)
  PROVE  IssueInv'
  <1>1. PICK top : top = Top(g)
    OBVIOUS
  <1>2. /\ \E pc \in {"options", "choices"} : \E kinds : At(g, pc, kinds)
        /\ UNCHANGED <<graph, build>>
    BY DEF RunOption, RunChoice
  <1>3. stack[g] # <<>> /\ top.pc \in {"options", "choices"} /\ IsFrame(top)
    BY <1>1, <1>2, Working, TopHolds
  <1>3a. PICK pc \in {"option", "choice"} : \E n : RunApart(g, [top EXCEPT !.pc = pc], n)
    BY <1>1 DEF RunOption, RunChoice
  <1>4. PICK n : RunApart(g, [top EXCEPT !.pc = pc], n)
    BY <1>3a
  <1>5. PICK f : RunApart(g, f, n) /\ f = [top EXCEPT !.pc = pc]
    BY <1>4
  <1>6. f.p = top.p /\ f.kids = top.kids /\ f.pc = pc
    BY <1>3, <1>5, Zenon DEF IsFrame
  <1>7. IsFrame(f)
    BY <1>3, <1>4, <1>5 DEF IsFrame, HoldingPc
  <1>8. top.pc \in Beside
    BY <1>3 DEF Beside
  <1> QED
    BY <1>1, <1>2, <1>3, <1>5, <1>6, <1>7, <1>8, OptionIssues

\* An option is done.
LEMMA OptionDoneIssues ==
  ASSUME Inv, IssueInv, NEW g \in Goroutine, OptionDone(g) \/ ChoiceDone(g)
  PROVE  IssueInv'
  <1>1. PICK f : f = Top(g)
    OBVIOUS
  <1>2. /\ \E pc \in {"option", "choice"} : \E kinds : At(g, pc, kinds)
        /\ UNCHANGED <<base, graph, build>>
    BY DEF OptionDone, ChoiceDone, payloadVars
  <1>3. stack[g] # <<>> /\ f.pc \in Beside /\ IsFrame(f)
    BY <1>1, <1>2, Working, TopHolds DEF Beside
  <1>4. CASE \E val : Settle(g, val, issues)
    BY <1>2, <1>3, <1>4, SettleIssues
  <1>5. ASSUME NEW pc \in {"options", "choices"}, Goto(g, [f EXCEPT !.pc = pc, !.i = @ + 1]),
               UNCHANGED <<issues, aborted, pool>>
        PROVE  IssueInv'
    <2>1. PICK h : Goto(g, h) /\ h = [f EXCEPT !.pc = pc, !.i = @ + 1]
      BY <1>5
    <2>2. h.p = f.p /\ h.kids = f.kids /\ h.pc = pc
      BY <1>3, <2>1, Zenon DEF IsFrame
    <2> QED
      BY <1>1, <1>2, <1>3, <1>5, <2>1, <2>2, LoopIssues
  <1>6. CASE OptionDone(g)
    <2>1. \/ \E val : Settle(g, val, issues)
          \/ /\ Goto(g, [f EXCEPT !.pc = "options", !.i = @ + 1])
             /\ UNCHANGED <<issues, aborted, pool>>
      BY <1>1, <1>6 DEF OptionDone
    <2> QED
      BY <1>4, <1>5, <2>1
  <1>7. CASE ChoiceDone(g)
    BY <1>1, <1>5, <1>7 DEF ChoiceDone, payloadVars
  <1> QED
    BY <1>6, <1>7

\* The issue of a union that no option settles.
LEMMA InvalidUnionSound ==
  ASSUME NEW p, SoundList(base[p], issues[p]), NEW path, IsSeq(path)
  PROVE  SoundList(base[p], Append(issues[p], InvalidUnion(p, path)))
  BY RaiseSound DEF InvalidUnion

LEMMA OptionsFailedIssues ==
  ASSUME Inv, IssueInv, NEW g \in Goroutine, OptionsFailed(g) \/ EndChoices(g)
  PROVE  IssueInv'
  <1>1. PICK f : f = Top(g)
    OBVIOUS
  <1>2. /\ \E pc \in {"options", "choices"} : \E kinds : At(g, pc, kinds)
        /\ UNCHANGED <<base, graph, build>>
    BY DEF OptionsFailed, EndChoices
  <1>3. stack[g] # <<>> /\ f.pc \in Beside
    BY <1>1, <1>2, Working DEF Beside
  <1>4. /\ IsFrame(f) /\ SoundList(base[f.p], issues[f.p])
        /\ \A j \in 1 .. Len(f.kids) : base[f.kids[j]] = base[f.p]
    BY <1>1, <1>3, TopHolds DEF FrameOK
  <1>5. DOMAIN f.kids = 1 .. Len(f.kids)
    BY <1>4, LenProperties DEF IsFrame
  <1>6. SoundList(base[f.p], Append(issues[f.p], InvalidUnion(f.p, <<>>)))
    BY <1>4, NilIsSeq, InvalidUnionSound
  <1>7. CASE \E val : Settle(g, val, issues)
    BY <1>2, <1>3, <1>7, SettleIssues
  <1>8. ASSUME NEW val, NEW list, SoundList(base[f.p], list),
               Settle(g, val, [issues EXCEPT ![f.p] = list])
        PROVE  IssueInv'
    BY <1>1, <1>2, <1>3, <1>8, SettleIssues
  <1>9. CASE \E val : Settle(g, val, [issues EXCEPT ![f.p] = Append(@, InvalidUnion(f.p, <<>>))])
    BY <1>6, <1>8, <1>9
  <1>10. CASE OptionsFailed(g)
    <2> DEFINE alive == {k \in DOMAIN f.kids :
                           ~AbortedFrom(aborted[f.kids[k]], issues[f.kids[k]], 0)}
               only == f.kids[CHOOSE k \in alive : TRUE]
    <2>1. \/ /\ Cardinality(alive) = 1
             /\ \E val : Settle(g, val, [issues EXCEPT ![f.p] = @ \o issues[only]])
          \/ \E val : Settle(g, val, [issues EXCEPT ![f.p] = Append(@, InvalidUnion(f.p, <<>>))])
      BY <1>1, <1>10, Zenon DEF OptionsFailed
    <2>2. CASE Cardinality(alive) = 1 /\ \E val : Settle(g, val, [issues EXCEPT ![f.p] = @ \o issues[only]])
      <3> DEFINE k == CHOOSE x \in alive : TRUE
      <3>1. alive \subseteq 1 .. Len(f.kids)
        BY <1>5
      <3> HIDE DEF alive
      <3>2. alive # {}
        <4>1. Cardinality(alive) = 1
          BY <2>2
        <4>2. Cardinality({}) = 0
          BY FS_EmptySet
        <4> HIDE DEF only
        <4> QED
          BY <4>1, <4>2
      <3>3. k \in 1 .. Len(f.kids)
        BY <3>1, <3>2
      <3>4. only = f.kids[k]
        OBVIOUS
      <3> HIDE DEF k, only
      <3>5. SoundList(base[f.p], issues[only])
        BY <1>1, <1>3, <1>4, <3>3, <3>4, ChildSound
      <3>6. SoundList(base[f.p], issues[f.p] \o issues[only])
        BY <1>4, <3>5, SoundConcat
      <3> QED
        BY <1>8, <2>2, <3>6
    <2> QED
      BY <1>9, <2>1, <2>2
  <1>11. CASE EndChoices(g)
    <2>1. \/ \E val : Settle(g, val, issues)
          \/ \E val : Settle(g, val, [issues EXCEPT ![f.p] = Append(@, InvalidUnion(f.p, <<>>))])
      BY <1>1, <1>11, Zenon DEF EndChoices
    <2> QED
      BY <1>7, <1>9, <2>1
  <1> QED
    BY <1>10, <1>11

\* The dispatch of a discriminated union.
LEMMA EnterDiscUnionIssues ==
  ASSUME Inv, IssueInv, NEW g \in Goroutine, EnterDiscUnion(g)
  PROVE  IssueInv'
  <1>1. At(g, "enter", {"discunion"}) /\ UNCHANGED <<aborted, pool, base, graph, build>>
    BY DEF EnterDiscUnion
  <1>2. stack[g] # <<>> /\ Top(g).pc = "enter" /\ issues[Top(g).p] = <<>>
    BY <1>1, Working
  <1>3. PICK f : f = Top(g)
    OBVIOUS
  <1>4. IsFrame(f) /\ SoundList(base[f.p], issues[f.p]) /\ f.kids = <<>>
    <2>1. IsFrame(f) /\ SoundList(base[f.p], issues[f.p])
      BY <1>2, <1>3, TopHolds
    <2> QED
      BY <1>2, <1>3, <2>1 DEF IsFrame, HoldingPc
  <1>5. Told(f.p) => Writes(g)
    BY <1>1, <1>3 DEF Writes, Built
  <1>6. CASE /\ \/ Raise(f.p, IssueAt(f.p, "invalid_type", "unset", <<>>))
                \/ Raise(f.p, InvalidUnion(f.p, <<NodeOf(g).key>>))
             /\ Jump(g, "parsed")
    <2>1. IsSeq(<<>>) /\ IsSeq(<<NodeOf(g).key>>)
      BY NilIsSeq, SingleIsSeq
    <2>2. Told(f.p)
      BY <1>4, <1>6, <2>1, RaiseSound DEF InvalidUnion
    <2> QED
      BY <1>2, <1>5, <1>6, <2>2, JumpIssues DEF PlainPc
  <1>7. CASE UNCHANGED issues /\ \E n : RunSelf(g, "parsed", n)
    <2>1. Writes(g)
      BY <1>5, <1>7 DEF Told
    <2>2. "parsed" \in SelfPc \ {"rescue"} /\ issues'[Top(g).p] = <<>>
      BY <1>2, <1>7 DEF SelfPc
    <2> QED
      BY <1>2, <1>7, <2>1, <2>2, RunSelfIssues
  <1>8. CASE UNCHANGED issues /\ Jump(g, "options")
    <2>1. PICK h : Goto(g, h) /\ h = [f EXCEPT !.pc = "options"]
      BY <1>3, <1>8 DEF Jump
    <2>2. h.p = f.p /\ h.kids = f.kids /\ h.pc = "options"
      BY <1>4, <2>1, Zenon DEF IsFrame
    <2> QED
      BY <1>1, <1>2, <1>3, <1>4, <1>8, <2>1, <2>2, LoopIssues
  <1>9. \/ /\ \/ Raise(f.p, IssueAt(f.p, "invalid_type", "unset", <<>>))
              \/ Raise(f.p, InvalidUnion(f.p, <<NodeOf(g).key>>))
           /\ Jump(g, "parsed")
        \/ UNCHANGED issues /\ \E n : RunSelf(g, "parsed", n)
        \/ UNCHANGED issues /\ Jump(g, "options")
    BY <1>3, Zenon DEF EnterDiscUnion
  <1> QED
    BY <1>6, <1>7, <1>8, <1>9

\* The first payload of an intersection.
LEMMA EnterIntersectionIssues ==
  ASSUME Inv, IssueInv, NEW g \in Goroutine, EnterIntersection(g)
  PROVE  IssueInv'
  <1>1. PICK f : f = Top(g)
    OBVIOUS
  <1>2. At(g, "enter", {"intersection"}) /\ UNCHANGED <<graph, build>>
    BY DEF EnterIntersection
  <1>3. stack[g] # <<>>
    BY <1>2, Working
  <1>4. IsFrame(f) /\ IsSeq(base[f.p]) /\ f.p \in PayloadId /\ pool[f.p] = 0
    BY <1>1, <1>3, TopHolds
  <1>5. PICK cp, v, c :
          /\ cp \in PayloadId
          /\ Acquire(cp, v, c, base[f.p])
          /\ Goto(g, [f EXCEPT !.pc = "left", !.kids = <<cp>>])
    BY <1>1 DEF EnterIntersection
  <1>6. PICK h : Goto(g, h) /\ h = [f EXCEPT !.pc = "left", !.kids = <<cp>>]
    BY <1>5
  <1>7. h.p = f.p /\ h.pc = "left" /\ h.kids = <<cp>>
    BY <1>4, <1>6, Zenon DEF IsFrame
  <1>8. /\ Effect(g) /\ issues'[cp] = <<>> /\ base'[cp] = base[f.p] /\ base'[f.p] = base[f.p]
    BY <1>2, <1>3, <1>4, <1>5, TakesEffect
  <1>9. FrameOK(h)'
    <2>1. Len(h.kids) = 1 /\ h.kids[1] = cp
      BY <1>7, SingleIsSeq
    <2>2. \A j \in 1 .. Len(h.kids) : base'[h.kids[j]] = base'[h.p]
      BY <1>7, <1>8, <2>1
    <2> QED
      BY <1>7, <1>8, <2>1, <2>2 DEF FrameOK, OneChild, Beside
  <1> QED
    BY <1>1, <1>3, <1>6, <1>7, <1>8, <1>9, GotoIssues

\* The second payload, and the left side on the first.
LEMMA RunLeftIssues ==
  ASSUME Inv, IssueInv, NEW g \in Goroutine, RunLeft(g)
  PROVE  IssueInv'
  <1>1. PICK f : f = Top(g)
    OBVIOUS
  <1>2. At(g, "left", {"intersection"}) /\ UNCHANGED <<graph, build>>
    BY DEF RunLeft
  <1>3. stack[g] # <<>> /\ f.pc = "left"
    BY <1>1, <1>2, Working
  <1>4. /\ IsFrame(f) /\ IsSeq(base[f.p]) /\ f.p \in PayloadId /\ pool[f.p] = 0
        /\ Len(f.kids) = 1 /\ issues[f.kids[1]] = <<>> /\ base[f.kids[1]] = base[f.p]
    BY <1>1, <1>3, TopHolds DEF FrameOK, Beside
  <1>5. PICK q : q = f.kids[1]
    OBVIOUS
  <1>6. q \in PayloadId /\ pool[q] = 0 /\ q \in Range(f.kids)
    <2>1. FrameAt(g, Len(stack[g]), f) /\ Len(stack[g]) \in Nat
      BY <1>1, <1>3, TopAt
    <2>2. /\ DOMAIN f.kids = 1 .. Len(f.kids)
          /\ \A j \in 1 .. Len(f.kids) : f.kids[j] \in PayloadId /\ pool[f.kids[j]] = 0
      BY <2>1, FrameIs
    <2> QED
      BY <1>4, <1>5, <2>2 DEF Range
  <1>7. PICK cp, v, c, n :
          /\ cp \in PayloadId
          /\ Acquire(cp, v, c, base[f.p])
          /\ Enter(g, [f EXCEPT !.pc = "right", !.kids = Append(@, cp)], n, q)
    BY <1>1, <1>5 DEF RunLeft
  <1>8. PICK h : Enter(g, h, n, q) /\ h = [f EXCEPT !.pc = "right", !.kids = Append(@, cp)]
    BY <1>7
  <1>9. h.p = f.p /\ h.pc = "right" /\ h.kids = Append(f.kids, cp)
    BY <1>4, <1>8, Zenon DEF IsFrame
  <1>10. /\ Effect(g) /\ pool[cp] # 0 /\ issues'[cp] = <<>> /\ base'[cp] = base[f.p]
         /\ base'[f.p] = base[f.p] /\ base'[q] = base[q] /\ issues'[q] = issues[q]
    BY <1>2, <1>3, <1>4, <1>6, <1>7, TakesEffect
  <1>11. Len(h.kids) = 2 /\ h.kids[1] = q /\ h.kids[2] = cp
    <2>1. f.kids \in Seq(PayloadId)
      BY <1>4 DEF IsFrame
    <2> QED
      BY <1>4, <1>5, <1>9, <2>1, AppendAt
  <1>12. FrameOK(h)'
    <2>1. \A j \in 1 .. Len(h.kids) : base'[h.kids[j]] = base'[h.p]
      BY <1>4, <1>5, <1>9, <1>10, <1>11
    <2> QED
      BY <1>9, <1>10, <1>11, <2>1 DEF FrameOK, OneChild, Beside
  <1>13. q # h.kids[2] /\ issues'[q] = <<>>
    BY <1>4, <1>5, <1>6, <1>10, <1>11
  <1>14. h.pc \in AwayPc
    BY <1>9 DEF AwayPc
  <1> QED
    BY <1>1, <1>3, <1>6, <1>8, <1>9, <1>10, <1>12, <1>13, <1>14, EnterIssues

\* The right side on the second payload.
LEMMA RunRightIssues ==
  ASSUME Inv, IssueInv, NEW g \in Goroutine, RunRight(g)
  PROVE  IssueInv'
  <1>1. PICK f : f = Top(g)
    OBVIOUS
  <1>2. /\ At(g, "right", {"intersection"})
        /\ UNCHANGED <<issues, aborted, pool, base, graph, build>>
    BY DEF RunRight, payloadVars
  <1>3. stack[g] # <<>> /\ f.pc = "right"
    BY <1>1, <1>2, Working
  <1>4. /\ IsFrame(f) /\ Len(f.kids) >= 2 /\ issues[f.kids[2]] = <<>>
        /\ \A j \in 1 .. Len(f.kids) : base[f.kids[j]] = base[f.p]
    BY <1>1, <1>3, TopHolds DEF FrameOK, Beside, IsFrame
  <1>5. PICK q, n : q = f.kids[2] /\ Enter(g, [f EXCEPT !.pc = "merge"], n, q)
    BY <1>1 DEF RunRight
  <1>6. q \in PayloadId /\ q \in Range(f.kids)
    <2>1. DOMAIN f.kids = 1 .. Len(f.kids) /\ Len(f.kids) \in Nat /\ f.kids \in Seq(PayloadId)
      BY <1>4, LenProperties DEF IsFrame
    <2>2. 2 \in 1 .. Len(f.kids)
      BY <1>4, <2>1
    <2> QED
      BY <1>5, <2>1, <2>2, ElementOfSeq DEF Range
  <1>7. PICK h : Enter(g, h, n, q) /\ h = [f EXCEPT !.pc = "merge"]
    BY <1>5
  <1>8. h.p = f.p /\ h.pc = "merge" /\ h.kids = f.kids
    BY <1>4, <1>7, Zenon DEF IsFrame
  <1>9. Effect(g)
    BY <1>2, <1>3, WritesEffect DEF Writes, Told, Built
  <1>10. FrameOK(h)'
    BY <1>2, <1>4, <1>8 DEF FrameOK, OneChild, Beside
  <1>11. h.pc \in AwayPc /\ h.pc # "right" /\ issues'[q] = <<>>
    BY <1>2, <1>4, <1>5, <1>8 DEF AwayPc
  <1> QED
    BY <1>1, <1>3, <1>6, <1>7, <1>8, <1>9, <1>10, <1>11, EnterIssues

\* The two sides meet.
LEMMA MergeSidesIssues ==
  ASSUME Inv, IssueInv, NEW g \in Goroutine, MergeSides(g)
  PROVE  IssueInv'
  <1>1. PICK f : f = Top(g)
    OBVIOUS
  <1>2. At(g, "merge", {"intersection"}) /\ UNCHANGED <<base, graph, build>>
    BY DEF MergeSides
  <1>3. stack[g] # <<>> /\ f.pc = "merge"
    BY <1>1, <1>2, Working
  <1>4. /\ IsFrame(f) /\ SoundList(base[f.p], issues[f.p]) /\ Len(f.kids) >= 2
        /\ \A j \in 1 .. Len(f.kids) : base[f.kids[j]] = base[f.p]
    BY <1>1, <1>3, TopHolds DEF FrameOK, Beside
  <1>5. PICK l, r, path : /\ l = f.kids[1] /\ r = f.kids[2]
                          /\ path = MergeValues(value[l], value[r]).path
    OBVIOUS
  <1>6. PICK joined : joined = issues[f.p] \o JoinedIssues(f.n, issues[l], issues[r])
    OBVIOUS
  <1>7. SoundList(base[f.p], joined)
    <2>1. 1 \in 1 .. Len(f.kids) /\ 2 \in 1 .. Len(f.kids)
      BY <1>4, LenProperties DEF IsFrame
    <2>2. SoundList(base[f.p], issues[l]) /\ SoundList(base[f.p], issues[r])
      BY <1>1, <1>3, <1>4, <1>5, <2>1, ChildSound
    <2>3. SoundList(base[f.p], JoinedIssues(f.n, issues[l], issues[r]))
      BY <2>2, SoundJoin
    <2> QED
      BY <1>4, <1>6, <2>3, SoundConcat
  <1>8. SoundList(base[f.p], Append(joined, IssueAt(f.p, "custom", "unset", path)))
    <2>1. PICK e : e = IssueAt(f.p, "custom", "unset", path)
      OBVIOUS
    <2>2. MergesArePaths => path \in Path
      BY <1>5 DEF MergesArePaths
    <2>3. MergesArePaths => Placed(base[f.p], e)
      BY <2>1, <2>2, SeqIsSeq, RaisePlaced DEF Path
    <2>4. SoundList(base[f.p], Append(joined, e))
      BY <1>7, <2>3, SoundAppend
    <2> QED
      BY <2>1, <2>4
  <1>9. \E val, list : /\ Settle(g, val, [issues EXCEPT ![f.p] = list])
                       /\ list \in {joined, Append(joined, IssueAt(f.p, "custom", "unset", path))}
    <2>1. \/ \E val : Settle(g, val, [issues EXCEPT ![f.p] = joined])
          \/ \E val : Settle(g, val, [issues EXCEPT ![f.p] =
                                        Append(joined, IssueAt(f.p, "custom", "unset", path))])
      BY <1>1, <1>5, <1>6, Zenon DEF MergeSides
    <2> QED
      BY <2>1
  <1>10. PICK val, list : /\ Settle(g, val, [issues EXCEPT ![f.p] = list])
                          /\ list \in {joined, Append(joined, IssueAt(f.p, "custom", "unset", path))}
    BY <1>9
  <1>11. SoundList(base[f.p], list)
    BY <1>7, <1>8, <1>10
  <1> QED
    BY <1>1, <1>2, <1>3, <1>10, <1>11, SettleIssues

LEMMA UnionIssues ==
  ASSUME Inv, IssueInv, NEW g \in Goroutine, UnionStep(g)
  PROVE  IssueInv'
  BY EnterUnionIssues, RunsOptionIssues, OptionDoneIssues, OptionsFailedIssues,
     EnterDiscUnionIssues, EnterIntersectionIssues, RunLeftIssues, RunRightIssues,
     MergeSidesIssues DEF UnionStep

LEMMA StepIssues ==
  ASSUME Inv, IssueInv, NEW g \in Goroutine, Step(g)
  PROVE  IssueInv'
  BY WrapperIssues, ContainerIssues, EntryIssues, UnionIssues, CheckIssues DEF Step

-----------------------------------------------------------------------------
(* The steps that begin and end a call. *)

\* The payloads the call of h holds are left alone.
Spared(h) == \A q \in PayloadId :
  CallOwns(h, q) \/ (\E i, j \in Nat : KidOwns(h, i, j, q)) =>
    base'[q] = base[q] /\ issues'[q] = issues[q] /\ aborted'[q] = aborted[q] /\ build'[q] = build[q]

\* The payload of a frame is one its call holds.
LEMMA FrameSpared ==
  ASSUME Inv, NEW h \in Goroutine, Spared(h), graph' = graph,
         NEW i \in Nat, NEW f, FrameAt(h, i, f), FrameOK(f)
  PROVE  FrameOK(f)'
  <1>1. /\ IsFrame(f) /\ f.p \in PayloadId /\ RunsOn(h, i, f.p) /\ Len(f.kids) \in Nat
        /\ \A j \in 1 .. Len(f.kids) : f.kids[j] \in PayloadId /\ KidOwns(h, i, j, f.kids[j])
    BY FrameIs
  <1>2. /\ base'[f.p] = base[f.p] /\ issues'[f.p] = issues[f.p]
        /\ aborted'[f.p] = aborted[f.p] /\ build'[f.p] = build[f.p]
    <2>1. CallOwns(h, f.p) \/ \E k, j \in Nat : KidOwns(h, k, j, f.p)
      BY <1>1 DEF Inv, Chain
    <2> QED
      BY <1>1, <2>1 DEF Spared
  <1>3. \A j \in 1 .. Len(f.kids) :
          base'[f.kids[j]] = base[f.kids[j]] /\ issues'[f.kids[j]] = issues[f.kids[j]]
    <2> SUFFICES ASSUME NEW j \in 1 .. Len(f.kids)
                 PROVE  base'[f.kids[j]] = base[f.kids[j]] /\ issues'[f.kids[j]] = issues[f.kids[j]]
      OBVIOUS
    <2>1. f.kids[j] \in PayloadId /\ KidOwns(h, i, j, f.kids[j]) /\ j \in Nat
      BY <1>1
    <2> QED
      BY <2>1 DEF Spared
  <1>4. Noted(f) => Noted(f)'
    BY <1>2 DEF Noted
  <1>5. ChildPlace(f)' = ChildPlace(f)
    BY <1>2 DEF ChildPlace
  <1>6. f.pc = "right" => 2 \in 1 .. Len(f.kids)
    BY <1>1 DEF IsFrame
  <1>7. f.pc \in OneChild \cup {"left"} => 1 \in 1 .. Len(f.kids)
    BY <1>1 DEF FrameOK
  <1> QED
    BY <1>2, <1>3, <1>4, <1>5, <1>6, <1>7 DEF FrameOK

\* A step that gives g a stack of at most one frame.
LEMMA CallIssues ==
  ASSUME Inv, IssueInv, NEW g \in Goroutine, Fields', Sounds', graph' = graph,
         \A h \in Goroutine : h # g => stack'[h] = stack[h] /\ Spared(h),
         \A i \in Nat : \A f : FrameAt(g, i, f)' => i = 1 /\ Len(stack'[g]) = 1 /\ FrameOK(f)'
  PROVE  IssueInv'
  <1>1. \A h \in Goroutine, i \in Nat : \A f :
          h # g => (FrameAt(h, i, f)' <=> FrameAt(h, i, f)) /\ Len(stack'[h]) = Len(stack[h])
    BY DEF FrameAt
  <1>2. FramesOK'
    <2> SUFFICES ASSUME NEW h \in Goroutine, NEW i \in Nat, NEW f, FrameAt(h, i, f)'
                 PROVE  FrameOK(f)'
      BY DEF FramesOK
    <2>1. CASE h = g
      BY <2>1
    <2>2. CASE h # g
      <3>1. FrameAt(h, i, f)
        BY <1>1, <2>2
      <3>2. FrameOK(f)
        BY <3>1 DEF IssueInv, FramesOK
      <3> QED
        BY <2>2, <3>1, <3>2, FrameSpared
    <2> QED
      BY <2>1, <2>2
  <1>3. Apart'
    <2>1. \A h \in Goroutine, i \in Nat : \A f :
            FrameAt(h, i, f)' /\ i # Len(stack'[h]) => f.pc \in SelfPc \cup AwayPc
      <3> SUFFICES ASSUME NEW h \in Goroutine, NEW i \in Nat, NEW f,
                          FrameAt(h, i, f)', i # Len(stack'[h])
                   PROVE  f.pc \in SelfPc \cup AwayPc
        OBVIOUS
      <3>1. h # g
        OBVIOUS
      <3>2. FrameAt(h, i, f) /\ i # Len(stack[h])
        BY <1>1, <3>1
      <3> QED
        BY <3>2 DEF IssueInv, Apart
    <2>2. \A h \in Goroutine, i, j \in Nat : \A f, e :
            FrameAt(h, i, f)' /\ FrameAt(h, j, e)' /\ i < j =>
              /\ f.pc \in AwayPc => e.p # f.p
              /\ f.pc = "right" => e.p # f.kids[2]
      <3> SUFFICES ASSUME NEW h \in Goroutine, NEW i \in Nat, NEW j \in Nat, NEW f, NEW e,
                          FrameAt(h, i, f)', FrameAt(h, j, e)', i < j
                   PROVE  (f.pc \in AwayPc => e.p # f.p) /\ (f.pc = "right" => e.p # f.kids[2])
        OBVIOUS
      <3>1. h # g
        <4>1. h = g => i = 1 /\ j = 1
          OBVIOUS
        <4> QED
          BY <4>1
      <3>2. FrameAt(h, i, f) /\ FrameAt(h, j, e)
        BY <1>1, <3>1
      <3> QED
        BY <3>2 DEF IssueInv, Apart
    <2> QED
      BY <2>1, <2>2, Zenon DEF Apart
  <1> QED
    BY <1>2, <1>3 DEF IssueInv

\* A call begins on a payload from the pool.
LEMMA StartIssues ==
  ASSUME Inv, IssueInv, NEW g \in Goroutine, StartCall(g)
  PROVE  IssueInv'
  <1>0. PICK p \in PayloadId : \E v, c :
          Acquire(p, v, c, <<>>) /\ stack' = [stack EXCEPT ![g] = <<NewFrame(Root, p)>>]
    BY DEF StartCall
  <1>1. PICK v, c : Acquire(p, v, c, <<>>) /\ stack' = [stack EXCEPT ![g] = <<NewFrame(Root, p)>>]
    BY <1>0
  <1>2. graph' = graph /\ build' = build
    BY DEF StartCall
  <1>3. /\ issues = [q \in PayloadId |-> issues[q]] /\ build = [q \in PayloadId |-> build[q]]
        /\ base = [q \in PayloadId |-> base[q]]
        /\ pool \in [PayloadId -> Nat] /\ aborted \in [PayloadId -> BOOLEAN]
        /\ stack = [h \in Goroutine |-> stack[h]]
    BY DEF IssueInv, Fields, Inv, Types
  <1>4. /\ pool[p] > 0 /\ pool' = [pool EXCEPT ![p] = @ - 1]
        /\ issues' = [issues EXCEPT ![p] = <<>>]
        /\ aborted' = [aborted EXCEPT ![p] = FALSE]
        /\ base' = [base EXCEPT ![p] = <<>>]
    BY <1>1 DEF Acquire
  <1>5. pool[p] # 0 /\ \A q \in PayloadId : q # p => pool'[q] = pool[q] /\ aborted'[q] = aborted[q]
    BY <1>3, <1>4
  <1>6. /\ issues' = [q \in PayloadId |-> IF q = p THEN <<>> ELSE issues[q]]
        /\ base' = [q \in PayloadId |-> IF q = p THEN <<>> ELSE base[q]]
    BY <1>3, <1>4, Zenon
  <1>7. /\ issues' = [q \in PayloadId |-> issues'[q]] /\ base' = [q \in PayloadId |-> base'[q]]
        /\ issues'[p] = <<>> /\ base'[p] = <<>>
        /\ \A q \in PayloadId : q # p => issues'[q] = issues[q] /\ base'[q] = base[q]
    BY <1>6
  <1>8. Fields'
    BY <1>2, <1>3, <1>7 DEF Fields
  <1>9. Sounds'
    <2> SUFFICES ASSUME NEW q \in PayloadId, pool'[q] = 0
                 PROVE  IsSeq(base'[q]) /\ SoundList(base'[q], issues'[q])
      BY DEF Sounds
    <2>1. CASE q = p
      BY <1>7, <2>1, NilIsSeq, SoundNil
    <2>2. CASE q # p
      BY <1>5, <1>7, <2>2 DEF IssueInv, Sounds
    <2> QED
      BY <2>1, <2>2
  <1>10. \A h \in Goroutine : Spared(h)
    <2> SUFFICES ASSUME NEW h \in Goroutine, NEW q \in PayloadId,
                        CallOwns(h, q) \/ \E i, j \in Nat : KidOwns(h, i, j, q)
                 PROVE  /\ base'[q] = base[q] /\ issues'[q] = issues[q]
                        /\ aborted'[q] = aborted[q] /\ build'[q] = build[q]
      BY DEF Spared
    <2>1. pool[q] = 0
      BY DEF Inv, Own
    <2> QED
      BY <1>2, <1>5, <1>7, <2>1
  <1>11. PICK new : new = NewFrame(Root, p)
    OBVIOUS
  <1>12. stack'[g] = <<new>> /\ \A h \in Goroutine : h # g => stack'[h] = stack[h]
    BY <1>1, <1>3, <1>11
  <1>13. ASSUME NEW i \in Nat, NEW f, FrameAt(g, i, f)'
         PROVE  i = 1 /\ Len(stack'[g]) = 1 /\ FrameOK(f)'
    <2>1. i = 1 /\ Len(stack'[g]) = 1 /\ f = new
      BY <1>12, <1>13, SingleIsSeq DEF FrameAt
    <2>2. new.pc = "enter" /\ new.p = p /\ new.marks = <<>>
      BY <1>11 DEF NewFrame
    <2>3. FrameOK(f)'
      BY <1>7, <2>1, <2>2 DEF FrameOK, OneChild, Beside
    <2> QED
      BY <2>1, <2>3
  <1> QED
    BY <1>2, <1>8, <1>9, <1>10, <1>12, <1>13, CallIssues

\* A call ends: what the calls of the others hold is not what it gives back.
LEMMA EndIssues ==
  ASSUME Inv, IssueInv, NEW g \in Goroutine, UNCHANGED <<base, graph, build>>,
         stack' = [stack EXCEPT ![g] = <<>>], issues' = [q \in PayloadId |-> issues'[q]],
         \A q \in PayloadId : pool'[q] = 0 => issues'[q] = issues[q] /\ pool[q] = 0,
         \A q \in PayloadId :
           \/ issues'[q] = issues[q] /\ aborted'[q] = aborted[q]
           \/ CallOwns(g, q) \/ \E i, j \in Nat : KidOwns(g, i, j, q)
  PROVE  IssueInv'
  <1>1. Fields'
    BY DEF IssueInv, Fields
  <1>2. Sounds'
    BY DEF IssueInv, Sounds
  <1>3. \A h \in Goroutine : h # g => Spared(h)
    BY DEF Spared, Inv, Own
  <1>4. stack'[g] = <<>> /\ \A h \in Goroutine : h # g => stack'[h] = stack[h]
    BY DEF Inv, Types
  <1>5. \A i \in Nat : \A f : ~FrameAt(g, i, f)'
    BY <1>4, NilIsSeq DEF FrameAt
  <1> QED
    BY <1>1, <1>2, <1>3, <1>4, <1>5, CallIssues

LEMMA FinishIssues ==
  ASSUME Inv, IssueInv, NEW g \in Goroutine, FinishCall(g)
  PROVE  IssueInv'
  <1>1. PICK p : p = call[g].p
    OBVIOUS
  <1>2. ReleaseAll(<<p>>, value, issues, aborted) /\ UNCHANGED <<base, graph, stack, build>>
    BY <1>1 DEF FinishCall
  <1>3. call[g].busy /\ stack[g] = <<>>
    BY DEF FinishCall
  <1>4. stack' = [stack EXCEPT ![g] = <<>>]
    BY <1>2, <1>3 DEF Inv, Types
  <1>5. issues' = issues /\ issues = [q \in PayloadId |-> issues[q]]
    BY <1>2 DEF ReleaseAll, IssueInv, Fields
  <1>6. Range(<<p>>) = {p} /\ DOMAIN <<p>> = {1}
    BY DEF Range
  <1>7. \A q \in PayloadId : pool'[q] = 0 => pool[q] = 0
    <2> SUFFICES ASSUME NEW q \in PayloadId, pool'[q] = 0 PROVE pool[q] = 0
      OBVIOUS
    <2> DEFINE S == {i \in DOMAIN <<p>> : <<p>>[i] = q}
    <2>1. pool'[q] = pool[q] + Cardinality(S)
      BY <1>2 DEF ReleaseAll
    <2>2. IsFiniteSet(S)
      <3>1. S \subseteq {1}
        BY <1>6
      <3> QED
        BY <3>1, FS_Singleton, FS_Subset
    <2>3. pool[q] \in Nat
      BY DEF Inv, Types
    <2> HIDE DEF S
    <2>4. Cardinality(S) \in Nat
      BY <2>2, FS_CardinalityType
    <2> QED
      BY <2>1, <2>3, <2>4
  <1>8. \A q \in PayloadId : aborted'[q] = aborted[q] \/ CallOwns(g, q)
    BY <1>1, <1>2, <1>3, <1>6 DEF ReleaseAll, Zeroed, CallOwns
  <1>9. /\ \A q \in PayloadId : pool'[q] = 0 => issues'[q] = issues[q] /\ pool[q] = 0
        /\ \A q \in PayloadId : \/ issues'[q] = issues[q] /\ aborted'[q] = aborted[q]
                                \/ CallOwns(g, q) \/ \E i, j \in Nat : KidOwns(g, i, j, q)
        /\ issues' = [q \in PayloadId |-> issues'[q]]
    BY <1>5, <1>7, <1>8
  <1>10. UNCHANGED <<base, graph, build>>
    BY <1>2
  <1> QED
    BY <1>4, <1>9, <1>10, EndIssues

LEMMA PanicIssues ==
  ASSUME Inv, IssueInv, NEW g \in Goroutine, Panic(g)
  PROVE  IssueInv'
  <1>1. Types /\ call[g].busy
    BY DEF Inv, Panic
  <1>2. \A q \in PayloadId :
          q \in Held(g) <=> CallOwns(g, q) \/ \E i, j \in Nat : KidOwns(g, i, j, q)
    BY <1>1, HeldIs
  <1>3. /\ \A q \in PayloadId : pool'[q] = IF q \in Held(g) THEN 1 ELSE pool[q]
        /\ \A q \in PayloadId : issues'[q] = IF q \in Held(g) THEN <<>> ELSE issues[q]
        /\ \A q \in PayloadId : aborted'[q] = IF q \in Held(g) THEN FALSE ELSE aborted[q]
        /\ issues' = [q \in PayloadId |-> issues'[q]]
    BY DEF Panic, Zeroed
  <1>4. /\ stack' = [stack EXCEPT ![g] = <<>>]
        /\ UNCHANGED <<base, graph, build>>
    BY DEF Panic
  <1>5. \A q \in PayloadId : pool'[q] = 0 => issues'[q] = issues[q] /\ pool[q] = 0
    BY <1>3
  <1>6. \A q \in PayloadId : \/ issues'[q] = issues[q] /\ aborted'[q] = aborted[q]
                           \/ CallOwns(g, q) \/ \E i, j \in Nat : KidOwns(g, i, j, q)
    BY <1>2, <1>3, Zenon
  <1> QED
    BY <1>3, <1>4, <1>5, <1>6, EndIssues

LEMMA InitIssues == Init => IssueInv
  <1> SUFFICES ASSUME Init PROVE IssueInv
    OBVIOUS
  <1>1. Fields
    BY DEF Init, PayloadInit, Fields
  <1>2. \A g \in Goroutine : stack[g] = <<>> /\ Len(stack[g]) = 0
    BY EmptySeq DEF Init
  <1>3. \A g \in Goroutine, i \in Nat : \A f : ~FrameAt(g, i, f)
    BY <1>2 DEF FrameAt
  <1>4. Sounds
    BY DEF Init, PayloadInit, Sounds
  <1> QED
    BY <1>1, <1>3, <1>4 DEF IssueInv, FramesOK, Apart

\* A step that changes nothing.
LEMMA StutterIssues == ASSUME IssueInv, UNCHANGED vars PROVE IssueInv'
  <1>1. UNCHANGED <<issues, aborted, pool, base, graph, stack, build>>
    BY DEF vars
  <1>2. \A g \in Goroutine, i \in Nat : \A f : FrameAt(g, i, f)' <=> FrameAt(g, i, f)
    BY <1>1 DEF FrameAt
  <1>3. \A f : FrameOK(f)' <=> FrameOK(f)
    BY <1>1 DEF FrameOK, Noted, ChildPlace
  <1>4. FramesOK'
    BY <1>2, <1>3 DEF IssueInv, FramesOK
  <1>5. Apart'
    BY <1>1, <1>2 DEF IssueInv, Apart
  <1>6. Fields' /\ Sounds'
    BY <1>1 DEF IssueInv, Fields, Sounds
  <1> QED
    BY <1>4, <1>5, <1>6 DEF IssueInv

\* In every state the issues of the payloads in use are sound, every frame is as
\* its parse function left it, and the frames below the running one wait.
THEOREM IssueInvariance == Spec => [](Inv /\ IssueInv)
  <1>1. Inv /\ IssueInv /\ [Next]_vars => IssueInv'
    <2> SUFFICES ASSUME Inv, IssueInv, [Next]_vars PROVE IssueInv'
      OBVIOUS
    <2>1. CASE UNCHANGED vars
      BY <2>1, StutterIssues
    <2>2. CASE \E g \in Goroutine : StartCall(g) \/ FinishCall(g) \/ Panic(g) \/ Step(g)
      BY <2>2, StartIssues, FinishIssues, PanicIssues, StepIssues
    <2>3. CASE Finished
      BY <2>1, <2>3 DEF Finished
    <2> QED
      BY <2>1, <2>2, <2>3 DEF Next
  <1>2. Init => IssueInv
    BY InitIssues
  <1> QED
    BY <1>1, <1>2, Invariance, PTL DEF Spec

-----------------------------------------------------------------------------
(* The properties of Engine. *)

\* A schema is entered with a payload that carries no issue yet: what the
\* first lines of every parse function take for granted when a schema hands
\* its own payload on.
THEOREM CleanEntryHolds == Spec => []CleanEntry
  <1>1. Inv /\ IssueInv => CleanEntry
    <2> SUFFICES ASSUME Inv, IssueInv, NEW g \in Goroutine, Running(g), Top(g).pc = "enter"
                 PROVE  issues[Top(g).p] = <<>>
      BY DEF CleanEntry
    <2>1. FrameOK(Top(g))
      BY TopHolds DEF Running
    <2> QED
      BY <2>1 DEF FrameOK
  <1> QED
    BY <1>1, IssueInvariance, PTL

\* The flag runChecks keeps from check to check is what isAborted would
\* compute from all the issues of the payload.
THEOREM AbortFlagHolds == Spec => []AbortFlag
  <1>1. Inv /\ IssueInv => AbortFlag
    <2> SUFFICES ASSUME Inv, IssueInv, NEW g \in Goroutine, Running(g), Top(g).pc = "checks"
                 PROVE  Top(g).flag = AbortedFrom(aborted[Top(g).p], issues[Top(g).p], 0)
      BY DEF AbortFlag
    <2>1. FrameOK(Top(g))
      BY TopHolds DEF Running
    <2> QED
      BY <2>1 DEF FrameOK
  <1> QED
    BY <1>1, IssueInvariance, PTL

\* The path of every issue leads from the payload's value to the value the
\* issue was raised at, for every payload a call holds, if mergeValues returns
\* a path.
THEOREM PathsResolveHolds ==
  ASSUME MergesArePaths
  PROVE  Spec => []PathsResolve
  <1>1. Inv /\ IssueInv => PathsResolve
    <2> SUFFICES ASSUME Inv, IssueInv, NEW g \in Goroutine, call[g].busy,
                        NEW p \in Held(g), NEW i \in DOMAIN issues[p]
                 PROVE  base[p] \o issues[p][i].path = issues[p][i].at
      BY DEF PathsResolve
    <2>1. /\ p \in PayloadId
          /\ CallOwns(g, p) \/ \E k, j \in Nat : KidOwns(g, k, j, p)
      BY HeldIs DEF Inv
    <2>2. pool[p] = 0
      BY <2>1 DEF Inv, Own
    <2>3. SoundList(base[p], issues[p])
      BY <2>1, <2>2 DEF IssueInv, Sounds
    <2>4. i \in 1 .. Len(issues[p])
      BY <2>3, SeqFacts DEF SoundList
    <2> QED
      BY <2>3, <2>4 DEF SoundList, AllPlaced, Placed
  <1> QED
    BY <1>1, IssueInvariance, PTL
=============================================================================
