--------------------------- MODULE RequestsProofs ---------------------------
(***************************************************************************)
(* Requests bound to schemas, proved for every request and every chain,    *)
(* for schemas that may decide anything, and for bodies of any length: a   *)
(* bind is not changed by what was read before it, the body is there for   *)
(* who reads it next, and a handler finds what its middlewares accepted.   *)
(* The numbers they carry, on their way to a field, are proved for every   *)
(* width of the integers and every precision of the floats.                *)
(***************************************************************************)
EXTENDS Requests, SequenceTheorems, WellFoundedInduction, TLAPS

-----------------------------------------------------------------------------
(* The inductive invariant. *)

\* Outcomes have no fixed type: what a schema returns may be anything.
IsSeq(s) == s \in Seq({s[i] : i \in 1 .. Len(s)})

\* The request and the chain are one of the handlings.
Sent == \E h \in Handlings : request = h.request /\ chain = h.chain

\* A step is taken when those before it were, and only its own outcome is new.
Progress ==
  /\ IsSeq(outcomes)
  /\ at \in 1 .. Len(Steps) + 1 /\ Len(outcomes) <= Len(Steps)
  /\ at <= Len(Steps) => at = Len(outcomes) + 1
  /\ cut \in 0 .. Len(outcomes)

Rest(tokens, k) == SubSeq(tokens, k + 1, Len(tokens))
IsRest(x, tokens) == \E k \in 0 .. Len(tokens) : x = Rest(tokens, k)
Unbroken(tokens) == \A i \in 1 .. Len(tokens) : tokens[i].kind # "broken"

\* What is left of the body, and what is cached of it.  As long as no bind took a
\* part of it, the whole body is there, or it is cached and was read to its end.
Bodies ==
  /\ body = None <=> request.body = None
  /\ body # None => IsRest(body, request.body)
  /\ cached # None => body # None /\ IsRest(cached, request.body)
  /\ cut = 0 /\ cached = None => body = request.body
  /\ cut = 0 /\ cached # None => cached = request.body /\ Unbroken(cached)

\* The context is aborted by a bind that failed, and by nothing else.
Aborts == aborted <=> \E n \in 1 .. Len(outcomes) : Steps[n].do \in Binds /\ ~outcomes[n].ok

\* The failures of a bind that did not get the body.
Missed == {"missing_body", "unsupported_type", "too_large", "could_not_read"}
Got(out) == out.ok \/ out.issues[1].code \notin Missed

\* A bind that got the body has cached it, and left it to the next step.
Restores ==
  \A n \in 1 .. Len(outcomes) :
    Steps[n].do = "json" /\ Got(outcomes[n]) =>
      cached # None /\ (n = Len(outcomes) => body = cached)

\* The middlewares that have run accepted the request, and each key holds what the
\* last middleware of that key made of the body.
Same(k, m) == {i \in 1 .. m : Steps[i].do = "json" /\ KeyOf(Steps[i].opts) = k}
Behind(m) == m \in 0 .. chain.middlewares /\ m = IF at > chain.middlewares THEN chain.middlewares ELSE at - 1
Keeps(m) ==
  /\ \A i \in 1 .. m : outcomes[i].ok
  /\ \A k : k \in DOMAIN ctx <=> Same(k, m) # {}
  /\ \A k \in DOMAIN ctx : ctx[k] = outcomes[Max(Same(k, m))].v
Stores == at <= Len(Steps) => \A m : Behind(m) => Keeps(m)

\* Who used a key after them got what it held, if it has the type asked for.
UseOK(n, k, j) ==
  /\ outcomes[n].ok \in BOOLEAN
  /\ \A i \in 1 .. j : i < n /\ outcomes[i].ok
  /\ Same(k, j) = {} => ~outcomes[n].ok
  /\ Same(k, j) # {} =>
       /\ outcomes[n].ok <=> (Steps[n].as = "any" \/ Steps[n].as = outcomes[Max(Same(k, j))].v.t)
       /\ outcomes[n].ok => outcomes[n].v = outcomes[Max(Same(k, j))].v
Uses ==
  \A n \in 1 .. Len(outcomes) :
    Steps[n].do = "use" => \A k, j : k = KeyOf(Steps[n].opts) /\ j = chain.middlewares => UseOK(n, k, j)

RInv ==
  /\ Sent /\ Progress /\ Bodies /\ Aborts /\ Restores /\ Stores
  /\ Uses /\ SameAsFirst /\ BodyRestored

-----------------------------------------------------------------------------
(* Sequences and sets of numbers. *)

\* A sequence is one of its own elements.
LEMMA SeqIsSeq == ASSUME NEW S, NEW s \in Seq(S) PROVE IsSeq(s)
  <1>1. Len(s) \in Nat /\ s \in [1 .. Len(s) -> S] /\ DOMAIN s = 1 .. Len(s)
    BY LenProperties
  <1>2. s \in [1 .. Len(s) -> {s[i] : i \in 1 .. Len(s)}]
    BY <1>1
  <1> QED
    BY <1>1, <1>2, SeqDef DEF IsSeq

\* A step appends its outcome.
LEMMA AppendAt ==
  ASSUME NEW s, IsSeq(s), NEW e
  PROVE  /\ IsSeq(Append(s, e)) /\ Len(s) \in Nat /\ Len(Append(s, e)) = Len(s) + 1
         /\ Append(s, e)[Len(s) + 1] = e
         /\ \A i \in 1 .. Len(s) : Append(s, e)[i] = s[i]
  <1> DEFINE S == {s[i] : i \in 1 .. Len(s)} \cup {e}
  <1>1. s \in Seq(S) /\ e \in S
    BY SeqMonotonic DEF IsSeq
  <1> HIDE DEF S
  <1>2. /\ Append(s, e) \in Seq(S) /\ Len(s) \in Nat /\ Len(Append(s, e)) = Len(s) + 1
        /\ \A i \in 1 .. Len(s) + 1 : Append(s, e)[i] = IF i = Len(s) + 1 THEN e ELSE s[i]
    BY <1>1, AppendProperties, LenProperties
  <1>3. IsSeq(Append(s, e))
    BY <1>2, SeqIsSeq
  <1> QED
    BY <1>2, <1>3

LEMMA NatWellFounded == IsWellFoundedOn({ss \in Nat \X Nat : ss[1] < ss[2]}, Nat)
  BY NatLessThanWellFounded, Zenon DEF OpToRel

\* A set of numbers has a least one, and a bounded one a greatest.
LEMMA MinIs ==
  ASSUME NEW T \in SUBSET Nat, T # {}
  PROVE  Min(T) \in T /\ \A m \in T : Min(T) <= m
  <1> DEFINE R == {ss \in Nat \X Nat : ss[1] < ss[2]}
  <1>1. IsWellFoundedOn(R, Nat)
    BY NatWellFounded
  <1>2. \A x, y \in Nat : y < x => <<y, x>> \in R
    OBVIOUS
  <1> HIDE DEF R
  <1>3. PICK x \in T : \A y \in T : ~(<<y, x>> \in R)
    BY <1>1, WFMin
  <1>4. ASSUME NEW y \in T PROVE x <= y
    <2>1. x \in Nat /\ y \in Nat /\ ~(y < x)
      BY <1>2, <1>3
    <2> QED
      BY <2>1
  <1> QED
    BY <1>4, Zenon DEF Min

LEMMA MaxIs ==
  ASSUME NEW n \in Nat, NEW T \in SUBSET (1 .. n), T # {}
  PROVE  Max(T) \in T /\ \A m \in T : m <= Max(T)
  <1> DEFINE U == {n - m : m \in T}
  <1>1. U \in SUBSET Nat /\ U # {}
    <2>1. \A m \in T : n - m \in Nat
      OBVIOUS
    <2> QED
      BY <2>1
  <1>2. Min(U) \in U /\ \A u \in U : Min(U) <= u
    BY <1>1, MinIs
  <1>3. PICK x \in T : Min(U) = n - x
    BY <1>2
  <1>4. \A m \in T : n - m \in U
    OBVIOUS
  <1>5. ASSUME NEW m \in T PROVE x >= m
    <2>1. n - x <= n - m
      BY <1>2, <1>3, <1>4
    <2>2. x \in Nat /\ m \in Nat
      OBVIOUS
    <2> QED
      BY <2>1, <2>2
  <1>6. \E y \in T : \A m \in T : y >= m
    BY <1>5
  <1>7. Max(T) \in T /\ \A m \in T : Max(T) >= m
    BY <1>6, Zenon DEF Max
  <1> QED
    BY <1>7

\* What is left of what is left.
LEMMA RestOfRest ==
  ASSUME NEW S, NEW s \in Seq(S), NEW t, IsRest(t, s), NEW u, IsRest(u, t)
  PROVE  IsRest(u, s) /\ t \in Seq(S) /\ u \in Seq(S)
  <1>1. PICK k \in 0 .. Len(s) : t = Rest(s, k)
    BY DEF IsRest
  <1>2. Len(s) \in Nat /\ \A i \in 1 .. Len(s) : s[i] \in S
    BY LenProperties, ElementOfSeq
  <1>3. /\ t \in Seq(S) /\ Len(t) = Len(s) - k
        /\ \A i \in 1 .. Len(s) - k : t[i] = s[k + i]
    BY <1>1, <1>2, SubSeqProperties, Z3 DEF Rest
  <1>4. PICK j \in 0 .. Len(t) : u = Rest(t, j)
    BY DEF IsRest
  <1>5. /\ u \in Seq(S) /\ Len(u) = Len(t) - j
        /\ \A i \in 1 .. Len(t) - j : u[i] = t[j + i]
    BY <1>2, <1>3, <1>4, SubSeqProperties, ElementOfSeq, Z3 DEF Rest
  <1> DEFINE v == Rest(s, k + j)
  <1>6. k + j \in 0 .. Len(s)
    BY <1>2, <1>3
  <1>7. /\ v \in Seq(S) /\ Len(v) = Len(s) - (k + j)
        /\ \A i \in 1 .. Len(s) - (k + j) : v[i] = s[k + j + i]
    BY <1>2, <1>6, SubSeqProperties, Z3 DEF Rest
  <1> HIDE DEF v
  <1>8. Len(u) = Len(v) /\ \A i \in 1 .. Len(u) : u[i] = v[i]
    BY <1>2, <1>3, <1>5, <1>7
  <1>9. u = v
    BY <1>5, <1>7, <1>8, SeqEqual
  <1> QED
    BY <1>3, <1>5, <1>6, <1>9 DEF IsRest, v

LEMMA WholeRest ==
  ASSUME NEW S, NEW s \in Seq(S)
  PROVE  IsRest(s, s)
  <1>1. Len(s) \in Nat
    BY LenProperties
  <1>2. Rest(s, 0) = s
    BY <1>1, SubSeqProperties, SeqEqual, LenProperties, ElementOfSeq DEF Rest
  <1> QED
    BY <1>1, <1>2 DEF IsRest

-----------------------------------------------------------------------------
(* What is known of a request and its chain. *)

IsBody(b) == b = None \/ b \in Seq(Tokens)

LEMMA SentFacts ==
  ASSUME Sent
  PROVE  /\ None \notin Seq(Tokens) /\ IsBody(request.body)
         /\ Len(Steps) \in Nat /\ chain.middlewares \in 0 .. Len(Steps)
         /\ \A n \in 1 .. chain.middlewares : Steps[n].do \in {"json", "drain"}
         /\ \A n \in 1 .. Len(Steps) : Steps[n].opts.maxBody \in Int
  <1>1. PICK h \in Handlings : request = h.request /\ chain = h.chain
    BY DEF Sent
  <1>2. IsBody(request.body)
    <2>1. CASE request.body = None
      BY <2>1 DEF IsBody
    <2>2. CASE request.body # None
      <3>1. request.body \in Seq(Range(request.body))
        BY <1>1, <2>2, HandlingsAssumption
      <3>2. Range(request.body) \subseteq Tokens
        BY <1>1, <2>2 DEF Tokens
      <3> QED
        BY <3>1, <3>2, SeqMonotonic DEF IsBody
    <2> QED
      BY <2>1, <2>2
  <1>3. Len(Steps) \in Nat
    <2>1. Steps \in Seq(Range(Steps))
      BY <1>1, HandlingsAssumption DEF Steps
    <2> QED
      BY <2>1, LenProperties
  <1> QED
    BY <1>1, <1>2, <1>3, HandlingsAssumption DEF Steps

LEMMA LimitFacts ==
  ASSUME NEW opts, opts.maxBody \in Int
  PROVE  Limit(opts) \in Int
  BY LimitsAssumption DEF Limit

-----------------------------------------------------------------------------
(* Reads of the body. *)

\* Tokens to the end of the body are read when none of them is broken and there
\* are not too many; what a failed read leaves is the rest of them.
LEMMA ReadAllFacts ==
  ASSUME NEW tokens \in Seq(Tokens), NEW limit \in Int,
         NEW read, read = ReadAll(tokens, limit)
  PROVE  /\ IsRest(read.left, tokens)
         /\ \/ read.raw = tokens /\ Unbroken(tokens)
            \/ read.raw = None /\ read.error \in {"too_large", "could_not_read"}
         /\ Unbroken(tokens) =>
              IF limit >= 0 /\ Len(tokens) > limit THEN read.raw = None /\ read.error = "too_large"
              ELSE read.raw = tokens
  <1>0. PICK stop, n : /\ stop = {i \in DOMAIN tokens : tokens[i].kind = "broken"}
                       /\ n = IF stop = {} THEN Len(tokens) ELSE Min(stop) - 1
    OBVIOUS
  <1>1. PICK len \in Nat : len = Len(tokens) /\ DOMAIN tokens = 1 .. len
    BY LenProperties
  <1>2. read = IF limit >= 0 /\ n > limit
               THEN [raw |-> None, left |-> SubSeq(tokens, limit + 2, len), error |-> "too_large"]
               ELSE IF stop # {}
               THEN [raw |-> None, left |-> SubSeq(tokens, n + 1, len), error |-> "could_not_read"]
               ELSE [raw |-> tokens, left |-> <<>>, error |-> "none"]
    BY <1>0, <1>1, Zenon DEF ReadAll
  <1>3. n \in 0 .. len
    <2>1. CASE stop # {}
      <3>1. stop \in SUBSET Nat /\ \A i \in stop : i \in 1 .. len
        BY <1>0, <1>1
      <3>2. Min(stop) \in stop
        BY <2>1, <3>1, MinIs
      <3>3. Min(stop) \in 1 .. len /\ n = Min(stop) - 1
        BY <1>0, <2>1, <3>1, <3>2
      <3> QED
        BY <3>3
    <2> QED
      BY <1>0, <1>1, <2>1
  <1>4. Unbroken(tokens) <=> stop = {}
    BY <1>0, <1>1 DEF Unbroken
  <1>5. stop = {} => n = len
    BY <1>0, <1>1
  <1>6. \A k \in 0 .. len : IsRest(SubSeq(tokens, k + 1, len), tokens)
    BY <1>1 DEF IsRest, Rest
  <1>7. CASE limit >= 0 /\ n > limit
    <2>1. limit + 1 \in 0 .. len /\ limit + 1 + 1 = limit + 2
      BY <1>3, <1>7
    <2>0. read = [raw |-> None, left |-> SubSeq(tokens, limit + 2, len), error |-> "too_large"]
      BY <1>2, <1>7, Zenon
    <2>2. read.raw = None /\ read.left = SubSeq(tokens, limit + 2, len) /\ read.error = "too_large"
      BY <2>0
    <2>3. IsRest(read.left, tokens)
      BY <1>6, <2>1, <2>2
    <2> QED
      BY <1>1, <1>4, <1>5, <1>7, <2>2, <2>3
  <1>8. CASE ~(limit >= 0 /\ n > limit) /\ stop # {}
    <2>0. read = [raw |-> None, left |-> SubSeq(tokens, n + 1, len), error |-> "could_not_read"]
      BY <1>2, <1>8, Zenon
    <2>1. read.raw = None /\ read.left = SubSeq(tokens, n + 1, len) /\ read.error = "could_not_read"
      BY <1>3, <2>0
    <2>2. IsRest(read.left, tokens)
      BY <1>3, <1>6, <2>1
    <2> QED
      BY <1>4, <1>8, <2>1, <2>2
  <1>9. CASE ~(limit >= 0 /\ n > limit) /\ stop = {}
    <2>0. read = [raw |-> tokens, left |-> <<>>, error |-> "none"]
      BY <1>2, <1>9, Zenon
    <2>1. read.raw = tokens /\ read.left = <<>>
      BY <2>0
    <2>2. SubSeq(tokens, len + 1, len) = <<>> /\ len \in 0 .. len
      BY SubSeqEmpty
    <2>3. IsRest(read.left, tokens)
      BY <1>6, <2>1, <2>2
    <2> QED
      BY <1>1, <1>4, <1>5, <1>9, <2>1, <2>3
  <1> QED
    BY <1>7, <1>8, <1>9

LEMMA ReadIs ==
  ASSUME NEW out, NEW cache, NEW left, NEW got, got = [out |-> out, cache |-> cache, left |-> left]
  PROVE  /\ got.out = out /\ got.cache = cache /\ got.left = left
         /\ got = [out |-> got.out, cache |-> got.cache, left |-> got.left]
  OBVIOUS

\* A read of the body misses it, and leaves what it did not take, or gets it
\* whole, cached and put back.
LEMMA ReadFacts ==
  ASSUME NEW r, NEW cache, NEW left, NEW opts, opts.maxBody \in Int,
         IsBody(cache), IsBody(left), cache # None => left # None,
         NEW got, got = ReadJSONBody(r, cache, left, opts)
  PROVE  /\ got = [out |-> got.out, cache |-> got.cache, left |-> got.left]
         /\ \/ /\ ~Got(got.out) /\ got.cache = cache
               /\ \/ got.left = left
                  \/ cache = None /\ left # None /\ IsRest(got.left, left)
            \/ /\ left # None /\ got.left = got.cache
               /\ got.cache = IF cache = None THEN left ELSE cache
               /\ cache = None => Unbroken(left)
  <1> DEFINE read == ReadAll(left, Limit(opts))
             raw == IF cache = None THEN read.raw ELSE cache
  <1>0. \A status : \A message \in Missed : ~Got(Failure(status, message))
    BY DEF Failure, Rejected, Leaf, Got
  <1>1. CASE left = None
    <2>1. got = [out |-> Failure(400, "missing_body"), cache |-> cache, left |-> left]
      BY <1>1 DEF ReadJSONBody
    <2>2. got.out = Failure(400, "missing_body") /\ got.cache = cache /\ got.left = left
      BY <2>1, ReadIs
    <2>3. ~Got(got.out)
      BY <1>0, <2>2 DEF Missed
    <2> QED
      BY <2>1, <2>2, <2>3, ReadIs
  <1>2. CASE left # None /\ ~opts.anyType /\ ~IsJSONContentType(r.contentType)
    <2>1. got = [out |-> Failure(415, "unsupported_type"), cache |-> cache, left |-> left]
      BY <1>2 DEF ReadJSONBody
    <2>2. got.out = Failure(415, "unsupported_type") /\ got.cache = cache /\ got.left = left
      BY <2>1, ReadIs
    <2>3. ~Got(got.out)
      BY <1>0, <2>2 DEF Missed
    <2> QED
      BY <2>1, <2>2, <2>3, ReadIs
  <1>3. CASE left # None /\ ~(~opts.anyType /\ ~IsJSONContentType(r.contentType))
    <2>1. got = IF raw = None
                THEN [out |-> Failure(IF read.error = "too_large" THEN 413 ELSE 400, read.error),
                      cache |-> None, left |-> read.left]
                ELSE IF Limit(opts) >= 0 /\ Len(raw) > Limit(opts)
                THEN [out |-> Failure(413, "too_large"), cache |-> raw, left |-> left]
                ELSE [out |-> Decoded(raw, opts), cache |-> raw, left |-> raw]
      BY <1>3 DEF ReadJSONBody
    <2>2. /\ IsRest(read.left, left)
          /\ \/ read.raw = left /\ Unbroken(left)
             \/ read.raw = None /\ read.error \in {"too_large", "could_not_read"}
          /\ Unbroken(left) => IF Limit(opts) >= 0 /\ Len(left) > Limit(opts) THEN read.raw = None
                               ELSE read.raw = left
      BY <1>3, LimitFacts, ReadAllFacts DEF IsBody
    <2> HIDE DEF read
    <2>3. CASE raw = None
      <3>1. cache = None /\ read.raw = None /\ read.error \in {"too_large", "could_not_read"}
        BY <1>3, <2>2, <2>3
      <3>2. got = [out |-> Failure(IF read.error = "too_large" THEN 413 ELSE 400, read.error),
                   cache |-> None, left |-> read.left]
        BY <2>1, <2>3, Zenon
      <3>3. /\ got.out = Failure(IF read.error = "too_large" THEN 413 ELSE 400, read.error)
            /\ got.cache = None /\ got.left = read.left
            /\ got = [out |-> got.out, cache |-> got.cache, left |-> got.left]
        BY <3>2, ReadIs
      <3>4. ~Got(got.out)
        BY <1>0, <3>1, <3>3 DEF Missed
      <3> QED
        BY <1>3, <2>2, <3>1, <3>3, <3>4
    <2>4. CASE raw # None /\ Limit(opts) >= 0 /\ Len(raw) > Limit(opts)
      <3>1. cache # None
        BY <1>3, <2>2, <2>4
      <3>2. got = [out |-> Failure(413, "too_large"), cache |-> cache, left |-> left]
        BY <2>1, <2>4, <3>1
      <3>3. got.out = Failure(413, "too_large") /\ got.cache = cache /\ got.left = left
        BY <3>2, ReadIs
      <3>4. ~Got(got.out)
        BY <1>0, <3>3 DEF Missed
      <3> QED
        BY <3>2, <3>3, <3>4, ReadIs
    <2>5. CASE raw # None /\ ~(Limit(opts) >= 0 /\ Len(raw) > Limit(opts))
      <3>1. got = [out |-> Decoded(raw, opts), cache |-> raw, left |-> raw]
        BY <2>1, <2>5
      <3>2. raw = (IF cache = None THEN left ELSE cache) /\ (cache = None => Unbroken(left))
        BY <1>3, <2>2, <2>5
      <3>3. got.cache = raw /\ got.left = raw /\ got = [out |-> got.out, cache |-> got.cache, left |-> got.left]
        BY <3>1, ReadIs
      <3> QED
        BY <1>3, <3>2, <3>3
    <2> QED
      BY <2>3, <2>4, <2>5
  <1> QED
    BY <1>1, <1>2, <1>3

\* So does a bind, whose verdict is the schema's when the read got a value.
LEMMA BoundFacts ==
  ASSUME NEW step, step.opts.maxBody \in Int, NEW r, NEW cache, NEW left,
         IsBody(cache), IsBody(left), cache # None => left # None,
         NEW got, got = ReadJSONBody(r, cache, left, step.opts),
         NEW bound, bound = BoundJSON(step, r, cache, left)
  PROVE  /\ bound.out = IF got.out.ok THEN Verdict(step.schema, got.out.v) ELSE got.out
         /\ \/ /\ ~Got(bound.out) /\ bound.cache = cache
               /\ \/ bound.left = left
                  \/ cache = None /\ left # None /\ IsRest(bound.left, left)
            \/ /\ left # None /\ bound.left = bound.cache
               /\ bound.cache = IF cache = None THEN left ELSE cache
               /\ cache = None => Unbroken(left)
  <1>1. /\ got = [out |-> got.out, cache |-> got.cache, left |-> got.left]
        /\ \/ /\ ~Got(got.out) /\ got.cache = cache
              /\ \/ got.left = left
                 \/ cache = None /\ left # None /\ IsRest(got.left, left)
           \/ /\ left # None /\ got.left = got.cache
              /\ got.cache = IF cache = None THEN left ELSE cache
              /\ cache = None => Unbroken(left)
    BY ReadFacts
  <1>2. bound = IF got.out.ok THEN [got EXCEPT !.out = Verdict(step.schema, got.out.v)] ELSE got
    BY Zenon DEF BoundJSON
  <1>3. CASE got.out.ok
    <2>1. /\ bound.out = Verdict(step.schema, got.out.v)
          /\ bound.cache = got.cache /\ bound.left = got.left
      BY <1>1, <1>2, <1>3
    <2>2. Got(got.out)
      BY <1>3 DEF Got
    <2> QED
      BY <1>1, <1>3, <2>1, <2>2
  <1>4. CASE ~got.out.ok
    BY <1>1, <1>2, <1>4
  <1> QED
    BY <1>3, <1>4

\* A read of a body that was read before comes to what the first one came to, or
\* would have come to under its limit.
LEMMA ReadAgain ==
  ASSUME NEW r, NEW tokens \in Seq(Tokens), Unbroken(tokens), None \notin Seq(Tokens),
         NEW left, left # None, NEW opts, opts.maxBody \in Int
  PROVE  ReadJSONBody(r, tokens, left, opts).out = ReadJSONBody(r, None, tokens, opts).out
  <1> DEFINE read == ReadAll(tokens, Limit(opts))
  <1>1. tokens # None
    OBVIOUS
  <1>2. IF Limit(opts) >= 0 /\ Len(tokens) > Limit(opts) THEN read.raw = None /\ read.error = "too_large"
        ELSE read.raw = tokens
    BY LimitFacts, ReadAllFacts
  <1> HIDE DEF read
  <1>3. CASE ~opts.anyType /\ ~IsJSONContentType(r.contentType)
    BY <1>1, <1>3 DEF ReadJSONBody
  <1>4. CASE ~(~opts.anyType /\ ~IsJSONContentType(r.contentType))
    <2>1. ReadJSONBody(r, tokens, left, opts) =
            IF Limit(opts) >= 0 /\ Len(tokens) > Limit(opts)
            THEN [out |-> Failure(413, "too_large"), cache |-> tokens, left |-> left]
            ELSE [out |-> Decoded(tokens, opts), cache |-> tokens, left |-> tokens]
      BY <1>1, <1>4 DEF ReadJSONBody
    <2>2. ReadJSONBody(r, None, tokens, opts) =
            IF read.raw = None
            THEN [out |-> Failure(IF read.error = "too_large" THEN 413 ELSE 400, read.error),
                  cache |-> None, left |-> read.left]
            ELSE IF Limit(opts) >= 0 /\ Len(read.raw) > Limit(opts)
            THEN [out |-> Failure(413, "too_large"), cache |-> read.raw, left |-> tokens]
            ELSE [out |-> Decoded(read.raw, opts), cache |-> read.raw, left |-> read.raw]
      BY <1>1, <1>4 DEF ReadJSONBody, read
    <2>3. CASE Limit(opts) >= 0 /\ Len(tokens) > Limit(opts)
      BY <1>2, <2>1, <2>2, <2>3
    <2>4. CASE ~(Limit(opts) >= 0 /\ Len(tokens) > Limit(opts))
      BY <1>1, <1>2, <2>1, <2>2, <2>4
    <2> QED
      BY <2>3, <2>4
  <1> QED
    BY <1>3, <1>4

-----------------------------------------------------------------------------
(* Steps. *)

\* What a step with an outcome does, whatever it is.
Takes(out) ==
  /\ at <= Len(Steps) /\ request' = request /\ chain' = chain
  /\ outcomes' = Append(outcomes, out)
  /\ at' \in {at + 1, Len(Steps) + 1}
  /\ at <= chain.middlewares /\ at' <= Len(Steps) => out.ok
  /\ aborted' <=> (aborted \/ (Here.do \in Binds /\ ~out.ok))
  /\ ctx' = IF at <= chain.middlewares /\ Here.do = "json" /\ out.ok
            THEN With(KeyOf(Here.opts), out.v) ELSE ctx
  /\ cut' = cut \/ (cut = 0 /\ cut' = at /\ cached = None)
  /\ cached # None => cached' = cached
  /\ Here.do = "json" /\ cut = 0 => out = FreshOutcome(at)
  /\ Here.do = "json" /\ Got(out) => cached' # None /\ body' = cached'
  /\ Here.do = "drain" => out.v.u = body
  /\ Here.do = "use" =>
       LET k == KeyOf(Here.opts)
       IN  out = IF k \in DOMAIN ctx /\ (Here.as = "any" \/ ctx[k].t = Here.as) THEN Accepted(ctx[k])
                 ELSE Rejected(0, <<>>)

LEMMA TakesProgress ==
  ASSUME RInv, NEW out, Takes(out)
  PROVE  /\ Sent' /\ Progress' /\ Steps' = Steps /\ chain' = chain
         /\ at \in 1 .. Len(Steps) /\ Len(outcomes) = at - 1 /\ Len(outcomes') = at
         /\ outcomes'[at] = out /\ \A n \in 1 .. at - 1 : outcomes'[n] = outcomes[n]
         /\ at' <= Len(Steps) => at' = at + 1
  <1>1. Sent' /\ Steps' = Steps /\ chain' = chain
    BY DEF RInv, Sent, Takes, Steps
  <1>2. /\ IsSeq(outcomes) /\ at \in 1 .. Len(Steps) /\ at = Len(outcomes) + 1
        /\ outcomes' = Append(outcomes, out) /\ cut \in 0 .. Len(outcomes) /\ cut' \in {cut, at}
        /\ at' \in {at + 1, Len(Steps) + 1} /\ Len(Steps) \in Nat
    BY SentFacts DEF RInv, Progress, Takes
  <1>3. /\ IsSeq(outcomes') /\ Len(outcomes) \in Nat /\ Len(outcomes') = Len(outcomes) + 1
        /\ outcomes'[Len(outcomes) + 1] = out
        /\ \A i \in 1 .. Len(outcomes) : outcomes'[i] = outcomes[i]
    BY <1>2, AppendAt
  <1>4. Progress'
    <2>1. IsSeq(outcomes)'
      BY <1>3 DEF IsSeq
    <2>2. /\ at' \in 1 .. Len(Steps) + 1 /\ Len(outcomes') <= Len(Steps)
          /\ at' <= Len(Steps) => at' = Len(outcomes') + 1
          /\ cut' \in 0 .. Len(outcomes')
      BY <1>2, <1>3
    <2> QED
      BY <1>1, <2>1, <2>2 DEF Progress
  <1> QED
    BY <1>1, <1>2, <1>3, <1>4

LEMMA TakesAborts ==
  ASSUME RInv, NEW out, Takes(out)
  PROVE  Aborts'
  <1>1. /\ Steps' = Steps /\ at \in 1 .. Len(Steps) /\ Len(outcomes) = at - 1 /\ Len(outcomes') = at
        /\ outcomes'[at] = out /\ \A n \in 1 .. at - 1 : outcomes'[n] = outcomes[n]
    BY TakesProgress
  <1>2. /\ aborted <=> \E n \in 1 .. at - 1 : Steps[n].do \in Binds /\ ~outcomes[n].ok
        /\ aborted' <=> (aborted \/ (Steps[at].do \in Binds /\ ~out.ok))
    BY <1>1 DEF RInv, Aborts, Takes, Here
  <1>3. \A n : n \in 1 .. at <=> (n \in 1 .. at - 1 \/ n = at)
    BY <1>1
  <1>4. aborted' <=> \E n \in 1 .. at : Steps[n].do \in Binds /\ ~outcomes'[n].ok
    BY <1>1, <1>2, <1>3, Zenon
  <1> QED
    BY <1>1, <1>4 DEF Aborts, Binds

LEMMA TakesSameAsFirst ==
  ASSUME RInv, NEW out, Takes(out)
  PROVE  SameAsFirst'
  <1>1. /\ Steps' = Steps /\ at \in 1 .. Len(Steps) /\ Len(outcomes) = at - 1 /\ Len(outcomes') = at
        /\ outcomes'[at] = out /\ \A n \in 1 .. at - 1 : outcomes'[n] = outcomes[n]
        /\ IsSeq(outcomes) /\ IsSeq(outcomes') /\ cut \in 0 .. at - 1
    BY TakesProgress DEF Progress, RInv, IsSeq
  <1>2. Done = 1 .. at - 1 /\ Done' = 1 .. at
    BY <1>1, LenProperties DEF Done, IsSeq
  <1>3. \A n : FreshOutcome(n)' = FreshOutcome(n)
    BY <1>1 DEF Takes, FreshOutcome
  <1> SUFFICES ASSUME NEW n \in 1 .. at, Steps[n].do = "json", cut' = 0 \/ cut' >= n
               PROVE  outcomes'[n] = FreshOutcome(n)
    BY <1>1, <1>2, <1>3 DEF SameAsFirst, Uncut
  <1>4. cut' = cut \/ (cut = 0 /\ cut' = at)
    BY DEF Takes
  <1>5. CASE n = at
    <2>1. cut = 0
      BY <1>1, <1>4, <1>5
    <2> QED
      BY <1>1, <1>5, <2>1 DEF Takes, Here
  <1>6. CASE n # at
    <2>1. n \in 1 .. at - 1 /\ (cut = 0 \/ cut >= n)
      BY <1>1, <1>4, <1>6
    <2> QED
      BY <1>1, <1>2, <2>1 DEF RInv, SameAsFirst, Uncut
  <1> QED
    BY <1>5, <1>6

LEMMA TakesRestores ==
  ASSUME RInv, NEW out, Takes(out)
  PROVE  Restores'
  <1>1. /\ Steps' = Steps /\ at \in 1 .. Len(Steps) /\ Len(outcomes) = at - 1 /\ Len(outcomes') = at
        /\ outcomes'[at] = out /\ \A n \in 1 .. at - 1 : outcomes'[n] = outcomes[n]
    BY TakesProgress
  <1> SUFFICES ASSUME NEW n \in 1 .. at, Steps[n].do = "json", Got(outcomes'[n])
               PROVE  cached' # None /\ (n = at => body' = cached')
    BY <1>1 DEF Restores, Got, Missed
  <1>2. CASE n = at
    BY <1>1, <1>2 DEF Takes, Here
  <1>3. CASE n # at
    <2>1. n \in 1 .. at - 1
      BY <1>1, <1>3
    <2> QED
      BY <1>1, <1>3, <2>1 DEF RInv, Restores, Takes
  <1> QED
    BY <1>2, <1>3

LEMMA TakesBodyRestored ==
  ASSUME RInv, NEW out, Takes(out)
  PROVE  BodyRestored'
  <1>1. /\ Steps' = Steps /\ at \in 1 .. Len(Steps) /\ Len(outcomes) = at - 1 /\ Len(outcomes') = at
        /\ outcomes'[at] = out /\ \A n \in 1 .. at - 1 : outcomes'[n] = outcomes[n]
        /\ IsSeq(outcomes) /\ IsSeq(outcomes') /\ cut \in 0 .. at - 1
    BY TakesProgress DEF Progress, RInv, IsSeq
  <1>2. Done = 1 .. at - 1 /\ Done' = 1 .. at
    BY <1>1, LenProperties DEF Done, IsSeq
  <1> SUFFICES ASSUME NEW n \in 1 .. at, n > 1, Steps[n].do = "drain", Steps[n - 1].do = "json",
                      Got(outcomes'[n - 1])
               PROVE  /\ outcomes'[n].v.u = cached'
                      /\ cut' = 0 \/ cut' >= n => cached' = request'.body
    BY <1>1, <1>2 DEF BodyRestored, Uncut, Got, Missed
  <1>3. n - 1 \in 1 .. at - 1 /\ Got(outcomes[n - 1])
    BY <1>1 DEF Got
  <1>4. cached # None /\ (n = at => body = cached)
    BY <1>1, <1>3 DEF RInv, Restores
  <1>5. cached' = cached /\ cut' = cut /\ request' = request
    BY <1>4 DEF Takes
  <1>6. CASE n = at
    <2>1. cut = 0 => cached = request.body
      BY <1>4 DEF RInv, Bodies
    <2>2. out.v.u = body
      BY <1>6 DEF Takes, Here
    <2> QED
      BY <1>1, <1>4, <1>5, <1>6, <2>1, <2>2
  <1>7. CASE n # at
    <2>1. n \in 1 .. at - 1 /\ outcomes'[n] = outcomes[n]
      BY <1>1, <1>7
    <2>2. outcomes[n].v.u = cached /\ (cut = 0 \/ cut >= n => cached = request.body)
      BY <1>2, <1>3, <2>1 DEF RInv, BodyRestored, Uncut, Got, Missed
    <2> QED
      BY <1>5, <2>1, <2>2
  <1> QED
    BY <1>6, <1>7

\* The binds of a key among the middlewares.
LEMMA SameFacts ==
  ASSUME NEW m \in Nat, NEW k
  PROVE  /\ Same(k, m) \in SUBSET (1 .. m)
         /\ Same(k, m) # {} => Max(Same(k, m)) \in Same(k, m)
         /\ \A i \in Same(k, m) : Steps[i].do = "json"
  <1>1. Same(k, m) \in SUBSET (1 .. m) /\ \A i \in Same(k, m) : Steps[i].do = "json"
    BY DEF Same
  <1> QED
    BY <1>1, MaxIs

LEMMA SameNext ==
  ASSUME NEW m \in Nat, NEW k
  PROVE  IF Steps[m + 1].do = "json" /\ KeyOf(Steps[m + 1].opts) = k
         THEN Same(k, m + 1) # {} /\ Max(Same(k, m + 1)) = m + 1
         ELSE Same(k, m + 1) = Same(k, m)
  <1>1. \A i : i \in 1 .. m + 1 <=> (i \in 1 .. m \/ i = m + 1)
    OBVIOUS
  <1>2. CASE Steps[m + 1].do = "json" /\ KeyOf(Steps[m + 1].opts) = k
    <2>1. m + 1 \in Same(k, m + 1) /\ Same(k, m + 1) \in SUBSET (1 .. m + 1) /\ m + 1 \in Nat
      BY <1>2 DEF Same
    <2>2. Max(Same(k, m + 1)) \in 1 .. m + 1 /\ m + 1 <= Max(Same(k, m + 1))
      BY <2>1, MaxIs
    <2> QED
      BY <1>2, <2>1, <2>2
  <1>3. CASE ~(Steps[m + 1].do = "json" /\ KeyOf(Steps[m + 1].opts) = k)
    BY <1>1, <1>3, Zenon DEF Same
  <1> QED
    BY <1>2, <1>3

LEMMA TakesStores ==
  ASSUME RInv, NEW out, Takes(out)
  PROVE  Stores'
  <1>1. /\ Steps' = Steps /\ chain' = chain /\ at \in 1 .. Len(Steps) /\ Len(outcomes) = at - 1
        /\ Len(outcomes') = at
        /\ outcomes'[at] = out /\ \A n \in 1 .. at - 1 : outcomes'[n] = outcomes[n]
        /\ at' <= Len(Steps) => at' = at + 1
    BY TakesProgress
  <1>2. /\ chain.middlewares \in Nat /\ Len(Steps) \in Nat
        /\ \A n \in 1 .. chain.middlewares : Steps[n].do \in {"json", "drain"}
    BY SentFacts DEF RInv
  <1> SUFFICES ASSUME at' <= Len(Steps)', NEW m, Behind(m)' PROVE Keeps(m)'
    BY DEF Stores
  <1>3. /\ at' = at + 1 /\ m \in 0 .. chain.middlewares
        /\ m = IF at + 1 > chain.middlewares THEN chain.middlewares ELSE at
    BY <1>1 DEF Behind
  <1>4. \A k : \A j : Same(k, j)' = Same(k, j)
    BY <1>1, Zenon DEF Same
  <1>5. \A b : Behind(b) => Keeps(b)
    BY <1>1 DEF RInv, Stores
  <1>6. SUFFICES /\ \A i \in 1 .. m : outcomes'[i].ok
                 /\ \A k : k \in DOMAIN ctx' <=> Same(k, m) # {}
                 /\ \A k \in DOMAIN ctx' : ctx'[k] = outcomes'[Max(Same(k, m))].v
    BY <1>4 DEF Keeps
  <1>7. CASE at > chain.middlewares
    <2>1. m = chain.middlewares /\ m \in 0 .. at - 1 /\ Behind(m)
      BY <1>1, <1>2, <1>3, <1>7 DEF Behind
    <2>2. Keeps(m) /\ ctx' = ctx
      BY <1>1, <1>2, <1>5, <1>7, <2>1 DEF Takes
    <2>3. \A k : Same(k, m) # {} => Max(Same(k, m)) \in 1 .. at - 1
      <3>1. m \in Nat /\ \A i \in 1 .. m : i \in 1 .. at - 1
        BY <1>1, <2>1
      <3> QED
        BY <3>1, SameFacts
    <2> QED
      BY <1>1, <2>1, <2>2, <2>3 DEF Keeps
  <1>8. CASE at <= chain.middlewares
    <2> DEFINE b == at - 1
    <2>1. m = at /\ b \in Nat /\ b + 1 = at /\ Behind(b)
      BY <1>1, <1>2, <1>3, <1>8 DEF Behind
    <2>2. Keeps(b) /\ out.ok
      BY <1>1, <1>5, <1>8, <2>1 DEF Takes
    <2>3. \A k : Same(k, b) # {} => Max(Same(k, b)) \in 1 .. b
      BY <2>1, SameFacts
    <2>4. \A k : IF Steps[at].do = "json" /\ KeyOf(Steps[at].opts) = k
                 THEN Same(k, at) # {} /\ Max(Same(k, at)) = at
                 ELSE Same(k, at) = Same(k, b)
      BY <2>1, SameNext
    <2>5. \A i \in 1 .. b : outcomes'[i] = outcomes[i]
      BY <1>1
    <2> HIDE DEF b
    <2>6. \A i \in 1 .. m : outcomes'[i].ok
      <3>1. \A i \in 1 .. m : i \in 1 .. b \/ i = at
        BY <2>1
      <3> QED
        BY <1>1, <2>2, <2>5, <3>1 DEF Keeps
    <2>7. CASE Steps[at].do = "json"
      <3>1. PICK key : key = KeyOf(Steps[at].opts)
        OBVIOUS
      <3>2. ctx' = [k \in DOMAIN ctx \cup {key} |-> IF k = key THEN out.v ELSE ctx[k]]
        BY <1>8, <2>2, <2>7, <3>1 DEF Takes, With, Here
      <3>3. /\ DOMAIN ctx' = DOMAIN ctx \cup {key} /\ ctx'[key] = out.v
            /\ \A k \in DOMAIN ctx : k # key => ctx'[k] = ctx[k]
        BY <3>2
      <3> QED
        BY <1>1, <2>1, <2>2, <2>3, <2>4, <2>5, <2>6, <2>7, <3>1, <3>3 DEF Keeps
    <2>8. CASE Steps[at].do # "json"
      <3>1. ctx' = ctx
        BY <2>8 DEF Takes, Here
      <3> QED
        BY <1>1, <2>1, <2>2, <2>3, <2>4, <2>5, <2>6, <2>8, <3>1 DEF Keeps
    <2> QED
      BY <2>7, <2>8
  <1> QED
    BY <1>1, <1>2, <1>7, <1>8

LEMMA TakesUses ==
  ASSUME RInv, NEW out, Takes(out)
  PROVE  Uses'
  <1>1. /\ Steps' = Steps /\ chain' = chain /\ at \in 1 .. Len(Steps) /\ Len(outcomes) = at - 1
        /\ Len(outcomes') = at
        /\ outcomes'[at] = out /\ \A n \in 1 .. at - 1 : outcomes'[n] = outcomes[n]
    BY TakesProgress
  <1>2. chain.middlewares \in Nat /\ \A n \in 1 .. chain.middlewares : Steps[n].do \in {"json", "drain"}
    BY SentFacts DEF RInv
  <1>3. \A k : \A j : Same(k, j)' = Same(k, j)
    BY <1>1, Zenon DEF Same
  <1> SUFFICES ASSUME NEW n \in 1 .. at, Steps[n].do = "use",
                      NEW k, NEW j, k = KeyOf(Steps[n].opts), j = chain.middlewares
               PROVE  UseOK(n, k, j)'
    BY <1>1 DEF Uses
  <1>3a. SUFFICES
           /\ outcomes'[n].ok \in BOOLEAN
           /\ \A i \in 1 .. j : i < n /\ outcomes'[i].ok
           /\ Same(k, j) = {} => ~outcomes'[n].ok
           /\ Same(k, j) # {} =>
                /\ outcomes'[n].ok <=> (Steps[n].as = "any" \/ Steps[n].as = outcomes'[Max(Same(k, j))].v.t)
                /\ outcomes'[n].ok => outcomes'[n].v = outcomes'[Max(Same(k, j))].v
    <2>1. Same(k, j)' = Same(k, j) /\ Steps' = Steps
      BY <1>1, <1>3
    <2> QED
      BY <2>1, Zenon DEF UseOK
  <1>4. Same(k, j) # {} => Max(Same(k, j)) \in 1 .. j
    BY <1>2, SameFacts
  <1>5. CASE n # at
    <2>1. n \in 1 .. at - 1 /\ outcomes'[n] = outcomes[n]
      BY <1>1, <1>5
    <2>2. /\ outcomes[n].ok \in BOOLEAN
          /\ \A i \in 1 .. j : i < n /\ outcomes[i].ok
          /\ Same(k, j) = {} => ~outcomes[n].ok
          /\ Same(k, j) # {} =>
               /\ outcomes[n].ok <=> (Steps[n].as = "any" \/ Steps[n].as = outcomes[Max(Same(k, j))].v.t)
               /\ outcomes[n].ok => outcomes[n].v = outcomes[Max(Same(k, j))].v
      <3>1. n \in 1 .. Len(outcomes) /\ Uses
        BY <1>1, <2>1 DEF RInv
      <3>2. UseOK(n, k, j)
        BY <3>1, Zenon DEF Uses
      <3> QED
        BY <3>2, Zenon DEF UseOK
    <2>3. \A i \in 1 .. j : outcomes'[i] = outcomes[i]
      <3>1. \A i \in 1 .. j : i \in 1 .. at - 1
        BY <1>1, <1>2, <2>1, <2>2
      <3> QED
        BY <1>1, <3>1
    <2> QED
      BY <1>4, <2>1, <2>2, <2>3
  <1>6. CASE n = at
    <2>1. j \in 0 .. at - 1 /\ Behind(j)
      BY <1>1, <1>2, <1>6 DEF Behind
    <2>2. Keeps(j)
      BY <1>1, <2>1 DEF RInv, Stores
    <2>3. \A i \in 1 .. j : i < n /\ outcomes'[i] = outcomes[i]
      BY <1>1, <1>6, <2>1
    <2>4. out = IF k \in DOMAIN ctx /\ (Steps[at].as = "any" \/ ctx[k].t = Steps[at].as)
                THEN Accepted(ctx[k]) ELSE Rejected(0, <<>>)
      BY <1>6 DEF Takes, Here
    <2>5. Rejected(0, <<>>).ok = FALSE /\ \A w : Accepted(w).ok = TRUE /\ Accepted(w).v = w
      BY DEF Rejected, Accepted
    <2>6. /\ \A i \in 1 .. j : outcomes[i].ok
          /\ k \in DOMAIN ctx <=> Same(k, j) # {}
          /\ k \in DOMAIN ctx => ctx[k] = outcomes[Max(Same(k, j))].v
      BY <2>2 DEF Keeps
    <2>7. CASE Same(k, j) = {}
      <3>1. out = Rejected(0, <<>>)
        BY <2>4, <2>6, <2>7
      <3> QED
        BY <1>1, <1>6, <2>3, <2>5, <2>6, <2>7, <3>1
    <2>8. CASE Same(k, j) # {}
      <3>1. outcomes'[Max(Same(k, j))].v = ctx[k]
        BY <1>4, <2>3, <2>6, <2>8
      <3>2. /\ out.ok \in BOOLEAN
            /\ out.ok <=> Steps[at].as = "any" \/ Steps[at].as = ctx[k].t
            /\ out.ok => out.v = ctx[k]
        BY <2>4, <2>5, <2>6, <2>8, Zenon
      <3> QED
        BY <1>1, <1>6, <2>3, <2>6, <2>8, <3>1, <3>2
    <2> QED
      BY <2>7, <2>8
  <1> QED
    BY <1>5, <1>6

\* What a step with an outcome keeps.
LEMMA TakesInv ==
  ASSUME RInv, NEW out, Takes(out), Bodies'
  PROVE  RInv'
  BY TakesProgress, TakesAborts, TakesSameAsFirst, TakesRestores, TakesBodyRestored, TakesStores, TakesUses
     DEF RInv

-----------------------------------------------------------------------------
(* The actions. *)

\* Settle, when a middleware binds the body.
LEMMA SettleFacts ==
  ASSUME RInv, NEW out, at <= Len(Steps), Here.do \in Binds, Settle(out)
  PROVE  /\ outcomes' = Append(outcomes, out)
         /\ at' \in {at + 1, Len(Steps) + 1}
         /\ at <= chain.middlewares /\ at' <= Len(Steps) => out.ok
         /\ aborted' <=> (aborted \/ (Here.do \in Binds /\ ~out.ok))
         /\ ctx' = IF at <= chain.middlewares /\ Here.do = "json" /\ out.ok
                   THEN With(KeyOf(Here.opts), out.v) ELSE ctx
         /\ at \in 1 .. Len(Steps) /\ at = Len(outcomes) + 1 /\ cut \in 0 .. at - 1
  <1>1. /\ Len(Steps) \in Nat /\ chain.middlewares \in 0 .. Len(Steps)
        /\ \A n \in 1 .. chain.middlewares : Steps[n].do \in {"json", "drain"}
    BY SentFacts DEF RInv
  <1>2. at \in 1 .. Len(Steps) /\ at = Len(outcomes) + 1 /\ cut \in 0 .. at - 1
    BY <1>1, LenProperties DEF RInv, Progress, IsSeq
  <1>3. at <= chain.middlewares => Here.do = "json"
    BY <1>1, <1>2 DEF Here, Binds
  <1>4. /\ outcomes' = Append(outcomes, out) /\ (aborted' <=> aborted \/ ~out.ok)
        /\ ctx' = IF out.ok /\ at <= chain.middlewares THEN With(KeyOf(Here.opts), out.v) ELSE ctx
        /\ at' = IF out.ok \/ (at > chain.middlewares /\ Here.goOn) THEN at + 1 ELSE Len(Steps) + 1
    BY DEF Settle, Proceed
  <1>5. at' \in {at + 1, Len(Steps) + 1}
    BY <1>4
  <1>6. at <= chain.middlewares /\ at' <= Len(Steps) => out.ok
    BY <1>1, <1>2, <1>4
  <1>7. ctx' = IF at <= chain.middlewares /\ Here.do = "json" /\ out.ok
               THEN With(KeyOf(Here.opts), out.v) ELSE ctx
    BY <1>3, <1>4
  <1> QED
    BY <1>2, <1>4, <1>5, <1>6, <1>7

\* A part of the request that is no body is bound, or a value is parsed.
LEMMA PartTakes ==
  ASSUME RInv, at <= Len(Steps), Here.do \in {"query", "uri", "value"}, NEW out, Settle(out),
         UNCHANGED <<request, chain, body, cached, cut>>
  PROVE  RInv'
  <1>1. Here.do \in Binds /\ Here.do # "json" /\ Here.do # "drain" /\ Here.do # "use"
    BY DEF Binds
  <1>2. Takes(out)
    BY <1>1, SettleFacts DEF Takes
  <1>3. Bodies'
    BY DEF RInv, Bodies, IsRest, Rest, Unbroken
  <1> QED
    BY <1>2, <1>3, TakesInv

LEMMA BodiesAre ==
  ASSUME RInv
  PROVE  /\ IsBody(cached) /\ IsBody(body) /\ IsBody(request.body) /\ None \notin Seq(Tokens)
         /\ body # None => request.body \in Seq(Tokens) /\ body \in Seq(Tokens)
         /\ cached # None => body # None /\ cached \in Seq(Tokens)
  <1>1. IsBody(request.body) /\ None \notin Seq(Tokens)
    BY SentFacts DEF RInv
  <1>2. /\ body = None <=> request.body = None
        /\ body # None => IsRest(body, request.body)
        /\ cached # None => body # None /\ IsRest(cached, request.body)
    BY DEF RInv, Bodies
  <1>3. ASSUME NEW s \in Seq(Tokens), NEW t, IsRest(t, s) PROVE t \in Seq(Tokens)
    BY <1>3, WholeRest, RestOfRest
  <1> QED
    BY <1>1, <1>2, <1>3 DEF IsBody

\* A bind comes to what it would have come to as the first one.
LEMMA FreshBound ==
  ASSUME RInv, cut = 0, NEW step, step.opts.maxBody \in Int
  PROVE  BoundJSON(step, request, cached, body).out = BoundJSON(step, request, None, request.body).out
  <1>1. CASE cached = None
    <2>1. body = request.body
      BY <1>1 DEF RInv, Bodies
    <2> QED
      BY <1>1, <2>1
  <1>2. CASE cached # None
    <2>1. /\ cached = request.body /\ Unbroken(cached) /\ body # None
          /\ cached \in Seq(Tokens) /\ None \notin Seq(Tokens)
      BY <1>2, BodiesAre DEF RInv, Bodies
    <2>2. PICK got : got = ReadJSONBody(request, cached, body, step.opts)
      OBVIOUS
    <2>3. PICK first : first = ReadJSONBody(request, None, cached, step.opts)
      OBVIOUS
    <2>4. got.out = first.out
      BY <2>1, <2>2, <2>3, ReadAgain
    <2>5. BoundJSON(step, request, cached, body).out =
            IF got.out.ok THEN Verdict(step.schema, got.out.v) ELSE got.out
      BY <2>1, <2>2, BodiesAre, BoundFacts
    <2>6. BoundJSON(step, request, None, cached).out =
            IF first.out.ok THEN Verdict(step.schema, first.out.v) ELSE first.out
      BY <2>1, <2>3, BoundFacts DEF IsBody
    <2> QED
      BY <2>1, <2>4, <2>5, <2>6
  <1> QED
    BY <1>1, <1>2

LEMMA BindJSONInv ==
  ASSUME RInv, BindJSON
  PROVE  RInv'
  <1>1. PICK bound : bound = BoundJSON(Here, request, cached, body)
    OBVIOUS
  <1>2. /\ at <= Len(Steps) /\ Here.do = "json" /\ Settle(bound.out)
        /\ cached' = bound.cache /\ body' = bound.left
        /\ cut' = IF cut = 0 /\ bound.cache = None /\ bound.left # body THEN at ELSE cut
        /\ request' = request /\ chain' = chain
    BY <1>1 DEF BindJSON
  <1>3. /\ at \in 1 .. Len(Steps) /\ cut \in 0 .. at - 1 /\ Here.do \in Binds
        /\ outcomes' = Append(outcomes, bound.out)
        /\ at' \in {at + 1, Len(Steps) + 1}
        /\ at <= chain.middlewares /\ at' <= Len(Steps) => bound.out.ok
        /\ aborted' <=> (aborted \/ (Here.do \in Binds /\ ~bound.out.ok))
        /\ ctx' = IF at <= chain.middlewares /\ Here.do = "json" /\ bound.out.ok
                  THEN With(KeyOf(Here.opts), bound.out.v) ELSE ctx
    <2>1. Here.do \in Binds
      BY <1>2 DEF Binds
    <2> QED
      BY <1>2, <2>1, SettleFacts
  <1>4. Here.opts.maxBody \in Int
    BY <1>3, SentFacts DEF RInv, Here
  <1>5. \/ /\ ~Got(bound.out) /\ cached' = cached
           /\ \/ body' = body
              \/ cached = None /\ body # None /\ IsRest(body', body)
        \/ /\ body # None /\ body' = cached'
           /\ cached' = IF cached = None THEN body ELSE cached
           /\ cached = None => Unbroken(body)
    <2>1. PICK got : got = ReadJSONBody(request, cached, body, Here.opts)
      OBVIOUS
    <2> QED
      BY <1>1, <1>2, <1>4, <2>1, BodiesAre, BoundFacts
  <1>6. cut = 0 => bound.out = FreshOutcome(at)
    BY <1>1, <1>4, FreshBound DEF FreshOutcome, Here
  <1>7. cut' = cut \/ (cut = 0 /\ cut' = at /\ cached = None)
    BY <1>2, <1>5, BodiesAre
  <1>8. Takes(bound.out)
    BY <1>2, <1>3, <1>5, <1>6, <1>7, BodiesAre DEF Takes
  <1>9. Bodies'
    <2>0. /\ body = None <=> request.body = None
          /\ body # None => IsRest(body, request.body)
          /\ cached # None => body # None /\ IsRest(cached, request.body)
          /\ cut = 0 /\ cached = None => body = request.body
          /\ cut = 0 /\ cached # None => cached = request.body /\ Unbroken(cached)
      BY DEF RInv, Bodies
    <2> SUFFICES
          /\ body' = None <=> request.body = None
          /\ body' # None => IsRest(body', request.body)
          /\ cached' # None => body' # None /\ IsRest(cached', request.body)
          /\ cut' = 0 /\ cached' = None => body' = request.body
          /\ cut' = 0 /\ cached' # None => cached' = request.body /\ Unbroken(cached')
      BY <1>2 DEF Bodies, IsRest, Rest, Unbroken
    <2>1. CASE cached' = cached /\ body' = body
      BY <1>7, <1>3, <2>0, <2>1
    <2>2. CASE cached' = cached /\ cached = None /\ body # None /\ IsRest(body', body) /\ body' # body
      <3>1. IsRest(body', request.body) /\ body' \in Seq(Tokens)
        BY <2>0, <2>2, BodiesAre, RestOfRest
      <3>2. cut' # 0
        BY <1>2, <1>3, <2>2
      <3> QED
        BY <2>0, <2>2, <3>1, <3>2, BodiesAre
    <2>3. CASE /\ body # None /\ body' = cached'
               /\ cached' = IF cached = None THEN body ELSE cached
               /\ cached = None => Unbroken(body)
      <3>1. cached' # None /\ IsRest(cached', request.body) /\ cut' = cut
        BY <1>2, <2>0, <2>3
      <3> QED
        BY <2>0, <2>3, <3>1
    <2> QED
      BY <1>5, <2>1, <2>2, <2>3
  <1> QED
    BY <1>8, <1>9, TakesInv

LEMMA DrainInv ==
  ASSUME RInv, Drain
  PROVE  RInv'
  <1>1. PICK out : out = Accepted([t |-> "drained", u |-> body])
    OBVIOUS
  <1>2. /\ out.v.u = body /\ out.ok
        /\ Here.do = "drain" /\ Here.do \notin Binds
    BY <1>1 DEF Accepted, Drain, Binds
  <1>3. /\ at \in 1 .. Len(Steps) /\ Len(Steps) \in Nat /\ cut \in 0 .. at - 1
    BY SentFacts, LenProperties DEF RInv, Progress, IsSeq, Drain
  <1>4. /\ at <= Len(Steps) /\ request' = request /\ chain' = chain /\ outcomes' = Append(outcomes, out)
        /\ body' = IF body = None THEN None ELSE <<>>
        /\ cut' = IF cut = 0 /\ cached = None /\ body' # body THEN at ELSE cut
        /\ at' = at + 1 /\ cached' = cached /\ ctx' = ctx /\ aborted' = aborted
    BY <1>1 DEF Drain
  <1>5. Takes(out)
    BY <1>2, <1>4 DEF Takes
  <1>6. Bodies'
    <2>0. /\ body = None <=> request.body = None
          /\ body # None => IsRest(body, request.body)
          /\ cached # None => body # None /\ IsRest(cached, request.body)
          /\ cut = 0 /\ cached = None => body = request.body
          /\ cut = 0 /\ cached # None => cached = request.body /\ Unbroken(cached)
      BY DEF RInv, Bodies
    <2> SUFFICES
          /\ body' = None <=> request.body = None
          /\ body' # None => IsRest(body', request.body)
          /\ cached' # None => body' # None /\ IsRest(cached', request.body)
          /\ cut' = 0 /\ cached' = None => body' = request.body
          /\ cut' = 0 /\ cached' # None => cached' = request.body /\ Unbroken(cached')
      BY <1>4 DEF Bodies, IsRest, Rest, Unbroken
    <2>1. CASE body' = body
      BY <1>4, <2>0, <2>1
    <2>2. CASE body' # body
      <3>1. body # None /\ body' = <<>> /\ request.body \in Seq(Tokens) /\ <<>> # None
        <4>1. <<>> \in Seq(Tokens)
          BY EmptySeq
        <4> QED
          BY <1>4, <2>2, <4>1, BodiesAre
      <3>2. IsRest(<<>>, request.body)
        <4>1. Len(request.body) \in Nat
          BY <3>1, LenProperties
        <4>2. Rest(request.body, Len(request.body)) = <<>> /\ Len(request.body) \in 0 .. Len(request.body)
          BY <4>1, SubSeqEmpty DEF Rest
        <4> QED
          BY <4>2 DEF IsRest
      <3>3. cached = None => cut' # 0
        BY <1>3, <1>4, <2>2
      <3>4. cached # None => cut' = cut
        BY <1>4
      <3> QED
        BY <1>4, <2>0, <3>1, <3>2, <3>3, <3>4
    <2> QED
      BY <2>1, <2>2
  <1> QED
    BY <1>5, <1>6, TakesInv

LEMMA UseInv ==
  ASSUME RInv, Use
  PROVE  RInv'
  <1> DEFINE k == KeyOf(Here.opts)
  <1>1. PICK out : out = IF k \in DOMAIN ctx /\ (Here.as = "any" \/ ctx[k].t = Here.as) THEN Accepted(ctx[k])
                         ELSE Rejected(0, <<>>)
    OBVIOUS
  <1>2. /\ at <= Len(Steps) /\ Here.do = "use" /\ outcomes' = Append(outcomes, out) /\ at' = at + 1
        /\ UNCHANGED <<request, chain, body, cached, ctx, aborted, cut>>
    BY <1>1 DEF Use
  <1>3. Here.do \notin Binds /\ Here.do # "json" /\ Here.do # "drain"
    BY <1>2 DEF Binds
  <1>4. ~(at <= chain.middlewares)
    <2>1. at \in Nat \ {0} /\ chain.middlewares \in Nat
      BY SentFacts DEF RInv, Progress
    <2>2. at <= chain.middlewares => Here.do \in {"json", "drain"}
      BY <2>1, SentFacts DEF RInv, Here
    <2> QED
      BY <1>2, <2>2
  <1>5. Takes(out)
    BY <1>1, <1>2, <1>3, <1>4 DEF Takes
  <1>6. Bodies'
    BY <1>2 DEF RInv, Bodies, IsRest, Rest, Unbroken
  <1> QED
    BY <1>5, <1>6, TakesInv

LEMMA InitInv == Init => RInv
  <1> SUFFICES ASSUME Init PROVE RInv
    OBVIOUS
  <1>1. PICK h \in Handlings : request = h.request /\ chain = h.chain
    BY DEF Init
  <1>2. Sent
    BY <1>1 DEF Sent
  <1>3. /\ at = 1 /\ body = request.body /\ cached = None /\ outcomes = <<>> /\ aborted = FALSE /\ cut = 0
        /\ DOMAIN ctx = {}
    BY DEF Init
  <1>4. /\ Len(Steps) \in Nat /\ chain.middlewares \in Nat /\ IsBody(request.body)
    BY <1>2, SentFacts
  <1>5. /\ IsSeq(outcomes) /\ Len(outcomes) = 0 /\ Done = {} /\ 1 .. Len(outcomes) = {}
    <2>1. <<>> \in Seq({}) /\ Len(<<>>) = 0
      BY EmptySeq
    <2>2. IsSeq(<<>>)
      BY <2>1, SeqIsSeq
    <2>3. 1 .. 0 = {}
      OBVIOUS
    <2>4. DOMAIN <<>> = 1 .. 0
      BY <2>1, LenProperties
    <2> QED
      BY <1>3, <2>1, <2>2, <2>3, <2>4 DEF Done
  <1>6. Progress
    BY <1>3, <1>4, <1>5 DEF Progress
  <1>7. Bodies
    <2>1. ASSUME request.body # None PROVE IsRest(request.body, request.body)
      <3>1. request.body \in Seq(Tokens)
        BY <1>4, <2>1 DEF IsBody
      <3> QED
        BY <3>1, WholeRest
    <2> QED
      BY <1>3, <2>1 DEF Bodies
  <1>8. Aborts /\ Restores /\ Uses
    BY <1>3, <1>5 DEF Aborts, Restores, Uses
  <1>9. Stores
    <2> SUFFICES ASSUME NEW m, Behind(m) PROVE Keeps(m)
      BY DEF Stores
    <2>1. m = 0 /\ 1 .. m = {}
      BY <1>3, <1>4 DEF Behind
    <2>2. \A k : Same(k, m) = {}
      BY <2>1 DEF Same
    <2> QED
      BY <1>3, <2>1, <2>2 DEF Keeps
  <1>10. SameAsFirst /\ BodyRestored
    BY <1>5 DEF SameAsFirst, BodyRestored
  <1> QED
    BY <1>2, <1>6, <1>7, <1>8, <1>9, <1>10 DEF RInv

LEMMA NextInv == RInv /\ [Next]_vars => RInv'
  <1> SUFFICES ASSUME RInv, [Next]_vars PROVE RInv'
    OBVIOUS
  <1>1. CASE BindJSON
    BY <1>1, BindJSONInv
  <1>2. CASE BindQuery
    BY <1>2, PartTakes DEF BindQuery
  <1>3. CASE BindURI
    BY <1>3, PartTakes DEF BindURI
  <1>4. CASE ParseValue
    BY <1>4, PartTakes DEF ParseValue
  <1>5. CASE Drain
    BY <1>5, DrainInv
  <1>6. CASE Use
    BY <1>6, UseInv
  <1>7. CASE UNCHANGED vars
    <2>1. /\ request' = request /\ chain' = chain /\ at' = at /\ body' = body /\ cached' = cached
          /\ ctx' = ctx /\ aborted' = aborted /\ outcomes' = outcomes /\ cut' = cut
      BY <1>7 DEF vars
    <2>2. Sent' /\ Progress' /\ Bodies' /\ Aborts' /\ Restores'
      BY <2>1 DEF RInv, Sent, Progress, Bodies, Aborts, Restores, Steps, IsSeq, IsRest, Rest, Unbroken,
                  Got, Missed, Binds
    <2>3. Stores' /\ Uses'
      <3>1. Steps' = Steps /\ \A k : \A j : Same(k, j)' = Same(k, j)
        BY <2>1 DEF Same, Steps
      <3>2. \A m : (Behind(m)' <=> Behind(m)) /\ (Keeps(m)' <=> Keeps(m))
        BY <2>1, <3>1 DEF Behind, Keeps
      <3>3. \A n, k, j : UseOK(n, k, j)' <=> UseOK(n, k, j)
        BY <2>1, <3>1 DEF UseOK
      <3> QED
        BY <2>1, <3>1, <3>2, <3>3 DEF RInv, Stores, Uses
    <2>4. SameAsFirst' /\ BodyRestored'
      BY <2>1 DEF RInv, SameAsFirst, BodyRestored, FreshOutcome, Uncut, Done, Steps
    <2> QED
      BY <2>2, <2>3, <2>4 DEF RInv
  <1> QED
    BY <1>1, <1>2, <1>3, <1>4, <1>5, <1>6, <1>7 DEF Next, Handled

\* The invariant holds whatever the requests, the chains and the schemas are.
THEOREM Invariance == Spec => []RInv
  BY InitInv, NextInv, PTL DEF Spec

-----------------------------------------------------------------------------
(* The properties. *)

\* The variables stay in their ranges; only bytes of the request are cached or
\* left to read; and the context is aborted just when a bind failed
\* (abortParseError, bindFailure).
THEOREM TypeCorrect == Spec => []BindingTypeOK
  <1>1. RInv => BindingTypeOK
    <2> SUFFICES ASSUME RInv PROVE BindingTypeOK
      OBVIOUS
    <2>1. Len(Steps) \in Nat
      BY SentFacts DEF RInv
    <2>2. Done = 1 .. Len(outcomes) /\ Len(outcomes) \in Nat
      BY LenProperties DEF RInv, Progress, IsSeq, Done
    <2>3. cut \in 0 .. Len(Steps) /\ at \in 1 .. Len(Steps) + 1
      BY <2>1, <2>2 DEF RInv, Progress
    <2>4. /\ body # None => IsRest(body, request.body)
          /\ cached # None => IsRest(cached, request.body)
          /\ aborted <=> \E n \in 1 .. Len(outcomes) : Steps[n].do \in Binds /\ ~outcomes[n].ok
      BY DEF RInv, Bodies, Aborts
    <2> QED
      BY <2>2, <2>3, <2>4 DEF BindingTypeOK, IsRest, Rest
  <1> QED
    BY <1>1, Invariance, PTL

\* Whatever was read, cached or drained before, and under whatever limits, a bind
\* judges the whole body by its own options (readJSONBody, bodyCacheKey).
THEOREM SameAsFirstHolds == Spec => []SameAsFirst
  <1>1. RInv => SameAsFirst
    BY DEF RInv
  <1> QED
    BY <1>1, Invariance, PTL

\* Who reads the request after a bind that got the body sees all of it.
THEOREM BodyRestoredHolds == Spec => []BodyRestored
  <1>1. RInv => BodyRestored
    BY DEF RInv
  <1> QED
    BY <1>1, Invariance, PTL

\* A handler runs only when every middleware accepted the request, and finds under
\* a key what the last middleware of that key made of the body as it was sent
\* (Validate, ValidateToStruct, GetAs).
THEOREM HandlerSeesValidatedHolds == Spec => []HandlerSeesValidated
  <1>1. RInv => HandlerSeesValidated
    <2> SUFFICES ASSUME RInv, NEW n \in Done, Steps[n].do = "use"
                 PROVE  LET same == {i \in 1 .. chain.middlewares :
                              Steps[i].do = "json" /\ KeyOf(Steps[i].opts) = KeyOf(Steps[n].opts)}
                            v == outcomes[Max(same)].v
                        IN  /\ \A i \in 1 .. chain.middlewares : outcomes[i].ok
                            /\ same = {} => ~outcomes[n].ok
                            /\ same # {} /\ Uncut(Max(same)) => v = FreshOutcome(Max(same)).v
                            /\ same # {} => outcomes[n].ok = (Steps[n].as \in {"any", v.t})
                            /\ outcomes[n].ok => outcomes[n].v = v
      BY DEF HandlerSeesValidated
    <2> DEFINE same == {i \in 1 .. chain.middlewares :
                  Steps[i].do = "json" /\ KeyOf(Steps[i].opts) = KeyOf(Steps[n].opts)}
               v == outcomes[Max(same)].v
    <2>1. Done = 1 .. Len(outcomes) /\ Len(outcomes) \in Nat
      BY LenProperties DEF RInv, Progress, IsSeq, Done
    <2>2. chain.middlewares \in Nat
      BY SentFacts DEF RInv
    <2>3. same = Same(KeyOf(Steps[n].opts), chain.middlewares)
      BY DEF Same
    <2>4. UseOK(n, KeyOf(Steps[n].opts), chain.middlewares)
      BY <2>1 DEF RInv, Uses
    <2> HIDE DEF same
    <2>5. /\ outcomes[n].ok \in BOOLEAN
          /\ \A i \in 1 .. chain.middlewares : i < n /\ outcomes[i].ok
          /\ same = {} => ~outcomes[n].ok
          /\ same # {} =>
               /\ outcomes[n].ok <=> (Steps[n].as = "any" \/ Steps[n].as = v.t)
               /\ outcomes[n].ok => outcomes[n].v = v
      BY <2>3, <2>4, Zenon DEF UseOK
    <2>6. same # {} => Max(same) \in 1 .. chain.middlewares /\ Steps[Max(same)].do = "json"
      BY <2>2, <2>3, SameFacts
    <2>7. ASSUME same # {}, Uncut(Max(same)) PROVE v = FreshOutcome(Max(same)).v
      <3>1. Max(same) \in Done
        BY <2>1, <2>2, <2>5, <2>6, <2>7
      <3>2. outcomes[Max(same)] = FreshOutcome(Max(same))
        BY <2>6, <2>7, <3>1 DEF RInv, SameAsFirst
      <3> QED
        BY <3>2
    <2>8. same # {} => outcomes[n].ok = (Steps[n].as \in {"any", v.t})
      BY <2>5
    <2> QED
      BY <2>5, <2>7, <2>8 DEF same
  <1> QED
    BY <1>1, Invariance, PTL

-----------------------------------------------------------------------------
(* Powers of two. *)

Table(k, f) == f = [i \in 0 .. k |-> IF i = 0 THEN 1 ELSE 2 * f[i - 1]]

\* The powers up to the k-th: there is a table of them, and only one.
LEMMA TableExists == ASSUME NEW k \in Nat PROVE \E f : Table(k, f)
  <1> DEFINE Bad == {j \in Nat : ~\E f : Table(j, f)}
  <1>1. SUFFICES ASSUME Bad # {} PROVE FALSE
    OBVIOUS
  <1>2. PICK j \in Bad : \A m \in Bad : j <= m
    <2>1. Bad \in SUBSET Nat
      OBVIOUS
    <2> HIDE DEF Bad
    <2> QED
      BY <1>1, <2>1, MinIs
  <1>3. CASE j = 0
    <2>1. Table(0, [i \in 0 .. 0 |-> 1])
      BY DEF Table
    <2> QED
      BY <1>3, <2>1
  <1>4. CASE j # 0
    <2>1. j \in Nat /\ j - 1 \in Nat /\ j - 1 \notin Bad
      BY <1>2, <1>4
    <2>2. PICK f : Table(j - 1, f)
      BY <2>1
    <2>3. \A i \in 0 .. j - 1 : f[i] = IF i = 0 THEN 1 ELSE 2 * f[i - 1]
      BY <2>2 DEF Table
    <2> DEFINE h == [i \in 0 .. j |-> IF i = j THEN 2 * f[j - 1] ELSE f[i]]
    <2>4. \A i \in 0 .. j - 1 : h[i] = f[i]
      BY <2>1
    <2>5. \A i \in 0 .. j : h[i] = IF i = 0 THEN 1 ELSE 2 * h[i - 1]
      <3> SUFFICES ASSUME NEW i \in 0 .. j PROVE h[i] = IF i = 0 THEN 1 ELSE 2 * h[i - 1]
        OBVIOUS
      <3>1. CASE i = j
        <4>1. h[i] = 2 * f[j - 1] /\ h[j - 1] = f[j - 1]
          BY <2>1, <2>4, <3>1
        <4> HIDE DEF h
        <4> QED
          BY <1>4, <3>1, <4>1
      <3>2. CASE i # j
        <4>1. i \in 0 .. j - 1 /\ h[i] = f[i]
          BY <2>1, <2>4, <3>2
        <4>2. i # 0 => h[i - 1] = f[i - 1]
          BY <2>1, <2>4, <4>1
        <4> HIDE DEF h
        <4> QED
          BY <2>3, <4>1, <4>2
      <3> QED
        BY <3>1, <3>2
    <2>6. h = [i \in 0 .. j |-> h[i]]
      OBVIOUS
    <2> HIDE DEF h
    <2>7. Table(j, h)
      BY <2>5, <2>6 DEF Table
    <2> QED
      BY <2>7
  <1> QED
    BY <1>3, <1>4

LEMMA TablesAgree ==
  ASSUME NEW k \in Nat, NEW m \in Nat, NEW f, NEW h, Table(k, f), Table(m, h)
  PROVE  \A i \in 0 .. k : i <= m => f[i] = h[i]
  <1> DEFINE Bad == {i \in 0 .. k : i <= m /\ f[i] # h[i]}
  <1>1. SUFFICES ASSUME Bad # {} PROVE FALSE
    OBVIOUS
  <1>2. PICK i \in Bad : \A n \in Bad : i <= n
    <2>1. Bad \in SUBSET Nat
      OBVIOUS
    <2> HIDE DEF Bad
    <2> QED
      BY <1>1, <2>1, MinIs
  <1>3. /\ f[i] = IF i = 0 THEN 1 ELSE 2 * f[i - 1]
        /\ h[i] = IF i = 0 THEN 1 ELSE 2 * h[i - 1]
    BY <1>2 DEF Table
  <1>4. i # 0 => f[i - 1] = h[i - 1]
    <2> SUFFICES ASSUME i # 0 PROVE f[i - 1] = h[i - 1]
      OBVIOUS
    <2>1. i - 1 \in 0 .. k /\ i - 1 <= m /\ ~(i <= i - 1)
      BY <1>2
    <2> QED
      BY <1>2, <2>1
  <1> QED
    BY <1>2, <1>3, <1>4

\* The recursive function exists, and is what its definition says.
LEMMA Pow2Is == Pow2[0] = 1 /\ \A n \in Nat : Pow2[n + 1] = 2 * Pow2[n]
  <1> DEFINE table(n) == CHOOSE f : Table(n, f)
             power == [n \in Nat |-> table(n)[n]]
  <1>1. \A n \in Nat : Table(n, table(n))
    BY TableExists
  <1>2. \A n \in Nat : n # 0 => table(n)[n - 1] = table(n - 1)[n - 1]
    <2> SUFFICES ASSUME NEW n \in Nat, n # 0 PROVE table(n)[n - 1] = table(n - 1)[n - 1]
      OBVIOUS
    <2>1. n - 1 \in Nat /\ n - 1 \in 0 .. n - 1 /\ n - 1 <= n
      OBVIOUS
    <2>2. Table(n, table(n)) /\ Table(n - 1, table(n - 1))
      BY <1>1, <2>1
    <2> HIDE DEF table
    <2> QED
      BY <2>1, <2>2, TablesAgree
  <1>3. \A n \in Nat : table(n)[n] = IF n = 0 THEN 1 ELSE 2 * table(n)[n - 1]
    <2> SUFFICES ASSUME NEW n \in Nat PROVE table(n)[n] = IF n = 0 THEN 1 ELSE 2 * table(n)[n - 1]
      OBVIOUS
    <2>1. Table(n, table(n)) /\ n \in 0 .. n
      BY <1>1
    <2> HIDE DEF table
    <2> QED
      BY <2>1 DEF Table
  <1>4. \A n \in Nat : power[n] = IF n = 0 THEN 1 ELSE 2 * power[n - 1]
    <2> SUFFICES ASSUME NEW n \in Nat PROVE power[n] = IF n = 0 THEN 1 ELSE 2 * power[n - 1]
      OBVIOUS
    <2>1. n # 0 => n - 1 \in Nat
      OBVIOUS
    <2>2. power[n] = table(n)[n] /\ (n # 0 => power[n - 1] = table(n - 1)[n - 1])
      BY <2>1
    <2> HIDE DEF table, power
    <2> QED
      BY <1>2, <1>3, <2>2
  <1>5. power = [n \in Nat |-> power[n]]
    OBVIOUS
  <1> HIDE DEF power
  <1>6. power = [n \in Nat |-> IF n = 0 THEN 1 ELSE 2 * power[n - 1]]
    BY <1>4, <1>5
  <1>7. Pow2 = [n \in Nat |-> IF n = 0 THEN 1 ELSE 2 * Pow2[n - 1]]
    BY <1>6, Zenon DEF Pow2
  <1>8. \A n \in Nat : Pow2[n] = IF n = 0 THEN 1 ELSE 2 * Pow2[n - 1]
    BY <1>7, Zenon
  <1> QED
    <2>1. Pow2[0] = 1
      BY <1>8
    <2>2. ASSUME NEW n \in Nat PROVE Pow2[n + 1] = 2 * Pow2[n]
      <3>1. n + 1 \in Nat /\ n + 1 # 0 /\ (n + 1) - 1 = n
        OBVIOUS
      <3> QED
        BY <1>8, <3>1
    <2> QED
      BY <2>1, <2>2

LEMMA Pow2Pos == \A n \in Nat : Pow2[n] \in Nat \ {0}
  <1> DEFINE Bad == {n \in Nat : Pow2[n] \notin Nat \ {0}}
  <1>1. SUFFICES ASSUME Bad # {} PROVE FALSE
    OBVIOUS
  <1>2. PICK n \in Bad : \A m \in Bad : n <= m
    <2>1. Bad \in SUBSET Nat
      OBVIOUS
    <2> HIDE DEF Bad
    <2> QED
      BY <1>1, <2>1, MinIs
  <1>3. n # 0
    BY <1>2, Pow2Is
  <1>4. n - 1 \in Nat /\ Pow2[n - 1] \in Nat \ {0} /\ (n - 1) + 1 = n
    BY <1>2, <1>3
  <1>5. Pow2[(n - 1) + 1] = 2 * Pow2[n - 1]
    BY <1>4, Pow2Is
  <1> QED
    BY <1>2, <1>4, <1>5

LEMMA Pow2Step == ASSUME NEW n \in Nat \ {0} PROVE n - 1 \in Nat /\ Pow2[n] = 2 * Pow2[n - 1]
  <1>1. n - 1 \in Nat /\ (n - 1) + 1 = n
    OBVIOUS
  <1> QED
    BY <1>1, Pow2Is

\* Powers grow.
LEMMA Pow2Grows == ASSUME NEW m \in Nat, NEW n \in Nat, m <= n PROVE Pow2[m] <= Pow2[n]
  <1> DEFINE Bad == {k \in Nat : m <= k /\ ~(Pow2[m] <= Pow2[k])}
  <1>1. SUFFICES ASSUME Bad # {} PROVE FALSE
    OBVIOUS
  <1>2. PICK k \in Bad : \A j \in Bad : k <= j
    <2>1. Bad \in SUBSET Nat
      OBVIOUS
    <2> HIDE DEF Bad
    <2> QED
      BY <1>1, <2>1, MinIs
  <1>3. k # m /\ k \in Nat \ {0} /\ m <= k - 1
    BY <1>2, Pow2Pos
  <1>4. k - 1 \in Nat /\ Pow2[k] = 2 * Pow2[k - 1]
    BY <1>3, Pow2Step
  <1>5. Pow2[m] <= Pow2[k - 1]
    BY <1>2, <1>3, <1>4
  <1>6. Pow2[m] \in Nat /\ Pow2[k - 1] \in Nat
    BY <1>4, Pow2Pos
  <1> QED
    BY <1>2, <1>4, <1>5, <1>6

LEMMA Pow2Doubles == ASSUME NEW m \in Nat, NEW n \in Nat, m < n PROVE 2 * Pow2[m] <= Pow2[n]
  <1>1. m + 1 \in Nat /\ m + 1 <= n
    OBVIOUS
  <1> QED
    BY <1>1, Pow2Grows, Pow2Is

\* A number is below its power.
LEMMA Pow2Above == \A n \in Nat : n < Pow2[n]
  <1> DEFINE Bad == {n \in Nat : ~(n < Pow2[n])}
  <1>1. SUFFICES ASSUME Bad # {} PROVE FALSE
    OBVIOUS
  <1>2. PICK n \in Bad : \A m \in Bad : n <= m
    <2>1. Bad \in SUBSET Nat
      OBVIOUS
    <2> HIDE DEF Bad
    <2> QED
      BY <1>1, <2>1, MinIs
  <1>3. n \in Nat \ {0}
    BY <1>2, Pow2Is
  <1>4. n - 1 \in Nat /\ Pow2[n] = 2 * Pow2[n - 1]
    BY <1>3, Pow2Step
  <1>5. n - 1 < Pow2[n - 1]
    BY <1>2, <1>4
  <1>6. Pow2[n - 1] \in Nat
    BY <1>4, Pow2Pos
  <1> QED
    BY <1>2, <1>4, <1>5, <1>6

LEMMA Pow2Sum == ASSUME NEW m \in Nat, NEW n \in Nat PROVE Pow2[m + n] = Pow2[m] * Pow2[n]
  <1> DEFINE Bad == {k \in Nat : Pow2[m + k] # Pow2[m] * Pow2[k]}
  <1>1. SUFFICES ASSUME Bad # {} PROVE FALSE
    OBVIOUS
  <1>2. PICK k \in Bad : \A j \in Bad : k <= j
    <2>1. Bad \in SUBSET Nat
      OBVIOUS
    <2> HIDE DEF Bad
    <2> QED
      BY <1>1, <2>1, MinIs
  <1>3. k # 0
    BY <1>2, Pow2Is, Pow2Pos
  <1>4. k - 1 \in Nat /\ Pow2[k] = 2 * Pow2[k - 1] /\ m + k \in Nat \ {0}
    BY <1>2, <1>3, Pow2Step
  <1>5. Pow2[m + k] = 2 * Pow2[(m + k) - 1] /\ (m + k) - 1 = m + (k - 1)
    BY <1>2, <1>4, Pow2Step
  <1>6. Pow2[m + (k - 1)] = Pow2[m] * Pow2[k - 1]
    BY <1>2, <1>4
  <1>7. Pow2[m] \in Nat /\ Pow2[k - 1] \in Nat
    BY <1>4, Pow2Pos
  <1>8. Pow2[m + k] = 2 * (Pow2[m] * Pow2[k - 1]) /\ Pow2[m] * Pow2[k] = Pow2[m] * (2 * Pow2[k - 1])
    BY <1>4, <1>5, <1>6
  <1>9. \A a, b \in Nat : 2 * (a * b) = a * (2 * b)
    OBVIOUS
  <1> QED
    BY <1>2, <1>7, <1>8, <1>9

-----------------------------------------------------------------------------
(* Rounding. *)

\* A quotient is rounded to a neighbour, and not at all when it is whole.
LEMMA NearestEvenIs ==
  ASSUME NEW num \in Nat, NEW den \in Nat \ {0}
  PROVE  /\ num \div den \in Nat /\ NearestEven(num, den) \in {num \div den, (num \div den) + 1}
         /\ num % den = 0 => NearestEven(num, den) = num \div den
  <1>1. num \div den \in Nat /\ num % den \in 0 .. den - 1
    OBVIOUS
  <1>2. PICK q \in Nat : q = num \div den
    BY <1>1
  <1>3. PICK r \in 0 .. den - 1 : r = num % den
    BY <1>1
  <1>4. NearestEven(num, den) = IF 2 * r > den \/ (2 * r = den /\ q % 2 = 1) THEN q + 1 ELSE q
    BY <1>2, <1>3 DEF NearestEven
  <1> QED
    BY <1>2, <1>3, <1>4

\* The scale of a rounding, and the power of two it is between.
Scale(bits, a, k) == k \in 0 .. a /\ a < Pow2[bits + k] /\ (k = 0 \/ Pow2[bits + k - 1] <= a)

LEMMA ScaleExists == ASSUME NEW bits \in Nat, NEW a \in Nat PROVE \E k : Scale(bits, a, k)
  <1> DEFINE S == {k \in Nat : a < Pow2[bits + k]}
  <1>1. a \in S
    <2>1. a < Pow2[a] /\ Pow2[a] <= Pow2[bits + a] /\ Pow2[a] \in Nat /\ Pow2[bits + a] \in Nat
      BY Pow2Above, Pow2Grows, Pow2Pos
    <2> QED
      BY <2>1
  <1>2. PICK k \in S : \A j \in S : k <= j
    <2>1. S \in SUBSET Nat /\ S # {}
      BY <1>1
    <2> HIDE DEF S
    <2> QED
      BY <2>1, MinIs
  <1>3. k \in Nat /\ k <= a /\ a < Pow2[bits + k]
    BY <1>1, <1>2
  <1>4. ASSUME k # 0 PROVE Pow2[bits + k - 1] <= a
    <2>1. k - 1 \in Nat /\ k - 1 \notin S /\ bits + (k - 1) = bits + k - 1
      BY <1>2, <1>3, <1>4
    <2>2. Pow2[bits + k - 1] \in Nat
      BY <2>1, Pow2Pos
    <2> QED
      BY <2>1, <2>2
  <1>5. Scale(bits, a, k)
    BY <1>3, <1>4 DEF Scale
  <1> QED
    BY <1>5

\* RoundTo, at the scale of its number.
LEMMA RoundToIs ==
  ASSUME NEW bits \in Nat, NEW u \in Int
  PROVE  \E s : /\ Scale(bits, Abs(u), s)
                /\ RoundTo(bits, u) = IF u < 0 THEN -(NearestEven(Abs(u), Pow2[s]) * Pow2[s])
                                      ELSE NearestEven(Abs(u), Pow2[s]) * Pow2[s]
  <1>1. Abs(u) \in Nat
    BY DEF Abs
  <1> DEFINE s == CHOOSE k \in 0 .. Abs(u) : Abs(u) < Pow2[bits + k] /\ (k = 0 \/ Pow2[bits + k - 1] <= Abs(u))
  <1>2. \E k \in 0 .. Abs(u) : Abs(u) < Pow2[bits + k] /\ (k = 0 \/ Pow2[bits + k - 1] <= Abs(u))
    BY <1>1, ScaleExists DEF Scale
  <1>3. Scale(bits, Abs(u), s)
    BY <1>2, Zenon DEF Scale
  <1>4. RoundTo(bits, u) = IF u < 0 THEN -(NearestEven(Abs(u), Pow2[s]) * Pow2[s])
                           ELSE NearestEven(Abs(u), Pow2[s]) * Pow2[s]
    BY Zenon DEF RoundTo
  <1> HIDE DEF s
  <1> QED
    BY <1>3, <1>4

LEMMA RoundToInt == ASSUME NEW bits \in Nat, NEW u \in Int PROVE RoundTo(bits, u) \in Int
  <1>1. PICK s : /\ Scale(bits, Abs(u), s)
                 /\ RoundTo(bits, u) = IF u < 0 THEN -(NearestEven(Abs(u), Pow2[s]) * Pow2[s])
                                       ELSE NearestEven(Abs(u), Pow2[s]) * Pow2[s]
    BY RoundToIs
  <1>2. Abs(u) \in Nat /\ s \in Nat
    BY <1>1 DEF Abs, Scale
  <1>3. Pow2[s] \in Nat \ {0}
    BY <1>2, Pow2Pos
  <1>4. NearestEven(Abs(u), Pow2[s]) \in Nat
    BY <1>2, <1>3, NearestEvenIs
  <1> QED
    BY <1>1, <1>3, <1>4

\* A number of that many bits is not rounded, nor an even one of one bit more.
LEMMA RoundToExact ==
  ASSUME NEW bits \in Nat, NEW u \in Int,
         Abs(u) < Pow2[bits] \/ (u % 2 = 0 /\ Abs(u) < Pow2[bits + 1])
  PROVE  RoundTo(bits, u) = u
  <1>1. PICK s : /\ Scale(bits, Abs(u), s)
                 /\ RoundTo(bits, u) = IF u < 0 THEN -(NearestEven(Abs(u), Pow2[s]) * Pow2[s])
                                       ELSE NearestEven(Abs(u), Pow2[s]) * Pow2[s]
    BY RoundToIs
  <1>2. PICK a \in Nat : a = Abs(u)
    BY DEF Abs
  <1>3. s \in Nat /\ (s = 0 \/ Pow2[bits + s - 1] <= a)
    BY <1>1, <1>2 DEF Scale
  <1>4. s = 0 => Pow2[s] = 1
    BY Pow2Is
  <1>5. s = 1 => Pow2[s] = 2
    BY Pow2Is
  <1>6. s = 0 \/ (s = 1 /\ u % 2 = 0)
    <2>1. s # 0 => Pow2[bits] <= Pow2[bits + s - 1]
      BY <1>3, Pow2Grows
    <2>2. s # 0 /\ s # 1 => Pow2[bits + 1] <= Pow2[bits + s - 1]
      BY <1>3, Pow2Grows
    <2>3. Pow2[bits] \in Nat /\ Pow2[bits + 1] \in Nat /\ (s # 0 => Pow2[bits + s - 1] \in Nat)
      BY <1>3, Pow2Pos
    <2> QED
      BY <1>2, <1>3, <2>1, <2>2, <2>3
  <1>7. NearestEven(a, Pow2[s]) * Pow2[s] = a
    <2>1. CASE s = 0
      <3>1. a % 1 = 0 /\ a \div 1 = a
        OBVIOUS
      <3>2. NearestEven(a, 1) = a
        BY <3>1, NearestEvenIs
      <3> QED
        BY <1>4, <2>1, <3>2
    <2>2. CASE s = 1 /\ u % 2 = 0
      <3>1. a % 2 = 0 /\ (a \div 2) * 2 = a
        BY <1>2, <2>2 DEF Abs
      <3>2. NearestEven(a, 2) = a \div 2
        BY <3>1, NearestEvenIs
      <3> QED
        BY <1>5, <2>2, <3>1, <3>2
    <2> QED
      BY <1>6, <2>1, <2>2
  <1>8. RoundTo(bits, u) = IF u < 0 THEN -a ELSE a
    BY <1>1, <1>2, <1>7
  <1> QED
    BY <1>2, <1>8 DEF Abs

\* Rounding does not cross a power of two, in either direction.
LEMMA RoundToBetween ==
  ASSUME NEW bits \in Nat \ {0}, NEW u \in Int, NEW n \in Nat, bits <= n
  PROVE  /\ Pow2[n] <= u => Pow2[n] <= RoundTo(bits, u)
         /\ u <= -Pow2[n] => RoundTo(bits, u) <= -Pow2[n]
         /\ Abs(u) < Pow2[n] => Abs(RoundTo(bits, u)) <= Pow2[n]
  <1>1. PICK s : /\ Scale(bits, Abs(u), s)
                 /\ RoundTo(bits, u) = IF u < 0 THEN -(NearestEven(Abs(u), Pow2[s]) * Pow2[s])
                                       ELSE NearestEven(Abs(u), Pow2[s]) * Pow2[s]
    BY RoundToIs
  <1>2. PICK a \in Nat : a = Abs(u)
    BY DEF Abs
  <1>3. s \in Nat /\ a < Pow2[bits + s] /\ (s = 0 \/ Pow2[bits + s - 1] <= a)
    BY <1>1, <1>2 DEF Scale
  <1>4. PICK p \in Nat \ {0} : p = Pow2[s]
    BY <1>3, Pow2Pos
  <1>5. PICK q \in Nat : q = a \div p
    BY <1>2, <1>4
  <1>6. PICK e \in {q, q + 1} : e = NearestEven(a, p)
    BY <1>5, NearestEvenIs
  <1>7. PICK m \in Nat : m = e * p
    BY <1>4, <1>5, <1>6
  <1>8. RoundTo(bits, u) = IF u < 0 THEN -m ELSE m
    BY <1>1, <1>2, <1>4, <1>6, <1>7
  <1>9. PICK pn \in Nat \ {0} : pn = Pow2[n]
    BY Pow2Pos
  <1>10. ASSUME pn <= a PROVE pn <= m
    <2>1. bits - 1 \in Nat /\ bits + s - 1 \in Nat /\ bits + s \in Nat
      BY <1>3
    <2>2. ~(bits + s <= n)
      <3>1. bits + s <= n => Pow2[bits + s] <= pn
        BY <1>9, <2>1, Pow2Grows
      <3>2. Pow2[bits + s] \in Nat
        BY <2>1, Pow2Pos
      <3> QED
        BY <1>3, <1>10, <3>1, <3>2
    <2>3. s # 0 /\ n <= bits + s - 1
      BY <1>3, <2>2
    <2>4. pn <= Pow2[bits + s - 1]
      BY <1>9, <2>1, <2>3, Pow2Grows
    <2>5. PICK b \in Nat : b = Pow2[bits - 1]
      BY <2>1, Pow2Pos
    <2>6. Pow2[bits + s - 1] = b * p
      <3>1. (bits - 1) + s = bits + s - 1
        BY <1>3
      <3> QED
        BY <1>3, <1>4, <2>1, <2>5, <3>1, Pow2Sum
    <2>7. b * p <= a
      BY <1>3, <2>3, <2>6
    <2>8. b <= q
      BY <1>4, <1>5, <2>5, <2>7
    <2>9. b * p <= q * p /\ q * p <= m
      BY <1>4, <1>5, <1>6, <1>7, <2>5, <2>8
    <2>10. b * p \in Nat /\ q * p \in Nat
      BY <1>4, <1>5, <2>5
    <2> QED
      BY <1>9, <1>7, <2>4, <2>6, <2>9, <2>10
  <1>11. ASSUME a < pn PROVE m <= pn
    <2>1. CASE s = 0
      <3>1. p = 1 /\ a % p = 0 /\ q = a
        BY <1>4, <1>5, <2>1, Pow2Is
      <3>2. e = a
        BY <1>5, <1>6, <3>1, NearestEvenIs
      <3> QED
        BY <1>7, <1>11, <3>1, <3>2
    <2>2. CASE s # 0
      <3>1. bits + s - 1 \in Nat /\ bits + s \in Nat
        BY <1>3
      <3>2. ~(n <= bits + s - 1)
        <4>1. n <= bits + s - 1 => pn <= Pow2[bits + s - 1]
          BY <1>9, <3>1, Pow2Grows
        <4>2. Pow2[bits + s - 1] \in Nat
          BY <3>1, Pow2Pos
        <4> QED
          BY <1>3, <1>9, <1>11, <2>2, <4>1, <4>2
      <3>3. bits + s <= n
        BY <1>3, <3>2
      <3>4. Pow2[bits + s] <= pn
        BY <1>9, <3>1, <3>3, Pow2Grows
      <3>5. PICK b \in Nat : b = Pow2[bits]
        BY Pow2Pos
      <3>6. Pow2[bits + s] = b * p
        BY <1>3, <1>4, <3>5, Pow2Sum
      <3>7. a < b * p
        BY <1>3, <3>6
      <3>8. q < b
        BY <1>4, <1>5, <3>5, <3>7
      <3>9. m <= b * p
        BY <1>4, <1>5, <1>6, <1>7, <3>5, <3>8
      <3>10. b * p \in Nat
        BY <1>4, <3>5
      <3> QED
        BY <1>7, <1>9, <3>4, <3>6, <3>9, <3>10
    <2> QED
      BY <2>1, <2>2
  <1>12. /\ pn <= u => a = u /\ ~(u < 0)
         /\ u <= -pn => a = -u /\ u < 0
    BY <1>2, <1>9 DEF Abs
  <1>13. Abs(RoundTo(bits, u)) = m
    BY <1>7, <1>8 DEF Abs
  <1> QED
    BY <1>2, <1>7, <1>8, <1>9, <1>10, <1>11, <1>12, <1>13

-----------------------------------------------------------------------------
(* The widths. *)

\* The limits of the types, from half of 2^64, of 2^32 and from 2^53.
Widths(w, h, m) ==
  /\ Pow2[Word - 1] = w /\ Pow2[Word] = 2 * w /\ Pow2[Word + 1] = 4 * w
  /\ Pow2[HalfWord - 1] = h /\ Pow2[HalfWord] = 2 * h
  /\ Pow2[Mantissa] = m /\ Pow2[Mantissa + 1] = 2 * m
  /\ 4 * h <= m /\ 2 * m <= w
  /\ MaxInt64 = 2 * (w - 1) /\ MinInt64 = -(2 * w) /\ MaxUint64 = 2 * (2 * w - 1) /\ MaxSafeInteger = 2 * (m - 1)
  /\ MaxFloat64 \in Nat /\ 4 * w <= MaxFloat64 /\ MaxFloat32 \in Nat /\ MaxFloat32 <= MaxFloat64

LEMMA WidthsAre == \E w, h, m \in Nat \ {0} : Widths(w, h, m)
  <1>1. /\ Word \in Nat \ {0} /\ HalfWord \in Nat \ {0} /\ Mantissa \in Nat \ {0} /\ Mantissa32 \in Nat \ {0}
        /\ Exponent \in Nat \ {0} /\ Exponent32 \in Nat \ {0}
        /\ Mantissa32 < HalfWord /\ HalfWord < Mantissa /\ Mantissa < Word - 1
        /\ Word + 1 < Exponent32 /\ Exponent32 < Exponent
    BY NumbersAssumption
  <1>2. PICK w \in Nat \ {0} : w = Pow2[Word - 1]
    BY <1>1, Pow2Pos
  <1>3. PICK h \in Nat \ {0} : h = Pow2[HalfWord - 1]
    BY <1>1, Pow2Pos
  <1>4. PICK m \in Nat \ {0} : m = Pow2[Mantissa]
    BY <1>1, Pow2Pos
  <1>5. Pow2[Word] = 2 * w /\ Pow2[HalfWord] = 2 * h /\ Pow2[Mantissa + 1] = 2 * m /\ Pow2[Word + 1] = 4 * w
    <2>1. Pow2[Word] = 2 * w /\ Pow2[HalfWord] = 2 * h
      BY <1>1, <1>2, <1>3, Pow2Step
    <2>2. Pow2[Mantissa + 1] = 2 * m /\ Pow2[Word + 1] = 2 * Pow2[Word]
      BY <1>1, <1>4, Pow2Is
    <2> QED
      BY <2>1, <2>2
  <1>6. 4 * h <= m /\ 2 * m <= w
    <2>1. 2 * Pow2[HalfWord] <= m
      BY <1>1, <1>4, Pow2Doubles
    <2>2. Word - 1 \in Nat
      BY <1>1
    <2>3. 2 * m <= w
      BY <1>1, <1>2, <1>4, <2>2, Pow2Doubles
    <2> QED
      BY <1>5, <2>1, <2>3
  <1>7. MaxInt64 = 2 * (w - 1) /\ MinInt64 = -(2 * w) /\ MaxUint64 = 2 * (2 * w - 1) /\ MaxSafeInteger = 2 * (m - 1)
    BY <1>2, <1>4, <1>5 DEF MaxInt64, MinInt64, MaxUint64, MaxSafeInteger
  <1>8. PICK e \in Nat \ {0} : e = Pow2[Exponent - 1]
    BY <1>1, Pow2Pos
  <1>9. MaxFloat64 \in Nat /\ e <= MaxFloat64
    <2>1. Mantissa - 1 \in Nat /\ Exponent - Mantissa \in Nat /\ (Mantissa - 1) + (Exponent - Mantissa) = Exponent - 1
      BY <1>1
    <2>2. PICK a \in Nat \ {0} : a = Pow2[Mantissa - 1]
      BY <2>1, Pow2Pos
    <2>3. PICK b \in Nat \ {0} : b = Pow2[Exponent - Mantissa]
      BY <2>1, Pow2Pos
    <2>4. e = a * b
      BY <1>8, <2>1, <2>2, <2>3, Pow2Sum
    <2>5. m = 2 * a
      BY <1>1, <1>4, <2>2, Pow2Step
    <2>6. MaxFloat64 = (m - 1) * b
      BY <1>4, <2>3 DEF MaxFloat64
    <2>7. a <= m - 1 /\ m - 1 \in Nat
      BY <2>5
    <2>8. a * b <= (m - 1) * b /\ (m - 1) * b \in Nat
      BY <2>7
    <2> QED
      BY <2>4, <2>6, <2>8
  <1>10. MaxFloat32 \in Nat /\ MaxFloat32 <= e
    <2>1. Exponent32 - Mantissa32 \in Nat /\ Mantissa32 + (Exponent32 - Mantissa32) = Exponent32 /\ Exponent - 1 \in Nat
          /\ Exponent32 <= Exponent - 1
      BY <1>1
    <2>2. PICK a \in Nat \ {0} : a = Pow2[Mantissa32]
      BY <1>1, Pow2Pos
    <2>3. PICK b \in Nat \ {0} : b = Pow2[Exponent32 - Mantissa32]
      BY <2>1, Pow2Pos
    <2>4. Pow2[Exponent32] = a * b
      BY <1>1, <2>1, <2>2, <2>3, Pow2Sum
    <2>5. MaxFloat32 = (a - 1) * b
      BY <2>2, <2>3 DEF MaxFloat32
    <2>6. (a - 1) * b <= a * b /\ (a - 1) * b \in Nat /\ a * b \in Nat
      OBVIOUS
    <2>7. a * b <= e
      BY <1>1, <1>8, <2>1, <2>4, Pow2Grows
    <2> QED
      BY <2>5, <2>6, <2>7
  <1>11. 4 * w <= e
    <2>1. Word + 1 \in Nat /\ Exponent - 1 \in Nat /\ Word + 1 <= Exponent - 1
      BY <1>1
    <2> QED
      BY <1>5, <1>8, <2>1, Pow2Grows
  <1> QED
    <2>1. Widths(w, h, m)
      BY <1>2, <1>3, <1>4, <1>5, <1>6, <1>7, <1>9, <1>10, <1>11 DEF Widths
    <2> QED
      BY <2>1

\* The ends of an integer type.
Least(t) == IF t \in Unsigned THEN 0 ELSE IF t = "int32" THEN -(2 * Pow2[HalfWord - 1]) ELSE MinInt64
Most(t) ==
  CASE t = "int32" -> 2 * (Pow2[HalfWord - 1] - 1)
    [] t = "uint32" -> 2 * (Pow2[HalfWord] - 1)
    [] t \in {"uint64", "uint", "ID"} -> MaxUint64
    [] OTHER -> MaxInt64

LEMMA TypeRangeIs ==
  ASSUME NEW t \in Signed \cup Unsigned, NEW u
  PROVE  u \in TypeRange(t) <=> u \in Int /\ u % 2 = 0 /\ Least(t) <= u /\ u <= Most(t)
  <1>1. PICK w, h, m \in Nat \ {0} : Widths(w, h, m)
    BY WidthsAre
  <1>2. \A lo, hi \in Int : \A x : x \in {2 * k : k \in lo .. hi} <=> x \in Int /\ x % 2 = 0 /\ 2 * lo <= x /\ x <= 2 * hi
    <2> SUFFICES ASSUME NEW lo \in Int, NEW hi \in Int, NEW x
                 PROVE  x \in {2 * k : k \in lo .. hi} <=> x \in Int /\ x % 2 = 0 /\ 2 * lo <= x /\ x <= 2 * hi
      OBVIOUS
    <2>1. ASSUME x \in Int, x % 2 = 0, 2 * lo <= x, x <= 2 * hi PROVE x \in {2 * k : k \in lo .. hi}
      <3>1. x = 2 * (x \div 2) /\ x \div 2 \in lo .. hi
        BY <2>1
      <3> QED
        BY <3>1
    <2>2. ASSUME NEW k \in lo .. hi, x = 2 * k PROVE x \in Int /\ x % 2 = 0 /\ 2 * lo <= x /\ x <= 2 * hi
      BY <2>2
    <2> QED
      BY <2>1, <2>2
  <1>3. CASE t = "int32"
    <2>1. TypeRange(t) = {2 * k : k \in -h .. h - 1} /\ Least(t) = 2 * (-h) /\ Most(t) = 2 * (h - 1)
      BY <1>1, <1>3 DEF TypeRange, Widths, Least, Most, Signed, Unsigned, Named
    <2> QED
      BY <1>2, <2>1
  <1>4. CASE t = "uint32"
    <2>1. TypeRange(t) = {2 * k : k \in 0 .. 2 * h - 1} /\ Least(t) = 2 * 0 /\ Most(t) = 2 * (2 * h - 1)
      BY <1>1, <1>4 DEF TypeRange, Widths, Least, Most, Signed, Unsigned, Named
    <2> QED
      BY <1>2, <2>1
  <1>5. CASE t \in {"uint64", "uint", "ID"}
    <2>1. TypeRange(t) = {2 * k : k \in 0 .. 2 * w - 1} /\ Least(t) = 2 * 0 /\ Most(t) = 2 * (2 * w - 1)
      BY <1>1, <1>5 DEF TypeRange, Widths, Least, Most, Signed, Unsigned, Named
    <2> QED
      BY <1>2, <2>1
  <1>6. CASE t \in {"int64", "int"}
    <2>1. TypeRange(t) = {2 * k : k \in -w .. w - 1} /\ Least(t) = 2 * (-w) /\ Most(t) = 2 * (w - 1)
      BY <1>1, <1>6 DEF TypeRange, Widths, Least, Most, Signed, Unsigned, Named
    <2> QED
      BY <1>2, <2>1
  <1> QED
    BY <1>3, <1>4, <1>5, <1>6 DEF Signed, Unsigned, Named

\* Every integer type is within 64 bits.
LEMMA EndsAre ==
  ASSUME NEW t \in Signed \cup Unsigned
  PROVE  /\ Least(t) \in Int /\ Most(t) \in Int /\ MinInt64 <= Least(t) /\ Most(t) <= MaxUint64 /\ Least(t) <= Most(t)
         /\ t \in Signed => Most(t) <= MaxInt64
         /\ IntegerBounds(t).lo = Least(t)
         /\ IntegerBounds(t).hi = IF t \in {"uint64", "uint", "ID"} THEN MaxInt64 ELSE Most(t)
         /\ t \notin {"uint64", "uint", "ID"} => Most(t) <= MaxInt64
  <1>1. PICK w, h, m \in Nat \ {0} : Widths(w, h, m)
    BY WidthsAre
  <1>2. CASE t = "int32"
    BY <1>1, <1>2 DEF Widths, Least, Most, Signed, Unsigned, Named, IntegerBounds, Bits
  <1>3. CASE t = "uint32"
    <2>1. HalfWord # Word
      BY NumbersAssumption
    <2> QED
      BY <1>1, <1>3, <2>1 DEF Widths, Least, Most, Signed, Unsigned, Named, IntegerBounds, Bits
  <1>4. CASE t \in {"uint64", "uint", "ID"}
    BY <1>1, <1>4 DEF Widths, Least, Most, Signed, Unsigned, Named, IntegerBounds, Bits
  <1>5. CASE t \in {"int64", "int"}
    BY <1>1, <1>5 DEF Widths, Least, Most, Signed, Unsigned, Named, IntegerBounds, Bits
  <1> QED
    BY <1>2, <1>3, <1>4, <1>5 DEF Signed, Unsigned, Named

\* Whole numbers of up to 64 bits as floats: the safe ones stay as they are, the
\* others stay beyond them, and so do those beyond an int64.
LEMMA RoundIs ==
  ASSUME NEW u \in Int, u % 2 = 0
  PROVE  /\ Round(u) \in Int
         /\ u \in -MaxSafeInteger .. MaxSafeInteger => Round(u) = u
         /\ u > MaxSafeInteger => Round(u) > MaxSafeInteger
         /\ u < -MaxSafeInteger => Round(u) < -MaxSafeInteger
         /\ u > MaxInt64 => Round(u) >= MaxInt64 + 2
         /\ u \in MinInt64 .. MaxUint64 => Abs(Round(u)) <= MaxFloat64
  <1>1. PICK w, h, m \in Nat \ {0} : Widths(w, h, m)
    BY WidthsAre
  <1>2. /\ Mantissa \in Nat \ {0} /\ Mantissa + 1 \in Nat /\ Word \in Nat /\ Word + 1 \in Nat
        /\ Mantissa <= Mantissa + 1 /\ Mantissa <= Word /\ Mantissa <= Word + 1
    BY NumbersAssumption
  <1>3. /\ Pow2[Mantissa + 1] = 2 * m /\ Pow2[Word] = 2 * w /\ Pow2[Word + 1] = 4 * w
        /\ MaxInt64 = 2 * (w - 1) /\ MinInt64 = -(2 * w) /\ MaxUint64 = 2 * (2 * w - 1) /\ MaxSafeInteger = 2 * (m - 1)
        /\ MaxFloat64 \in Nat /\ 4 * w <= MaxFloat64
    BY <1>1 DEF Widths
  <1>4. Round(u) \in Int
    BY <1>2, RoundToInt DEF Round
  <1>5. Abs(u) < 2 * m => Round(u) = u
    BY <1>2, <1>3, RoundToExact DEF Round
  <1>6. 2 * m <= u => 2 * m <= Round(u)
    BY <1>2, <1>3, RoundToBetween DEF Round
  <1>7. u <= -(2 * m) => Round(u) <= -(2 * m)
    BY <1>2, <1>3, RoundToBetween DEF Round
  <1>8. 2 * w <= u => 2 * w <= Round(u)
    BY <1>2, <1>3, RoundToBetween DEF Round
  <1>9. Abs(u) < 4 * w => Abs(Round(u)) <= 4 * w
    BY <1>2, <1>3, RoundToBetween DEF Round
  <1>10. u \in -MaxSafeInteger .. MaxSafeInteger => Round(u) = u
    BY <1>3, <1>5 DEF Abs
  <1>11. u > MaxSafeInteger => u >= 2 * m
    BY <1>3
  <1>12. u < -MaxSafeInteger => u <= -(2 * m)
    BY <1>3
  <1>13. u > MaxInt64 => u >= 2 * w
    BY <1>3
  <1>14. u \in MinInt64 .. MaxUint64 => Abs(u) < 4 * w
    BY <1>3 DEF Abs
  <1>15. u \in MinInt64 .. MaxUint64 => Abs(Round(u)) <= MaxFloat64
    <2>1. Abs(Round(u)) \in Int
      BY <1>4 DEF Abs
    <2> QED
      BY <1>3, <1>9, <1>14, <2>1
  <1>16. /\ u > MaxSafeInteger => Round(u) > MaxSafeInteger
         /\ u < -MaxSafeInteger => Round(u) < -MaxSafeInteger
         /\ u > MaxInt64 => Round(u) >= MaxInt64 + 2
    BY <1>3, <1>4, <1>6, <1>7, <1>8, <1>11, <1>12, <1>13
  <1> QED
    BY <1>4, <1>10, <1>15, <1>16

-----------------------------------------------------------------------------
(* Go numbers through the integer schemas. *)

\* A Go number, as far as integer schemas care.
IsNumber(v) ==
  /\ v.t \in Signed \cup Unsigned \cup Finites /\ v.u \in Int
  /\ v.t \in Signed \cup Unsigned => v.u \in TypeRange(v.t)

\* An int64 holds it.
IsInt64(u) == u % 2 = 0 /\ u \in MinInt64 .. MaxInt64

\* The integers a named type hides from the checks are above MaxInt64.
Seen(t, u) == t \in Named => u <= MaxInt64

LEMMA TypesAre ==
  /\ \A t \in Signed \cup Unsigned : t \notin Floats /\ t \notin Finites /\ t \notin Infinite
                                     /\ t \notin {"bool", "string", "bigInt", "jsonNumber", "none", "object"}
  /\ \A t \in Finites : t \in Floats /\ t \notin Infinite
                        /\ t \notin {"bool", "string", "bigInt", "jsonNumber", "none", "object", "uint64"}
  /\ Signed \cap Unsigned = {} /\ "int64" \in Signed /\ "float64" \in Finites
  /\ Named \subseteq Unsigned /\ \A t \in Signed \cup Finites \cup {"uint64", "jsonNumber"} : t \notin Named
  BY DEF Signed, Unsigned, Named, Floats, Finites, Infinite

LEMMA YesIs ==
  /\ \A v : Yes(v).ok /\ Yes(v).v = v
  /\ ~No.ok
  /\ \A u : Float(u).t = "float64" /\ Float(u).u = u
  /\ \A t, u : [t |-> t, u |-> u].t = t /\ [t |-> t, u |-> u].u = u
  BY DEF Yes, No, Float

LEMMA NumberIs ==
  ASSUME NEW v, IsNumber(v)
  PROVE  /\ v.t \in Finites \/ (v.t \in Signed \cup Unsigned /\ v.u % 2 = 0 /\ Least(v.t) <= v.u /\ v.u <= Most(v.t)
                                /\ v.u \in MinInt64 .. MaxUint64)
         /\ v.u \in Int
         /\ v.t \in Signed => v.u <= MaxInt64
  <1>1. CASE v.t \in Finites
    BY <1>1, TypesAre DEF IsNumber
  <1>2. CASE v.t \in Signed \cup Unsigned
    <2>1. v.u \in Int /\ v.u % 2 = 0 /\ Least(v.t) <= v.u /\ v.u <= Most(v.t)
      BY <1>2, TypeRangeIs DEF IsNumber
    <2>2. /\ Least(v.t) \in Int /\ Most(v.t) \in Int /\ MinInt64 <= Least(v.t) /\ Most(v.t) <= MaxUint64
          /\ v.t \in Signed => Most(v.t) <= MaxInt64
      BY <1>2, EndsAre
    <2>3. MinInt64 \in Int /\ MaxUint64 \in Int /\ MaxInt64 \in Int
      BY WidthsAre DEF Widths
    <2> QED
      BY <1>2, <2>1, <2>2, <2>3
  <1> QED
    BY <1>1, <1>2 DEF IsNumber

LEMMA FloatToInt64Is ==
  ASSUME NEW f, f.ok, f.v.t \notin Infinite, f.v.u \in Int
  PROVE  FloatToInt64(f) = IF IsInt64(f.v.u) THEN Yes(f.v.u) ELSE No
  <1>1. PICK w \in Nat \ {0} : MaxInt64 = 2 * (w - 1) /\ MinInt64 = -(2 * w)
    BY WidthsAre DEF Widths
  <1>2. IsInt64(f.v.u) <=> Whole(f.v.u) /\ f.v.u < MaxInt64 + 2 /\ f.v.u >= MinInt64
    BY <1>1 DEF IsInt64, Whole
  <1> QED
    BY <1>2 DEF FloatToInt64

LEMMA ToInt64Is ==
  ASSUME NEW v, IsNumber(v)
  PROVE  ToInt64(v) = IF IsInt64(v.u) THEN Yes(v.u) ELSE No
  <1>1. CASE v.t \in Signed \cup Unsigned
    <2>0. v.t \notin {"float64", "float32"} /\ v.t # "jsonNumber"
      BY <1>1, TypesAre DEF Finites
    <2>1. ToInt64(v) = IF v.u \in MinInt64 .. MaxInt64 THEN Yes(v.u) ELSE No
      BY <1>1, <2>0 DEF ToInt64
    <2>2. v.u % 2 = 0
      BY <1>1, NumberIs, TypesAre
    <2> QED
      BY <2>1, <2>2 DEF IsInt64
  <1>2. CASE v.t \in Finites
    <2>1. /\ v.t \notin Signed \cup Unsigned \cup {"bigInt"} /\ v.t \in {"float64", "float32"}
          /\ v.t \notin Infinite /\ v.t # "jsonNumber"
      BY <1>2, TypesAre DEF Finites
    <2>2. ToInt64(v) = FloatToInt64(Yes(v))
      BY <2>1 DEF ToInt64
    <2> QED
      BY <2>1, <2>2, FloatToInt64Is, YesIs, NumberIs
  <1> QED
    BY <1>1, <1>2 DEF IsNumber

LEMMA ToFloatIs ==
  ASSUME NEW v, v.t \in Signed \cup Unsigned \cup Finites
  PROVE  ToFloat(v) = IF Recognized(v) THEN Yes(Float(IF v.t \in Finites THEN v.u ELSE Round(v.u))) ELSE No
  <1>1. CASE v.t \in Signed \cup Unsigned
    <2>1. v.t \notin Infinite /\ v.t \notin {"float64", "float32"} /\ v.t \notin Finites /\ v.t # "jsonNumber"
      BY <1>1, TypesAre DEF Finites
    <2> QED
      BY <1>1, <2>1 DEF ToFloat, IsInteger
  <1>2. CASE v.t \in Finites
    <2>1. /\ v.t \notin Infinite /\ v.t \in {"float64", "float32"} /\ v.t \notin Signed \cup Unsigned
          /\ v.t # "jsonNumber" /\ Recognized(v)
      BY <1>2, TypesAre DEF Finites, Recognized
    <2> QED
      BY <1>2, <2>1 DEF ToFloat, IsInteger
  <1> QED
    BY <1>1, <1>2

\* Coercion of a Go number: to an int64 if it can be, or else to a float64 if it
\* is recognized.
LEMMA CoercedIs ==
  ASSUME NEW s, s.out \in Signed \cup Unsigned, NEW v, IsNumber(v)
  PROVE  Coerced(s, v) = IF ~s.coerce THEN v
                         ELSE IF IsInt64(v.u) THEN [t |-> "int64", u |-> v.u]
                         ELSE IF ~Recognized(v) THEN v
                         ELSE Float(IF v.t \in Finites THEN v.u ELSE Round(v.u))
  <1>1. v.t \in Signed \cup Unsigned \cup Finites /\ v.t # "bool" /\ v.t # "string" /\ v.t # "bigInt"
    BY TypesAre DEF IsNumber
  <1>2. s.out \notin Floats
    BY TypesAre
  <1>3. ToInt64(v) = IF IsInt64(v.u) THEN Yes(v.u) ELSE No
    BY ToInt64Is
  <1>4. ToFloat(v) = IF Recognized(v) THEN Yes(Float(IF v.t \in Finites THEN v.u ELSE Round(v.u))) ELSE No
    BY <1>1, ToFloatIs
  <1>5. CoerceToInt64(v) = IF IsInt64(v.u) THEN Yes([t |-> "int64", u |-> v.u]) ELSE No
    BY <1>1, <1>3, YesIs DEF CoerceToInt64
  <1>6. CoerceToNumber(v) = ToFloat(v)
    BY <1>1 DEF CoerceToNumber
  <1>7. PICK c : c = IF s.out \notin Floats /\ CoerceToInt64(v).ok THEN CoerceToInt64(v) ELSE CoerceToNumber(v)
    OBVIOUS
  <1>8. Coerced(s, v) = IF s.coerce /\ c.ok THEN c.v ELSE v
    BY <1>7, Zenon DEF Coerced
  <1>9. c = IF IsInt64(v.u) THEN Yes([t |-> "int64", u |-> v.u])
            ELSE IF Recognized(v) THEN Yes(Float(IF v.t \in Finites THEN v.u ELSE Round(v.u))) ELSE No
    BY <1>2, <1>4, <1>5, <1>6, <1>7, YesIs
  <1> QED
    BY <1>8, <1>9, YesIs

\* What a schema of an integer type takes from a Go number, its checks aside.
Fits(s, v) == v.u \in TypeRange(s.out) /\ (v.u > MaxInt64 => v.t = "uint64" /\ ~s.coerce)

LEMMA EndsOfInt64 == MaxInt64 \in Int /\ MinInt64 \in Int /\ MaxSafeInteger \in Int /\ MaxFloat64 \in Nat /\ MaxUint64 \in Int
                     /\ MinInt64 < -MaxSafeInteger /\ MaxSafeInteger < MaxInt64 /\ 0 <= MaxSafeInteger
                     /\ MaxInt64 < MaxUint64 /\ MaxUint64 <= MaxFloat64 /\ MaxFloat32 \in Nat /\ MaxFloat32 <= MaxFloat64
                     /\ -MaxFloat64 <= MinInt64
  BY WidthsAre DEF Widths

\* numericConverter on an integer that an int64 holds.
LEMMA ConvertInt64 ==
  ASSUME NEW out \in Signed \cup Unsigned, NEW v, v.u \in Int, IsInt64(v.u), NEW n, n = Yes(v.u)
  PROVE  ConvertInteger(out, v, n) = IF v.u \in TypeRange(out) THEN Yes([t |-> out, u |-> v.u]) ELSE No
  <1>1. PICK b : b = IntegerBounds(out)
    OBVIOUS
  <1>2. ~(v.u > MaxInt64) /\ v.u % 2 = 0
    BY EndsOfInt64 DEF IsInt64
  <1>3. ConvertInteger(out, v, n) = IF n.ok /\ n.v \in b.lo .. b.hi THEN Yes([t |-> out, u |-> n.v]) ELSE No
    BY <1>1, <1>2 DEF ConvertInteger
  <1>4. n.ok /\ n.v = v.u
    BY YesIs
  <1>5. v.u \in TypeRange(out) <=> Least(out) <= v.u /\ v.u <= Most(out)
    BY <1>2, TypeRangeIs
  <1>6. /\ Least(out) \in Int /\ Most(out) \in Int /\ b.lo = Least(out)
        /\ b.hi = IF out \in {"uint64", "uint", "ID"} THEN MaxInt64 ELSE Most(out)
    BY <1>1, EndsAre
  <1>7. out \in {"uint64", "uint", "ID"} => Most(out) = MaxUint64
    BY DEF Most
  <1>8. v.u \in b.lo .. b.hi <=> Least(out) <= v.u /\ v.u <= Most(out)
    <2>1. CASE out \in {"uint64", "uint", "ID"}
      BY <1>2, <1>6, <1>7, <2>1, EndsOfInt64
    <2>2. CASE out \notin {"uint64", "uint", "ID"}
      BY <1>6, <2>2
    <2> QED
      BY <2>1, <2>2
  <1> QED
    BY <1>3, <1>4, <1>5, <1>8

\* numericConverter on what an int64 does not hold: only a uint64 gets through.
LEMMA ConvertBeyond ==
  ASSUME NEW out \in Signed \cup Unsigned, NEW v, IsNumber(v), ~IsInt64(v.u), NEW n, ~n.ok
  PROVE  ConvertInteger(out, v, n) =
           IF v.t = "uint64" /\ v.u \in TypeRange(out) THEN Yes([t |-> out, u |-> v.u]) ELSE No
  <1>1. PICK b : b = IntegerBounds(out)
    OBVIOUS
  <1>2. v.t = "uint64" => v.u > MaxInt64 /\ v.u % 2 = 0 /\ v.u <= MaxUint64
    <2>1. v.t = "uint64" => v.t \notin Finites /\ Least(v.t) = 0
      BY DEF Finites, Least, Unsigned, Named
    <2> QED
      BY <2>1, NumberIs, EndsOfInt64 DEF IsInt64
  <1>3. v.t = "uint64" => (v.u \in TypeRange(out) <=> out \in {"uint64", "uint", "ID"})
    <2> SUFFICES ASSUME v.t = "uint64" PROVE v.u \in TypeRange(out) <=> out \in {"uint64", "uint", "ID"}
      OBVIOUS
    <2>1. v.u \in Int /\ v.u > MaxInt64 /\ v.u % 2 = 0 /\ v.u <= MaxUint64
      BY <1>2, NumberIs
    <2>2. /\ Least(out) \in Int /\ Most(out) \in Int
          /\ out \notin {"uint64", "uint", "ID"} => Most(out) <= MaxInt64
      BY EndsAre
    <2>3. out \in {"uint64", "uint", "ID"} => Most(out) = MaxUint64 /\ Least(out) = 0
      BY DEF Most, Least, Unsigned, Named
    <2>4. v.u \in TypeRange(out) <=> Least(out) <= v.u /\ v.u <= Most(out)
      BY <2>1, TypeRangeIs
    <2> QED
      BY <2>1, <2>2, <2>3, <2>4, EndsOfInt64
  <1>4. out \in Unsigned => (b.hi = MaxInt64 <=> out \in {"uint64", "uint", "ID"})
    <2>1. PICK w, h, m \in Nat \ {0} : Widths(w, h, m)
      BY WidthsAre
    <2>2. b.hi = IF out \in {"uint64", "uint", "ID"} THEN MaxInt64 ELSE Most(out)
      BY <1>1, EndsAre
    <2>3. out = "uint32" => Most(out) # MaxInt64
      BY <2>1 DEF Most, Widths
    <2> QED
      BY <2>2, <2>3 DEF Unsigned, Named
  <1>5. out \in Unsigned /\ out \notin {"uint64", "uint", "ID"} => b.hi \in Int /\ b.hi <= MaxInt64
    BY <1>1, EndsAre
  <1>6. out \in {"uint64", "uint", "ID"} => out \in Unsigned
    BY DEF Unsigned, Named
  <1>7. ConvertInteger(out, v, n) =
          IF v.t = "uint64" /\ out \in Unsigned /\ v.u > MaxInt64
          THEN IF b.hi = MaxInt64 \/ v.u <= b.hi THEN Yes([t |-> out, u |-> v.u]) ELSE No
          ELSE No
    BY <1>1 DEF ConvertInteger
  <1>8. v.u \in Int /\ MaxInt64 \in Int
    BY NumberIs, EndsOfInt64
  <1>9. CASE v.t = "uint64" /\ out \in {"uint64", "uint", "ID"}
    BY <1>2, <1>3, <1>4, <1>6, <1>7, <1>9
  <1>10. CASE v.t = "uint64" /\ out \in Unsigned /\ out \notin {"uint64", "uint", "ID"}
    <2>1. ~(v.u <= b.hi) /\ b.hi # MaxInt64
      BY <1>2, <1>4, <1>5, <1>8, <1>10
    <2> QED
      BY <1>3, <1>7, <1>10, <2>1
  <1>11. CASE v.t = "uint64" /\ out \notin Unsigned
    BY <1>3, <1>6, <1>7, <1>11
  <1>12. CASE v.t # "uint64"
    BY <1>7, <1>12
  <1> QED
    BY <1>9, <1>10, <1>11, <1>12

\* An integer schema converts the numbers that fit it, and no others.
LEMMA ConvertIs ==
  ASSUME NEW s, s.out \in Signed \cup Unsigned, NEW v, IsNumber(v)
  PROVE  Convert(s.out, Coerced(s, v)) = IF Fits(s, v) THEN Yes([t |-> s.out, u |-> v.u]) ELSE No
  <1>1. PICK out \in Signed \cup Unsigned : out = s.out
    OBVIOUS
  <1>2. \A w : Convert(out, w) = ConvertInteger(out, w, ToInt64(w))
    BY TypesAre DEF Convert
  <1>3. v.u \in Int
    BY NumberIs
  <1>4. /\ Least(out) \in Int /\ Most(out) \in Int /\ MinInt64 <= Least(out)
        /\ v.u \in TypeRange(out) <=> v.u % 2 = 0 /\ Least(out) <= v.u /\ v.u <= Most(out)
    BY <1>3, EndsAre, TypeRangeIs
  <1>5. CASE IsInt64(v.u)
    <2>1. ~(v.u > MaxInt64)
      BY <1>3, <1>5, EndsOfInt64 DEF IsInt64
    <2>2. Coerced(s, v) = v \/ Coerced(s, v) = [t |-> "int64", u |-> v.u]
      BY <1>5, CoercedIs
    <2>3. PICK w : w = Coerced(s, v)
      OBVIOUS
    <2>4. w.u = v.u
      BY <2>2, <2>3
    <2>5. IsNumber(w)
      <3>1. CASE w = v
        BY <3>1
      <3>2. CASE w = [t |-> "int64", u |-> v.u]
        <4>1. "int64" \in Signed /\ Least("int64") = MinInt64 /\ Most("int64") = MaxInt64
          BY DEF Signed, Unsigned, Named, Least, Most
        <4>2. v.u \in TypeRange("int64")
          BY <1>3, <1>5, <4>1, TypeRangeIs, EndsOfInt64 DEF IsInt64
        <4>3. w.t = "int64" /\ w.u = v.u
          BY <3>2
        <4> QED
          BY <1>3, <4>1, <4>2, <4>3 DEF IsNumber
      <3> QED
        BY <2>2, <2>3, <3>1, <3>2
    <2>6. ToInt64(w) = Yes(w.u)
      BY <1>5, <2>4, <2>5, ToInt64Is
    <2>7. ConvertInteger(out, w, ToInt64(w)) = IF w.u \in TypeRange(out) THEN Yes([t |-> out, u |-> w.u]) ELSE No
      BY <1>3, <1>5, <2>4, <2>6, ConvertInt64
    <2> QED
      BY <1>1, <1>2, <2>1, <2>3, <2>4, <2>7 DEF Fits
  <1>6. CASE ~IsInt64(v.u) /\ ~s.coerce
    <2>1. Coerced(s, v) = v
      BY <1>6, CoercedIs
    <2>2. ~ToInt64(v).ok
      BY <1>6, ToInt64Is, YesIs
    <2>3. ConvertInteger(out, v, ToInt64(v)) =
            IF v.t = "uint64" /\ v.u \in TypeRange(out) THEN Yes([t |-> out, u |-> v.u]) ELSE No
      BY <1>6, <2>2, ConvertBeyond
    <2>4. v.u \in TypeRange(out) => v.u > MaxInt64
      BY <1>3, <1>4, <1>6, EndsOfInt64 DEF IsInt64
    <2> QED
      BY <1>1, <1>2, <1>6, <2>1, <2>3, <2>4 DEF Fits
  <1>8. CASE ~IsInt64(v.u) /\ s.coerce /\ ~Recognized(v)
    <2>1. Coerced(s, v) = v /\ v.t # "uint64"
      BY <1>8, CoercedIs, TypesAre DEF Recognized
    <2>2. ~ToInt64(v).ok
      BY <1>8, ToInt64Is, YesIs
    <2>3. ConvertInteger(out, v, ToInt64(v)) = No
      BY <1>8, <2>1, <2>2, ConvertBeyond
    <2>4. v.u \in TypeRange(out) => v.u > MaxInt64
      BY <1>3, <1>4, <1>8, EndsOfInt64 DEF IsInt64
    <2> QED
      BY <1>1, <1>2, <1>8, <2>1, <2>3, <2>4 DEF Fits
  <1>7. CASE ~IsInt64(v.u) /\ s.coerce /\ Recognized(v)
    <2>1. PICK x : x = IF v.t \in Finites THEN v.u ELSE Round(v.u)
      OBVIOUS
    <2>2. Coerced(s, v) = Float(x)
      BY <1>7, <2>1, CoercedIs
    <2>3. x \in Int /\ ~IsInt64(x)
      <3>1. CASE v.t \in Finites
        BY <1>3, <1>7, <2>1, <3>1
      <3>2. CASE v.t \notin Finites
        <4>1. v.u % 2 = 0 /\ v.u \in MinInt64 .. MaxUint64
          BY <3>2, NumberIs
        <4>2. v.u > MaxInt64
          BY <1>3, <1>7, <4>1, EndsOfInt64 DEF IsInt64
        <4>3. x \in Int /\ x >= MaxInt64 + 2
          BY <1>3, <2>1, <3>2, <4>1, <4>2, RoundIs
        <4> QED
          BY <4>3, EndsOfInt64 DEF IsInt64
      <3> QED
        BY <3>1, <3>2
    <2>4. PICK w : w = Float(x)
      OBVIOUS
    <2>5. IsNumber(w) /\ w.u = x /\ w.t # "uint64"
      BY <2>3, <2>4, YesIs, TypesAre DEF IsNumber
    <2>6. ~ToInt64(w).ok
      BY <2>3, <2>5, ToInt64Is, YesIs
    <2>7. ConvertInteger(out, w, ToInt64(w)) = No
      BY <2>3, <2>5, <2>6, ConvertBeyond
    <2>8. v.u \in TypeRange(out) => v.u > MaxInt64
      BY <1>3, <1>4, <1>7, EndsOfInt64 DEF IsInt64
    <2> QED
      BY <1>1, <1>2, <1>7, <2>2, <2>4, <2>7, <2>8 DEF Fits
  <1> QED
    BY <1>5, <1>6, <1>7, <1>8

\* The format check of an integer schema, on a number of its type that it sees.
LEMMA FormatOfInteger ==
  ASSUME NEW s, IsNumeric(s), s.out \in Signed \cup Unsigned, NEW u \in TypeRange(s.out)
  PROVE  NumberFormat(s.format, [t |-> s.out, u |-> u])
           <=> (Seen(s.out, u) /\ s.format = "safeint" => u \in -MaxSafeInteger .. MaxSafeInteger)
  <1>1. PICK v : v = [t |-> s.out, u |-> u]
    OBVIOUS
  <1>2. v.t = s.out /\ v.u = u /\ v.t \in Signed \cup Unsigned /\ v.t \notin Finites
    BY <1>1, TypesAre
  <1>3. u \in Int /\ u % 2 = 0 /\ Least(s.out) <= u /\ u <= Most(s.out)
    BY TypeRangeIs
  <1>4. u \in MinInt64 .. MaxUint64
    BY <1>3, EndsAre, EndsOfInt64
  <1>5. PICK x : x = Round(u)
    OBVIOUS
  <1>6. Recognized(v) <=> Seen(s.out, u)
    BY <1>2 DEF Recognized, Seen
  <1> SUFFICES ASSUME Seen(s.out, u)
               PROVE  NumberFormat(s.format, v) <=> (s.format = "safeint" => u \in -MaxSafeInteger .. MaxSafeInteger)
    <2>1. ASSUME ~Seen(s.out, u) PROVE NumberFormat(s.format, v)
      <3>1. ~ToFloat(v).ok
        BY <1>2, <1>6, <2>1, ToFloatIs, YesIs
      <3> QED
        BY <3>1, Zenon DEF NumberFormat
    <2> QED
      BY <1>1, <2>1
  <1>7. ToFloat(v).ok /\ ToFloat(v).v.u = x
    BY <1>2, <1>5, <1>6, ToFloatIs, YesIs
  <1>8. NumberFormat(s.format, v) <=>
          /\ s.format \in {"safeint", "int32", "uint32"} => Whole(x) /\ x \in -MaxSafeInteger .. MaxSafeInteger
          /\ x \in FormatRange(s.format).lo .. FormatRange(s.format).hi
    BY <1>7, Zenon DEF NumberFormat
  <1>9. /\ x \in Int
        /\ u \in -MaxSafeInteger .. MaxSafeInteger => x = u
        /\ u > MaxSafeInteger => x > MaxSafeInteger
        /\ u < -MaxSafeInteger => x < -MaxSafeInteger
        /\ Abs(x) <= MaxFloat64
    BY <1>3, <1>4, <1>5, RoundIs
  <1>10. s.format \in {"none", "safeint"} \/ (s.format \in {"int32", "uint32"} /\ s.format = s.out)
    BY DEF IsNumeric, Formats, Signed, Unsigned, Named
  <1>11. CASE s.format = "none"
    <2>1. FormatRange(s.format).lo = -MaxFloat64 /\ FormatRange(s.format).hi = MaxFloat64
      BY <1>11 DEF FormatRange
    <2>2. x \in -MaxFloat64 .. MaxFloat64
      BY <1>9, EndsOfInt64 DEF Abs
    <2> QED
      BY <1>1, <1>8, <1>11, <2>1, <2>2
  <1>12. CASE s.format = "safeint"
    <2>1. FormatRange(s.format).lo = -MaxSafeInteger /\ FormatRange(s.format).hi = MaxSafeInteger
      BY <1>12 DEF FormatRange
    <2>2. x \in -MaxSafeInteger .. MaxSafeInteger <=> u \in -MaxSafeInteger .. MaxSafeInteger
      BY <1>3, <1>9, EndsOfInt64
    <2>3. u \in -MaxSafeInteger .. MaxSafeInteger => Whole(x)
      BY <1>3, <1>9 DEF Whole
    <2> QED
      BY <1>1, <1>8, <1>12, <2>1, <2>2, <2>3
  <1>13. CASE s.format \in {"int32", "uint32"} /\ s.format = s.out
    <2>1. FormatRange(s.format) = IntegerBounds(s.out)
      BY <1>13 DEF FormatRange
    <2>2. IntegerBounds(s.out).lo = Least(s.out) /\ IntegerBounds(s.out).hi = Most(s.out)
      BY <1>13, EndsAre
    <2>3. u \in -MaxSafeInteger .. MaxSafeInteger
      <3>1. PICK w, h, m \in Nat \ {0} : Widths(w, h, m)
        BY WidthsAre
      <3>2. Least(s.out) >= -MaxSafeInteger /\ Most(s.out) <= MaxSafeInteger
        BY <1>13, <3>1 DEF Least, Most, Widths, Unsigned, Named
      <3> QED
        BY <1>3, <3>2, EndsAre, EndsOfInt64
    <2>4. x = u /\ Whole(x)
      BY <1>3, <1>9, <2>3 DEF Whole
    <2>5. x \in FormatRange(s.format).lo .. FormatRange(s.format).hi
      BY <1>3, <2>1, <2>2, <2>4, EndsAre
    <2>6. s.format # "safeint"
      BY <1>13
    <2> QED
      BY <1>1, <1>8, <2>3, <2>4, <2>5, <2>6
  <1> QED
    BY <1>10, <1>11, <1>12, <1>13

\* A number kept as a float64 for the format check does not pass it.
LEMMA KeptFails ==
  ASSUME NEW s, IsNumeric(s), s.out \in Signed \cup Unsigned, ~s.strict,
         NEW u \in Int, u \notin TypeRange(s.out) \/ u > MaxInt64,
         NEW y \in Int, y = u \/ (u % 2 = 0 /\ y = Round(u))
  PROVE  ~NumberFormat(s.format, Float(y))
  <1>1. (s.out = "int" /\ s.format = "safeint") \/ (s.out \in {"int32", "uint32"} /\ s.format = s.out)
    BY DEF IsNumeric, Formats, Signed, Unsigned, Named
  <1>2. PICK v : v = Float(y)
    OBVIOUS
  <1>3. v.t \in Finites /\ v.u = y /\ Recognized(v)
    BY <1>2, YesIs, TypesAre DEF Recognized
  <1>4. ToFloat(v).ok /\ ToFloat(v).v.u = y
    BY <1>3, ToFloatIs, YesIs
  <1>5. NumberFormat(s.format, v) <=>
          /\ s.format \in {"safeint", "int32", "uint32"} => Whole(y) /\ y \in -MaxSafeInteger .. MaxSafeInteger
          /\ y \in FormatRange(s.format).lo .. FormatRange(s.format).hi
    BY <1>4, Zenon DEF NumberFormat
  <1>6. s.format \in {"safeint", "int32", "uint32"}
    BY <1>1
  <1>7. CASE u % 2 # 0
    <2>1. ~Whole(y)
      BY <1>7 DEF Whole
    <2> QED
      BY <1>2, <1>5, <1>6, <2>1
  <1>8. CASE u % 2 = 0 /\ u \notin -MaxSafeInteger .. MaxSafeInteger
    <2>1. y \notin -MaxSafeInteger .. MaxSafeInteger
      BY <1>8, RoundIs, EndsOfInt64
    <2> QED
      BY <1>2, <1>5, <1>6, <2>1
  <1>9. CASE u % 2 = 0 /\ u \in -MaxSafeInteger .. MaxSafeInteger
    <2>1. y = u /\ ~(u > MaxInt64)
      BY <1>9, RoundIs, EndsOfInt64
    <2>2. ~(Least(s.out) <= u /\ u <= Most(s.out))
      BY <1>9, <2>1, TypeRangeIs
    <2>3. CASE s.out = "int"
      <3>1. Least(s.out) = MinInt64 /\ Most(s.out) = MaxInt64
        BY <2>3 DEF Least, Most, Unsigned, Named
      <3> QED
        BY <1>9, <2>2, <3>1, EndsOfInt64
    <2>4. CASE s.out \in {"int32", "uint32"} /\ s.format = s.out
      <3>1. FormatRange(s.format) = IntegerBounds(s.out)
        BY <2>4 DEF FormatRange
      <3>2. IntegerBounds(s.out).lo = Least(s.out) /\ IntegerBounds(s.out).hi = Most(s.out)
        BY <2>4, EndsAre
      <3>3. y \notin FormatRange(s.format).lo .. FormatRange(s.format).hi
        BY <2>1, <2>2, <3>1, <3>2, EndsAre
      <3> QED
        BY <1>2, <1>5, <3>3
    <2> QED
      BY <1>1, <2>3, <2>4
  <1> QED
    BY <1>7, <1>8, <1>9

\* The check of an integer schema compares and divides the integers themselves,
\* those that it sees.
LEMMA HoldsOfInteger ==
  ASSUME NEW s, IsNumeric(s), s.out \in Signed \cup Unsigned, NEW u \in TypeRange(s.out)
  PROVE  Holds(s, [t |-> s.out, u |-> u]) <=> (Seen(s.out, u) => Satisfies(s, u))
  <1>1. PICK v : v = [t |-> s.out, u |-> u]
    OBVIOUS
  <1>2. v.t = s.out /\ v.u = u /\ v.t \in Signed \cup Unsigned /\ v.t \notin Floats
    BY <1>1, TypesAre
  <1>3. u \in Int /\ Least(s.out) <= u /\ u <= Most(s.out)
    BY TypeRangeIs
  <1>4. s.check = "none" \/ (s.check \in Comparing /\ s.bound.u \in Int /\ IsInteger(s.bound))
    <2> SUFFICES ASSUME s.check # "none" PROVE s.check \in Comparing /\ s.bound.u \in Int /\ IsInteger(s.bound)
      OBVIOUS
    <2>1. /\ s.check \in Comparing /\ IsGoNumber(s.bound) /\ s.bound.t \in Signed \cup Unsigned
          /\ s.bound.t \notin Named
      BY TypesAre DEF IsNumeric
    <2>2. s.bound.t \notin Floats /\ s.bound.t # "float64" /\ s.bound.t # "float32"
      BY <2>1, TypesAre DEF Finites
    <2>3. s.bound.u \in TypeRange(s.bound.t)
      BY <2>1, <2>2 DEF IsGoNumber
    <2> QED
      BY <2>1, <2>2, <2>3, TypeRangeIs DEF IsInteger, Recognized
  <1>9. IsInteger(v) <=> Seen(s.out, u)
    BY <1>2 DEF IsInteger, Recognized, Seen
  <1>10. CASE ~Seen(s.out, u)
    <2>1. ~IsInteger(v) /\ ~ToFloat(v).ok
      BY <1>2, <1>9, <1>10, ToFloatIs, YesIs DEF Recognized, Seen
    <2>2. ~CompareNumeric(v, s.bound).ok
      BY <2>1, YesIs DEF CompareNumeric
    <2>3. MultipleOf(s.out, v, s.bound)
      BY <2>1, Zenon DEF MultipleOf
    <2>4. s.check \in Comparing \cup {"none"}
      BY <1>4
    <2>5. Holds(s, v)
      BY <2>2, <2>3, <2>4 DEF Holds, Comparing
    <2> QED
      BY <1>1, <1>10, <2>5
  <1> SUFFICES ASSUME Seen(s.out, u) PROVE Holds(s, v) <=> Satisfies(s, u)
    BY <1>1, <1>10
  <1>5. IsInteger(s.bound) => CompareNumeric(v, s.bound).ok /\ CompareNumeric(v, s.bound).v = u - s.bound.u
    BY <1>2, <1>9, YesIs DEF CompareNumeric
  <1>6. MultipleOf(s.out, v, s.bound) <=> s.bound.u = 0 \/ u % Abs(s.bound.u) = 0
    <2>1. IF s.out \in Unsigned THEN u >= 0 ELSE u \in MinInt64 .. MaxInt64
      <3>1. s.out \in Unsigned => Least(s.out) = 0
        BY DEF Least
      <3>2. s.out \notin Unsigned => s.out \in Signed
        OBVIOUS
      <3> QED
        BY <1>3, <3>1, <3>2, EndsAre, EndsOfInt64
    <2>2. s.out \notin Floats
      BY TypesAre
    <2>3. PICK e \in BOOLEAN : e <=> /\ s.out \notin Floats
                      /\ IsInteger(v)
                      /\ IF s.out \in Unsigned THEN v.u >= 0 ELSE v.u \in MinInt64 .. MaxInt64
      BY Zenon
    <2>4. e
      BY <1>2, <1>9, <2>1, <2>2, <2>3
    <2>5. MultipleOf(s.out, v, s.bound) <=>
            \/ s.bound.u = 0
            \/ e /\ v.u % Abs(s.bound.u) = 0
            \/ ~e /\ (ToFloat(v).ok => NoFloatRemainder(ToFloat(v).v.u, Round(s.bound.u)))
      BY <2>3, Zenon DEF MultipleOf
    <2> QED
      BY <1>2, <2>4, <2>5
  <1>7. CASE s.check = "none"
    BY <1>7 DEF Holds, Satisfies
  <1>8. CASE s.check \in Comparing /\ s.bound.u \in Int /\ IsInteger(s.bound)
    <2>1. CASE s.check = "multipleOf"
      BY <1>1, <1>6, <2>1 DEF Holds, Satisfies
    <2>2. CASE s.check = "gt"
      BY <1>1, <1>3, <1>5, <1>8, <2>2 DEF Holds, Satisfies
    <2>3. CASE s.check = "gte"
      BY <1>1, <1>3, <1>5, <1>8, <2>3 DEF Holds, Satisfies
    <2>4. CASE s.check = "lt"
      BY <1>1, <1>3, <1>5, <1>8, <2>4 DEF Holds, Satisfies
    <2>5. CASE s.check = "lte"
      BY <1>1, <1>3, <1>5, <1>8, <2>5 DEF Holds, Satisfies
    <2> QED
      BY <1>8, <2>1, <2>2, <2>3, <2>4, <2>5 DEF Comparing
  <1> QED
    BY <1>4, <1>7, <1>8

\* An integer schema takes a Go number exactly when it fits and, if the checks see
\* it, satisfies them, as the same number.
LEMMA ParseInteger ==
  ASSUME NEW s, IsNumeric(s), s.out \in Signed \cup Unsigned, NEW v, IsNumber(v)
  PROVE  Parse(s, v) =
           IF /\ Fits(s, v)
              /\ Seen(s.out, v.u) => /\ Satisfies(s, v.u)
                                     /\ s.format = "safeint" => v.u \in -MaxSafeInteger .. MaxSafeInteger
           THEN Yes([t |-> s.out, u |-> v.u]) ELSE No
  <1>1. PICK w : w = Coerced(s, v)
    OBVIOUS
  <1>2. PICK c : c = Convert(s.out, w)
    OBVIOUS
  <1>3. c = IF Fits(s, v) THEN Yes([t |-> s.out, u |-> v.u]) ELSE No
    BY <1>1, <1>2, ConvertIs
  <1>4. PICK p : p = OrFloat(s, c, ToFloat(w))
    OBVIOUS
  <1>5. Parse(s, v) = IF p.ok /\ NumberFormat(s.format, p.v) /\ Holds(s, p.v) THEN p ELSE No
    BY <1>1, <1>2, <1>4 DEF Parse, ParseNumber, ParseUncoerced, AfterChecks
  <1>6. CASE Fits(s, v)
    <2>1. c = Yes([t |-> s.out, u |-> v.u])
      BY <1>3, <1>6
    <2>2. p = c
      BY <1>4, <2>1, YesIs DEF OrFloat
    <2>3. p.ok /\ p.v = [t |-> s.out, u |-> v.u]
      BY <2>1, <2>2, YesIs
    <2>4. v.u \in TypeRange(s.out)
      BY <1>6 DEF Fits
    <2>5. NumberFormat(s.format, p.v)
            <=> (Seen(s.out, v.u) /\ s.format = "safeint" => v.u \in -MaxSafeInteger .. MaxSafeInteger)
      BY <2>3, <2>4, FormatOfInteger
    <2>6. Holds(s, p.v) <=> (Seen(s.out, v.u) => Satisfies(s, v.u))
      BY <2>3, <2>4, HoldsOfInteger
    <2> QED
      BY <1>5, <1>6, <2>1, <2>2, <2>3, <2>5, <2>6
  <1>8. CASE ~Fits(s, v) /\ ~Recognized(v)
    <2>1. ~c.ok
      BY <1>3, <1>8, YesIs
    <2>2. v.t \in Signed \cup Unsigned /\ v.u > MaxInt64
      BY <1>8, NumberIs, TypesAre, EndsOfInt64 DEF Recognized
    <2>3. w = v
      BY <1>1, <1>8, <2>2, CoercedIs, EndsOfInt64 DEF IsInt64
    <2>4. ToFloat(w) = No
      BY <1>8, <2>2, <2>3, ToFloatIs
    <2>5. p = No
      BY <1>4, <2>1, <2>4, YesIs DEF OrFloat
    <2> QED
      BY <1>5, <1>8, <2>5, YesIs
  <1>7. CASE ~Fits(s, v) /\ Recognized(v)
    <2>1. ~c.ok
      BY <1>3, <1>7, YesIs
    <2>2. v.u \in Int /\ (v.t \in Finites \/ (v.u % 2 = 0 /\ v.t \in Signed \cup Unsigned))
      BY NumberIs DEF IsNumber
    <2>3. v.u \notin TypeRange(s.out) \/ v.u > MaxInt64
      BY <1>7 DEF Fits
    <2>4. PICK y : y \in Int /\ ToFloat(w) = Yes(Float(y)) /\ (y = v.u \/ (v.u % 2 = 0 /\ y = Round(v.u)))
      <3>1. v.u % 2 = 0 => Round(v.u) \in Int
        BY <2>2, RoundIs
      <3>2. PICK x \in Int : x = IF v.t \in Finites THEN v.u ELSE Round(v.u)
        BY <2>2, <3>1
      <3>3. ToFloat(v) = Yes(Float(x))
        BY <1>7, <2>2, <3>2, ToFloatIs
      <3>4. ToFloat(Float(x)) = Yes(Float(x))
        <4>1. Float(x).t \in Finites /\ Float(x).u = x /\ Recognized(Float(x))
          BY YesIs, TypesAre DEF Recognized
        <4> QED
          BY <4>1, ToFloatIs
      <3>5. IsInt64(v.u) => ToFloat([t |-> "int64", u |-> v.u]) = Yes(Float(Round(v.u)))
        <4>1. "int64" \in Signed /\ "int64" \notin Finites
          BY TypesAre
        <4>2. PICK i : i = [t |-> "int64", u |-> v.u]
          OBVIOUS
        <4>3. i.t = "int64" /\ i.u = v.u /\ Recognized(i)
          BY <4>1, <4>2, TypesAre DEF Recognized
        <4> QED
          BY <4>1, <4>2, <4>3, ToFloatIs
      <3>6. w = v \/ (IsInt64(v.u) /\ w = [t |-> "int64", u |-> v.u]) \/ w = Float(x)
        BY <1>1, <1>7, <3>2, CoercedIs
      <3>7. x = v.u \/ (v.u % 2 = 0 /\ x = Round(v.u))
        BY <2>2, <3>2
      <3>8. IsInt64(v.u) => v.u % 2 = 0
        BY DEF IsInt64
      <3> QED
        BY <3>1, <3>3, <3>4, <3>5, <3>6, <3>7, <3>8
    <2>5. p = IF ~s.strict THEN Yes(Float(y)) ELSE No
      <3>1. "float64" \notin Infinite
        BY TypesAre
      <3> QED
        BY <1>4, <2>1, <2>4, <3>1, YesIs DEF OrFloat
    <2>6. ~s.strict => ~NumberFormat(s.format, Float(y))
      BY <2>2, <2>3, <2>4, KeptFails
    <2> QED
      BY <1>5, <1>7, <2>5, <2>6, YesIs
  <1> QED
    BY <1>6, <1>7, <1>8

\* A coerced text of an integer is parsed as that int64.
LEMMA ParseText ==
  ASSUME NEW s, s.out \in Signed \cup Unsigned, s.coerce,
         NEW v, v.t = "string", v.lit = "integer", v.u \in Int, IsInt64(v.u)
  PROVE  Parse(s, v) = Parse(s, [t |-> "int64", u |-> v.u])
  <1>1. PICK i : i = [t |-> "int64", u |-> v.u]
    OBVIOUS
  <1>2. i.t = "int64" /\ i.u = v.u
    BY <1>1
  <1>3. IsNumber(i)
    <2>1. "int64" \in Signed /\ Least("int64") = MinInt64 /\ Most("int64") = MaxInt64
      BY DEF Signed, Unsigned, Named, Least, Most
    <2>2. v.u \in TypeRange("int64")
      BY <2>1, TypeRangeIs, EndsOfInt64 DEF IsInt64
    <2> QED
      BY <1>2, <2>1, <2>2 DEF IsNumber
  <1>4. Coerced(s, i) = i
    BY <1>1, <1>2, <1>3, CoercedIs
  <1>5. ~ToInt64(v).ok
    BY YesIs DEF ToInt64, Signed, Unsigned, Named
  <1>6. IsInt64Text(v)
    BY DEF IsInt64Text, IsInt64
  <1>7. CoerceToInt64(v) = Yes(i)
    BY <1>1, <1>5, <1>6 DEF CoerceToInt64
  <1>8. s.out \notin Floats
    BY TypesAre
  <1>9. Coerced(s, v) = i
    BY <1>7, <1>8, YesIs DEF Coerced
  <1>10. Parse(s, v) = Parse(s, i)
    BY <1>4, <1>9 DEF Parse, ParseNumber
  <1> QED
    BY <1>1, <1>10

\* An integer literal of a body becomes the same number.
LEMMA NormalizedInteger ==
  ASSUME NEW token, token.lit = "integer", token.u \in Int, IsInt64(token.u)
  PROVE  /\ IsNumber(Normalized(token)) /\ Normalized(token).u = token.u
         /\ Normalized(token).t # "uint64" /\ Normalized(token).t # "object"
  <1>1. PICK lit : lit = [t |-> "jsonNumber", lit |-> token.lit, u |-> token.u]
    OBVIOUS
  <1>2. lit.lit = "integer" /\ lit.u = token.u
    BY <1>1
  <1>3. IsInt64Text(lit)
    BY <1>2 DEF IsInt64Text, IsInt64
  <1>4. Normalized(token) = IF Abs(token.u) > MaxSafeInteger + 2 THEN [t |-> "int64", u |-> token.u] ELSE Float(token.u)
    BY <1>1, <1>3 DEF Normalized
  <1>5. CASE Normalized(token) = [t |-> "int64", u |-> token.u]
    <2>1. Normalized(token).t = "int64" /\ Normalized(token).u = token.u
      BY <1>5
    <2>2. "int64" \in Signed /\ Least("int64") = MinInt64 /\ Most("int64") = MaxInt64
      BY DEF Signed, Unsigned, Named, Least, Most
    <2>3. token.u \in TypeRange("int64")
      BY <2>2, TypeRangeIs, EndsOfInt64 DEF IsInt64
    <2> QED
      BY <2>1, <2>2, <2>3 DEF IsNumber
  <1>6. CASE Normalized(token) = Float(token.u)
    <2>1. Normalized(token).t = "float64" /\ Normalized(token).u = token.u
      BY <1>6, YesIs
    <2> QED
      BY <2>1, TypesAre DEF IsNumber
  <1> QED
    BY <1>4, <1>5, <1>6

-----------------------------------------------------------------------------
(* Fields. *)

\* A field of an integer type takes the integers that reach it, and no others.
LEMMA AssignIs ==
  ASSUME NEW out \in Signed \cup Unsigned, NEW u \in TypeRange(out), NEW field \in Signed \cup Unsigned
  PROVE  Assign(field, [t |-> out, u |-> u]) = IF u \in Reaching(out, field) THEN Yes([t |-> field, u |-> u]) ELSE No
  <1>1. PICK v : v = [t |-> out, u |-> u]
    OBVIOUS
  <1>2. v.t = out /\ v.u = u
    BY <1>1
  <1>3. u \in Int /\ u % 2 = 0 /\ Least(out) <= u /\ u <= Most(out)
    BY TypeRangeIs
  <1>4. u \in MinInt64 .. MaxUint64 /\ (u >= 0 \/ out \notin Unsigned)
    BY <1>3, EndsAre, EndsOfInt64 DEF Least
  <1>7. field # "none"
    BY TypesAre
  <1>5. CASE out = field
    <2>1. u \in Reaching(out, field)
      BY <1>5, <1>7 DEF Reaching
    <2> QED
      BY <1>1, <1>2, <1>5, <2>1 DEF Assign
  <1>6. CASE out # field
    <2>13. Reaching(out, field) = IF out \in Named THEN {} ELSE TypeRange(field)
      BY <1>6, <1>7 DEF Reaching
    <2>1. field \notin Floats
      BY TypesAre
    <2>2. PICK n : n = IF field \in Unsigned THEN ScalarToUint64(v) ELSE ScalarToInt64(v)
      OBVIOUS
    <2>3. Assign(field, v) = AssignInteger(field, n)
      BY <1>2, <1>6, <2>1, <2>2 DEF Assign
    <2>4. PICK hi : hi = IF field \in Unsigned /\ Bits(field) = Word THEN MaxUint64 ELSE IntegerBounds(field).hi
      OBVIOUS
    <2>5. AssignInteger(field, n) =
            IF n.ok /\ n.v \in IntegerBounds(field).lo .. hi THEN Yes([t |-> field, u |-> n.v]) ELSE No
      BY <2>4 DEF AssignInteger
    <2>6. hi = Most(field) /\ IntegerBounds(field).lo = Least(field) /\ Least(field) \in Int /\ Most(field) \in Int
      <3>1. HalfWord # Word
        BY NumbersAssumption
      <3>2. field \in Unsigned /\ Bits(field) = Word <=> field \in {"uint64", "uint", "ID"}
        BY <3>1 DEF Unsigned, Named, Bits
      <3> QED
        BY <2>4, <3>2, EndsAre DEF Most
    <2>7. u \in TypeRange(field) <=> Least(field) <= u /\ u <= Most(field)
      BY <1>3, TypeRangeIs
    <2>8. out \notin {"float64", "float32"} /\ out # "jsonNumber" /\ out # "bigInt"
      BY TypesAre DEF Finites
    <2>11. CASE out \in Named
      <3>1. ~n.ok
        BY <1>2, <2>2, <2>8, <2>11, YesIs DEF ScalarToUint64, ScalarToInt64
      <3> QED
        BY <1>1, <2>3, <2>5, <2>11, <2>13, <3>1
    <2>9. CASE out \notin Named /\ field \in Unsigned
      <3>1. n = IF u >= 0 THEN Yes(u) ELSE No
        BY <1>2, <2>2, <2>8, <2>9 DEF ScalarToUint64
      <3>2. Least(field) = 0
        BY <2>9 DEF Least
      <3> QED
        BY <1>1, <1>3, <2>3, <2>5, <2>6, <2>7, <2>9, <2>13, <3>1, <3>2, YesIs
    <2>10. CASE out \notin Named /\ field \notin Unsigned
      <3>1. IsNumber(v)
        BY <1>2, <1>3 DEF IsNumber
      <3>2. n = IF IsInt64(u) THEN Yes(u) ELSE No
        BY <1>2, <2>2, <2>8, <2>10, <3>1, ToInt64Is DEF ScalarToInt64
      <3>3. field \in Signed /\ MinInt64 <= Least(field) /\ Most(field) <= MaxInt64
        BY <2>10, EndsAre
      <3>4. IsInt64(u) \/ ~(u <= MaxInt64)
        BY <1>3, <1>4, EndsOfInt64 DEF IsInt64
      <3>5. ~IsInt64(u) => u \notin TypeRange(field)
        BY <1>3, <2>6, <2>7, <3>3, <3>4, EndsOfInt64
      <3> QED
        BY <1>1, <1>3, <2>3, <2>5, <2>6, <2>7, <2>10, <2>13, <3>2, <3>5, YesIs
    <2> QED
      BY <2>9, <2>10, <2>11
  <1> QED
    BY <1>5, <1>6

\* A field gets its own type, or an infinity.
LEMMA AssignTyped ==
  ASSUME NEW field, NEW v, Assign(field, v).ok
  PROVE  Assign(field, v).v.t \in {field, "inf"}
  <1>1. CASE v.t = field
    BY <1>1, YesIs DEF Assign
  <1>2. CASE v.t # field /\ field \in Floats
    <2>1. PICK f : Assign(field, v) = AssignFloat(field, f)
      BY <1>2, Zenon DEF Assign
    <2>2. PICK r : AssignFloat(field, f) =
                     IF ~f.ok THEN No
                     ELSE IF field = "float32" /\ Abs(r) > MaxFloat32 THEN Yes([t |-> "inf", u |-> 0])
                          ELSE Yes([t |-> field, u |-> r])
      BY Zenon DEF AssignFloat
    <2> QED
      BY <2>1, <2>2, YesIs
  <1>3. CASE v.t # field /\ field \notin Floats
    <2>1. PICK n : Assign(field, v) = AssignInteger(field, n)
      BY <1>3, Zenon DEF Assign
    <2>2. AssignInteger(field, n) = Yes([t |-> field, u |-> n.v]) \/ AssignInteger(field, n) = No
      BY Zenon DEF AssignInteger
    <2> QED
      BY <2>1, <2>2, YesIs
  <1> QED
    BY <1>1, <1>2, <1>3

-----------------------------------------------------------------------------
(* Go numbers through the float schemas. *)

LEMMA Quotients ==
  ASSUME NEW c \in Nat, NEW den \in Nat \ {0}
  PROVE  (c * den) % den = 0 /\ (c * den) \div den = c
  OBVIOUS

\* A multiple of the divisor has no remainder, whatever the scale of the ratio.
LEMMA NoRemainder ==
  ASSUME NEW val \in Int, NEW step \in Int, step # 0, val % Abs(step) = 0
  PROVE  NoFloatRemainder(val, step)
  <1>1. PICK den \in Nat \ {0} : den = Abs(step)
    BY DEF Abs
  <1>2. PICK c \in Nat : Abs(val) = c * den
    <2>1. PICK k \in Int : k = val \div den
      BY <1>1
    <2>2. val = k * den
      BY <1>1, <2>1
    <2>3. CASE val < 0
      <3>1. -k \in Nat /\ Abs(val) = (-k) * den
        BY <1>1, <2>2, <2>3 DEF Abs
      <3> QED
        BY <3>1
    <2>4. CASE ~(val < 0)
      <3>1. k \in Nat /\ Abs(val) = k * den
        BY <1>1, <2>2, <2>4 DEF Abs
      <3> QED
        BY <3>1
    <2> QED
      BY <2>3, <2>4
  <1>3. Exponent \in Nat /\ Mantissa - 1 \in Nat
    BY NumbersAssumption
  <1> DEFINE s == CHOOSE k \in 0 .. 2 * Exponent :
                    \/ Abs(val) * Pow2[k] >= Abs(step) * Pow2[Mantissa - 1]
                    \/ k = 2 * Exponent
  <1>4. s \in Nat
    <2>1. \E k \in 0 .. 2 * Exponent : Abs(val) * Pow2[k] >= Abs(step) * Pow2[Mantissa - 1] \/ k = 2 * Exponent
      BY <1>3
    <2>2. s \in 0 .. 2 * Exponent
      BY <2>1, Zenon
    <2> HIDE DEF s
    <2> QED
      BY <2>2
  <1>14. NoFloatRemainder(val, step) <=>
          LET q == NearestEven(Abs(val) * Pow2[s], Abs(step))
              nearest == (2 * q + Pow2[s]) \div (2 * Pow2[s])
          IN  \/ Abs(val) >= Abs(step) * Pow2[Mantissa]
              \/ Abs(q - nearest * Pow2[s]) * Pow2[Mantissa - 1] < (IF q > Pow2[s] THEN q ELSE Pow2[s])
    BY Zenon DEF NoFloatRemainder
  <1> HIDE DEF s
  <1>5. PICK p \in Nat \ {0} : p = Pow2[s]
    BY <1>4, Pow2Pos
  <1>6. PICK m \in Nat \ {0} : m = Pow2[Mantissa - 1]
    BY <1>3, Pow2Pos
  <1>7. PICK q : q = NearestEven(c * den * p, den)
    OBVIOUS
  <1>8. q = c * p
    <2>1. c * p \in Nat /\ c * den * p = (c * p) * den
      BY <1>1
    <2>2. ((c * p) * den) % den = 0 /\ ((c * p) * den) \div den = c * p /\ (c * p) * den \in Nat
      BY <2>1, Quotients
    <2> QED
      BY <1>7, <2>1, <2>2, NearestEvenIs
  <1>9. PICK nearest : nearest = (2 * q + p) \div (2 * p)
    OBVIOUS
  <1>10. nearest = c
    <2>1. PICK d \in Nat \ {0} : d = 2 * p
      OBVIOUS
    <2>2. 2 * q + p = c * d + p /\ p < d
      BY <1>8, <2>1
    <2>3. (c * d + p) \div d = c
      BY <2>2
    <2> QED
      BY <1>9, <2>1, <2>2, <2>3
  <1>11. NoFloatRemainder(val, step) <=>
           \/ Abs(val) >= Abs(step) * Pow2[Mantissa]
           \/ Abs(q - nearest * p) * m < (IF q > p THEN q ELSE p)
    BY <1>1, <1>2, <1>14, <1>5, <1>6, <1>7, <1>9
  <1>12. Abs(q - nearest * p) = 0
    <2>1. c * p \in Nat
      OBVIOUS
    <2>2. q - nearest * p = 0
      BY <1>8, <1>10, <2>1
    <2> QED
      BY <2>2 DEF Abs
  <1>13. Abs(q - nearest * p) * m < (IF q > p THEN q ELSE p)
    <2>1. c * p \in Nat
      OBVIOUS
    <2> QED
      BY <1>8, <1>12, <2>1
  <1> QED
    BY <1>11, <1>13

LEMMA GoNumberIs ==
  ASSUME NEW v, v.t \in Signed \cup Unsigned \cup Finites, IsGoNumber(v)
  PROVE  /\ IsNumber(v)
         /\ v.t = "float64" => Round(v.u) = v.u
         /\ v.t \in Finites => Abs(v.u) <= MaxFloat64
  <1>1. CASE v.t \in Signed \cup Unsigned
    <2>1. v.t \notin Finites /\ v.t # "float64" /\ v.t # "float32"
      BY <1>1, TypesAre DEF Finites
    <2>2. v.u \in TypeRange(v.t)
      BY <1>1, <2>1 DEF IsGoNumber
    <2>3. v.u \in Int
      BY <1>1, <2>2, TypeRangeIs
    <2> QED
      BY <1>1, <2>1, <2>2, <2>3 DEF IsNumber
  <1>2. CASE v.t \in Finites
    <2>1. v.t \notin Signed \cup Unsigned /\ v.t \in {"float64", "float32"}
      BY <1>2, TypesAre DEF Finites
    <2>2. /\ v.t = "float64" => v.u \in Int /\ Round(v.u) = v.u /\ Abs(v.u) <= MaxFloat64
          /\ v.t = "float32" => v.u \in Int /\ Abs(v.u) <= MaxFloat32
      BY <2>1 DEF IsGoNumber
    <2>3. v.u \in Int => Abs(v.u) \in Int
      BY DEF Abs
    <2> QED
      BY <1>2, <2>1, <2>2, <2>3, EndsOfInt64 DEF IsNumber
  <1> QED
    BY <1>1, <1>2

\* The check of a float schema on a float64.
LEMMA HoldsOfFloat ==
  ASSUME NEW s, IsNumeric(s), s.out = "float64", NEW x \in Int, Satisfies(s, x)
  PROVE  Holds(s, Float(x))
  <1>1. PICK v : v = Float(x)
    OBVIOUS
  <1>2. /\ v.t = "float64" /\ v.u = x /\ v.t \in Finites /\ v.t \in Floats
        /\ Recognized(v) /\ ~IsInteger(v)
    BY <1>1, YesIs, TypesAre DEF Recognized, IsInteger
  <1>3. ToFloat(v).ok /\ ToFloat(v).v.u = x
    BY <1>2, ToFloatIs, YesIs
  <1>4. s.out \in Finites /\ s.out \in Floats
    BY TypesAre
  <1>5. CASE s.check = "none"
    BY <1>5 DEF Holds
  <1>6. CASE s.check # "none"
    <2>1. s.check \in Comparing /\ IsGoNumber(s.bound) /\ s.bound.t = "float64"
      BY <1>4, <1>6 DEF IsNumeric
    <2>2. s.bound.t \in Finites
      BY <2>1, TypesAre
    <2>3. IsNumber(s.bound) /\ Round(s.bound.u) = s.bound.u
      BY <2>1, <2>2, GoNumberIs
    <2>4. s.bound.u \in Int
      BY <2>3, NumberIs
    <2>5. ToFloat(s.bound).ok /\ ToFloat(s.bound).v.u = s.bound.u
      BY <2>2, ToFloatIs, YesIs, TypesAre DEF Recognized
    <2>6. CompareNumeric(v, s.bound).ok /\ CompareNumeric(v, s.bound).v = x - s.bound.u
      BY <1>2, <1>3, <2>5, YesIs DEF CompareNumeric
    <2>7. CASE s.check = "multipleOf"
      <3>1. s.bound.u = 0 \/ x % Abs(s.bound.u) = 0
        BY <2>7 DEF Satisfies
      <3>2. s.bound.u # 0 => NoFloatRemainder(x, Round(s.bound.u))
        BY <2>3, <2>4, <3>1, NoRemainder
      <3>3. MultipleOf(s.out, v, s.bound)
        BY <1>2, <1>3, <1>4, <3>1, <3>2 DEF MultipleOf
      <3> QED
        BY <1>1, <2>7, <3>3 DEF Holds
    <2>8. CASE s.check = "gt"
      BY <1>1, <2>4, <2>6, <2>8 DEF Holds, Satisfies
    <2>9. CASE s.check = "gte"
      BY <1>1, <2>4, <2>6, <2>9 DEF Holds, Satisfies
    <2>10. CASE s.check = "lt"
      BY <1>1, <2>4, <2>6, <2>10 DEF Holds, Satisfies
    <2>11. CASE s.check = "lte"
      BY <1>1, <2>4, <2>6, <2>11 DEF Holds, Satisfies
    <2> QED
      BY <2>1, <2>7, <2>8, <2>9, <2>10, <2>11 DEF Comparing
  <1> QED
    BY <1>5, <1>6

\* A float schema returns its own type; a float64 schema returns the nearest
\* float64, and one without a format refuses only what its check does.
LEMMA ParseToFloat ==
  ASSUME NEW s, IsNumeric(s), s.out \in Finites,
         NEW v, v.t \in Signed \cup Unsigned \cup Finites, IsGoNumber(v)
  PROVE  /\ Parse(s, v).ok => Parse(s, v).v.t = s.out
         /\ s.out = "float64" =>
              /\ Parse(s, v).ok => ToFloat(v).ok /\ Parse(s, v).v.u = ToFloat(v).v.u
              /\ s.format = "none" /\ ToFloat(v).ok /\ Satisfies(s, ToFloat(v).v.u) => Parse(s, v).ok
  <1>15. CASE ~Recognized(v)
    <2>1. ToFloat(v) = No
      BY <1>15, ToFloatIs
    <2>2. v.t # "bool" /\ v.t # "string" /\ v.t # "bigInt" /\ s.out \in Floats
      BY TypesAre
    <2>3. CoerceToNumber(v) = No
      BY <2>1, <2>2 DEF CoerceToNumber
    <2>4. Coerced(s, v) = v
      BY <2>2, <2>3, YesIs DEF Coerced
    <2>5. Convert(s.out, v) = No
      BY <2>1, <2>2, YesIs DEF Convert, ConvertFloat
    <2>6. ParseNumber(s, v) = No
      BY <2>1, <2>4, <2>5, YesIs DEF ParseNumber, ParseUncoerced, OrFloat
    <2>7. ~Parse(s, v).ok
      BY <2>6, YesIs DEF Parse, AfterChecks
    <2> QED
      BY <2>1, <2>7, YesIs
  <1> SUFFICES ASSUME Recognized(v)
               PROVE  /\ Parse(s, v).ok => Parse(s, v).v.t = s.out
                      /\ s.out = "float64" =>
                           /\ Parse(s, v).ok => ToFloat(v).ok /\ Parse(s, v).v.u = ToFloat(v).v.u
                           /\ s.format = "none" /\ ToFloat(v).ok /\ Satisfies(s, ToFloat(v).v.u) => Parse(s, v).ok
    BY <1>15
  <1>1. PICK x : x = IF v.t \in Finites THEN v.u ELSE Round(v.u)
    OBVIOUS
  <1>2. x \in Int /\ Abs(x) <= MaxFloat64 /\ Abs(x) \in Nat
    <2>1. IsNumber(v)
      BY GoNumberIs
    <2>2. CASE v.t \in Finites
      BY <1>1, <2>1, <2>2, GoNumberIs, NumberIs DEF Abs
    <2>3. CASE v.t \notin Finites
      BY <1>1, <2>1, <2>3, NumberIs, RoundIs DEF Abs
    <2> QED
      BY <2>2, <2>3
  <1>3. ToFloat(v) = Yes(Float(x))
    BY <1>1, ToFloatIs
  <1>4. ToFloat(Float(x)) = Yes(Float(x))
    <2>1. Float(x).t \in Finites /\ Float(x).u = x /\ Recognized(Float(x))
      BY YesIs, TypesAre DEF Recognized
    <2> QED
      BY <2>1, ToFloatIs
  <1>5. s.out \in Floats
    BY TypesAre
  <1>6. PICK w : w = Coerced(s, v)
    OBVIOUS
  <1>7. ToFloat(w) = Yes(Float(x))
    <2>1. v.t # "bool" /\ v.t # "string" /\ v.t # "bigInt"
      BY TypesAre
    <2>2. CoerceToNumber(v) = Yes(Float(x))
      BY <1>3, <2>1 DEF CoerceToNumber
    <2>3. w = v \/ w = Float(x)
      BY <1>5, <1>6, <2>2, YesIs DEF Coerced
    <2> QED
      BY <1>3, <1>4, <2>3
  <1>8. PICK limit : limit = IF s.out = "float32" THEN MaxFloat32 ELSE MaxFloat64
    OBVIOUS
  <1>9. PICK c : c = Convert(s.out, w)
    OBVIOUS
  <1>10. c = IF Abs(x) <= limit THEN Yes([t |-> s.out, u |-> IF s.out = "float32" THEN RoundTo(Mantissa32, x) ELSE x])
             ELSE No
    <2>1. c = ConvertFloat(s.out, Yes(Float(x)))
      BY <1>5, <1>7, <1>9 DEF Convert
    <2>2. Float(x).t \notin Infinite
      BY YesIs, TypesAre
    <2> QED
      BY <1>8, <2>1, <2>2, YesIs DEF ConvertFloat
  <1>11. PICK p : p = OrFloat(s, c, Yes(Float(x)))
    OBVIOUS
  <1>12. Parse(s, v) = IF p.ok /\ NumberFormat(s.format, p.v) /\ Holds(s, p.v) THEN p ELSE No
    BY <1>6, <1>7, <1>9, <1>11 DEF Parse, ParseNumber, ParseUncoerced, AfterChecks
  <1>13. CASE Abs(x) <= limit
    <2>1. p = c /\ p.ok
      BY <1>10, <1>11, <1>13, YesIs DEF OrFloat
    <2>2. p.v = [t |-> s.out, u |-> IF s.out = "float32" THEN RoundTo(Mantissa32, x) ELSE x]
      BY <1>10, <1>13, <2>1, YesIs
    <2>3. Parse(s, v).ok => Parse(s, v).v.t = s.out
      BY <1>12, <2>2, YesIs
    <2>4. ASSUME s.out = "float64" PROVE p.v = Float(x)
      BY <2>2, <2>4 DEF Float
    <2>5. ASSUME s.out = "float64", Parse(s, v).ok PROVE ToFloat(v).ok /\ Parse(s, v).v.u = ToFloat(v).v.u
      BY <1>3, <1>12, <2>4, <2>5, YesIs
    <2>6. ASSUME s.out = "float64", s.format = "none", Satisfies(s, ToFloat(v).v.u) PROVE Parse(s, v).ok
      <3>1. Holds(s, p.v)
        BY <1>2, <1>3, <2>4, <2>6, HoldsOfFloat, YesIs
      <3>2. ToFloat(p.v).ok /\ ToFloat(p.v).v.u = x
        BY <1>4, <2>4, <2>6, YesIs
      <3>3. FormatRange(s.format).lo = -MaxFloat64 /\ FormatRange(s.format).hi = MaxFloat64
        BY <2>6 DEF FormatRange
      <3>4. x \in FormatRange(s.format).lo .. FormatRange(s.format).hi
        BY <1>2, <3>3, EndsOfInt64 DEF Abs
      <3>5. NumberFormat(s.format, p.v)
        BY <2>6, <3>2, <3>4 DEF NumberFormat
      <3> QED
        BY <1>12, <2>1, <3>1, <3>5
    <2> QED
      BY <2>3, <2>5, <2>6
  <1>14. CASE ~(Abs(x) <= limit)
    <2>1. s.out = "float32" /\ limit = MaxFloat32
      BY <1>2, <1>8, <1>14
    <2>2. c = No
      BY <1>10, <1>14
    <2>3. Float(x).t \notin Infinite
      BY YesIs, TypesAre
    <2>4. p = IF ~s.strict THEN Yes(Float(x)) ELSE No
      BY <1>11, <2>2, <2>3, YesIs DEF OrFloat
    <2>5. ASSUME ~s.strict PROVE ~NumberFormat(s.format, Float(x))
      <3>1. s.format = "float32"
        BY <2>1, <2>5 DEF IsNumeric, Formats
      <3>2. FormatRange(s.format).lo = -MaxFloat32 /\ FormatRange(s.format).hi = MaxFloat32
        BY <3>1 DEF FormatRange
      <3>3. x \notin FormatRange(s.format).lo .. FormatRange(s.format).hi
        BY <1>2, <1>14, <2>1, <3>2, EndsOfInt64 DEF Abs
      <3>4. ToFloat(Float(x)).ok /\ ToFloat(Float(x)).v.u = x
        BY <1>4, YesIs
      <3> QED
        BY <3>3, <3>4 DEF NumberFormat
    <2>6. ~Parse(s, v).ok
      BY <1>12, <2>4, <2>5, YesIs
    <2> QED
      BY <2>1, <2>6
  <1> QED
    BY <1>13, <1>14

-----------------------------------------------------------------------------
(* Verdicts. *)

LEMMA OutcomeIs ==
  /\ \A v : Accepted(v).ok /\ Accepted(v).v = v
  /\ \A status, issues : ~Rejected(status, issues).ok /\ Rejected(status, issues).status = status
  BY DEF Accepted, Rejected

\* What is parsed is decoded into the field.
LEMMA DecodingIs ==
  ASSUME NEW schema, NEW p, NEW d, d = IF schema.field = "none" \/ ~p.ok THEN p ELSE Assign(schema.field, p.v)
  PROVE  /\ Decoding(schema, p).ok <=> d.ok
         /\ d.ok => Decoding(schema, p).v = d.v
  <1>1. \A r, issue : (Decided(r, issue).ok <=> r.ok) /\ (r.ok => Decided(r, issue).v = r.v)
    BY OutcomeIs DEF Decided
  <1> QED
    BY <1>1 DEF Decoding

\* A schema and a field of integer types.
LEMMA VerdictOfInteger ==
  ASSUME NEW schema, schema.kind = "number", schema.number.out \in Signed \cup Unsigned,
         schema.field \in Signed \cup Unsigned \cup {"none"},
         NEW v, v.t # "object", NEW u, NEW takes \in BOOLEAN, takes => u \in TypeRange(schema.number.out),
         Parse(schema.number, v) = IF takes THEN Yes([t |-> schema.number.out, u |-> u]) ELSE No
  PROVE  /\ Verdict(schema, v).ok <=> takes /\ u \in Reaching(schema.number.out, schema.field)
         /\ Verdict(schema, v).ok =>
              Verdict(schema, v).v = [t |-> IF schema.field = "none" THEN schema.number.out ELSE schema.field, u |-> u]
  <1>1. PICK p : p = Parse(schema.number, v)
    OBVIOUS
  <1>2. Verdict(schema, v) = Decoding(schema, p)
    BY <1>1 DEF Verdict, NumberVerdict
  <1>3. PICK d : d = IF schema.field = "none" \/ ~p.ok THEN p ELSE Assign(schema.field, p.v)
    OBVIOUS
  <1>4. (Verdict(schema, v).ok <=> d.ok) /\ (d.ok => Verdict(schema, v).v = d.v)
    BY <1>2, <1>3, DecodingIs
  <1>5. CASE ~takes
    <2>1. ~d.ok
      BY <1>1, <1>3, <1>5, YesIs
    <2> QED
      BY <1>4, <1>5, <2>1
  <1>6. CASE takes /\ schema.field = "none"
    <2>1. d.ok /\ d.v = [t |-> schema.number.out, u |-> u]
      BY <1>1, <1>3, <1>6, YesIs
    <2>2. u \in Reaching(schema.number.out, schema.field)
      BY <1>6 DEF Reaching
    <2> QED
      BY <1>4, <1>6, <2>1, <2>2
  <1>7. CASE takes /\ schema.field # "none"
    <2>1. p.ok /\ p.v = [t |-> schema.number.out, u |-> u]
      BY <1>1, <1>7, YesIs
    <2>2. d = IF u \in Reaching(schema.number.out, schema.field) THEN Yes([t |-> schema.field, u |-> u]) ELSE No
      BY <1>3, <1>7, <2>1, AssignIs
    <2> QED
      BY <1>4, <1>7, <2>2, YesIs
  <1> QED
    BY <1>5, <1>6, <1>7

LEMMA WholeRead ==
  \A tokens \in Seq(Tokens) : Unbroken(tokens) => \A opts : opts.maxBody \in Int =>
    IF Limit(opts) >= 0 /\ Len(tokens) > Limit(opts)
    THEN ReadAll(tokens, Limit(opts)).raw = None /\ ReadAll(tokens, Limit(opts)).error = "too_large"
    ELSE ReadAll(tokens, Limit(opts)).raw = tokens
  BY LimitFacts, ReadAllFacts

\* The verdict on a body of one value is that on the value.
LEMMA OneToken ==
  ASSUME NEW step, step.opts.maxBody \in Int, NEW r, NEW tokens \in Seq(Tokens), None \notin Seq(Tokens),
         Len(tokens) = 1, tokens[1].kind = "value",
         NEW out, out = BoundJSON(step, r, None, tokens).out, out.status \in {0, 400}
  PROVE  out = Verdict(step.schema, Normalized(tokens[1]))
  <1>1. Unbroken(tokens) /\ tokens # None /\ tokens # <<>>
    <2>1. Unbroken(tokens)
      <3>1. \A i \in 1 .. Len(tokens) : i = 1
        OBVIOUS
      <3> QED
        BY <3>1, Zenon DEF Unbroken
    <2>2. tokens # None
      BY Zenon
    <2>3. tokens # <<>>
      <3>1. tokens = <<>> <=> Len(tokens) = 0
        BY EmptySeq
      <3> QED
        BY <3>1
    <2> QED
      BY <2>1, <2>2, <2>3
  <1>2. PICK got : got = ReadJSONBody(r, None, tokens, step.opts)
    OBVIOUS
  <1>3. out = IF got.out.ok THEN Verdict(step.schema, got.out.v) ELSE got.out
    BY <1>1, <1>2, BoundFacts DEF IsBody
  <1>4. \A status : \A message : ~Failure(status, message).ok /\ Failure(status, message).status = status
    BY OutcomeIs DEF Failure
  <1>5. CASE ~step.opts.anyType /\ ~IsJSONContentType(r.contentType)
    <2>1. got.out = Failure(415, "unsupported_type")
      BY <1>1, <1>2, <1>5 DEF ReadJSONBody
    <2> QED
      BY <1>3, <1>4, <2>1
  <1>6. CASE ~(~step.opts.anyType /\ ~IsJSONContentType(r.contentType))
    <2> DEFINE read == ReadAll(tokens, Limit(step.opts))
    <2>2. IF Limit(step.opts) >= 0 /\ Len(tokens) > Limit(step.opts) THEN read.raw = None /\ read.error = "too_large"
          ELSE read.raw = tokens
      <3>1. tokens \in Seq(Tokens)
        OBVIOUS
      <3>2. Unbroken(tokens) => \A opts : opts.maxBody \in Int =>
              IF Limit(opts) >= 0 /\ Len(tokens) > Limit(opts)
              THEN ReadAll(tokens, Limit(opts)).raw = None /\ ReadAll(tokens, Limit(opts)).error = "too_large"
              ELSE ReadAll(tokens, Limit(opts)).raw = tokens
        BY <3>1, WholeRead
      <3> QED
        BY <1>1, <3>2
    <2>3. got = IF read.raw = None
                THEN [out |-> Failure(IF read.error = "too_large" THEN 413 ELSE 400, read.error),
                      cache |-> None, left |-> read.left]
                ELSE IF Limit(step.opts) >= 0 /\ Len(read.raw) > Limit(step.opts)
                THEN [out |-> Failure(413, "too_large"), cache |-> read.raw, left |-> tokens]
                ELSE [out |-> Decoded(read.raw, step.opts), cache |-> read.raw, left |-> read.raw]
      BY <1>1, <1>2, <1>6 DEF ReadJSONBody
    <2> HIDE DEF read
    <2>4. CASE Limit(step.opts) >= 0 /\ Len(tokens) > Limit(step.opts)
      <3>1. got.out = Failure(413, read.error)
        BY <2>2, <2>3, <2>4
      <3> QED
        BY <1>3, <1>4, <3>1
    <2>5. CASE ~(Limit(step.opts) >= 0 /\ Len(tokens) > Limit(step.opts))
      <3>1. got.out = Decoded(tokens, step.opts)
        BY <1>1, <2>2, <2>3, <2>5
      <3>2. Decoded(tokens, step.opts) = Accepted(Normalized(tokens[1]))
        BY <1>1 DEF Decoded
      <3> QED
        BY <1>3, <3>1, <3>2, OutcomeIs
    <2> QED
      BY <2>4, <2>5
  <1> QED
    BY <1>5, <1>6

-----------------------------------------------------------------------------
(* What is bound without the body. *)

Part(step) ==
  CASE step.do = "query" -> QueryValue(step.schema, request.query)
    [] step.do = "uri" -> request.uri
    [] step.do = "value" -> request.value

\* Every part of the request that was bound came to the verdict on it.
Answers ==
  \A n \in 1 .. Len(outcomes) :
    Steps[n].do \in {"query", "uri", "value"} => outcomes[n] = Verdict(Steps[n].schema, Part(Steps[n]))

LEMMA AnswersAppend ==
  ASSUME RInv, Answers, NEW out, at <= Len(Steps), request' = request, chain' = chain,
         outcomes' = Append(outcomes, out),
         Here.do \in {"query", "uri", "value"} => out = Verdict(Here.schema, Part(Here))
  PROVE  Answers'
  <1>1. IsSeq(outcomes) /\ at = Len(outcomes) + 1
    BY DEF RInv, Progress
  <1>2. /\ Len(outcomes) \in Nat /\ Len(outcomes') = Len(outcomes) + 1
        /\ outcomes'[Len(outcomes) + 1] = out /\ \A i \in 1 .. Len(outcomes) : outcomes'[i] = outcomes[i]
    BY <1>1, AppendAt
  <1>3. Steps' = Steps
    BY DEF Steps
  <1>4. \A step : Part(step)' = Part(step)
    BY DEF Part
  <1> SUFFICES ASSUME NEW n \in 1 .. Len(outcomes'), Steps[n].do \in {"query", "uri", "value"}
               PROVE  outcomes'[n] = Verdict(Steps[n].schema, Part(Steps[n]))
    BY <1>3, <1>4 DEF Answers
  <1>5. CASE n = Len(outcomes) + 1
    BY <1>1, <1>2, <1>5 DEF Here
  <1>6. CASE n # Len(outcomes) + 1
    BY <1>2, <1>6 DEF Answers
  <1> QED
    BY <1>5, <1>6

LEMMA AnswersNext == RInv /\ Answers /\ [Next]_vars => Answers'
  <1> SUFFICES ASSUME RInv, Answers, [Next]_vars PROVE Answers'
    OBVIOUS
  <1>1. CASE BindJSON
    BY <1>1, AnswersAppend DEF BindJSON, Settle
  <1>2. CASE BindQuery
    BY <1>2, AnswersAppend DEF BindQuery, Settle, Part
  <1>3. CASE BindURI
    BY <1>3, AnswersAppend DEF BindURI, Settle, Part
  <1>4. CASE ParseValue
    BY <1>4, AnswersAppend DEF ParseValue, Settle, Part
  <1>5. CASE Drain
    BY <1>5, AnswersAppend DEF Drain
  <1>6. CASE Use
    BY <1>6, AnswersAppend DEF Use
  <1>7. CASE UNCHANGED vars
    BY <1>7 DEF vars, Answers, Steps, Part
  <1> QED
    BY <1>1, <1>2, <1>3, <1>4, <1>5, <1>6, <1>7 DEF Next, Handled

\* Every outcome recorded by a query bind, a URI bind or a parse of a value is
\* the answer of the call to what was sent, and the step it ended is a step of
\* the chains (BindQueryWithOptions, BindURIWithOptions, parseTyped).
THEOREM AnswersHold == Spec => [](RInv /\ Answers)
  <1>1. Init => Answers
    <2> SUFFICES ASSUME Init PROVE Answers
      OBVIOUS
    <2>1. outcomes = <<>> /\ Len(<<>>) = 0
      BY EmptySeq DEF Init
    <2> QED
      BY <2>1 DEF Answers
  <1> QED
    BY <1>1, InitInv, NextInv, AnswersNext, PTL DEF Spec

-----------------------------------------------------------------------------
(* The properties. *)

\* What was sent, and to which schemas.
LEMMA SentIs ==
  ASSUME Sent
  PROVE  /\ request.body # None =>
              \A i \in 1 .. Len(request.body) :
                request.body[i].lit = "integer" =>
                  request.body[i].kind = "value" /\ request.body[i].u \in Int /\ Whole(request.body[i].u)
         /\ \A text \in {request.uri} \cup Range(request.query) :
              text.lit = "integer" => text.t = "string" /\ text.u \in Int /\ Whole(text.u)
         /\ request.value.t \in Signed \cup Unsigned \cup Finites => IsGoNumber(request.value)
         /\ \A n \in 1 .. Len(Steps) :
              Steps[n].schema.kind = "number" =>
                /\ IsNumeric(Steps[n].schema.number)
                /\ Steps[n].schema.field \in Signed \cup Unsigned \cup Finites \cup {"none"}
  <1>1. PICK h \in Handlings : request = h.request /\ chain = h.chain
    BY DEF Sent
  <1> QED
    BY <1>1, SentAssumption DEF Steps

\* The steps that are done, among those of the chain.
LEMMA DoneIs ==
  ASSUME RInv, NEW n \in Done
  PROVE  n \in 1 .. Len(outcomes) /\ n \in 1 .. Len(Steps)
  <1>1. Done = 1 .. Len(outcomes) /\ Len(outcomes) \in Nat
    BY LenProperties DEF RInv, Progress, IsSeq, Done
  <1>2. Len(outcomes) <= Len(Steps) /\ Len(Steps) \in Nat
    BY SentFacts DEF RInv, Progress
  <1> QED
    BY <1>1, <1>2

LEMMA IntegerSchema ==
  ASSUME NEW s, IsNumeric(s), s.out \notin Floats
  PROVE  s.out \in Signed \cup Unsigned
  BY TypesAre DEF IsNumeric

\* The verdict of an integer schema without a check on a number that an int64
\* holds, however it came.
LEMMA ExactInt64 ==
  ASSUME NEW schema, schema.kind = "number", IsNumeric(schema.number), schema.number.out \notin Floats,
         schema.field \in Signed \cup Unsigned \cup {"none"}, schema.number.check = "none",
         NEW w, IsNumber(w), IsInt64(w.u), NEW v, v.t # "object", Parse(schema.number, v) = Parse(schema.number, w),
         NEW range, range = TypeRange(schema.number.out)
                   \cap (IF schema.number.format = "safeint" THEN -MaxSafeInteger .. MaxSafeInteger
                         ELSE TypeRange(schema.number.out))
                   \cap Reaching(schema.number.out, schema.field)
  PROVE  /\ Verdict(schema, v).ok <=> w.u \in range
         /\ Verdict(schema, v).ok => Verdict(schema, v).v.u = w.u
  <1>1. schema.number.out \in Signed \cup Unsigned
    BY IntegerSchema
  <1>2. PICK takes \in BOOLEAN : takes <=> /\ w.u \in TypeRange(schema.number.out)
                                           /\ schema.number.format = "safeint" => w.u \in -MaxSafeInteger .. MaxSafeInteger
    OBVIOUS
  <1>3. ~(w.u > MaxInt64)
    BY EndsOfInt64 DEF IsInt64
  <1>4. Satisfies(schema.number, w.u)
    BY DEF Satisfies
  <1>5. Parse(schema.number, v) = IF takes THEN Yes([t |-> schema.number.out, u |-> w.u]) ELSE No
    <2>1. Parse(schema.number, w) =
            IF /\ Fits(schema.number, w)
               /\ Seen(schema.number.out, w.u) =>
                    /\ Satisfies(schema.number, w.u)
                    /\ schema.number.format = "safeint" => w.u \in -MaxSafeInteger .. MaxSafeInteger
            THEN Yes([t |-> schema.number.out, u |-> w.u]) ELSE No
      BY <1>1, ParseInteger
    <2>2. Seen(schema.number.out, w.u)
      BY EndsOfInt64 DEF Seen, IsInt64
    <2> QED
      BY <1>2, <1>3, <1>4, <2>1, <2>2 DEF Fits
  <1>6. /\ Verdict(schema, v).ok <=> takes /\ w.u \in Reaching(schema.number.out, schema.field)
        /\ Verdict(schema, v).ok =>
             Verdict(schema, v).v = [t |-> IF schema.field = "none" THEN schema.number.out ELSE schema.field, u |-> w.u]
    BY <1>1, <1>2, <1>5, VerdictOfInteger
  <1> QED
    BY <1>2, <1>6

LEMMA ExactText ==
  ASSUME NEW schema, schema.kind = "number", IsNumeric(schema.number), schema.number.out \notin Floats,
         schema.field \in Signed \cup Unsigned \cup {"none"}, schema.number.check = "none", schema.number.coerce,
         NEW v, v.t = "string", v.lit = "integer", v.u \in Int, IsInt64(v.u),
         NEW range, range = TypeRange(schema.number.out)
                   \cap (IF schema.number.format = "safeint" THEN -MaxSafeInteger .. MaxSafeInteger
                         ELSE TypeRange(schema.number.out))
                   \cap Reaching(schema.number.out, schema.field)
  PROVE  /\ Verdict(schema, v).ok <=> v.u \in range
         /\ Verdict(schema, v).ok => Verdict(schema, v).v.u = v.u
  <1>1. PICK i : i = [t |-> "int64", u |-> v.u]
    OBVIOUS
  <1>2. i.t = "int64" /\ i.u = v.u
    BY <1>1
  <1>3. IsNumber(i)
    <2>1. "int64" \in Signed /\ Least("int64") = MinInt64 /\ Most("int64") = MaxInt64
      BY DEF Signed, Unsigned, Named, Least, Most
    <2>2. v.u \in TypeRange("int64")
      BY <2>1, TypeRangeIs, EndsOfInt64 DEF IsInt64
    <2> QED
      BY <1>2, <2>1, <2>2 DEF IsNumber
  <1>4. Parse(schema.number, v) = Parse(schema.number, i)
    BY <1>1, IntegerSchema, ParseText
  <1> QED
    BY <1>2, <1>3, <1>4, ExactInt64

\* Every integer an int64 holds reaches an integer schema, and the field behind
\* it, as that integer or not at all, and is refused only when one of them cannot
\* hold it: whatever the widths of the words and the precision of the floats
\* (normalizeJSONNumber, coerceToInt64, numericConverter, assignScalar).
THEOREM IntegersExactHolds == Spec => []IntegersExact
  <1>1. RInv /\ Answers => IntegersExact
    <2> SUFFICES ASSUME RInv, Answers, NEW n \in Done PROVE
          LET s == Steps[n].schema
              lit == CASE Steps[n].do = "json" /\ request.body # None /\ Len(request.body) = 1 -> request.body[1]
                       [] Steps[n].do = "uri" /\ s.kind = "number" /\ s.number.coerce -> request.uri
                       [] Steps[n].do = "query" /\ s.kind = "number" /\ s.number.coerce /\ Len(request.query) = 1 -> request.query[1]
                       [] OTHER -> [lit |-> "none"]
              range == TypeRange(s.number.out)
                         \cap (IF s.number.format = "safeint" THEN -MaxSafeInteger .. MaxSafeInteger ELSE TypeRange(s.number.out))
                         \cap Reaching(s.number.out, s.field)
          IN  (/\ Steps[n].do \in {"json", "uri", "query"} /\ s.kind = "number"
               /\ lit.lit = "integer" /\ lit.u \in MinInt64 .. MaxInt64
               /\ s.number.out \notin Floats /\ s.field \notin Floats /\ s.number.check = "none"
               /\ outcomes[n].status \in {0, 400} /\ Uncut(n))
              => /\ outcomes[n].ok <=> lit.u \in range
                 /\ outcomes[n].ok => outcomes[n].v.u = lit.u
      BY DEF IntegersExact
    <2>1. PICK step : step = Steps[n]
      OBVIOUS
    <2>2. PICK s : s = step.schema
      OBVIOUS
    <2>3. PICK lit : lit = CASE step.do = "json" /\ request.body # None /\ Len(request.body) = 1 -> request.body[1]
                 [] step.do = "uri" /\ s.kind = "number" /\ s.number.coerce -> request.uri
                 [] step.do = "query" /\ s.kind = "number" /\ s.number.coerce /\ Len(request.query) = 1 -> request.query[1]
                 [] OTHER -> [lit |-> "none"]
      OBVIOUS
    <2>4. PICK range : range = TypeRange(s.number.out)
                   \cap (IF s.number.format = "safeint" THEN -MaxSafeInteger .. MaxSafeInteger
                         ELSE TypeRange(s.number.out))
                   \cap Reaching(s.number.out, s.field)
      OBVIOUS
    <2>5. SUFFICES ASSUME step.do \in {"json", "uri", "query"}, s.kind = "number",
                          lit.lit = "integer", lit.u \in MinInt64 .. MaxInt64,
                          s.number.out \notin Floats, s.field \notin Floats, s.number.check = "none",
                          outcomes[n].status \in {0, 400}, Uncut(n)
                   PROVE  /\ outcomes[n].ok <=> lit.u \in range
                          /\ outcomes[n].ok => outcomes[n].v.u = lit.u
      BY <2>1, <2>2, <2>3, <2>4
    <2>6. n \in 1 .. Len(outcomes) /\ n \in 1 .. Len(Steps) /\ Sent
      BY DoneIs DEF RInv
    <2>7. IsNumeric(s.number) /\ s.field \in Signed \cup Unsigned \cup {"none"}
      BY <2>1, <2>2, <2>5, <2>6, SentIs, TypesAre
    <2>8. CASE step.do = "json"
      <3>1. request.body # None /\ Len(request.body) = 1 /\ lit = request.body[1]
        BY <2>3, <2>5, <2>8
      <3>2. lit.kind = "value" /\ lit.u \in Int /\ IsInt64(lit.u)
        BY <2>5, <2>6, <3>1, SentIs DEF Whole, IsInt64
      <3>3. outcomes[n] = BoundJSON(step, request, None, request.body).out
        BY <2>1, <2>5, <2>8 DEF RInv, SameAsFirst, FreshOutcome
      <3>4. request.body \in Seq(Tokens) /\ None \notin Seq(Tokens) /\ step.opts.maxBody \in Int
        BY <2>1, <2>6, <3>1, SentFacts DEF IsBody
      <3>5. outcomes[n] = Verdict(s, Normalized(lit))
        BY <2>2, <2>5, <3>1, <3>2, <3>3, <3>4, OneToken
      <3>6. PICK w : w = Normalized(lit)
        OBVIOUS
      <3>7. IsNumber(w) /\ w.u = lit.u /\ w.t # "object"
        BY <2>5, <3>2, <3>6, NormalizedInteger
      <3> QED
        BY <2>4, <2>5, <2>7, <3>2, <3>5, <3>6, <3>7, ExactInt64
    <2>9. CASE step.do = "uri"
      <3>1. lit = request.uri /\ s.number.coerce
        BY <2>3, <2>5, <2>9
      <3>2. lit.t = "string" /\ lit.u \in Int /\ IsInt64(lit.u)
        BY <2>5, <2>6, <3>1, SentIs DEF Whole, IsInt64
      <3>3. outcomes[n] = Verdict(s, lit)
        BY <2>1, <2>2, <2>6, <2>9, <3>1 DEF Answers, Part
      <3> QED
        BY <2>4, <2>5, <2>7, <3>1, <3>2, <3>3, ExactText
    <2>10. CASE step.do = "query"
      <3>1. lit = request.query[1] /\ Len(request.query) = 1 /\ s.number.coerce
        BY <2>3, <2>5, <2>10
      <3>2. request.query[1] \in Range(request.query)
        BY <3>1 DEF Range
      <3>3. lit.t = "string" /\ lit.u \in Int /\ IsInt64(lit.u)
        BY <2>5, <2>6, <3>1, <3>2, SentIs DEF Whole, IsInt64
      <3>4. QueryValue(s, request.query) = lit
        BY <2>5, <3>1 DEF QueryValue, IsSliceSchema
      <3>5. outcomes[n] = Verdict(s, lit)
        BY <2>1, <2>2, <2>6, <2>10, <3>4 DEF Answers, Part
      <3> QED
        BY <2>4, <2>5, <2>7, <3>1, <3>3, <3>5, ExactText
    <2> QED
      BY <2>5, <2>8, <2>9, <2>10
  <1> QED
    BY <1>1, AnswersHold, PTL

\* A number that the types of a schema and its field take, and what the format
\* and the check ask of it.
Reaches(s, v) ==
  /\ v.u \in TypeRange(s.number.out) \cap Reaching(s.number.out, s.field)
  /\ v.u > MaxInt64 => v.t = "uint64" /\ ~s.number.coerce
Passes(s, v) ==
  /\ s.number.format = "safeint" => v.u \in -MaxSafeInteger .. MaxSafeInteger
  /\ Satisfies(s.number, v.u)

\* The verdict of a number schema on a Go number.
LEMMA ExactVerdict ==
  ASSUME NEW s, s.kind = "number", IsNumeric(s.number), s.field \in Signed \cup Unsigned \cup Finites \cup {"none"},
         NEW v, v.t \in Signed \cup Unsigned \cup Finites, IsGoNumber(v),
         NEW out, out = Verdict(s, v)
  PROVE  /\ out.ok => out.v.t \in {IF s.field = "none" THEN s.number.out ELSE s.field, "inf"}
         /\ (s.number.out \notin Floats /\ s.field \notin Floats)
              => /\ out.ok => Reaches(s, v) /\ out.v.u = v.u
                 /\ Seen(s.number.out, v.u) => (out.ok <=> Reaches(s, v) /\ Passes(s, v))
         /\ (s.number.out = "float64" /\ s.field = "none")
              => /\ out.ok => ToFloat(v).ok /\ out.v.u = ToFloat(v).v.u
                 /\ s.number.format = "none" /\ ToFloat(v).ok /\ Satisfies(s.number, ToFloat(v).v.u) => out.ok
  <1>1. v.t # "object" /\ IsNumber(v)
    BY TypesAre, GoNumberIs
  <1>2. PICK p : p = Parse(s.number, v)
    OBVIOUS
  <1>3. out = Decoding(s, p)
    BY <1>1, <1>2 DEF Verdict, NumberVerdict
  <1>4. s.number.out \in Signed \cup Unsigned \cup Finites
    BY DEF IsNumeric
  <1>5. PICK d : d = IF s.field = "none" \/ ~p.ok THEN p ELSE Assign(s.field, p.v)
    OBVIOUS
  <1>6. (out.ok <=> d.ok) /\ (d.ok => out.v = d.v)
    BY <1>3, <1>5, DecodingIs
  <1>7. ASSUME out.ok PROVE out.v.t \in {IF s.field = "none" THEN s.number.out ELSE s.field, "inf"}
    <2>1. CASE s.field = "none"
      <3>1. p.ok /\ out.v = p.v
        BY <1>5, <1>6, <1>7, <2>1
      <3>2. CASE s.number.out \in Signed \cup Unsigned
        <4>1. p = Yes([t |-> s.number.out, u |-> v.u]) \/ p = No
          BY <1>1, <1>2, <3>2, ParseInteger
        <4> QED
          BY <2>1, <3>1, <4>1, YesIs
      <3>3. CASE s.number.out \in Finites
        <4>1. p.ok => p.v.t = s.number.out
          BY <1>2, <3>3, ParseToFloat
        <4> QED
          BY <2>1, <3>1, <4>1
      <3> QED
        BY <1>4, <3>2, <3>3
    <2>2. CASE s.field # "none"
      <3>1. p.ok
        BY <1>5, <1>6, <1>7
      <3>2. d = Assign(s.field, p.v) /\ d.ok /\ out.v = d.v
        BY <1>5, <1>6, <1>7, <2>2, <3>1
      <3> QED
        BY <2>2, <3>2, AssignTyped
    <2> QED
      BY <2>1, <2>2
  <1>8. ASSUME s.number.out \notin Floats, s.field \notin Floats
        PROVE  /\ out.ok => Reaches(s, v) /\ out.v.u = v.u
               /\ Seen(s.number.out, v.u) => (out.ok <=> Reaches(s, v) /\ Passes(s, v))
    <2>1. s.number.out \in Signed \cup Unsigned /\ s.field \in Signed \cup Unsigned \cup {"none"}
      BY <1>4, <1>8, TypesAre
    <2>2. PICK takes \in BOOLEAN : takes <=>
            Fits(s.number, v) /\ (Seen(s.number.out, v.u) => Passes(s, v))
      OBVIOUS
    <2>3. Parse(s.number, v) = IF takes THEN Yes([t |-> s.number.out, u |-> v.u]) ELSE No
      BY <1>1, <2>1, <2>2, ParseInteger DEF Passes
    <2>4. takes => v.u \in TypeRange(s.number.out)
      BY <2>2 DEF Fits
    <2>5. /\ out.ok <=> takes /\ v.u \in Reaching(s.number.out, s.field)
          /\ out.ok => out.v = [t |-> IF s.field = "none" THEN s.number.out ELSE s.field, u |-> v.u]
      BY <1>1, <2>1, <2>3, <2>4, VerdictOfInteger
    <2> QED
      BY <2>2, <2>5 DEF Fits, Reaches
  <1>9. ASSUME s.number.out = "float64", s.field = "none"
        PROVE  /\ out.ok => ToFloat(v).ok /\ out.v.u = ToFloat(v).v.u
               /\ s.number.format = "none" /\ ToFloat(v).ok /\ Satisfies(s.number, ToFloat(v).v.u) => out.ok
    <2>1. d = p /\ s.number.out \in Finites
      BY <1>5, <1>9, TypesAre
    <2>2. /\ p.ok => ToFloat(v).ok /\ p.v.u = ToFloat(v).v.u
          /\ s.number.format = "none" /\ ToFloat(v).ok /\ Satisfies(s.number, ToFloat(v).v.u) => p.ok
      BY <1>2, <1>9, <2>1, ParseToFloat
    <2> QED
      BY <1>6, <2>1, <2>2
  <1> QED
    BY <1>7, <1>8, <1>9

\* A schema and a field of an integer type accept a Go number only if it is a
\* whole number of their ranges, and return that number; they accept it exactly
\* when it satisfies the check too, unless a named type hides it from the check.
\* A float schema returns the nearest float and refuses no multiple of its
\* divisor: whatever the widths and the precision (newNumeric, NumberFormat,
\* compareNumeric, MultipleOf and its variants, assignScalar).
THEOREM VerdictsExactHolds == Spec => []VerdictsExact
  <1>1. RInv /\ Answers => VerdictsExact
    <2> SUFFICES ASSUME RInv, Answers, NEW n \in Done PROVE
          LET s == Steps[n].schema
              v == request.value
              out == outcomes[n]
              f == ToFloat(v)
              fits == /\ v.u \in TypeRange(s.number.out) \cap Reaching(s.number.out, s.field)
                      /\ v.u > MaxInt64 => v.t = "uint64" /\ ~s.number.coerce
              holds == /\ s.number.format = "safeint" => v.u \in -MaxSafeInteger .. MaxSafeInteger
                       /\ Satisfies(s.number, v.u)
              seen == s.number.out \in Named => v.u <= MaxInt64
          IN  (/\ Steps[n].do = "value" /\ s.kind = "number"
               /\ v.t \in Signed \cup Unsigned \cup {"float64", "float32"})
              => /\ out.ok /\ out.v.t # "inf" => out.v.t = IF s.field = "none" THEN s.number.out ELSE s.field
                 /\ (s.number.out \notin Floats /\ s.field \notin Floats)
                      => /\ out.ok => fits /\ out.v.u = v.u
                         /\ seen => (out.ok <=> fits /\ holds)
                 /\ (s.number.out = "float64" /\ s.field = "none")
                      => /\ out.ok => f.ok /\ out.v.u = f.v.u
                         /\ (s.number.format = "none" /\ f.ok /\ Satisfies(s.number, f.v.u)) => out.ok
      BY DEF VerdictsExact
    <2>1. PICK s : s = Steps[n].schema
      OBVIOUS
    <2>2. PICK v : v = request.value
      OBVIOUS
    <2>3. PICK out : out = outcomes[n]
      OBVIOUS
    <2>4. SUFFICES ASSUME Steps[n].do = "value", s.kind = "number", v.t \in Signed \cup Unsigned \cup Finites
          PROVE /\ out.ok => out.v.t \in {IF s.field = "none" THEN s.number.out ELSE s.field, "inf"}
                /\ (s.number.out \notin Floats /\ s.field \notin Floats)
                     => /\ out.ok => Reaches(s, v) /\ out.v.u = v.u
                        /\ Seen(s.number.out, v.u) => (out.ok <=> Reaches(s, v) /\ Passes(s, v))
                /\ (s.number.out = "float64" /\ s.field = "none")
                     => /\ out.ok => ToFloat(v).ok /\ out.v.u = ToFloat(v).v.u
                        /\ s.number.format = "none" /\ ToFloat(v).ok /\ Satisfies(s.number, ToFloat(v).v.u) => out.ok
      BY <2>1, <2>2, <2>3 DEF Finites, Reaches, Passes, Seen
    <2>5. n \in 1 .. Len(outcomes) /\ n \in 1 .. Len(Steps) /\ Sent
      BY DoneIs DEF RInv
    <2>6. IsNumeric(s.number) /\ s.field \in Signed \cup Unsigned \cup Finites \cup {"none"} /\ IsGoNumber(v)
      BY <2>1, <2>2, <2>4, <2>5, SentIs
    <2>7. out = Verdict(s, v)
      BY <2>1, <2>2, <2>3, <2>4, <2>5 DEF Answers, Part
    <2> QED
      BY <2>4, <2>6, <2>7, ExactVerdict
  <1> QED
    BY <1>1, AnswersHold, PTL
==============================================================================
