---------------------------- MODULE SlicesProofs ----------------------------
(***************************************************************************)
(* What Slices guarantees for slices of any length, pools of any size and  *)
(* any MinChunk: its type invariant, that chunks and workers never         *)
(* overlap, and that it implements Fanout.                                 *)
(***************************************************************************)
EXTENDS Slices, TLAPS, SequenceTheorems

Goroutine == Worker \cup {0}

Busy(w) == worker[w] \in {"element", "check", "parse", "once", "flag"}

\* How many chunks the workers have taken from the channel.
Taken == Max(Chunks) - Len(jobs)

\* The channel holds the last chunks, in order.
Fifo == caller = "wait" =>
  /\ Len(jobs) <= Max(Chunks)
  /\ \A k \in DOMAIN jobs : jobs[k] = Taken + k

\* A worker holds a chunk that was taken, and no other worker holds it.  The
\* caller holds the whole slice.
Apart ==
  /\ chunk[0] = 0
  /\ \A w \in Worker : Busy(w) => chunk[w] \in 1 .. Taken
  /\ \A v, w \in Worker : Busy(v) /\ Busy(w) /\ v # w => chunk[v] # chunk[w]

\* A goroutine is at an element of its chunk, or past the last one.
Within == \A w \in Goroutine : Busy(w) =>
  /\ at[w] \in FirstOf(chunk[w]) .. LastOf(chunk[w]) + 1
  /\ worker[w] # "element" => at[w] <= LastOf(chunk[w])

\* Until a panic stops the pool, the elements behind a goroutine have their effect.
Behind == ~stopped => \A w \in Goroutine : Busy(w) =>
  \A i \in FirstOf(chunk[w]) .. at[w] - 1 : slots[i] = effect[i]

\* Until then, a chunk that was taken has failed, is held, or is done.
Covered == caller = "wait" /\ ~stopped => \A c \in 1 .. Taken :
  \/ c \in failed
  \/ \E w \in Worker : Busy(w) /\ chunk[w] = c
  \/ \A i \in Start(c) .. End(c) : slots[i] = effect[i]

\* What the Once and the flag of the panicRecord say of the goroutines.
Recorded ==
  /\ first # 0 => effect[first] = "panics"
  /\ stopped => first # 0
  /\ \A w \in Goroutine : worker[w] \in {"once", "flag"} => effect[at[w]] = "panics"
  /\ \A w \in Worker : worker[w] = "flag" => first # 0

\* Where the caller is, and what that says of the channel and the goroutines.
Phases ==
  /\ caller = "enter" => jobs = <<>>
  /\ caller # "wait" => \A w \in Worker : worker[w] = "off"
  /\ caller \in {"enter", "wait"} => worker[0] = "off"
  /\ caller \in {"sequential", "wait"} => n > 0
  /\ caller \in {"enter", "sequential"} => ~stopped
  /\ caller = "sequential" /\ worker[0] = "off" =>
       failed # {} \/ \A i \in Elements : slots[i] = effect[i]
  /\ caller = "returned" => worker[0] \in {"off", "once"}
  /\ worker[0] \in {"off", "element", "parse", "once"}
  /\ caller = "wait" /\ worker[1] = "off" => stopped \/ jobs = <<>>
  /\ failed # {} => cancelled

\* The call answers once, when it returns.
Answered == caller # "returned" => answer = F!Pending

IInv ==
  /\ TypeOK /\ Fifo /\ Apart /\ Within /\ Behind /\ Covered /\ Recorded /\ Phases /\ Answered

-----------------------------------------------------------------------------
(* How the slice is cut. *)

\* The input is a sequence of at most MaxInputs effects.
LEMMA InputFacts ==
  ASSUME effect \in F!Batches
  PROVE  /\ n \in Nat /\ n <= MaxInputs
         /\ Elements = 1 .. n
         /\ \A i \in Elements : effect[i] \in {"accepted", "rejected", "panics"}
  <1>1. PICK k \in 0 .. MaxInputs : effect \in [1 .. k -> F!Effect]
    BY DEF F!Batches
  <1>2. effect \in Seq(F!Effect)
    BY <1>1, SlicesAssumption, SeqDef
  <1> QED
    BY <1>1, <1>2, SlicesAssumption, LenProperties DEF n, Elements, F!Effect

\* Of two numbers, Min is the smaller one.
LEMMA MinOfTwo ==
  \A a, b \in Int : Min({a, b}) \in {a, b} /\ Min({a, b}) <= a /\ Min({a, b}) <= b
  <1> TAKE a, b \in Int
  <1>1. \E x \in {a, b} : \A y \in {a, b} : x <= y
    OBVIOUS
  <1> QED
    BY <1>1 DEF Min

\* A chunk has at least one element: chunkSize is rounded up.
LEMMA ChunkSizeFacts ==
  ASSUME n \in Nat, n > 0, opts \in [workers : Worker, minChunk : MinChunks]
  PROVE  PoolSize \in 1 .. n /\ PoolSize \in Worker /\ ChunkSize \in Nat /\ ChunkSize > 0
  <1>1. opts.workers \in Nat /\ opts.workers > 0 /\ opts.workers \in Worker
    BY SlicesAssumption DEF Worker
  <1>2. PoolSize \in 1 .. n /\ PoolSize \in Worker
    <2>1. Min({opts.workers, n}) \in {opts.workers, n} /\ Min({opts.workers, n}) <= n
                /\ Min({opts.workers, n}) <= opts.workers
      <3>1. opts.workers \in Int /\ n \in Int
        BY <1>1
      <3> QED
        BY <3>1, MinOfTwo, Zenon
    <2> QED
      BY <1>1, <2>1, SlicesAssumption DEF PoolSize, Worker
  <1>3. \A a, b \in Nat : b > 0 /\ a >= b => a \div b \in Nat /\ a \div b > 0
    OBVIOUS
  <1>4. n + PoolSize - 1 \in Nat /\ n + PoolSize - 1 >= PoolSize
    BY <1>2
  <1> QED
    BY <1>2, <1>3, <1>4 DEF ChunkSize

\* The multiples of a chunk size: where one chunk ends the next ones begin.
LEMMA Multiples ==
  ASSUME NEW z \in Nat, z > 0
  PROVE  /\ \A c, d \in Nat : c < d => c * z <= (d - 1) * z
         /\ \A i \in Nat : i > 0 => \E c \in 1 .. i : (c - 1) * z + 1 <= i /\ i <= c * z
  <1>1. \A c, d \in Nat : c < d => c * z <= (d - 1) * z
    <2> TAKE c, d \in Nat
    <2> HAVE c < d
    <2>1. (d - 1 - c) \in Nat /\ d - 1 = c + (d - 1 - c)
      OBVIOUS
    <2>2. \A a, b \in Nat : (a + b) * z = a * z + b * z /\ b * z >= 0 /\ a * z \in Nat
      OBVIOUS
    <2> QED
      BY <2>1, <2>2
  <1>2. \A i \in Nat : i > 0 => \E c \in 1 .. i : (c - 1) * z + 1 <= i /\ i <= c * z
    <2> TAKE i \in Nat
    <2> HAVE i > 0
    <2> DEFINE q == (i - 1) \div z
    <2>1. q \in Nat /\ q * z <= i - 1 /\ i - 1 < (q + 1) * z
      OBVIOUS
    <2>2. q <= q * z
      BY <2>1
    <2>3. q + 1 \in 1 .. i
      BY <2>1, <2>2
    <2>4. (q + 1) - 1 = q
      BY <2>1
    <2> WITNESS q + 1 \in 1 .. i
    <2> QED
      BY <2>1, <2>4
  <1> QED
    BY <1>1, <1>2

\* The chunks are numbered from one, none is empty, and each element is in
\* exactly one of them.
LEMMA Cut ==
  ASSUME effect \in F!Batches, n > 0, opts \in [workers : Worker, minChunk : MinChunks]
  PROVE  /\ Max(Chunks) \in 1 .. n /\ Chunks = 1 .. Max(Chunks)
         /\ \A c \in Chunks : Start(c) \in 1 .. n /\ End(c) \in Start(c) .. n
         /\ \A i \in 1 .. n : \E c \in Chunks : i \in Start(c) .. End(c)
         /\ \A c, d \in Chunks : c # d => Start(c) .. End(c) \cap Start(d) .. End(d) = {}
  <1> DEFINE z == ChunkSize
  <1>1. n \in Nat /\ z \in Nat /\ z > 0
    BY InputFacts, ChunkSizeFacts
  <1>2. /\ \A c, d \in Nat : c < d => c * z <= (d - 1) * z
        /\ \A i \in Nat : i > 0 => \E c \in 1 .. i : (c - 1) * z + 1 <= i /\ i <= c * z
    BY <1>1, Multiples
  <1>3. \A c \in Nat : c > 0 => (c - 1) * z \in Nat /\ c * z \in Nat /\ (c - 1) * z + 1 <= c * z
    <2> TAKE c \in Nat
    <2> HAVE c > 0
    <2>1. c * z = (c - 1) * z + z /\ (c - 1) * z \in Nat
      BY <1>1
    <2> QED
      BY <1>1, <2>1
  <1>4. \A c \in Nat : c > 0 /\ Start(c) <= n =>
          Start(c) \in 1 .. n /\ End(c) \in Start(c) .. n /\ End(c) \in {c * z, n} /\ End(c) <= c * z
    <2> TAKE c \in Nat
    <2> HAVE c > 0 /\ Start(c) <= n
    <2>1. c * z \in Int /\ n \in Int /\ c * z >= Start(c) /\ Start(c) \in 1 .. n
      BY <1>1, <1>3 DEF Start
    <2>2. End(c) \in {c * z, n} /\ End(c) <= c * z /\ End(c) <= n
      BY <2>1, MinOfTwo, Zenon DEF End
    <2> QED
      BY <1>1, <2>1, <2>2
  <1>5. PICK m \in 1 .. n : (m - 1) * z + 1 <= n /\ n <= m * z
    BY <1>1, <1>2
  <1>6. Chunks = 1 .. m
    <2>1. ASSUME NEW c \in 1 .. m PROVE c \in Chunks
      <3>1. CASE c = m
        BY <1>5, <3>1 DEF Chunks, Start
      <3>2. CASE c < m
        <4>1. c * z <= (m - 1) * z /\ (c - 1) * z + 1 <= c * z /\ (c - 1) * z \in Nat /\ c * z \in Nat
          BY <1>2, <1>3, <3>2
        <4>2. (m - 1) * z \in Nat
          BY <1>3
        <4> QED
          BY <1>1, <1>5, <4>1, <4>2 DEF Chunks, Start
      <3> QED
        BY <3>1, <3>2
    <2>2. ASSUME NEW c \in Chunks PROVE c \in 1 .. m
      <3>1. c \in 1 .. n /\ (c - 1) * z + 1 <= n /\ (c - 1) * z \in Nat /\ m * z \in Nat
        BY <1>1, <1>3 DEF Chunks, Start
      <3>2. ~(m < c)
        BY <1>1, <1>2, <1>5, <3>1
      <3> QED
        BY <1>5, <3>1, <3>2
    <2> QED
      BY <2>1, <2>2
  <1>7. Max(Chunks) = m
    BY <1>5, <1>6 DEF Max
  <1>8. \A c \in Chunks : c \in Nat /\ c > 0 /\ Start(c) <= n
    BY <1>1 DEF Chunks
  <1>9. \A i \in 1 .. n : \E c \in Chunks : i \in Start(c) .. End(c)
    <2> TAKE i \in 1 .. n
    <2>1. PICK c \in 1 .. i : (c - 1) * z + 1 <= i /\ i <= c * z
      BY <1>1, <1>2
    <2>2. c \in Chunks
      BY <1>1, <1>3, <2>1 DEF Chunks, Start
    <2>3. Start(c) <= i /\ i <= End(c)
      BY <1>1, <1>3, <1>4, <1>8, <2>1, <2>2 DEF Start
    <2> QED
      BY <1>1, <1>4, <1>8, <2>2, <2>3
  <1>10. \A c, d \in Chunks : c < d => Start(c) .. End(c) \cap Start(d) .. End(d) = {}
    <2> TAKE c, d \in Chunks
    <2> HAVE c < d
    <2>1. c * z <= (d - 1) * z /\ c * z \in Nat /\ (d - 1) * z \in Nat
      BY <1>2, <1>3, <1>8
    <2>2. End(c) < Start(d) /\ End(c) \in Nat /\ Start(d) \in Nat /\ Start(c) \in Nat /\ End(d) \in Nat
      BY <1>1, <1>4, <1>8, <2>1 DEF Start
    <2> QED
      BY <2>2
  <1>11. \A c, d \in Chunks : c # d => c < d \/ d < c
    BY <1>8
  <1> QED
    BY <1>4, <1>5, <1>6, <1>7, <1>8, <1>9, <1>10, <1>11

-----------------------------------------------------------------------------
(* Facts the steps share. *)

\* The cut depends on the input and the options only.
LEMMA Unmoved ==
  ASSUME UNCHANGED <<effect, opts>>
  PROVE  /\ UNCHANGED <<n, Elements, PoolSize, ChunkSize, Chunks, Max(Chunks)>>
         /\ \A c : /\ UNCHANGED <<Start(c), End(c)>>
                   /\ UNCHANGED <<FirstOf(c), LastOf(c)>>
  <1>1. UNCHANGED <<n, Elements, PoolSize>>
    BY DEF n, Elements, PoolSize
  <1>2. UNCHANGED ChunkSize
    BY <1>1 DEF ChunkSize
  <1>3. \A c : UNCHANGED <<Start(c), End(c)>>
    BY <1>1, <1>2 DEF Start, End
  <1>4. UNCHANGED <<Chunks, Max(Chunks)>>
    BY <1>1, <1>2 DEF Chunks, Start
  <1> QED
    BY <1>1, <1>2, <1>3, <1>4 DEF FirstOf, LastOf

\* The shape of the state.
LEMMA Shape ==
  ASSUME IInv
  PROVE  /\ n \in Nat /\ n <= MaxInputs /\ Elements = 1 .. n
         /\ \A i \in Elements : effect[i] \in {"accepted", "rejected", "panics"}
         /\ Len(jobs) \in Nat /\ DOMAIN jobs = 1 .. Len(jobs)
         /\ \A k \in DOMAIN jobs : jobs[k] \in Chunks
         /\ 1 \in Worker /\ 0 \notin Worker /\ Worker \subseteq Goroutine /\ 0 \in Goroutine
         /\ opts.workers \in Worker
         /\ 0 \notin Chunks /\ Chunks \subseteq 1 .. n
         /\ worker \in [Goroutine -> {"off", "receive", "element", "check", "parse", "once", "flag"}]
         /\ chunk \in [Goroutine -> 0 .. MaxInputs]
         /\ at \in [Goroutine -> 0 .. MaxInputs + 1]
  <1>1. TypeOK
    BY DEF IInv
  <1>2. Chunks \subseteq 1 .. n
    BY DEF Chunks
  <1>3. n \in Nat /\ n <= MaxInputs /\ Elements = 1 .. n
        /\ \A i \in Elements : effect[i] \in {"accepted", "rejected", "panics"}
    BY <1>1, InputFacts DEF TypeOK
  <1>4. Len(jobs) \in Nat /\ DOMAIN jobs = 1 .. Len(jobs)
        /\ \A k \in DOMAIN jobs : jobs[k] \in Chunks
    BY <1>1, LenProperties, ElementOfSeq DEF TypeOK
  <1>5. 1 \in Worker /\ 0 \notin Worker /\ Worker \subseteq Goroutine /\ 0 \in Goroutine
    BY SlicesAssumption DEF Worker, Goroutine
  <1>6. opts.workers \in Worker
    BY <1>1 DEF TypeOK
  <1>7. /\ worker \in [Goroutine -> {"off", "receive", "element", "check", "parse", "once", "flag"}]
        /\ chunk \in [Goroutine -> 0 .. MaxInputs]
        /\ at \in [Goroutine -> 0 .. MaxInputs + 1]
    BY <1>1 DEF TypeOK, Goroutine
  <1> QED
    BY <1>2, <1>3, <1>4, <1>5, <1>6, <1>7

\* A goroutine that validates is inside the slice, and its phase is the caller's.
LEMMA Held ==
  ASSUME IInv, NEW w \in Goroutine, Busy(w)
  PROVE  /\ n > 0
         /\ FirstOf(chunk[w]) \in 1 .. n /\ LastOf(chunk[w]) \in FirstOf(chunk[w]) .. n
         /\ at[w] \in FirstOf(chunk[w]) .. LastOf(chunk[w]) + 1
         /\ worker[w] # "element" => at[w] \in 1 .. n /\ at[w] <= LastOf(chunk[w])
         /\ w # 0 => w \in Worker /\ caller = "wait" /\ chunk[w] \in Chunks
         /\ w = 0 => /\ chunk[w] = 0 /\ caller \in {"sequential", "returned"}
                     /\ caller = "returned" => worker[0] = "once"
  <1>0. /\ Apart /\ Within /\ Phases /\ Fifo
        /\ effect \in F!Batches /\ opts \in [workers : Worker, minChunk : MinChunks]
    BY DEF IInv, TypeOK
  <1>1. n \in Nat /\ (w # 0 => w \in Worker) /\ Len(jobs) \in Nat
    BY Shape DEF Goroutine
  <1>2. /\ w # 0 => caller = "wait" /\ n > 0
        /\ w = 0 => chunk[w] = 0 /\ worker[w] \in {"element", "parse", "once"}
    BY <1>0, <1>1 DEF Busy, Phases, Apart
  <1>3. w = 0 => /\ caller \in {"sequential", "returned"}
                 /\ caller = "returned" => worker[0] = "once"
    <2>1. caller \in {"enter", "sequential", "wait", "returned"}
      BY DEF IInv, TypeOK
    <2> QED
      BY <1>0, <2>1 DEF Busy, Phases
  <1>4. /\ at[w] \in FirstOf(chunk[w]) .. LastOf(chunk[w]) + 1
        /\ worker[w] # "element" => at[w] <= LastOf(chunk[w])
    BY <1>0 DEF Within
  <1>5. CASE w = 0
    <2>1. FirstOf(chunk[w]) = 1 /\ LastOf(chunk[w]) = n
      BY <1>2, <1>5 DEF FirstOf, LastOf
    <2>2. n > 0
      BY <1>0, <1>1, <1>2, <1>3, <1>4, <1>5, <2>1 DEF Phases
    <2> QED
      BY <1>1, <1>2, <1>3, <1>4, <1>5, <2>1, <2>2
  <1>6. CASE w # 0
    <2>1. chunk[w] \in 1 .. Taken /\ Taken \in Int /\ Max(Chunks) \in Nat
          /\ Chunks = 1 .. Max(Chunks)
      <3>1. Max(Chunks) \in 1 .. n /\ Chunks = 1 .. Max(Chunks)
        BY <1>0, <1>2, <1>6, Cut
      <3> QED
        BY <1>0, <1>1, <1>6, <3>1 DEF Apart, Taken
    <2>2. chunk[w] \in Chunks /\ chunk[w] # 0
      BY <1>1, <2>1 DEF Taken
    <2>3. FirstOf(chunk[w]) \in 1 .. n /\ LastOf(chunk[w]) \in FirstOf(chunk[w]) .. n
      BY <1>0, <1>2, <1>6, <2>2, Cut DEF FirstOf, LastOf
    <2> QED
      BY <1>1, <1>2, <1>4, <1>6, <2>2, <2>3
  <1> QED
    BY <1>5, <1>6

\* Two goroutines that validate are at different elements.
LEMMA Separate ==
  ASSUME IInv, NEW v \in Goroutine, NEW w \in Goroutine, Busy(v), Busy(w), v # w
  PROVE  FirstOf(chunk[v]) .. LastOf(chunk[v]) \cap FirstOf(chunk[w]) .. LastOf(chunk[w]) = {}
  <1>1. v # 0 /\ w # 0
    BY Held, Shape DEF Goroutine, IInv, Phases, Busy
  <1>2. /\ chunk[v] \in Chunks /\ chunk[w] \in Chunks /\ chunk[v] # chunk[w] /\ n > 0
        /\ v \in Worker /\ w \in Worker
    BY <1>1, Held DEF IInv, Apart
  <1>3. 0 \notin Chunks
    BY Shape
  <1>4. \A c, d \in Chunks : c # d => Start(c) .. End(c) \cap Start(d) .. End(d) = {}
    BY <1>2, Cut DEF IInv, TypeOK
  <1> QED
    BY <1>2, <1>3, <1>4 DEF FirstOf, LastOf

-----------------------------------------------------------------------------
(* The initial state and the caller's steps. *)

LEMMA InitInv == ASSUME Init PROVE IInv
  <1>1. n \in Nat /\ Elements = 1 .. n
    BY InputFacts DEF Init
  <1>2. jobs \in Seq(Chunks)
    BY DEF Init
  <1>3. slots \in [Elements -> F!Slot]
    BY DEF Init, F!Slot
  <1>4. worker \in [Worker \cup {0} ->
                     {"off", "receive", "element", "check", "parse", "once", "flag"}]
    BY DEF Init
  <1>5. chunk \in [Worker \cup {0} -> 0 .. MaxInputs] /\ at \in [Worker \cup {0} -> 0 .. MaxInputs + 1]
    BY SlicesAssumption DEF Init
  <1>6. TypeOK
    BY <1>2, <1>3, <1>4, <1>5 DEF Init, TypeOK
  <1>7. Fifo /\ Apart /\ Within /\ Behind /\ Covered /\ Recorded
    BY DEF Init, Fifo, Apart, Within, Behind, Covered, Recorded, Busy, Goroutine
  <1>8. Phases /\ Answered
    BY SlicesAssumption DEF Init, Phases, Answered, F!Pending, Worker
  <1> QED
    BY <1>6, <1>7, <1>8 DEF IInv

\* A cancellation disturbs nothing.
LEMMA CancelStep == ASSUME IInv, Cancel PROVE IInv'
  <1>1. UNCHANGED <<n, Elements, PoolSize, ChunkSize, Chunks, Max(Chunks), Taken>>
        /\ \A c : UNCHANGED <<Start(c), End(c)>> /\ UNCHANGED <<FirstOf(c), LastOf(c)>>
    BY Unmoved DEF Cancel, Taken
  <1>2. TypeOK'
    BY <1>1 DEF IInv, Cancel, TypeOK
  <1>3. (Fifo /\ Apart /\ Within /\ Behind /\ Covered /\ Recorded)'
    BY <1>1 DEF IInv, Cancel, Fifo, Apart, Within, Behind, Covered, Recorded, Busy
  <1>4. (Phases /\ Answered)'
    BY <1>1 DEF IInv, Cancel, Phases, Answered
  <1> QED
    BY <1>2, <1>3, <1>4 DEF IInv

-----------------------------------------------------------------------------
\* The entry: an empty slice, a short one for the caller, a longer one for the pool.
LEMMA EnterStep == ASSUME IInv, Enter PROVE IInv'
  <1>0. /\ UNCHANGED <<n, Elements, Chunks, Max(Chunks)>>
        /\ \A c : UNCHANGED <<Start(c), End(c)>> /\ UNCHANGED <<FirstOf(c), LastOf(c)>>
    BY Unmoved DEF Enter
  <1>1. /\ n \in Nat /\ n <= MaxInputs /\ Elements = 1 .. n
        /\ jobs = <<>> /\ answer = F!Pending /\ ~stopped /\ chunk[0] = 0
        /\ \A w \in Goroutine : worker[w] = "off"
        /\ 1 \in Worker /\ 0 \notin Worker /\ 0 \in Goroutine /\ Worker \subseteq Goroutine
    BY Shape DEF IInv, Phases, Answered, Apart, Enter, Goroutine
  <1>2. CASE caller' = "returned" /\ UNCHANGED <<jobs, worker, at>>
    <2>1. TypeOK'
      BY <1>0, <1>2 DEF IInv, TypeOK, Enter
    <2>2. (Fifo /\ Apart /\ Within /\ Behind /\ Covered /\ Recorded)'
      BY <1>0, <1>1, <1>2
         DEF IInv, Enter, Fifo, Apart, Within, Behind, Covered, Recorded, Busy, Goroutine
    <2>3. (Phases /\ Answered)'
      BY <1>0, <1>1, <1>2 DEF IInv, Enter, Phases, Answered, Goroutine
    <2> QED
      BY <2>1, <2>2, <2>3 DEF IInv
  <1>3. CASE /\ n > 0 /\ caller' = "sequential" /\ UNCHANGED <<answer, jobs>>
             /\ worker' = [worker EXCEPT ![0] = "element"] /\ at' = [at EXCEPT ![0] = 1]
    <2>0. /\ worker'[0] = "element" /\ at'[0] = 1
          /\ \A w \in Worker : worker'[w] = "off"
      BY <1>1, <1>3, Shape DEF Goroutine
    <2>1. TypeOK'
      <3>1. worker' \in [Goroutine -> {"off", "receive", "element", "check", "parse", "once", "flag"}]
            /\ at' \in [Goroutine -> 0 .. MaxInputs + 1]
        BY <1>1, <1>3, Shape, SlicesAssumption
      <3> QED
        BY <1>0, <1>3, <3>1 DEF IInv, TypeOK, Enter, Goroutine
    <2>2. (Fifo /\ Apart /\ Covered /\ Recorded)'
      BY <1>0, <1>1, <1>3, <2>0
         DEF IInv, Enter, Fifo, Apart, Covered, Recorded, Busy, Goroutine
    <2>3. (Within /\ Behind)'
      <3>1. FirstOf(chunk'[0]) = 1 /\ LastOf(chunk'[0]) = n
        BY <1>1 DEF Enter, FirstOf, LastOf
      <3> QED
        BY <1>0, <1>1, <1>3, <2>0, <3>1 DEF Within, Behind, Busy, Goroutine
    <2>4. (Phases /\ Answered)'
      BY <1>0, <1>1, <1>3, <2>0 DEF IInv, Enter, Phases, Answered, Goroutine
    <2> QED
      BY <2>1, <2>2, <2>3, <2>4 DEF IInv
  <1>4. CASE /\ n > 0 /\ caller' = "wait" /\ jobs' = Queue /\ UNCHANGED <<answer, at>>
             /\ worker' = [w \in Goroutine |-> IF w \in 1 .. PoolSize THEN "receive" ELSE "off"]
    <2>0. Max(Chunks) \in 1 .. n /\ Chunks = 1 .. Max(Chunks)
          /\ PoolSize \in 1 .. n /\ PoolSize \in Worker
      BY <1>1, <1>4, Cut, ChunkSizeFacts DEF IInv, TypeOK
    <2>1. /\ \A w \in Worker : worker'[w] \in {"off", "receive"}
          /\ worker'[0] = "off" /\ worker'[1] = "receive"
      BY <1>1, <1>4, <2>0
    <2>2. /\ jobs' \in Seq(Chunks) /\ Len(jobs') = Max(Chunks) /\ DOMAIN jobs' = 1 .. Max(Chunks)
          /\ \A k \in DOMAIN jobs' : jobs'[k] = k
      <3>1. jobs' = [c \in 1 .. Max(Chunks) |-> c]
        BY <1>4 DEF Queue
      <3>2. jobs' \in Seq(Chunks)
        BY <2>0, <3>1
      <3> QED
        BY <2>0, <3>1, <3>2
    <2>3. TypeOK'
      <3>1. worker' \in [Goroutine -> {"off", "receive", "element", "check", "parse", "once", "flag"}]
        BY <1>4
      <3> QED
        BY <1>0, <1>4, <2>2, <3>1 DEF IInv, TypeOK, Enter, Goroutine
    <2>4. Taken' = 0
      BY <1>0, <2>0, <2>2 DEF Taken
    <2>5. (Fifo /\ Apart /\ Within /\ Behind /\ Covered /\ Recorded)'
      BY <1>0, <1>1, <1>4, <2>0, <2>1, <2>2, <2>4
         DEF IInv, Enter, Fifo, Apart, Within, Behind, Covered, Recorded, Busy, Goroutine
    <2>6. (Phases /\ Answered)'
      BY <1>0, <1>1, <1>4, <2>1 DEF IInv, Enter, Phases, Answered, Goroutine
    <2> QED
      BY <2>3, <2>5, <2>6 DEF IInv
  <1> QED
    BY <1>1, <1>2, <1>3, <1>4 DEF Enter, Return, Goroutine

\* parseSliceSequential and wg.Wait: the call returns and only its answer changes.
LEMMA ReturnStep == ASSUME IInv, EndSequential \/ Finish PROVE IInv'
  <1>0. /\ UNCHANGED <<n, Elements, Chunks, Max(Chunks), Taken>>
        /\ \A c : UNCHANGED <<Start(c), End(c)>> /\ UNCHANGED <<FirstOf(c), LastOf(c)>>
    BY Unmoved DEF EndSequential, Finish, Taken
  <1>1. /\ UNCHANGED <<effect, cancelled, opts, jobs, slots, failed, worker, chunk, at, first, stopped>>
        /\ caller' = "returned" /\ caller \in {"sequential", "wait"}
        /\ caller = "sequential" => worker[0] \in {"off", "once"}
        /\ caller = "wait" => \A w \in Worker : worker[w] = "off"
    BY DEF EndSequential, Finish, Return
  <1>2. TypeOK'
    BY <1>0, <1>1 DEF IInv, TypeOK
  <1>3. (Fifo /\ Apart /\ Within /\ Behind /\ Covered /\ Recorded)'
    BY <1>0, <1>1 DEF IInv, Fifo, Apart, Within, Behind, Covered, Recorded, Busy
  <1>4. (Phases /\ Answered)'
    BY <1>0, <1>1 DEF IInv, Phases, Answered
  <1> QED
    BY <1>2, <1>3, <1>4 DEF IInv

-----------------------------------------------------------------------------
(* The steps of a goroutine that validates. *)

\* A worker at the channel belongs to a call that waits for the pool.
LEMMA AtChannel ==
  ASSUME IInv, NEW w \in Goroutine, worker[w] = "receive"
  PROVE  /\ w \in Worker /\ caller = "wait" /\ n > 0
         /\ Max(Chunks) \in 1 .. n /\ Chunks = 1 .. Max(Chunks)
         /\ Taken \in 0 .. Max(Chunks) /\ Len(jobs) <= Max(Chunks)
         /\ \A k \in DOMAIN jobs : jobs[k] = Taken + k
  <1>1. w \in Worker /\ caller = "wait" /\ n > 0
    BY DEF IInv, Phases, Goroutine
  <1>2. Max(Chunks) \in 1 .. n /\ Chunks = 1 .. Max(Chunks)
    BY <1>1, Cut DEF IInv, TypeOK
  <1>3. Len(jobs) <= Max(Chunks) /\ \A k \in DOMAIN jobs : jobs[k] = Taken + k
    BY <1>1 DEF IInv, Fifo
  <1> QED
    BY <1>1, <1>2, <1>3, Shape DEF Taken

\* The range over the channel, with a chunk left.
LEMMA ReceiveStep == ASSUME IInv, NEW w \in Goroutine, Receive(w) PROVE IInv'
  <1>0. /\ UNCHANGED <<n, Elements, Chunks, Max(Chunks)>>
        /\ \A c : UNCHANGED <<Start(c), End(c)>> /\ UNCHANGED <<FirstOf(c), LastOf(c)>>
    BY Unmoved DEF Receive, Unchanged
  <1>1. /\ w \in Worker /\ caller = "wait" /\ n > 0
        /\ Max(Chunks) \in 1 .. n /\ Chunks = 1 .. Max(Chunks)
        /\ Taken \in 0 .. Max(Chunks) /\ Len(jobs) <= Max(Chunks)
        /\ \A k \in DOMAIN jobs : jobs[k] = Taken + k
        /\ n \in Nat /\ n <= MaxInputs /\ Elements = 1 .. n
        /\ Len(jobs) \in Nat /\ DOMAIN jobs = 1 .. Len(jobs)
        /\ 0 \notin Worker /\ Worker \subseteq Goroutine /\ 0 \in Goroutine
    BY AtChannel, Shape DEF Receive
  <1> DEFINE c == Head(jobs)
  <1>2. /\ jobs' \in Seq(Chunks) /\ Len(jobs') = Len(jobs) - 1 /\ Len(jobs) > 0
        /\ DOMAIN jobs' = 1 .. Len(jobs')
        /\ \A k \in DOMAIN jobs' : jobs'[k] = jobs[k + 1]
        /\ c = jobs[1]
    BY HeadTailProperties, LenProperties DEF Receive, IInv, TypeOK
  <1>3. /\ Taken' = Taken + 1 /\ c = Taken + 1 /\ c \in Chunks
        /\ 1 .. Taken' = 1 .. Taken \cup {c}
    BY <1>0, <1>1, <1>2 DEF Taken
  <1>4. Fifo'
    <2>1. ASSUME NEW k \in DOMAIN jobs' PROVE jobs'[k] = Taken' + k
      <3>1. k \in Nat /\ k + 1 \in DOMAIN jobs
        BY <1>1, <1>2
      <3>2. jobs'[k] = Taken + (k + 1)
        BY <1>1, <1>2, <3>1
      <3> QED
        BY <1>1, <1>3, <3>1, <3>2
    <2> QED
      BY <1>0, <1>1, <1>2, <2>1 DEF Fifo
  <1>5. CASE stopped
    <2>0. /\ worker'[w] = "off" /\ \A v \in Goroutine : v # w => worker'[v] = worker[v]
          /\ UNCHANGED <<chunk, at, stopped>>
          /\ worker' \in [Goroutine -> {"off", "receive", "element", "check", "parse", "once", "flag"}]
      BY <1>5, Shape DEF Receive, Goto
    <2>1. TypeOK'
      BY <1>0, <1>2, <2>0 DEF IInv, TypeOK, Receive, Unchanged, Goroutine
    <2>2. (Apart /\ Within /\ Behind /\ Covered /\ Recorded)'
      BY <1>0, <1>1, <1>3, <1>5, <2>0
         DEF IInv, Receive, Unchanged, Apart, Within, Behind, Covered, Recorded, Busy
    <2>3. (Phases /\ Answered)'
      BY <1>0, <1>1, <1>5, <2>0 DEF IInv, Receive, Unchanged, Phases, Answered
    <2> QED
      BY <1>4, <2>1, <2>2, <2>3 DEF IInv
  <1>6. CASE ~stopped
    <2>0. /\ worker'[w] = "element" /\ chunk'[w] = c /\ at'[w] = Start(c)
          /\ \A v \in Goroutine : v # w =>
               worker'[v] = worker[v] /\ chunk'[v] = chunk[v] /\ at'[v] = at[v]
      BY <1>6, Shape DEF Receive, Goto
    <2>1. Start(c) \in 1 .. n /\ End(c) \in Start(c) .. n /\ c # 0 /\ c \in 1 .. n
      <3>1. \A d \in Chunks : Start(d) \in 1 .. n /\ End(d) \in Start(d) .. n
        BY <1>1, Cut DEF IInv, TypeOK
      <3>2. \A d \in Chunks : d # 0 /\ d \in 1 .. n
        BY Shape
      <3> QED
        BY <1>3, <3>1, <3>2
    <2>2. TypeOK'
      <3>1. /\ worker' \in [Goroutine -> {"off", "receive", "element", "check", "parse", "once", "flag"}]
            /\ chunk' \in [Goroutine -> 0 .. MaxInputs]
            /\ at' \in [Goroutine -> 0 .. MaxInputs + 1]
        <4>1. /\ worker' = [worker EXCEPT ![w] = "element"]
              /\ chunk' = [chunk EXCEPT ![w] = c]
              /\ at' = [at EXCEPT ![w] = Start(c)]
          BY <1>6 DEF Receive, Goto
        <4>2. c \in 0 .. MaxInputs /\ Start(c) \in 0 .. MaxInputs + 1
          BY <1>1, <2>1, SlicesAssumption
        <4> QED
          BY <4>1, <4>2, Shape
      <3> QED
        BY <1>0, <1>2, <3>1 DEF IInv, TypeOK, Receive, Unchanged, Goroutine
    <2>3. Apart'
      <3>1. \A v \in Worker : Busy(v) => chunk[v] \in 1 .. Taken /\ chunk[v] # c
        BY <1>1, <1>3 DEF IInv, Apart
      <3> QED
        BY <1>0, <1>1, <1>3, <2>0, <3>1 DEF IInv, Apart, Busy
    <2>4. (Within /\ Behind)'
      <3>1. FirstOf(c) = Start(c) /\ LastOf(c) = End(c)
        BY <2>1 DEF FirstOf, LastOf
      <3>2. ASSUME NEW v \in Goroutine, Busy(v)'
            PROVE  /\ at'[v] \in FirstOf(chunk'[v]) .. LastOf(chunk'[v]) + 1
                   /\ worker'[v] # "element" => at'[v] <= LastOf(chunk'[v])
                   /\ \A i \in FirstOf(chunk'[v]) .. at'[v] - 1 : slots[i] = effect[i]
        <4>1. CASE v = w
          BY <1>1, <2>0, <2>1, <3>1, <4>1
        <4>2. CASE v # w
          BY <1>6, <2>0, <3>2, <4>2 DEF IInv, Within, Behind, Busy
        <4> QED
          BY <4>1, <4>2
      <3> QED
        BY <1>0, <1>6, <3>2 DEF Within, Behind, Receive, Unchanged
    <2>5. Covered'
      <3>1. \A v \in Worker : Busy(v) => Busy(v)' /\ chunk'[v] = chunk[v]
        BY <1>1, <2>0 DEF Busy, Receive
      <3>2. Busy(w)'
        BY <2>0 DEF Busy
      <3>3. \A d \in 1 .. Taken' : d = c \/ d \in 1 .. Taken
        BY <1>3
      <3> QED
        BY <1>0, <1>1, <1>6, <2>0, <3>1, <3>2, <3>3 DEF IInv, Covered, Receive, Unchanged
    <2>6. (Recorded /\ Answered)'
      BY <1>0, <1>1, <1>6, <2>0
         DEF IInv, Receive, Unchanged, Recorded, Answered, Goroutine
    <2>7. Phases'
      <3>1. w # 0 /\ worker'[0] = worker[0] /\ (worker'[1] = "off" => worker[1] = "off" /\ w # 1)
        BY <1>1, <2>0, Shape
      <3>2. UNCHANGED <<caller, failed, cancelled, stopped, slots, effect>> /\ jobs # <<>>
        BY <1>6 DEF Receive, Unchanged
      <3> QED
        BY <1>0, <1>1, <1>6, <3>1, <3>2 DEF IInv, Phases
    <2> QED
      BY <1>4, <2>2, <2>3, <2>4, <2>5, <2>6, <2>7 DEF IInv
  <1> QED
    BY <1>5, <1>6

\* The range over the channel, closed and empty.
LEMMA ExitStep == ASSUME IInv, NEW w \in Goroutine, Exit(w) PROVE IInv'
  <1>0. /\ UNCHANGED <<n, Elements, Chunks, Max(Chunks), Taken>>
        /\ \A c : UNCHANGED <<Start(c), End(c)>> /\ UNCHANGED <<FirstOf(c), LastOf(c)>>
    BY Unmoved DEF Exit, Unchanged, Taken
  <1>1. /\ w \in Worker /\ caller = "wait" /\ 0 \notin Worker /\ Worker \subseteq Goroutine
        /\ worker'[w] = "off" /\ \A v \in Goroutine : v # w => worker'[v] = worker[v]
        /\ worker' \in [Goroutine -> {"off", "receive", "element", "check", "parse", "once", "flag"}]
    BY AtChannel, Shape DEF Exit, Goto
  <1>2. \A v \in Goroutine : Busy(v)' <=> Busy(v)
    BY <1>1 DEF Busy, Exit
  <1>3. TypeOK'
    BY <1>0, <1>1 DEF IInv, TypeOK, Exit, Unchanged, Goroutine
  <1>4. (Fifo /\ Apart /\ Covered /\ Recorded)'
    BY <1>0, <1>1, <1>2 DEF IInv, Exit, Unchanged, Fifo, Apart, Covered, Recorded
  <1>5. (Within /\ Behind)'
    <2>1. \A v \in Goroutine : Busy(v)' => worker'[v] = worker[v]
      BY <1>1 DEF Busy
    <2> QED
      BY <1>0, <1>2, <2>1 DEF IInv, Exit, Unchanged, Within, Behind
  <1>6. (Phases /\ Answered)'
    BY <1>0, <1>1 DEF IInv, Exit, Unchanged, Phases, Answered, Goroutine
  <1> QED
    BY <1>3, <1>4, <1>5, <1>6 DEF IInv

\* A goroutine leaves its chunk: every element has its effect, or the chunk has
\* failed, or a panic has stopped the pool.
LEMMA LeaveStep ==
  ASSUME IInv, NEW w \in Goroutine, worker[w] \in {"element", "check"}, Leave(w), Unchanged,
         UNCHANGED <<jobs, slots, chunk, at, first, stopped>>,
         failed' \in {failed, failed \cup {chunk[w]}}, failed' # {} => cancelled,
         stopped \/ chunk[w] \in failed' \/ at[w] > LastOf(chunk[w])
  PROVE  IInv'
  <1>0. /\ UNCHANGED <<n, Elements, Chunks, Max(Chunks), Taken>>
        /\ \A c : UNCHANGED <<Start(c), End(c)>> /\ UNCHANGED <<FirstOf(c), LastOf(c)>>
    BY Unmoved DEF Unchanged, Taken
  <1>1. /\ n \in Nat /\ n > 0 /\ Elements = 1 .. n
        /\ FirstOf(chunk[w]) \in 1 .. n /\ LastOf(chunk[w]) \in FirstOf(chunk[w]) .. n
        /\ at[w] \in FirstOf(chunk[w]) .. LastOf(chunk[w]) + 1
        /\ w # 0 => w \in Worker /\ caller = "wait" /\ chunk[w] \in Chunks
        /\ w = 0 => chunk[w] = 0 /\ caller = "sequential"
        /\ 0 \notin Worker /\ Worker \subseteq Goroutine /\ 1 \in Worker /\ 0 \in Goroutine
        /\ 0 \notin Chunks
    BY Held, Shape DEF Busy
  <1>2. /\ worker'[w] = (IF w = 0 THEN "off" ELSE "receive") /\ ~Busy(w)'
        /\ \A v \in Goroutine : v # w => worker'[v] = worker[v] /\ (Busy(v)' <=> Busy(v))
        /\ \A v \in Goroutine : Busy(v)' => worker'[v] = worker[v] /\ Busy(v)
        /\ worker' \in [Goroutine -> {"off", "receive", "element", "check", "parse", "once", "flag"}]
    BY Shape DEF Leave, Goto, Busy
  <1>3. ~stopped /\ chunk[w] \notin failed' =>
          \A i \in FirstOf(chunk[w]) .. LastOf(chunk[w]) : slots[i] = effect[i]
    <2>1. ~stopped => \A i \in FirstOf(chunk[w]) .. at[w] - 1 : slots[i] = effect[i]
      BY DEF IInv, Behind, Busy
    <2> QED
      BY <1>1, <2>1
  <1>4. TypeOK'
    <2>1. failed' \subseteq Chunks \cup {0}
      BY <1>1 DEF IInv, TypeOK
    <2> QED
      BY <1>0, <1>2, <2>1 DEF IInv, TypeOK, Unchanged, Goroutine
  <1>5. (Fifo /\ Apart /\ Within /\ Behind)'
    BY <1>0, <1>1, <1>2 DEF IInv, Unchanged, Fifo, Apart, Within, Behind
  <1>6. Covered'
    <2> SUFFICES ASSUME caller = "wait", ~stopped, NEW c \in 1 .. Taken, c \notin failed',
                        ~\E v \in Worker : Busy(v)' /\ chunk[v] = c
                 PROVE  \A i \in Start(c) .. End(c) : slots[i] = effect[i]
      BY <1>0 DEF Covered, Unchanged
    <2>1. w \in Worker /\ w # 0
      BY <1>1
    <2>2. CASE c = chunk[w]
      BY <1>1, <1>3, <2>1, <2>2 DEF FirstOf, LastOf
    <2>3. CASE c # chunk[w]
      <3>1. c \notin failed /\ ~\E v \in Worker : Busy(v) /\ chunk[v] = c
        BY <1>1, <1>2, <2>3
      <3> QED
        BY <3>1 DEF IInv, Covered
    <2> QED
      BY <2>2, <2>3
  <1>7. Recorded'
    BY <1>0, <1>1, <1>2 DEF IInv, Unchanged, Recorded, Busy
  <1>8. Phases'
    <2>1. caller = "sequential" /\ w = 0 => failed' # {} \/ \A i \in Elements : slots[i] = effect[i]
      <3> SUFFICES ASSUME caller = "sequential", w = 0, failed' = {}
                   PROVE  \A i \in Elements : slots[i] = effect[i]
        OBVIOUS
      <3>1. FirstOf(chunk[w]) = 1 /\ LastOf(chunk[w]) = n /\ ~stopped
        BY <1>1 DEF FirstOf, LastOf, IInv, Phases
      <3> QED
        BY <1>1, <1>3, <3>1
    <2>2. caller = "sequential" /\ w # 0 => FALSE
      BY <1>1
    <2>3. worker'[1] = "off" => worker[1] = "off"
      BY <1>1, <1>2
    <2> QED
      BY <1>0, <1>1, <1>2, <2>1, <2>2, <2>3 DEF IInv, Unchanged, Phases
  <1>9. Answered'
    BY DEF IInv, Unchanged, Answered
  <1> QED
    BY <1>4, <1>5, <1>6, <1>7, <1>8, <1>9 DEF IInv

\* A goroutine goes on with the element it is at.
LEMMA AdvanceStep ==
  ASSUME IInv, NEW w \in Goroutine, worker[w] \in {"element", "check"}, Unchanged,
         NEW pc \in {"check", "parse"}, Goto(w, pc), w = 0 => pc = "parse",
         at[w] <= LastOf(chunk[w]),
         UNCHANGED <<jobs, slots, failed, chunk, at, first, stopped>>
  PROVE  IInv'
  <1>0. /\ UNCHANGED <<n, Elements, Chunks, Max(Chunks), Taken>>
        /\ \A c : UNCHANGED <<Start(c), End(c)>> /\ UNCHANGED <<FirstOf(c), LastOf(c)>>
    BY Unmoved DEF Unchanged, Taken
  <1>1. /\ w # 0 => w \in Worker /\ caller = "wait"
        /\ w = 0 => caller = "sequential"
        /\ 0 \notin Worker /\ Worker \subseteq Goroutine /\ 1 \in Worker /\ 0 \in Goroutine
    BY Held, Shape DEF Busy
  <1>2. /\ worker'[w] = pc /\ \A v \in Goroutine : v # w => worker'[v] = worker[v]
        /\ worker' \in [Goroutine -> {"off", "receive", "element", "check", "parse", "once", "flag"}]
    BY Shape DEF Goto
  <1>3. \A v \in Goroutine : Busy(v)' <=> Busy(v)
    BY <1>2 DEF Busy
  <1>4. TypeOK'
    BY <1>0, <1>2 DEF IInv, TypeOK, Unchanged, Goroutine
  <1>5. (Fifo /\ Apart /\ Behind /\ Covered)'
    BY <1>0, <1>1, <1>3 DEF IInv, Unchanged, Fifo, Apart, Behind, Covered
  <1>6. (Within /\ Recorded)'
    BY <1>0, <1>1, <1>2, <1>3 DEF IInv, Unchanged, Within, Recorded
  <1>7. (Phases /\ Answered)'
    BY <1>0, <1>1, <1>2 DEF IInv, Unchanged, Phases, Answered
  <1> QED
    BY <1>4, <1>5, <1>6, <1>7 DEF IInv

\* The loop of runParallelChunk and parseSliceSequential: its end, ctx.Err(),
\* and panics.stop().
LEMMA LoopStep ==
  ASSUME IInv, NEW w \in Goroutine, EndChunk(w) \/ CheckContext(w) \/ CheckStop(w)
  PROVE  IInv'
  <1>0. failed # {} => cancelled
    BY DEF IInv, Phases
  <1>1. CASE EndChunk(w)
    BY <1>0, <1>1, LeaveStep DEF EndChunk
  <1>2. CASE CheckContext(w) /\ cancelled
    <2>1. Leave(w) /\ failed' = failed \cup {chunk[w]} /\ worker[w] = "element"
          /\ Unchanged /\ UNCHANGED <<jobs, slots, chunk, at, first, stopped>>
      BY <1>2 DEF CheckContext
    <2> QED
      BY <1>2, <2>1, LeaveStep
  <1>3. CASE CheckContext(w) /\ ~cancelled
    <2>1. /\ worker[w] = "element" /\ at[w] <= LastOf(chunk[w])
          /\ Unchanged /\ UNCHANGED <<jobs, slots, failed, chunk, at, first, stopped>>
          /\ Goto(w, IF w = 0 THEN "parse" ELSE "check")
      BY <1>3 DEF CheckContext
    <2>2. CASE w = 0
      <3>1. Goto(w, "parse")
        BY <2>1, <2>2
      <3> QED
        BY <2>1, <2>2, <3>1, AdvanceStep
    <2>3. CASE w # 0
      <3>1. Goto(w, "check")
        BY <2>1, <2>3
      <3> QED
        BY <2>1, <2>3, <3>1, AdvanceStep
    <2> QED
      BY <2>2, <2>3
  <1>4. CASE CheckStop(w) /\ stopped
    <2>1. Leave(w) /\ failed' = failed /\ worker[w] = "check"
          /\ Unchanged /\ UNCHANGED <<jobs, slots, chunk, at, first, stopped>>
      BY <1>4 DEF CheckStop
    <2> QED
      BY <1>0, <1>4, <2>1, LeaveStep
  <1>5. CASE CheckStop(w) /\ ~stopped
    <2>1. /\ worker[w] = "check" /\ at[w] <= LastOf(chunk[w])
          /\ Unchanged /\ UNCHANGED <<jobs, slots, failed, chunk, at, first, stopped>>
          /\ Goto(w, "parse")
      BY <1>5, Held DEF CheckStop, Busy
    <2> QED
      BY <2>1, AdvanceStep
  <1> QED
    BY <1>1, <1>2, <1>3, <1>4, <1>5

\* The validation of an element: it panics, or its slot is its effect.
LEMMA ParseStep == ASSUME IInv, NEW w \in Goroutine, Parse(w) PROVE IInv'
  <1>0. /\ UNCHANGED <<n, Elements, Chunks, Max(Chunks), Taken>>
        /\ \A c : UNCHANGED <<Start(c), End(c)>> /\ UNCHANGED <<FirstOf(c), LastOf(c)>>
    BY Unmoved DEF Parse, Unchanged, Taken
  <1>1. /\ n \in Nat /\ n <= MaxInputs /\ Elements = 1 .. n
        /\ at[w] \in 1 .. n /\ at[w] \in Elements /\ at[w] <= LastOf(chunk[w])
        /\ FirstOf(chunk[w]) \in 1 .. n /\ LastOf(chunk[w]) \in FirstOf(chunk[w]) .. n
        /\ at[w] \in FirstOf(chunk[w]) .. LastOf(chunk[w])
        /\ w # 0 => w \in Worker /\ caller = "wait"
        /\ w = 0 => caller = "sequential"
        /\ 0 \notin Worker /\ Worker \subseteq Goroutine /\ 1 \in Worker /\ 0 \in Goroutine
        /\ effect[at[w]] \in {"accepted", "rejected", "panics"}
    BY Held, Shape DEF Busy, Parse
  <1>2. UNCHANGED <<effect, cancelled, answer, opts, caller, jobs, failed, chunk, first, stopped>>
        /\ worker[w] = "parse"
    BY DEF Parse, Unchanged
  <1>3. CASE effect[at[w]] = "panics"
    <2>0. /\ worker'[w] = "once" /\ \A v \in Goroutine : v # w => worker'[v] = worker[v]
          /\ worker' \in [Goroutine -> {"off", "receive", "element", "check", "parse", "once", "flag"}]
          /\ UNCHANGED <<slots, at>>
      BY <1>3, Shape DEF Parse, Goto
    <2>1. \A v \in Goroutine : Busy(v)' <=> Busy(v)
      BY <1>2, <2>0 DEF Busy
    <2>2. TypeOK'
      BY <1>0, <1>2, <2>0 DEF IInv, TypeOK, Goroutine
    <2>3. (Fifo /\ Apart /\ Behind /\ Covered)'
      BY <1>0, <1>1, <1>2, <2>0, <2>1 DEF IInv, Fifo, Apart, Behind, Covered
    <2>4. (Within /\ Recorded)'
      BY <1>0, <1>1, <1>2, <1>3, <2>0, <2>1 DEF IInv, Within, Recorded
    <2>5. (Phases /\ Answered)'
      BY <1>0, <1>1, <1>2, <2>0 DEF IInv, Phases, Answered
    <2> QED
      BY <2>2, <2>3, <2>4, <2>5 DEF IInv
  <1>4. CASE effect[at[w]] # "panics"
    <2>0. /\ worker'[w] = "element" /\ at'[w] = at[w] + 1
          /\ \A v \in Goroutine : v # w => worker'[v] = worker[v] /\ at'[v] = at[v]
          /\ worker' \in [Goroutine -> {"off", "receive", "element", "check", "parse", "once", "flag"}]
          /\ at' = [at EXCEPT ![w] = at[w] + 1]
      BY <1>4, Shape DEF Parse, Goto
    <2>1. \A v \in Goroutine : Busy(v)' <=> Busy(v)
      BY <1>2, <2>0 DEF Busy
    <2>2. /\ slots' \in [Elements -> F!Slot] /\ slots'[at[w]] = effect[at[w]]
          /\ \A i \in Elements : slots[i] = effect[i] => slots'[i] = effect[i]
      BY <1>1, <1>4 DEF Parse, IInv, TypeOK, F!Slot
    <2>3. TypeOK'
      <3>1. at' \in [Goroutine -> 0 .. MaxInputs + 1]
        BY <1>1, <2>0, Shape, SlicesAssumption
      <3> QED
        BY <1>0, <1>2, <2>0, <2>2, <3>1 DEF IInv, TypeOK, Goroutine
    <2>4. (Fifo /\ Apart)'
      BY <1>0, <1>1, <1>2, <2>1 DEF IInv, Fifo, Apart
    <2>5. (Within /\ Recorded)'
      BY <1>0, <1>1, <1>2, <2>0, <2>1 DEF IInv, Within, Recorded
    <2>6. Behind'
      <3> SUFFICES ASSUME ~stopped, NEW v \in Goroutine, Busy(v),
                          NEW i \in FirstOf(chunk[v]) .. at'[v] - 1
                   PROVE  slots'[i] = effect[i]
        BY <1>0, <1>2, <2>1 DEF Behind
      <3>1. /\ FirstOf(chunk[v]) \in 1 .. n /\ LastOf(chunk[v]) \in 1 .. n
            /\ at[v] \in FirstOf(chunk[v]) .. LastOf(chunk[v]) + 1
        BY Held, <1>1
      <3>2. i \in FirstOf(chunk[v]) .. at[v] - 1 \/ (v = w /\ i = at[w])
        BY <1>1, <2>0, <3>1
      <3>3. CASE i \in FirstOf(chunk[v]) .. at[v] - 1
        <4>1. i \in Elements
          BY <1>1, <3>1, <3>3
        <4>2. slots[i] = effect[i]
          BY <3>3 DEF IInv, Behind
        <4> QED
          BY <2>2, <4>1, <4>2
      <3> QED
        BY <2>2, <3>2, <3>3
    <2>7. Covered'
      <3> SUFFICES ASSUME caller = "wait", ~stopped, NEW c \in 1 .. Taken, c \notin failed,
                          ~\E v \in Worker : Busy(v) /\ chunk[v] = c,
                          NEW i \in Start(c) .. End(c)
                   PROVE  slots'[i] = effect[i]
        BY <1>0, <1>1, <1>2, <2>1 DEF Covered
      <3>1. slots[i] = effect[i]
        BY DEF IInv, Covered
      <3>2. i \in Elements
        <4>1. n > 0 /\ Fifo /\ effect \in F!Batches /\ opts \in [workers : Worker, minChunk : MinChunks]
          BY <1>1 DEF IInv, TypeOK
        <4>2. Max(Chunks) \in 1 .. n /\ Chunks = 1 .. Max(Chunks)
              /\ \A d \in Chunks : Start(d) \in 1 .. n /\ End(d) \in Start(d) .. n
          BY <4>1, Cut
        <4>3. c \in Chunks
          BY <1>1, <4>1, <4>2, Shape DEF Taken, Fifo
        <4>4. Start(c) \in 1 .. n /\ End(c) \in 1 .. n
          BY <1>1, <4>2, <4>3
        <4> QED
          BY <1>1, <4>4
      <3> QED
        BY <2>2, <3>1, <3>2
    <2>8. (Phases /\ Answered)'
      <3>1. worker'[1] = "off" => worker[1] = "off"
        BY <1>1, <2>0
      <3> QED
        BY <1>0, <1>1, <1>2, <2>0, <3>1 DEF IInv, Phases, Answered
    <2> QED
      BY <2>3, <2>4, <2>5, <2>6, <2>7, <2>8 DEF IInv
  <1> QED
    BY <1>3, <1>4

\* panicRecord.capture: only the first panic is recorded.
LEMMA CaptureOnceStep == ASSUME IInv, NEW w \in Goroutine, CaptureOnce(w) PROVE IInv'
  <1>0. /\ UNCHANGED <<n, Elements, Chunks, Max(Chunks), Taken>>
        /\ \A c : UNCHANGED <<Start(c), End(c)>> /\ UNCHANGED <<FirstOf(c), LastOf(c)>>
    BY Unmoved DEF CaptureOnce, Unchanged, Taken
  <1>1. /\ n \in Nat /\ Elements = 1 .. n /\ at[w] \in Elements /\ at[w] # 0
        /\ w \in Worker /\ caller = "wait" /\ effect[at[w]] = "panics"
        /\ 0 \notin Worker /\ Worker \subseteq Goroutine /\ 1 \in Worker /\ 0 \in Goroutine
    BY Held, Shape DEF Busy, CaptureOnce, IInv, Recorded
  <1>2. /\ worker'[w] = "flag" /\ \A v \in Goroutine : v # w => worker'[v] = worker[v]
        /\ worker' \in [Goroutine -> {"off", "receive", "element", "check", "parse", "once", "flag"}]
        /\ first' = IF first = 0 THEN at[w] ELSE first
        /\ worker[w] = "once"
        /\ UNCHANGED <<effect, cancelled, answer, opts, caller, jobs, slots, failed, chunk, at, stopped>>
    BY Shape DEF CaptureOnce, Goto, Unchanged
  <1>3. \A v \in Goroutine : Busy(v)' <=> Busy(v)
    BY <1>2 DEF Busy
  <1>4. TypeOK'
    BY <1>0, <1>1, <1>2 DEF IInv, TypeOK, Goroutine
  <1>5. (Fifo /\ Apart /\ Behind /\ Covered)'
    BY <1>0, <1>1, <1>2, <1>3 DEF IInv, Fifo, Apart, Behind, Covered
  <1>6. (Within /\ Recorded)'
    BY <1>0, <1>1, <1>2, <1>3 DEF IInv, Within, Recorded
  <1>7. (Phases /\ Answered)'
    BY <1>0, <1>1, <1>2 DEF IInv, Phases, Answered
  <1> QED
    BY <1>4, <1>5, <1>6, <1>7 DEF IInv

\* The flag is set after the Once: who sees it set finds a panic recorded.
LEMMA CaptureFlagStep == ASSUME IInv, NEW w \in Goroutine, CaptureFlag(w) PROVE IInv'
  <1>0. /\ UNCHANGED <<n, Elements, Chunks, Max(Chunks), Taken>>
        /\ \A c : UNCHANGED <<Start(c), End(c)>> /\ UNCHANGED <<FirstOf(c), LastOf(c)>>
    BY Unmoved DEF CaptureFlag, Unchanged, Taken
  <1>1. /\ n \in Nat /\ n <= MaxInputs /\ w \in Worker /\ w # 0 /\ caller = "wait"
        /\ at[w] \in 1 .. n /\ at[w] \in FirstOf(chunk[w]) .. LastOf(chunk[w])
        /\ FirstOf(chunk[w]) \in 1 .. n /\ LastOf(chunk[w]) \in 1 .. n
        /\ 0 \notin Worker /\ Worker \subseteq Goroutine /\ 1 \in Worker /\ 0 \in Goroutine
    <2>1. w # 0
      BY DEF IInv, Phases, CaptureFlag
    <2> QED
      BY <2>1, Held, Shape DEF Busy, CaptureFlag
  <1>2. /\ worker'[w] = "element" /\ at'[w] = at[w] + 1 /\ stopped' = TRUE
        /\ \A v \in Goroutine : v # w => worker'[v] = worker[v] /\ at'[v] = at[v]
        /\ worker' \in [Goroutine -> {"off", "receive", "element", "check", "parse", "once", "flag"}]
        /\ at' \in [Goroutine -> 0 .. MaxInputs + 1]
        /\ worker[w] = "flag"
        /\ UNCHANGED <<effect, cancelled, answer, opts, caller, jobs, slots, failed, chunk, first>>
    BY <1>1, Shape, SlicesAssumption DEF CaptureFlag, Goto, Unchanged
  <1>3. \A v \in Goroutine : Busy(v)' <=> Busy(v)
    BY <1>2 DEF Busy
  <1>4. TypeOK'
    BY <1>0, <1>2 DEF IInv, TypeOK, Goroutine
  <1>5. (Fifo /\ Apart /\ Behind /\ Covered)'
    BY <1>0, <1>1, <1>2, <1>3 DEF IInv, Fifo, Apart, Behind, Covered
  <1>6. (Within /\ Recorded)'
    BY <1>0, <1>1, <1>2, <1>3 DEF IInv, Within, Recorded
  <1>7. (Phases /\ Answered)'
    BY <1>0, <1>1, <1>2 DEF IInv, Phases, Answered
  <1> QED
    BY <1>4, <1>5, <1>6, <1>7 DEF IInv

LEMMA StepInv == IInv /\ [Next]_vars => IInv'
  <1> SUFFICES ASSUME IInv, [Next]_vars PROVE IInv'
    OBVIOUS
  <1>1. CASE Cancel
    BY <1>1, CancelStep
  <1>2. CASE CallerStep
    BY <1>2, EnterStep, ReturnStep DEF CallerStep
  <1>3. ASSUME NEW w \in Worker \cup {0}, WorkerStep(w) PROVE IInv'
    <2>1. w \in Goroutine
      BY DEF Goroutine
    <2> QED
      BY <1>3, <2>1, ReceiveStep, ExitStep, LoopStep, ParseStep, CaptureOnceStep, CaptureFlagStep
         DEF WorkerStep
  <1>4. CASE UNCHANGED vars
    <2>1. UNCHANGED <<n, Elements, Chunks, Max(Chunks), Taken>>
          /\ \A c : UNCHANGED <<Start(c), End(c)>> /\ UNCHANGED <<FirstOf(c), LastOf(c)>>
      BY <1>4, Unmoved DEF vars, Taken
    <2>2. TypeOK'
      BY <1>4, <2>1 DEF IInv, vars, TypeOK
    <2>3. (Fifo /\ Apart /\ Within /\ Behind /\ Covered /\ Recorded /\ Phases /\ Answered)'
      BY <1>4, <2>1 DEF IInv, vars, Fifo, Apart, Within, Behind, Covered, Recorded, Phases,
                        Answered, Busy
    <2> QED
      BY <2>2, <2>3 DEF IInv
  <1> QED
    BY <1>1, <1>2, <1>3, <1>4 DEF Next, Returned

-----------------------------------------------------------------------------
(* The results. *)

\* The invariant of ParseParallelSlice holds in every state, for slices of any
\* length, pools of any size and every MinChunk.
THEOREM Invariance == Spec => []IInv
  BY InitInv, StepInv, PTL DEF Spec

\* The locals of a call and of its goroutines keep their types: no goroutine ever
\* looks outside the slice, and only chunks of the slice are in the channel.
THEOREM TypeCorrect == Spec => []TypeOK
  BY Invariance, PTL DEF IInv

\* The chunks of runParallelChunk cut the slice without a gap or an overlap,
\* whatever the rounding of chunkSize, and no two workers are ever at the same
\* element, so results[i] and errs[i] have one writer.
THEOREM NoOverlapHolds == Spec => []NoOverlap
  <1>1. IInv => NoOverlap
    <2> SUFFICES ASSUME IInv PROVE NoOverlap
      OBVIOUS
    <2>1. ASSUME n > 0, NEW i \in Elements
          PROVE  \E c \in Chunks :
                   i \in Start(c) .. End(c) /\ \A d \in Chunks \ {c} : i \notin Start(d) .. End(d)
      <3>1. /\ i \in 1 .. n
            /\ effect \in F!Batches /\ opts \in [workers : Worker, minChunk : MinChunks]
        BY Shape DEF IInv, TypeOK
      <3>2. PICK c \in Chunks : i \in Start(c) .. End(c)
        BY <2>1, <3>1, Cut
      <3>3. \A d \in Chunks : c # d => Start(c) .. End(c) \cap Start(d) .. End(d) = {}
        BY <2>1, <3>1, Cut
      <3> QED
        BY <3>2, <3>3
    <2>2. ASSUME NEW v \in Worker, NEW w \in Worker, v # w,
                 worker[v] \in {"parse", "once", "flag"}, worker[w] \in {"parse", "once", "flag"}
          PROVE  at[v] # at[w]
      <3>1. Busy(v) /\ Busy(w) /\ v \in Goroutine /\ w \in Goroutine
        BY <2>2 DEF Busy, Goroutine
      <3>2. FirstOf(chunk[v]) .. LastOf(chunk[v]) \cap FirstOf(chunk[w]) .. LastOf(chunk[w]) = {}
        BY <2>2, <3>1, Separate
      <3>3. ASSUME NEW u \in Goroutine, Busy(u), worker[u] # "element"
            PROVE  at[u] \in FirstOf(chunk[u]) .. LastOf(chunk[u])
        BY <3>3, Held, Shape
      <3> QED
        BY <2>2, <3>1, <3>2, <3>3
    <2> QED
      BY <2>1, <2>2 DEF NoOverlap
  <1> QED
    BY <1>1, Invariance, PTL

\* When every worker has left and nothing panicked or failed, every chunk was
\* taken and every element of it validated.
LEMMA AllValidated ==
  ASSUME IInv, caller = "wait", ~stopped, failed = {}, \A w \in Worker : worker[w] = "off"
  PROVE  [i \in Elements |-> IF \E c \in Chunks : i \in Start(c) .. End(c) THEN slots[i] ELSE "unset"]
           = effect
  <1>1. /\ n \in Nat /\ Elements = 1 .. n /\ n > 0 /\ 1 \in Worker
        /\ effect \in F!Batches /\ opts \in [workers : Worker, minChunk : MinChunks]
    BY Shape DEF IInv, Phases, TypeOK
  <1>2. Max(Chunks) \in 1 .. n /\ Chunks = 1 .. Max(Chunks)
        /\ \A i \in 1 .. n : \E c \in Chunks : i \in Start(c) .. End(c)
    BY <1>1, Cut
  <1>3. jobs = <<>> /\ Len(jobs) = 0
    BY <1>1 DEF IInv, Phases
  <1>4. 1 .. Taken = Chunks
    BY <1>2, <1>3 DEF Taken
  <1>5. \A w \in Worker : ~Busy(w)
    BY DEF Busy
  <1>6. \A c \in Chunks : \A i \in Start(c) .. End(c) : slots[i] = effect[i]
    BY <1>4, <1>5 DEF IInv, Covered
  <1>7. effect = [i \in Elements |-> effect[i]]
    BY <1>1, InputFacts DEF F!Batches, Elements
  <1> QED
    BY <1>1, <1>2, <1>6, <1>7

\* A slice whose elements all have their effect has no panic.
LEMMA Clean == ASSUME IInv, slots = effect PROVE "panics" \notin {effect[i] : i \in DOMAIN effect}
  BY DEF IInv, TypeOK, Elements, F!Slot

\* ParseParallelSlice does what Fanout promises, whatever the interleaving of its
\* workers: an answer without a panic or an error has the effect of every
\* element, and a panic is raised for an element that panics.
THEOREM Refinement == Spec => Implements
  <1>1. Init => F!Init
    BY DEF Init, F!Init
  <1>2. IInv /\ [Next]_vars => [F!Next]_(F!fanoutVars)
    <2> SUFFICES ASSUME IInv, [Next]_vars PROVE [F!Next]_(F!fanoutVars)
      OBVIOUS
    <2>0. \A i \in DOMAIN <<>> : <<>>[i] \in {effect[i], "cancelled", "unset"}
      OBVIOUS
    <2>1. CASE Cancel
      BY <2>1 DEF Cancel, F!Cancel, F!Next
    <2>2. CASE Enter
      <3>1. answer = F!Pending /\ n \in Nat
        BY <2>2, Shape DEF IInv, Answered, Enter
      <3>2. CASE cancelled
        <4>1. F!ReturnCancelled
          BY <2>0, <2>2, <3>1, <3>2 DEF Enter, Return, F!ReturnCancelled
        <4> QED
          BY <4>1 DEF F!Next
      <3>3. CASE ~cancelled /\ n = 0
        <4>1. Elements = {} /\ slots = effect
          BY <3>3, Shape DEF IInv, TypeOK, F!Batches, Elements
        <4>2. F!ReturnDone
          BY <2>2, <3>1, <3>3, <4>1, Clean DEF Enter, Return, F!ReturnDone
        <4> QED
          BY <4>2 DEF F!Next
      <3>4. CASE ~cancelled /\ n > 0
        BY <2>2, <3>1, <3>4 DEF Enter, Return, F!fanoutVars
      <3> QED
        BY <3>1, <3>2, <3>3, <3>4
    <2>3. CASE EndSequential
      <3>1. answer = F!Pending /\ UNCHANGED <<effect, cancelled>>
        BY <2>3 DEF IInv, Answered, EndSequential
      <3>2. CASE worker[0] = "once"
        <4>1. at[0] \in DOMAIN effect /\ effect[at[0]] = "panics"
          BY <3>2, Held, Shape DEF Busy, IInv, Recorded, Elements
        <4>2. answer' = F!Panicked(at[0])
          BY <2>3, <3>2 DEF EndSequential, Return
        <4> QED
          BY <3>1, <4>1, <4>2 DEF F!Next, F!Raise
      <3>3. CASE worker[0] = "off" /\ failed # {}
        <4>1. cancelled /\ answer' = F!Cancelled(<<>>)
          BY <2>3, <3>3 DEF EndSequential, Return, IInv, Phases
        <4> QED
          BY <2>0, <3>1, <4>1 DEF F!Next, F!ReturnCancelled
      <3>4. CASE worker[0] = "off" /\ failed = {}
        <4>1. answer' = F!Done(slots) /\ \A i \in Elements : slots[i] = effect[i]
          BY <2>3, <3>4 DEF EndSequential, Return, IInv, Phases
        <4>2. slots = effect
          BY <4>1, InputFacts DEF IInv, TypeOK, F!Batches, Elements
        <4> QED
          BY <3>1, <4>1, <4>2, Clean DEF F!Next, F!ReturnDone
      <3> QED
        BY <2>3, <3>2, <3>3, <3>4 DEF EndSequential
    <2>4. CASE Finish
      <3>1. answer = F!Pending /\ UNCHANGED <<effect, cancelled>>
        BY <2>4 DEF IInv, Answered, Finish
      <3>2. CASE stopped
        <4>1. first \in DOMAIN effect /\ effect[first] = "panics"
          BY <3>2 DEF IInv, TypeOK, Recorded, Elements
        <4> QED
          BY <2>4, <3>1, <3>2, <4>1 DEF Finish, Return, F!Next, F!Raise
      <3>3. CASE ~stopped /\ failed # {}
        <4>1. cancelled /\ answer' = F!Cancelled(<<>>)
          BY <2>4, <3>3 DEF Finish, Return, IInv, Phases
        <4> QED
          BY <2>0, <3>1, <4>1 DEF F!Next, F!ReturnCancelled
      <3>4. CASE ~stopped /\ failed = {}
        <4>1. answer' = F!Done(effect)
          BY <2>4, <3>4, AllValidated DEF Finish, Return
        <4>2. "panics" \notin {effect[i] : i \in DOMAIN effect}
          <5>1. \A i \in Elements : \E c \in Chunks : i \in Start(c) .. End(c)
            BY <2>4, Cut, Shape DEF Finish, IInv, TypeOK, Phases
          <5>2. \A i \in Elements : effect[i] = slots[i]
            BY <2>4, <3>4, <5>1, AllValidated DEF Finish
          <5> QED
            BY <5>2 DEF IInv, TypeOK, Elements, F!Slot
        <4> QED
          BY <3>1, <4>1, <4>2 DEF F!Next, F!ReturnDone
      <3> QED
        BY <3>2, <3>3, <3>4
    <2>5. CASE Returned \/ UNCHANGED vars
      BY <2>5 DEF Returned, vars, F!fanoutVars
    <2>6. ASSUME NEW w \in Worker \cup {0}, WorkerStep(w) PROVE UNCHANGED F!fanoutVars
      BY <2>6 DEF WorkerStep, Receive, Exit, EndChunk, CheckContext, CheckStop, Parse, CaptureOnce,
                  CaptureFlag, Unchanged, F!fanoutVars
    <2> QED
      BY <2>1, <2>2, <2>3, <2>4, <2>5, <2>6 DEF Next, CallerStep
  <1> QED
    BY <1>1, <1>2, Invariance, PTL DEF Spec, F!Spec, Implements
=============================================================================
