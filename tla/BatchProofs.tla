---------------------------- MODULE BatchProofs ----------------------------
(***************************************************************************)
(* What Batch guarantees for inputs of any length and pools of any size:   *)
(* its type invariant, its safety invariants and that it implements        *)
(* Fanout.  All follow from one inductive invariant.                       *)
(***************************************************************************)
EXTENDS Batch, TLAPS, SequenceTheorems

\* How many indices the workers have taken from the channel.
Taken == (next - 1) - Len(jobs)

\* The channel holds the last indices that were sent, in order.
Fifo ==
  /\ Len(jobs) < next
  /\ \A k \in DOMAIN jobs : jobs[k] = Taken + k

\* A worker holds an index that was taken and has no answer yet; no other
\* worker holds it.
Apart ==
  /\ \A w \in Worker : Busy(w) => job[w] \in 1 .. Taken /\ slots[job[w]] = "unset"
  /\ \A v, w \in Worker : Busy(v) /\ Busy(w) /\ v # w => job[v] # job[w]

\* The indices still in the channel or not yet sent have no answer.
Ahead == \A i \in Elements : i > Taken => slots[i] = "unset"

\* A slot is unset, or the effect of its element, or a cancellation.
Settled == \A i \in Elements :
  /\ slots[i] \in {"unset", "cancelled", effect[i]}
  /\ slots[i] = "cancelled" => cancelled

\* Until a panic stops the pool, an index that was taken is answered or held.
Covered == ~stopped => \A i \in 1 .. Taken :
  slots[i] # "unset" \/ \E w \in Worker : Busy(w) /\ job[w] = i

\* What the Once and the flag of the panicRecord say of the workers.
Recorded ==
  /\ first # 0 => effect[first] = "panics"
  /\ stopped => first # 0
  /\ \A w \in Worker : worker[w] \in {"once", "flag"} => effect[job[w]] = "panics"
  /\ \A w \in Worker : worker[w] = "flag" => first # 0

\* Where the caller is, and what that says of the channel and the pool.
Phases ==
  /\ 1 \in started
  /\ \A w \in Worker : w \notin started => worker[w] = "off"
  /\ caller = "enter" => next = 1 /\ \A w \in Worker : worker[w] = "off"
  /\ closed => caller \in {"wait", "abandon", "returned"}
  /\ caller = "wait" => next = n + 1
  /\ caller = "abandon" => cancelled
  /\ caller \in {"send", "wait", "abandon"} =>
       \A w \in started : worker[w] = "off" => stopped \/ (closed /\ jobs = <<>>)

\* The call answers once, when it returns.
Answered ==
  /\ caller # "returned" => answer = F!Pending
  /\ caller = "returned" => answer # F!Pending

IInv ==
  /\ TypeOK /\ Fifo /\ Apart /\ Ahead /\ Settled /\ Covered /\ Recorded /\ Phases
  /\ Answered /\ Quiescent /\ NoLostPanic

-----------------------------------------------------------------------------
(* Facts about the input and the channel. *)

\* The input is a sequence of at most MaxInputs effects.
LEMMA InputFacts ==
  ASSUME effect \in F!Batches
  PROVE  /\ n \in Nat
         /\ Elements = 1 .. n
         /\ \A i \in Elements : effect[i] \in F!Effect
  <1>1. PICK k \in 0 .. MaxInputs : effect \in [1 .. k -> F!Effect]
    BY DEF F!Batches
  <1>2. effect \in Seq(F!Effect)
    BY <1>1, BatchAssumption, SeqDef
  <1> QED
    BY <1>1, <1>2, BatchAssumption, LenProperties DEF n, Elements

\* Everything a step needs to know of the types, with n in place of Elements.
LEMMA TypeFacts ==
  ASSUME TypeOK
  PROVE  /\ n \in Nat /\ Elements = 1 .. n
         /\ Len(jobs) \in Nat /\ DOMAIN jobs = 1 .. Len(jobs)
         /\ \A k \in DOMAIN jobs : jobs[k] \in 1 .. n
         /\ next \in 1 .. n + 1
         /\ \A i \in Elements : effect[i] \in {"accepted", "rejected", "panics"}
  BY InputFacts, LenProperties DEF TypeOK, F!Effect

-----------------------------------------------------------------------------
\* The invariant holds of a batch that has not begun.
THEOREM InitInv == Init => IInv
  <1> SUFFICES ASSUME Init PROVE IInv
    OBVIOUS
  <1>1. n \in Nat /\ Elements = 1 .. n
    BY InputFacts DEF Init
  <1>2. 1 \in started /\ started \subseteq Worker
    BY BatchAssumption DEF Init, Worker
  <1>3. jobs \in Seq(Elements) /\ Len(jobs) = 0 /\ DOMAIN jobs = {}
    BY EmptySeq DEF Init
  <1>4. TypeOK
    <2>1. slots \in [Elements -> F!Slot]
      BY DEF Init, F!Slot
    <2>2. worker \in [Worker -> WorkerPc] /\ job \in [Worker -> Elements \cup {0}]
      BY DEF Init, WorkerPc
    <2>3. effect \in F!Batches /\ caller \in CallerPc /\ next \in 1 .. n + 1
      BY <1>1 DEF Init, CallerPc
    <2> QED
      BY <1>2, <1>3, <2>1, <2>2, <2>3 DEF Init, TypeOK
  <1>5. Fifo /\ Ahead /\ Settled /\ Covered
    BY <1>1, <1>3 DEF Init, Fifo, Ahead, Settled, Covered, Taken
  <1>6. Apart /\ Recorded /\ Phases
    BY <1>2, <1>3 DEF Init, Apart, Recorded, Phases, Busy
  <1>7. Answered /\ Quiescent /\ NoLostPanic
    BY DEF Init, Answered, Quiescent, NoLostPanic, F!Pending
  <1> QED
    BY <1>4, <1>5, <1>6, <1>7 DEF IInv

-----------------------------------------------------------------------------
(* The caller's steps preserve the invariant. *)

\* A cancellation only makes the invariant weaker.
LEMMA CancelStep == ASSUME IInv, Cancel PROVE IInv'
  <1>1. UNCHANGED <<n, Elements, Taken>>
    BY DEF Cancel, n, Elements, Taken
  <1>2. TypeOK'
    BY <1>1 DEF IInv, Cancel, TypeOK
  <1>3. (Fifo /\ Apart /\ Ahead /\ Settled /\ Covered /\ Recorded)'
    BY <1>1 DEF IInv, Cancel, Fifo, Apart, Ahead, Settled, Covered, Recorded, Busy
  <1>4. (Phases /\ Answered /\ Quiescent /\ NoLostPanic)'
    BY <1>1 DEF IInv, Cancel, Phases, Answered, Quiescent, NoLostPanic
  <1> QED
    BY <1>2, <1>3, <1>4 DEF IInv

\* The entry of ConcurrentBatch: its early returns, and the start of the pool.
LEMMA EnterStep == ASSUME IInv, Enter PROVE IInv'
  <1>0. UNCHANGED <<n, Elements, Taken>>
    BY DEF Enter, n, Elements, Taken
  <1>1. /\ n \in Nat /\ Elements = 1 .. n
        /\ started \subseteq Worker /\ 1 \in started
        /\ next = 1 /\ Len(jobs) = 0 /\ jobs = <<>>
        /\ \A w \in Worker : worker[w] = "off"
    BY TypeFacts, EmptySeq DEF IInv, TypeOK, Fifo, Phases, Enter
  <1>2. started' \subseteq started /\ 1 \in started'
    BY <1>1 DEF Enter
  <1>3. worker' \in [Worker -> {"off", "receive"}]
    BY <1>1 DEF IInv, TypeOK, Enter, WorkerPc
  <1>4. TypeOK'
    <2>1. caller' \in CallerPc
      BY DEF Enter, CallerPc
    <2> QED
      BY <1>0, <1>1, <1>2, <1>3, <2>1 DEF IInv, TypeOK, Enter, WorkerPc
  <1>5. (Fifo /\ Apart /\ Ahead /\ Settled /\ Covered /\ Recorded)'
    <2>1. \A w \in Worker : worker'[w] \in {"off", "receive"}
      BY <1>3
    <2>2. Taken = 0
      BY <1>1 DEF Taken
    <2> QED
      BY <1>0, <1>1, <2>1, <2>2
         DEF IInv, Enter, Fifo, Apart, Ahead, Settled, Covered, Recorded, Busy
  <1>6. (Phases /\ Quiescent)'
    <2>1. ~closed
      BY DEF IInv, Phases, Enter
    <2>2. CASE caller' = "returned"
      BY <1>0, <1>1, <1>2, <2>1, <2>2 DEF Enter, Phases, Quiescent
    <2>3. CASE caller' # "returned"
      BY <1>0, <1>1, <1>2, <2>1, <2>3 DEF Enter, Phases, Quiescent, IInv, TypeOK
    <2> QED
      BY <2>2, <2>3
  <1>7. (Answered /\ NoLostPanic)'
    <2>1. ASSUME n = 0 PROVE slots = effect
      BY <1>1, <2>1 DEF IInv, TypeOK, F!Batches, Elements
    <2> QED
      BY <1>0, <2>1
         DEF IInv, Enter, Answered, NoLostPanic, F!Pending, F!Done, F!Cancelled
  <1> QED
    BY <1>4, <1>5, <1>6, <1>7 DEF IInv

\* jobs <- i: the index sent is newer than every one in the channel.
LEMMA SendStep == ASSUME IInv, Send PROVE IInv'
  <1>0. /\ n \in Nat /\ Elements = 1 .. n /\ next \in 1 .. n
        /\ Len(jobs) \in Nat /\ DOMAIN jobs = 1 .. Len(jobs)
    BY TypeFacts DEF IInv, Send
  <1>1. UNCHANGED <<n, Elements>>
    BY DEF Send, n, Elements
  <1>2. /\ jobs' \in Seq(Elements) /\ Len(jobs') = Len(jobs) + 1
        /\ DOMAIN jobs' = 1 .. Len(jobs) + 1
        /\ \A k \in DOMAIN jobs' : jobs'[k] = IF k <= Len(jobs) THEN jobs[k] ELSE next
    BY <1>0, AppendProperties DEF Send, IInv, TypeOK
  <1>3. Taken' = Taken /\ Taken \in Nat
    BY <1>0, <1>2 DEF Taken, Send, IInv, Fifo
  <1>4. TypeOK'
    BY <1>0, <1>1, <1>2 DEF IInv, TypeOK, Send
  <1>5. Fifo'
    <2>1. Len(jobs) < next /\ next' = next + 1 /\ Taken = next - 1 - Len(jobs)
          /\ \A k \in DOMAIN jobs : jobs[k] = Taken + k
      BY DEF IInv, Fifo, Send, Taken
    <2>2. Len(jobs') < next'
      BY <1>0, <1>2, <2>1
    <2>3. ASSUME NEW k \in DOMAIN jobs' PROVE jobs'[k] = Taken' + k
      <3>1. CASE k <= Len(jobs)
        BY <1>0, <1>2, <1>3, <2>1, <3>1
      <3>2. CASE k = Len(jobs) + 1
        BY <1>0, <1>2, <1>3, <2>1, <3>2
      <3> QED
        BY <1>0, <1>2, <3>1, <3>2
    <2> QED
      BY <2>2, <2>3 DEF Fifo
  <1>6. (Apart /\ Ahead /\ Settled /\ Covered /\ Recorded)'
    BY <1>1, <1>3 DEF IInv, Send, Apart, Ahead, Settled, Covered, Recorded, Busy
  <1>7. (Phases /\ Answered /\ Quiescent /\ NoLostPanic)'
    BY <1>0, <1>1 DEF IInv, Send, Phases, Answered, Quiescent, NoLostPanic, TypeOK
  <1> QED
    BY <1>4, <1>5, <1>6, <1>7 DEF IInv

\* close(jobs), after the last index or on a cancellation.
LEMMA CloseStep == ASSUME IInv, Abandon \/ Close PROVE IInv'
  <1>0. /\ n \in Nat /\ next \in 1 .. n + 1
        /\ UNCHANGED <<n, Elements, Taken>>
    BY TypeFacts DEF IInv, Abandon, Close, n, Elements, Taken
  <1>1. TypeOK'
    BY <1>0 DEF IInv, TypeOK, Abandon, Close, CallerPc
  <1>2. (Fifo /\ Apart /\ Ahead /\ Settled /\ Covered /\ Recorded)'
    BY <1>0 DEF IInv, Abandon, Close, Fifo, Apart, Ahead, Settled, Covered, Recorded, Busy
  <1>3. (Phases /\ Answered /\ Quiescent /\ NoLostPanic)'
    BY <1>0 DEF IInv, Abandon, Close, Phases, Answered, Quiescent, NoLostPanic
  <1> QED
    BY <1>1, <1>2, <1>3 DEF IInv

\* When nothing panicked and nothing was cancelled, every index was sent, taken
\* and answered by the time the last worker left.
LEMMA AllAnswered ==
  ASSUME IInv, caller = "wait", ~stopped, ~cancelled,
         \A w \in started : worker[w] = "off"
  PROVE  slots = effect
  <1>1. /\ n \in Nat /\ Elements = 1 .. n
        /\ \A i \in Elements : effect[i] \in {"accepted", "rejected", "panics"}
    BY TypeFacts DEF IInv
  <1>2. jobs = <<>> /\ next = n + 1
    BY DEF IInv, Phases
  <1>3. Taken = n
    BY <1>1, <1>2, EmptySeq DEF Taken
  <1>4. \A w \in Worker : ~Busy(w)
    BY DEF IInv, Phases, Busy
  <1>5. \A i \in Elements : slots[i] = effect[i]
    BY <1>1, <1>3, <1>4 DEF IInv, Covered, Settled
  <1>6. slots \in [Elements -> F!Slot] /\ effect \in [Elements -> F!Effect]
    BY <1>1, InputFacts DEF IInv, TypeOK, F!Batches, Elements
  <1> QED
    BY <1>5, <1>6

\* wg.Wait, rethrow and the return: the answer is what the slots say.
LEMMA FinishStep == ASSUME IInv, Finish PROVE IInv'
  <1>0. UNCHANGED <<n, Elements, Taken>>
    BY DEF Finish, n, Elements, Taken
  <1>1. TypeOK'
    BY <1>0 DEF IInv, TypeOK, Finish, CallerPc
  <1>2. (Fifo /\ Apart /\ Ahead /\ Settled /\ Covered /\ Recorded)'
    BY <1>0 DEF IInv, Finish, Fifo, Apart, Ahead, Settled, Covered, Recorded, Busy
  <1>3. (Phases /\ Quiescent)'
    BY <1>0 DEF IInv, Finish, Phases, Quiescent
  <1>4. (Answered /\ NoLostPanic)'
    <2>1. CASE stopped
      BY <2>1, <1>0 DEF IInv, TypeOK, Recorded, Finish, Answered, NoLostPanic, F!Panicked, F!Pending
    <2>2. CASE ~stopped /\ (caller = "abandon" \/ cancelled)
      BY <2>2, <1>0 DEF Finish, Answered, NoLostPanic, F!Cancelled, F!Pending
    <2>3. CASE ~stopped /\ ~(caller = "abandon" \/ cancelled)
      BY <2>3, <1>0, AllAnswered DEF Finish, Answered, NoLostPanic, F!Done, F!Pending
    <2> QED
      BY <2>1, <2>2, <2>3
  <1> QED
    BY <1>1, <1>2, <1>3, <1>4 DEF IInv

-----------------------------------------------------------------------------
(* The workers' steps preserve the invariant. *)

\* A worker only acts between the caller's Enter and its return.
LEMMA WorkerActive ==
  ASSUME IInv, NEW w \in Worker, worker[w] # "off"
  PROVE  /\ caller \in {"send", "wait", "abandon"}
         /\ w \in started
         /\ answer = F!Pending
  BY DEF IInv, TypeOK, CallerPc, Phases, Quiescent, Answered

\* A step of a worker says nothing that the caller's part of the invariant
\* depends on, unless it leaves.
LEMMA CallerPart ==
  ASSUME IInv, NEW w \in Worker, worker[w] # "off",
         NEW pc, worker' = [worker EXCEPT ![w] = pc],
         pc # "off" \/ stopped \/ (closed /\ jobs = <<>>),
         jobs = <<>> => jobs' = <<>>, stopped => stopped',
         UNCHANGED <<effect, cancelled, answer, started, caller, next, closed>>
  PROVE  (Phases /\ Answered /\ Quiescent /\ NoLostPanic)'
  <1>1. UNCHANGED n
    BY DEF n
  <1>2. \A v \in Worker : v # w => worker'[v] = worker[v]
    BY DEF IInv, TypeOK
  <1>3. worker'[w] = pc
    BY DEF IInv, TypeOK
  <1>4. Phases'
    BY <1>1, <1>2, <1>3, WorkerActive DEF IInv, Phases
  <1>5. (Answered /\ Quiescent /\ NoLostPanic)'
    BY <1>1, WorkerActive DEF IInv, Answered, Quiescent, NoLostPanic, F!Pending
  <1> QED
    BY <1>4, <1>5

\* range jobs: the head of the channel moves to the worker that receives it.
LEMMA ReceiveStep == ASSUME IInv, NEW w \in Worker, Receive(w) PROVE IInv'
  <1>0. /\ n \in Nat /\ Elements = 1 .. n
        /\ Len(jobs) \in Nat /\ Len(jobs) > 0 /\ DOMAIN jobs = 1 .. Len(jobs)
        /\ next \in 1 .. n + 1
    BY TypeFacts, EmptySeq DEF IInv, Receive, TypeOK
  <1>1. UNCHANGED <<n, Elements>>
    BY DEF Receive, n, Elements
  <1>2. /\ jobs' \in Seq(Elements) /\ Len(jobs') = Len(jobs) - 1
        /\ DOMAIN jobs' = 1 .. Len(jobs) - 1
        /\ \A k \in DOMAIN jobs' : jobs'[k] = jobs[k + 1]
        /\ Head(jobs) = jobs[1]
    BY <1>0, HeadTailProperties, LenProperties DEF Receive, IInv, TypeOK
  <1>3. Taken' = Taken + 1 /\ Taken \in Nat /\ Taken' \in 1 .. n
    BY <1>0, <1>2 DEF Taken, Receive, IInv, Fifo
  <1>4. Head(jobs) = Taken' /\ Taken' \in Elements
    BY <1>0, <1>2, <1>3 DEF IInv, Fifo
  <1>5. /\ job'[w] = Taken' /\ \A v \in Worker : v # w => job'[v] = job[v]
        /\ worker'[w] = "check" /\ \A v \in Worker : v # w => worker'[v] = worker[v]
    BY <1>4 DEF Receive, Goto, IInv, TypeOK
  <1>6. TypeOK'
    BY <1>1, <1>2, <1>4 DEF IInv, TypeOK, Receive, Goto, WorkerPc
  <1>7. Fifo'
    <2>1. \A k \in DOMAIN jobs' : k + 1 \in DOMAIN jobs /\ jobs'[k] = Taken + (k + 1)
      BY <1>0, <1>2 DEF IInv, Fifo
    <2>2. next' = next /\ Len(jobs') < next'
      BY <1>0, <1>2 DEF IInv, Fifo, Receive
    <2>3. \A k \in DOMAIN jobs' : jobs'[k] = Taken' + k
      BY <1>0, <1>2, <1>3, <2>1
    <2> QED
      BY <2>2, <2>3 DEF Fifo
  <1>8. Apart'
    <2>1. slots[Taken'] = "unset"
      BY <1>0, <1>3 DEF IInv, Ahead
    <2>2. \A v \in Worker : Busy(v) /\ v # w => job[v] # Taken'
      BY <1>3 DEF IInv, Apart
    <2>3. \A v \in Worker : v # w => (Busy(v)' <=> Busy(v))
      BY <1>5 DEF Busy
    <2> QED
      BY <1>3, <1>5, <2>1, <2>2, <2>3 DEF IInv, Apart, Receive
  <1>9. Ahead'
    BY <1>0, <1>1, <1>3 DEF IInv, Ahead, Receive
  <1>10. Covered'
    <2>1. Busy(w)' /\ \A v \in Worker : Busy(v) => Busy(v)' /\ job'[v] = job[v]
      BY <1>5 DEF Busy, Receive
    <2> QED
      BY <1>3, <1>5, <2>1 DEF IInv, Covered, Receive
  <1>11. (Settled /\ Recorded)'
    BY <1>1, <1>5 DEF IInv, Settled, Recorded, Receive
  <1>12. (Phases /\ Answered /\ Quiescent /\ NoLostPanic)'
    BY CallerPart DEF Receive, Goto
  <1> QED
    BY <1>6, <1>7, <1>8, <1>9, <1>10, <1>11, <1>12 DEF IInv

\* A worker that leaves the pool: only when the channel is drained or stop is set.
LEMMA LeaveStep == ASSUME IInv, NEW w \in Worker, Exit(w) \/ CheckStop(w) PROVE IInv'
  <1>0. UNCHANGED <<n, Elements, Taken>>
    BY DEF Exit, CheckStop, n, Elements, Taken
  <1>1. PICK pc \in {"off", "context"} :
          /\ worker' = [worker EXCEPT ![w] = pc]
          /\ pc = "off" => stopped \/ (closed /\ jobs = <<>>)
          /\ Busy(w) => pc = "context" \/ stopped
          /\ ~Busy(w) => pc = "off"
    BY DEF Exit, CheckStop, Goto, Busy
  <1>2. /\ worker'[w] = pc /\ \A v \in Worker : v # w => worker'[v] = worker[v]
        /\ \A v \in Worker : Busy(v)' => Busy(v)
        /\ ~stopped => \A v \in Worker : Busy(v) => Busy(v)'
    BY <1>1 DEF IInv, TypeOK, Busy
  <1>3. TypeOK'
    BY <1>0, <1>1 DEF IInv, TypeOK, Exit, CheckStop, WorkerPc
  <1>4. (Fifo /\ Apart /\ Ahead /\ Settled)'
    BY <1>0, <1>2 DEF IInv, Exit, CheckStop, Fifo, Apart, Ahead, Settled
  <1>5. Covered'
    BY <1>0, <1>2 DEF IInv, Exit, CheckStop, Covered
  <1>6. Recorded'
    BY <1>1, <1>2 DEF IInv, Exit, CheckStop, Recorded
  <1>7. (Phases /\ Answered /\ Quiescent /\ NoLostPanic)'
    BY <1>1, CallerPart DEF Exit, CheckStop
  <1> QED
    BY <1>3, <1>4, <1>5, <1>6, <1>7 DEF IInv

\* A worker that answers its element: the element's effect, or a cancellation.
LEMMA AnswerStep ==
  ASSUME IInv, NEW w \in Worker, Busy(w), NEW slot \in F!Slot \ {"unset"},
         slots' = [slots EXCEPT ![job[w]] = slot],
         slot = effect[job[w]] \/ (slot = "cancelled" /\ cancelled),
         worker' = [worker EXCEPT ![w] = "receive"],
         UNCHANGED <<effect, cancelled, answer, started, caller, next, jobs, closed, job,
                     first, stopped>>
  PROVE  IInv'
  <1>0. /\ n \in Nat /\ Elements = 1 .. n
        /\ UNCHANGED <<n, Elements, Taken>>
    BY TypeFacts DEF IInv, n, Elements, Taken
  <1>1. /\ Taken \in Int /\ Taken <= n
        /\ job[w] \in Elements /\ job[w] \in 1 .. Taken
    BY <1>0, TypeFacts DEF IInv, Apart, Taken
  <1>2. /\ slots'[job[w]] = slot
        /\ \A i \in Elements : i # job[w] => slots'[i] = slots[i]
    BY <1>1 DEF IInv, TypeOK
  <1>3. /\ worker'[w] = "receive" /\ \A v \in Worker : v # w => worker'[v] = worker[v]
        /\ ~Busy(w)' /\ \A v \in Worker : v # w => (Busy(v)' <=> Busy(v))
    BY DEF IInv, TypeOK, Busy
  <1>4. TypeOK'
    BY <1>0, <1>1 DEF IInv, TypeOK, WorkerPc
  <1>5. Apart'
    <2>1. \A v \in Worker : Busy(v)' => v # w /\ Busy(v) /\ job[v] # job[w]
      BY <1>3 DEF IInv, Apart
    <2>2. \A v \in Worker : Busy(v)' => job[v] \in Elements
      BY <1>0, <1>1, <2>1 DEF IInv, Apart
    <2> QED
      BY <1>0, <1>2, <2>1, <2>2 DEF IInv, Apart
  <1>6. Covered'
    <2>1. \A i \in 1 .. Taken : i \in Elements
      BY <1>0, <1>1
    <2> QED
      BY <1>0, <1>2, <1>3, <2>1 DEF IInv, Covered
  <1>7. (Fifo /\ Ahead /\ Settled)'
    <2>1. Fifo'
      BY <1>0 DEF IInv, Fifo
    <2>2. Ahead'
      BY <1>0, <1>1, <1>2 DEF IInv, Ahead
    <2>3. Settled'
      BY <1>0, <1>1, <1>2, TypeFacts DEF IInv, Settled
    <2> QED
      BY <2>1, <2>2, <2>3
  <1>8. Recorded'
    BY <1>3 DEF IInv, Recorded
  <1>9. (Phases /\ Answered /\ Quiescent /\ NoLostPanic)'
    BY CallerPart DEF Busy
  <1> QED
    BY <1>4, <1>5, <1>6, <1>7, <1>8, <1>9 DEF IInv

\* A busy worker that stays busy at the same element.
LEMMA MoveStep ==
  ASSUME IInv, NEW w \in Worker, Busy(w), NEW pc \in {"parse", "once"},
         worker' = [worker EXCEPT ![w] = pc],
         pc = "once" => effect[job[w]] = "panics",
         UNCHANGED <<effect, cancelled, answer, started, caller, next, jobs, closed, slots,
                     job, first, stopped>>
  PROVE  IInv'
  <1>0. UNCHANGED <<n, Elements, Taken>>
    BY DEF n, Elements, Taken
  <1>1. /\ worker'[w] = pc /\ \A v \in Worker : v # w => worker'[v] = worker[v]
        /\ \A v \in Worker : Busy(v)' <=> Busy(v)
    BY DEF IInv, TypeOK, Busy
  <1>2. TypeOK'
    BY <1>0 DEF IInv, TypeOK, WorkerPc
  <1>3. (Fifo /\ Apart /\ Ahead /\ Settled /\ Covered)'
    BY <1>0, <1>1 DEF IInv, Fifo, Apart, Ahead, Settled, Covered
  <1>4. Recorded'
    BY <1>1 DEF IInv, Recorded
  <1>5. (Phases /\ Answered /\ Quiescent /\ NoLostPanic)'
    BY CallerPart DEF Busy
  <1> QED
    BY <1>2, <1>3, <1>4, <1>5 DEF IInv

\* ctx.Err() and ParseCtx: the worker answers its element, or begins a capture.
LEMMA ParseStep == ASSUME IInv, NEW w \in Worker, CheckContext(w) \/ Parse(w) PROVE IInv'
  <1>1. Busy(w)
    BY DEF CheckContext, Parse, Busy
  <1>2. CASE CheckContext(w) /\ cancelled
    BY <1>1, <1>2, AnswerStep DEF CheckContext, Goto, F!Slot
  <1>3. CASE CheckContext(w) /\ ~cancelled
    BY <1>1, <1>3, MoveStep DEF CheckContext, Goto
  <1>4. CASE Parse(w) /\ effect[job[w]] = "panics"
    BY <1>1, <1>4, MoveStep DEF Parse, Goto
  <1>5. CASE Parse(w) /\ effect[job[w]] # "panics"
    <2>1. effect[job[w]] \in {"accepted", "rejected"}
      BY <1>1, <1>5, TypeFacts DEF IInv, Apart, Taken
    <2> QED
      BY <1>1, <1>5, <2>1, AnswerStep DEF Parse, Goto, F!Slot
  <1> QED
    BY <1>2, <1>3, <1>4, <1>5

\* panicRecord.capture's Once records an element that panicked.
LEMMA CaptureOnceStep == ASSUME IInv, NEW w \in Worker, CaptureOnce(w) PROVE IInv'
  <1>0. UNCHANGED <<n, Elements, Taken>>
    BY DEF CaptureOnce, n, Elements, Taken
  <1>1. /\ worker' = [worker EXCEPT ![w] = "flag"]
        /\ worker'[w] = "flag" /\ \A v \in Worker : v # w => worker'[v] = worker[v]
        /\ \A v \in Worker : Busy(v)' <=> Busy(v)
    BY DEF IInv, TypeOK, Busy, CaptureOnce, Goto
  <1>2. job[w] \in Elements /\ job[w] # 0 /\ effect[job[w]] = "panics"
    BY TypeFacts DEF IInv, Apart, Busy, CaptureOnce, Taken, Recorded
  <1>3. TypeOK'
    BY <1>0, <1>1, <1>2 DEF IInv, TypeOK, WorkerPc, CaptureOnce
  <1>4. (Fifo /\ Apart /\ Ahead /\ Settled /\ Covered)'
    BY <1>0, <1>1 DEF IInv, Fifo, Apart, Ahead, Settled, Covered, CaptureOnce
  <1>5. Recorded'
    BY <1>1, <1>2 DEF IInv, Recorded, CaptureOnce
  <1>6. (Phases /\ Answered /\ Quiescent /\ NoLostPanic)'
    BY CallerPart DEF CaptureOnce, Goto
  <1> QED
    BY <1>3, <1>4, <1>5, <1>6 DEF IInv

\* ... and only then raises the flag that stop and rethrow read.
LEMMA CaptureFlagStep == ASSUME IInv, NEW w \in Worker, CaptureFlag(w) PROVE IInv'
  <1>0. UNCHANGED <<n, Elements, Taken>>
    BY DEF CaptureFlag, n, Elements, Taken
  <1>1. /\ worker'[w] = "receive" /\ \A v \in Worker : v # w => worker'[v] = worker[v]
        /\ \A v \in Worker : Busy(v)' => Busy(v)
    BY DEF IInv, TypeOK, Busy, CaptureFlag, Goto
  <1>2. TypeOK'
    BY <1>0 DEF IInv, TypeOK, WorkerPc, CaptureFlag, Goto
  <1>3. (Fifo /\ Apart /\ Ahead /\ Settled /\ Covered)'
    BY <1>0, <1>1 DEF IInv, Fifo, Apart, Ahead, Settled, Covered, CaptureFlag
  <1>4. Recorded'
    BY <1>1 DEF IInv, Recorded, CaptureFlag
  <1>5. (Phases /\ Answered /\ Quiescent /\ NoLostPanic)'
    BY CallerPart DEF CaptureFlag, Goto
  <1> QED
    BY <1>2, <1>3, <1>4, <1>5 DEF IInv

-----------------------------------------------------------------------------
(* The theorems. *)

\* Every step of a batch preserves the invariant.
LEMMA StepInv == IInv /\ [Next]_vars => IInv'
  <1> SUFFICES ASSUME IInv, [Next]_vars PROVE IInv'
    OBVIOUS
  <1>1. CASE Cancel
    BY <1>1, CancelStep
  <1>2. CASE CallerStep
    BY <1>2, EnterStep, SendStep, CloseStep, FinishStep DEF CallerStep
  <1>3. ASSUME NEW w \in Worker, WorkerStep(w) PROVE IInv'
    BY <1>3, ReceiveStep, LeaveStep, ParseStep, CaptureOnceStep, CaptureFlagStep
       DEF WorkerStep
  <1>4. CASE UNCHANGED vars
    <2>1. UNCHANGED <<n, Elements, Taken>>
      BY <1>4 DEF vars, n, Elements, Taken
    <2>2. (TypeOK /\ Fifo /\ Apart /\ Ahead /\ Settled /\ Covered)'
      BY <1>4, <2>1 DEF IInv, vars, TypeOK, Fifo, Apart, Ahead, Settled, Covered, Busy
    <2>3. (Recorded /\ Phases /\ Answered /\ Quiescent /\ NoLostPanic)'
      BY <1>4, <2>1 DEF IInv, vars, Recorded, Phases, Answered, Quiescent, NoLostPanic
    <2> QED
      BY <2>2, <2>3 DEF IInv
  <1>5. CASE Returned
    BY <1>4, <1>5 DEF Returned
  <1> QED
    BY <1>1, <1>2, <1>3, <1>4, <1>5 DEF Next

\* The invariant of ConcurrentBatch holds in every state, for inputs of any length
\* and pools of any size.
THEOREM Invariance == Spec => []IInv
  BY InitInv, StepInv, PTL DEF Spec

\* The locals of a batch keep their types, for inputs of any length and pools of
\* any size (ConcurrentBatch, ConcurrentParseAny).
THEOREM TypeCorrect == Spec => []TypeOK
  BY Invariance, PTL DEF IInv

\* wg.Wait covers every worker.
THEOREM QuiescentHolds == Spec => []Quiescent
  BY Invariance, PTL DEF IInv

\* Every index is sent, received and answered at most once, so outs[i] and
\* errs[i] have one writer.
THEOREM OneOwnerHolds == Spec => []OneOwner
  <1>1. IInv => OneOwner
    <2> SUFFICES ASSUME IInv PROVE OneOwner
      OBVIOUS
    <2>1. /\ n \in Nat /\ Elements = 1 .. n /\ next \in 1 .. n + 1
          /\ Len(jobs) \in Nat /\ DOMAIN jobs = 1 .. Len(jobs)
          /\ Taken \in Nat /\ Taken + Len(jobs) = next - 1
          /\ \A k \in DOMAIN jobs : jobs[k] = Taken + k
      BY TypeFacts DEF IInv, Fifo, Taken
    <2>2. \A i, k \in DOMAIN jobs : i # k => jobs[i] # jobs[k]
      BY <2>1
    <2>3. \A w \in Worker : Busy(w) =>
            /\ job[w] \in 1 .. Taken
            /\ slots[job[w]] = "unset"
      BY DEF IInv, Apart
    <2>4. \A v, w \in Worker : Busy(v) /\ Busy(w) /\ v # w => job[v] # job[w]
      BY DEF IInv, Apart
    <2>5. \A w \in Worker : Busy(w) => job[w] < next /\ \A k \in DOMAIN jobs : jobs[k] # job[w]
      BY <2>1, <2>3
    <2>6. \A k \in DOMAIN jobs : jobs[k] < next
      BY <2>1
    <2>7. \A k \in DOMAIN jobs : jobs[k] \in Elements /\ jobs[k] > Taken
      BY <2>1
    <2>8. \A k \in DOMAIN jobs : slots[jobs[k]] = "unset"
      BY <2>7 DEF IInv, Ahead
    <2> QED
      BY <2>2, <2>3, <2>4, <2>5, <2>6, <2>8 DEF OneOwner
  <1> QED
    BY <1>1, Invariance, PTL

\* A panic is never lost: a batch that returns without one has validated every
\* element, and none of them panics.
THEOREM NoLostPanicHolds == Spec => []NoLostPanic
  BY Invariance, PTL DEF IInv

\* A batch does what Fanout promises, whatever the interleaving of its workers.
THEOREM Refinement == Spec => Implements
  <1>1. Init => F!Init
    BY DEF Init, F!Init
  <1>2. IInv /\ [Next]_vars => [F!Next]_(F!fanoutVars)
    <2> SUFFICES ASSUME IInv, [Next]_vars PROVE [F!Next]_(F!fanoutVars)
      OBVIOUS
    <2>1. CASE Cancel
      BY <2>1 DEF Cancel, F!Cancel, F!Next
    <2>2. CASE Enter
      <3>1. answer = F!Pending
        BY <2>2 DEF IInv, Answered, Enter
      <3>2. CASE n = 0
        <4>1. Elements = {} /\ slots = effect
          BY <3>2, TypeFacts DEF IInv, TypeOK, F!Batches, Elements
        <4>2. "panics" \notin {effect[i] : i \in DOMAIN effect}
          BY <4>1 DEF Elements
        <4> QED
          BY <2>2, <3>1, <3>2, <4>1, <4>2 DEF Enter, F!Next, F!ReturnDone
      <3>3. CASE n > 0 /\ cancelled
        <4>1. \A i \in DOMAIN <<>> : <<>>[i] \in {effect[i], "cancelled", "unset"}
          OBVIOUS
        <4>2. F!ReturnCancelled
          BY <2>2, <3>1, <3>3, <4>1, TypeFacts DEF Enter, F!ReturnCancelled, IInv
        <4> QED
          BY <4>2 DEF F!Next
      <3>4. CASE n > 0 /\ ~cancelled
        BY <2>2, <3>4, TypeFacts DEF Enter, F!fanoutVars, IInv
      <3> QED
        BY <3>2, <3>3, <3>4, TypeFacts DEF IInv
    <2>3. CASE Finish
      <3>1. answer = F!Pending
        BY <2>3 DEF IInv, Answered, Finish
      <3>2. CASE stopped
        <4>1. first \in DOMAIN effect /\ effect[first] = "panics"
          BY <3>2 DEF IInv, TypeOK, Recorded, Elements
        <4> QED
          BY <2>3, <3>1, <3>2, <4>1 DEF Finish, F!Next, F!Raise
      <3>3. CASE ~stopped /\ (caller = "abandon" \/ cancelled)
        <4>1. cancelled
          BY <3>3 DEF IInv, Phases
        <4>2. slots \in [DOMAIN effect -> F!Slot] /\ DOMAIN slots = DOMAIN effect
          BY DEF IInv, TypeOK, Elements
        <4>3. \A i \in DOMAIN slots : slots[i] \in {effect[i], "cancelled", "unset"}
          BY <4>2 DEF IInv, Settled, Elements
        <4> QED
          BY <2>3, <3>1, <3>3, <4>1, <4>2, <4>3 DEF Finish, F!Next, F!ReturnCancelled
      <3>4. CASE ~stopped /\ ~(caller = "abandon" \/ cancelled)
        <4>1. slots = effect
          BY <2>3, <3>4, AllAnswered DEF Finish
        <4>2. "panics" \notin {effect[i] : i \in DOMAIN effect}
          BY <4>1 DEF IInv, TypeOK, Elements, F!Slot
        <4> QED
          BY <2>3, <3>1, <3>4, <4>1, <4>2 DEF Finish, F!Next, F!ReturnDone
      <3> QED
        BY <3>2, <3>3, <3>4
    <2>4. CASE Send \/ Abandon \/ Close \/ Returned \/ UNCHANGED vars
      BY <2>4 DEF Send, Abandon, Close, Returned, vars, F!fanoutVars
    <2>5. ASSUME NEW w \in Worker, WorkerStep(w) PROVE UNCHANGED F!fanoutVars
      BY <2>5 DEF WorkerStep, Receive, Exit, CheckStop, CheckContext, Parse, CaptureOnce,
                  CaptureFlag, F!fanoutVars
    <2> QED
      BY <2>1, <2>2, <2>3, <2>4, <2>5 DEF Next, CallerStep
  <1> QED
    BY <1>1, <1>2, Invariance, PTL DEF Spec, F!Spec, Implements
=============================================================================
