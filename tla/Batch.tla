------------------------------- MODULE Batch -------------------------------
(***************************************************************************)
(* ConcurrentBatch and ConcurrentParseAny of concurrent.go, with the       *)
(* panicRecord of panics.go: the caller feeds the indices of the input to  *)
(* a buffered channel, and a pool of workers validates them.               *)
(***************************************************************************)
EXTENDS Naturals, Sequences

CONSTANTS
  MaxInputs,    \* bound on the length of the input
  MaxWorkers    \* the largest pool; workers <= 0 means GOMAXPROCS of them

ASSUME BatchAssumption ==
  MaxInputs \in Nat /\ MaxWorkers \in Nat /\ MaxWorkers > 0

Worker == 1 .. MaxWorkers

VARIABLES
  effect,       \* see Fanout
  cancelled,    \* ctx.Err() is not nil
  answer,       \* what the call returned or raised
  started,      \* the workers of the pool
  caller,       \* where the calling goroutine is
  next,         \* the caller's loop index
  jobs, closed, \* the channel
  slots,        \* outs[i] and errs[i]
  worker,       \* per worker, where it is
  job,          \* per worker, the index it received, 0 before
  first,        \* panicRecord.index, 0 while the Once is unused
  stopped       \* panicRecord.stopped

vars == <<effect, cancelled, answer, started, caller, next, jobs, closed, slots,
          worker, job, first, stopped>>

F == INSTANCE Fanout

n == Len(effect)
Elements == DOMAIN effect

Init ==
  /\ effect \in F!Batches
  /\ cancelled \in BOOLEAN
  /\ answer = F!Pending
  /\ started \in {1 .. m : m \in Worker}
  /\ caller = "enter"
  /\ next = 1
  /\ jobs = <<>> /\ closed = FALSE
  /\ slots = [i \in Elements |-> "unset"]
  /\ worker = [w \in Worker |-> "off"]
  /\ job = [w \in Worker |-> 0]
  /\ first = 0 /\ stopped = FALSE

\* The context is cancelled, or its deadline passes.
Cancel ==
  /\ ~cancelled
  /\ cancelled' = TRUE
  /\ UNCHANGED <<effect, answer, started, caller, next, jobs, closed, slots, worker, job,
                 first, stopped>>

-----------------------------------------------------------------------------
(* The caller. *)

\* An empty input and a context already cancelled return before any worker.
Enter ==
  /\ caller = "enter"
  /\ \/ /\ n = 0
        /\ answer' = F!Done(slots)
        /\ caller' = "returned"
        /\ UNCHANGED <<started, worker>>
     \/ /\ n > 0 /\ cancelled
        /\ answer' = F!Cancelled(<<>>)
        /\ caller' = "returned"
        /\ UNCHANGED <<started, worker>>
     \/ /\ n > 0 /\ ~cancelled
        /\ started' = {w \in started : w <= n}
        /\ worker' = [w \in Worker |-> IF w \in started' THEN "receive" ELSE "off"]
        /\ caller' = "send"
        /\ UNCHANGED answer
  /\ UNCHANGED <<effect, cancelled, next, jobs, closed, slots, job, first, stopped>>

\* Mutant: the loop goes one index too far.
SendPastEnd ==
  /\ caller = "send"
  /\ next <= n + 1
  /\ Len(jobs) < n
  /\ jobs' = Append(jobs, next)
  /\ next' = next + 1
  /\ UNCHANGED <<effect, cancelled, answer, started, caller, closed, slots, worker, job,
                 first, stopped>>

\* Mutant: the channel has room for one element.
SendNarrow ==
  /\ caller = "send"
  /\ next <= n
  /\ jobs = <<>>
  /\ jobs' = <<next>>
  /\ next' = next + 1
  /\ UNCHANGED <<effect, cancelled, answer, started, caller, closed, slots, worker, job,
                 first, stopped>>

\* select { case <-ctx.Done(): ...; case jobs <- i: }, the channel has room for n.
Send ==
  /\ caller = "send"
  /\ next <= n
  /\ Len(jobs) < n
  /\ jobs' = Append(jobs, next)
  /\ next' = next + 1
  /\ UNCHANGED <<effect, cancelled, answer, started, caller, closed, slots, worker, job,
                 first, stopped>>

\* The remaining elements are never sent.
Abandon ==
  /\ caller = "send"
  /\ next <= n
  /\ cancelled
  /\ closed' = TRUE
  /\ caller' = "abandon"
  /\ UNCHANGED <<effect, cancelled, answer, started, next, jobs, slots, worker, job,
                 first, stopped>>

Close ==
  /\ caller = "send"
  /\ next > n
  /\ closed' = TRUE
  /\ caller' = "wait"
  /\ UNCHANGED <<effect, cancelled, answer, started, next, jobs, slots, worker, job,
                 first, stopped>>

\* Mutant: no wg.Wait.
FinishEarly ==
  /\ caller \in {"wait", "abandon"}
  /\ answer' = IF stopped THEN F!Panicked(first)
               ELSE IF caller = "abandon" \/ cancelled THEN F!Cancelled(slots)
               ELSE F!Done(slots)
  /\ caller' = "returned"
  /\ UNCHANGED <<effect, cancelled, started, next, jobs, closed, slots, worker, job,
                 first, stopped>>

\* Mutant: ctx.Err() is not read again after the last element was sent.
FinishUnchecked ==
  /\ caller \in {"wait", "abandon"}
  /\ \A w \in started : worker[w] = "off"
  /\ answer' = IF stopped THEN F!Panicked(first)
               ELSE IF caller = "abandon" THEN F!Cancelled(slots)
               ELSE F!Done(slots)
  /\ caller' = "returned"
  /\ UNCHANGED <<effect, cancelled, started, next, jobs, closed, slots, worker, job,
                 first, stopped>>

\* wg.Wait, panics.rethrow, and the return.
Finish ==
  /\ caller \in {"wait", "abandon"}
  /\ \A w \in started : worker[w] = "off"
  /\ answer' = IF stopped THEN F!Panicked(first)
               ELSE IF caller = "abandon" \/ cancelled THEN F!Cancelled(slots)
               ELSE F!Done(slots)
  /\ caller' = "returned"
  /\ UNCHANGED <<effect, cancelled, started, next, jobs, closed, slots, worker, job,
                 first, stopped>>

-----------------------------------------------------------------------------
(* A worker. *)

Goto(w, pc) == worker' = [worker EXCEPT ![w] = pc]

\* Mutant: the index stays in the channel.
ReceiveCopy(w) ==
  /\ worker[w] = "receive"
  /\ jobs # <<>>
  /\ job' = [job EXCEPT ![w] = Head(jobs)]
  /\ Goto(w, "check")
  /\ UNCHANGED <<effect, cancelled, answer, started, caller, next, jobs, closed, slots, first,
                 stopped>>

Receive(w) ==
  /\ worker[w] = "receive"
  /\ jobs # <<>>
  /\ job' = [job EXCEPT ![w] = Head(jobs)]
  /\ jobs' = Tail(jobs)
  /\ Goto(w, "check")
  /\ UNCHANGED <<effect, cancelled, answer, started, caller, next, closed, slots, first, stopped>>

\* The channel is closed and empty.
Exit(w) ==
  /\ worker[w] = "receive"
  /\ jobs = <<>> /\ closed
  /\ Goto(w, "off")
  /\ UNCHANGED <<effect, cancelled, answer, started, caller, next, jobs, closed, slots, job,
                 first, stopped>>

\* if panics.stop() { return }: the element it received is left alone.
CheckStop(w) ==
  /\ worker[w] = "check"
  /\ Goto(w, IF stopped THEN "off" ELSE "context")
  /\ UNCHANGED <<effect, cancelled, answer, started, caller, next, jobs, closed, slots, job,
                 first, stopped>>

CheckContext(w) ==
  /\ worker[w] = "context"
  /\ IF cancelled
     THEN /\ slots' = [slots EXCEPT ![job[w]] = "cancelled"]
          /\ Goto(w, "receive")
     ELSE /\ Goto(w, "parse")
          /\ UNCHANGED slots
  /\ UNCHANGED <<effect, cancelled, answer, started, caller, next, jobs, closed, job,
                 first, stopped>>

\* A panic unwinds before outs[i] and errs[i] are assigned.
Parse(w) ==
  /\ worker[w] = "parse"
  /\ IF effect[job[w]] = "panics"
     THEN /\ Goto(w, "once")
          /\ UNCHANGED slots
     ELSE /\ slots' = [slots EXCEPT ![job[w]] = effect[job[w]]]
          /\ Goto(w, "receive")
  /\ UNCHANGED <<effect, cancelled, answer, started, caller, next, jobs, closed, job,
                 first, stopped>>

\* panicRecord.capture: the Once, then the flag.
CaptureOnce(w) ==
  /\ worker[w] = "once"
  /\ first' = IF first = 0 THEN job[w] ELSE first
  /\ Goto(w, "flag")
  /\ UNCHANGED <<effect, cancelled, answer, started, caller, next, jobs, closed, slots, job,
                 stopped>>

CaptureFlag(w) ==
  /\ worker[w] = "flag"
  /\ stopped' = TRUE
  /\ Goto(w, "receive")
  /\ UNCHANGED <<effect, cancelled, answer, started, caller, next, jobs, closed, slots, job,
                 first>>

Returned == caller = "returned" /\ UNCHANGED vars

CallerStep == Enter \/ Send \/ Abandon \/ Close \/ Finish
WorkerStep(w) ==
  \/ Receive(w) \/ Exit(w) \/ CheckStop(w) \/ CheckContext(w) \/ Parse(w)
  \/ CaptureOnce(w) \/ CaptureFlag(w)

Next == Cancel \/ CallerStep \/ (\E w \in Worker : WorkerStep(w)) \/ Returned

\* Goroutines that can run are run; nobody has to cancel.
Fairness == WF_vars(CallerStep) /\ \A w \in Worker : WF_vars(WorkerStep(w))
Spec == Init /\ [][Next]_vars
FairSpec == Spec /\ Fairness

-----------------------------------------------------------------------------
(* Properties. *)

WorkerPc == {"off", "receive", "check", "context", "parse", "once", "flag"}
CallerPc == {"enter", "send", "wait", "abandon", "returned"}

\* Types of the locals of the call and of its workers.
TypeOK ==
  /\ effect \in F!Batches
  /\ cancelled \in BOOLEAN
  /\ started \subseteq Worker
  /\ caller \in CallerPc
  /\ next \in 1 .. n + 1
  /\ jobs \in Seq(Elements) /\ closed \in BOOLEAN
  /\ slots \in [Elements -> F!Slot]
  /\ worker \in [Worker -> WorkerPc]
  /\ job \in [Worker -> Elements \cup {0}]
  /\ first \in Elements \cup {0} /\ stopped \in BOOLEAN

Busy(w) == worker[w] \in {"check", "context", "parse", "once", "flag"}

\* wg.Wait covers every worker: once the call has returned, no worker runs, so
\* the slices the caller now owns are written by nobody.
Quiescent == caller = "returned" => \A w \in Worker : worker[w] = "off"

\* jobs <- i for every i and range jobs: an index is in one place, not yet sent,
\* in the channel, at one worker, or behind one.  No slot is written twice.
OneOwner ==
  /\ \A i, k \in DOMAIN jobs : i # k => jobs[i] # jobs[k]
  /\ \A v, w \in Worker : Busy(v) /\ Busy(w) /\ v # w => job[v] # job[w]
  /\ \A w \in Worker : Busy(w) =>
       /\ job[w] < next
       /\ slots[job[w]] = "unset"
       /\ \A k \in DOMAIN jobs : jobs[k] # job[w]
  /\ \A k \in DOMAIN jobs : jobs[k] < next /\ slots[jobs[k]] = "unset"

\* A panic is never lost between capture's Once, its flag, stop and rethrow: a
\* call that returns without one has validated no element that panics, and
\* every element of its input unless the context was cancelled.
NoLostPanic ==
  /\ answer.kind = "panic" => answer.index \in Elements /\ effect[answer.index] = "panics"
  /\ answer.kind = "done" => answer.slots = effect

\* The batch does what Fanout promises.
Implements == F!Spec

\* The call returns, also when every worker has stopped after a panic with
\* elements still to send: the channel has room for all of them.
Returns == <>(caller = "returned")
=============================================================================
