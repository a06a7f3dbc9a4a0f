------------------------------- MODULE Slices -------------------------------
(***************************************************************************)
(* ParseParallelSlice of parallel.go, with the panicRecord of panics.go.   *)
(* A short slice is validated by the caller; a longer one is cut into      *)
(* chunks that a pool of workers takes from a channel filled and closed    *)
(* before the pool starts.                                                 *)
(***************************************************************************)
EXTENDS Integers, Sequences, FiniteSetsExt

CONSTANTS
  MaxInputs,    \* bound on the length of the slice
  MaxWorkers,   \* bound on ParallelOpts.Workers
  MinChunks     \* the values of ParallelOpts.MinChunk

ASSUME SlicesAssumption ==
  MaxInputs \in Nat /\ MaxWorkers \in Nat /\ MaxWorkers > 0 /\ MinChunks \subseteq Nat

Worker == 1 .. MaxWorkers

VARIABLES
  effect,       \* see Fanout
  cancelled,    \* ctx.Err() is not nil
  answer,       \* what the call returned or raised
  opts,         \* ParallelOpts, normalized
  caller,       \* where the calling goroutine is
  jobs,         \* the chunks left in the channel
  slots,        \* per element, its value and its issues
  failed,       \* the chunks whose result carries an error
  worker,       \* per goroutine, where it is; the caller is goroutine 0
  chunk, at,    \* per goroutine, its chunk and the element it is at
  first,        \* panicRecord.index, 0 while the Once is unused
  stopped       \* panicRecord.stopped

vars == <<effect, cancelled, answer, opts, caller, jobs, slots, failed, worker, chunk, at,
          first, stopped>>

F == INSTANCE Fanout

n == Len(effect)
Elements == DOMAIN effect

\* The chunks: chunkSize is n over the number of workers, rounded up.
PoolSize == Min({opts.workers, n})
ChunkSize == (n + PoolSize - 1) \div PoolSize
Start(c) == (c - 1) * ChunkSize + 1
\* Mutant: the end of a chunk is taken as inclusive.
EndInclusive(c) == Min({c * ChunkSize + 1, n})
End(c) == Min({c * ChunkSize, n})
Chunks == {c \in 1 .. n : Start(c) <= n}
\* Mutant: one chunk too many.
QueueOneMore == [c \in 1 .. Max(Chunks) + 1 |-> c]
Queue == [c \in 1 .. Max(Chunks) |-> c]
Parallel == n >= opts.minChunk /\ opts.workers > 1

\* A goroutine that validates elements Start(c) to End(c); chunk 0 is the slice.
FirstOf(c) == IF c = 0 THEN 1 ELSE Start(c)
LastOf(c) == IF c = 0 THEN n ELSE End(c)

Init ==
  /\ effect \in F!Batches
  /\ cancelled \in BOOLEAN
  /\ answer = F!Pending
  /\ opts \in [workers : Worker, minChunk : MinChunks]
  /\ caller = "enter"
  /\ jobs = <<>>
  /\ slots = [i \in Elements |-> "unset"]
  /\ failed = {}
  /\ worker = [w \in Worker \cup {0} |-> "off"]
  /\ chunk = [w \in Worker \cup {0} |-> 0]
  /\ at = [w \in Worker \cup {0} |-> 0]
  /\ first = 0 /\ stopped = FALSE

Cancel ==
  /\ ~cancelled
  /\ cancelled' = TRUE
  /\ UNCHANGED <<effect, answer, opts, caller, jobs, slots, failed, worker, chunk, at, first, stopped>>

-----------------------------------------------------------------------------
(* The caller. *)

Return(a) == answer' = a /\ caller' = "returned"

Enter ==
  /\ caller = "enter"
  /\ \/ /\ cancelled
        /\ Return(F!Cancelled(<<>>))
        /\ UNCHANGED <<jobs, worker, at>>
     \/ /\ ~cancelled /\ n = 0
        /\ Return(F!Done(slots))
        /\ UNCHANGED <<jobs, worker, at>>
     \/ /\ ~cancelled /\ n > 0 /\ ~Parallel
        /\ caller' = "sequential"
        /\ worker' = [worker EXCEPT ![0] = "element"]
        /\ at' = [at EXCEPT ![0] = 1]
        /\ UNCHANGED <<answer, jobs>>
     \/ /\ ~cancelled /\ n > 0 /\ Parallel
        /\ caller' = "wait"
        /\ jobs' = Queue
        /\ worker' = [w \in Worker \cup {0} |-> IF w \in 1 .. PoolSize THEN "receive" ELSE "off"]
        /\ UNCHANGED <<answer, at>>
  /\ UNCHANGED <<effect, cancelled, opts, slots, failed, chunk, first, stopped>>

\* parseSliceSequential: a panic and a cancellation end the call at once.
EndSequential ==
  /\ caller = "sequential"
  /\ \/ /\ worker[0] = "once"
        /\ Return(F!Panicked(at[0]))
     \/ /\ worker[0] = "off"
        /\ Return(IF failed # {} THEN F!Cancelled(<<>>) ELSE F!Done(slots))
  /\ UNCHANGED <<effect, cancelled, opts, jobs, slots, failed, worker, chunk, at, first, stopped>>

\* wg.Wait, panics.rethrow, then the first chunk with an error.
Finish ==
  /\ caller = "wait"
  /\ \A w \in Worker : worker[w] = "off"
  /\ Return(IF stopped THEN F!Panicked(first)
            ELSE IF failed # {} THEN F!Cancelled(<<>>)
            ELSE F!Done([i \in Elements |->
                           IF \E c \in Chunks : i \in Start(c) .. End(c) THEN slots[i] ELSE "unset"]))
  /\ UNCHANGED <<effect, cancelled, opts, jobs, slots, failed, worker, chunk, at, first, stopped>>

-----------------------------------------------------------------------------
(* A goroutine that validates: a worker on its chunk, or the caller. *)

Goto(w, pc) == worker' = [worker EXCEPT ![w] = pc]
Unchanged == UNCHANGED <<effect, cancelled, answer, opts, caller>>

\* A worker that finds the flag set leaves its chunk alone.
Receive(w) ==
  /\ worker[w] = "receive"
  /\ jobs # <<>>
  /\ jobs' = Tail(jobs)
  /\ IF stopped
     THEN /\ Goto(w, "off")
          /\ UNCHANGED <<chunk, at>>
     ELSE /\ chunk' = [chunk EXCEPT ![w] = Head(jobs)]
          /\ at' = [at EXCEPT ![w] = Start(Head(jobs))]
          /\ Goto(w, "element")
  /\ UNCHANGED <<slots, failed, first, stopped>> /\ Unchanged

Exit(w) ==
  /\ worker[w] = "receive"
  /\ jobs = <<>>
  /\ Goto(w, "off")
  /\ UNCHANGED <<jobs, slots, failed, chunk, at, first, stopped>> /\ Unchanged

\* Mutant: the loop over the elements is not left.
Remain(w) == Goto(w, "element")

\* The end of runParallelChunk and of parseSliceSequential.
Leave(w) == Goto(w, IF w = 0 THEN "off" ELSE "receive")

EndChunk(w) ==
  /\ worker[w] = "element"
  /\ at[w] > LastOf(chunk[w])
  /\ Leave(w)
  /\ UNCHANGED <<jobs, slots, failed, chunk, at, first, stopped>> /\ Unchanged

\* Mutant: the chunk is left without an error.
CheckContextSilently(w) ==
  /\ worker[w] = "element"
  /\ at[w] <= LastOf(chunk[w])
  /\ IF cancelled THEN Leave(w) ELSE Goto(w, IF w = 0 THEN "parse" ELSE "check")
  /\ UNCHANGED <<jobs, slots, failed, chunk, at, first, stopped>> /\ Unchanged

CheckContext(w) ==
  /\ worker[w] = "element"
  /\ at[w] <= LastOf(chunk[w])
  /\ IF cancelled
     THEN /\ failed' = failed \cup {chunk[w]}
          /\ Leave(w)
     ELSE /\ Goto(w, IF w = 0 THEN "parse" ELSE "check")
          /\ UNCHANGED failed
  /\ UNCHANGED <<jobs, slots, chunk, at, first, stopped>> /\ Unchanged

\* if panics.stop(): the rest of the chunk is left, without an error.
CheckStop(w) ==
  /\ worker[w] = "check"
  /\ IF stopped THEN Leave(w) ELSE Goto(w, "parse")
  /\ UNCHANGED <<jobs, slots, failed, chunk, at, first, stopped>> /\ Unchanged

Parse(w) ==
  /\ worker[w] = "parse"
  /\ IF effect[at[w]] = "panics"
     THEN /\ Goto(w, "once")
          /\ UNCHANGED <<slots, at>>
     ELSE /\ slots' = [slots EXCEPT ![at[w]] = effect[at[w]]]
          /\ at' = [at EXCEPT ![w] = @ + 1]
          /\ Goto(w, "element")
  /\ UNCHANGED <<jobs, failed, chunk, first, stopped>> /\ Unchanged

\* panicRecord.capture: the Once, then the flag; the loop goes on.
CaptureOnce(w) ==
  /\ w # 0
  /\ worker[w] = "once"
  /\ first' = IF first = 0 THEN at[w] ELSE first
  /\ Goto(w, "flag")
  /\ UNCHANGED <<jobs, slots, failed, chunk, at, stopped>> /\ Unchanged

CaptureFlag(w) ==
  /\ worker[w] = "flag"
  /\ stopped' = TRUE
  /\ at' = [at EXCEPT ![w] = @ + 1]
  /\ Goto(w, "element")
  /\ UNCHANGED <<jobs, slots, failed, chunk, first>> /\ Unchanged

Returned == caller = "returned" /\ UNCHANGED vars

CallerStep == Enter \/ EndSequential \/ Finish
WorkerStep(w) ==
  \/ Receive(w) \/ Exit(w) \/ EndChunk(w) \/ CheckContext(w) \/ CheckStop(w) \/ Parse(w)
  \/ CaptureOnce(w) \/ CaptureFlag(w)

Next == Cancel \/ CallerStep \/ (\E w \in Worker \cup {0} : WorkerStep(w)) \/ Returned

Fairness == WF_vars(CallerStep) /\ \A w \in Worker \cup {0} : WF_vars(WorkerStep(w))
Spec == Init /\ [][Next]_vars
FairSpec == Spec /\ Fairness

-----------------------------------------------------------------------------
(* Properties. *)

\* The locals of the call and of its goroutines.
TypeOK ==
  /\ effect \in F!Batches
  /\ cancelled \in BOOLEAN /\ stopped \in BOOLEAN
  /\ opts \in [workers : Worker, minChunk : MinChunks]
  /\ caller \in {"enter", "sequential", "wait", "returned"}
  /\ jobs \in Seq(Chunks)
  /\ slots \in [Elements -> F!Slot]
  /\ failed \subseteq Chunks \cup {0}
  /\ worker \in [Worker \cup {0} ->
                   {"off", "receive", "element", "check", "parse", "once", "flag"}]
  /\ chunk \in [Worker \cup {0} -> 0 .. MaxInputs]
  /\ at \in [Worker \cup {0} -> 0 .. MaxInputs + 1]
  /\ first \in Elements \cup {0}

\* The chunks of runParallelChunk cut the slice without a gap or an overlap, and
\* no two workers are at the same element, whatever the rounding of chunkSize.
NoOverlap ==
  /\ n > 0 => \A i \in Elements : \E c \in Chunks :
                i \in Start(c) .. End(c) /\ \A d \in Chunks \ {c} : i \notin Start(d) .. End(d)
  /\ \A v, w \in Worker :
       worker[v] \in {"parse", "once", "flag"} /\ worker[w] \in {"parse", "once", "flag"} /\ v # w
         => at[v] # at[w]

\* The slice does what Fanout promises: in particular an answer without a panic
\* never has an element that a worker left because another one panicked.
Implements == F!Spec

\* The call returns: no worker is left waiting for a chunk.
Returns == <>(caller = "returned")
=============================================================================
