------------------------------- MODULE Fanout -------------------------------
(***************************************************************************)
(* What the parallel entry points of go-z promise, whatever their workers  *)
(* do: ConcurrentBatch and ConcurrentParseAny (concurrent.go) and          *)
(* ParseParallelSlice (parallel.go).  A call validates each element of its *)
(* input once and returns one answer.                                      *)
(*                                                                         *)
(* The effect of validating an element is fixed: it is accepted, rejected, *)
(* or a callback of the schema panics on it.  A slot is what the caller    *)
(* finds for an element: the element's effect, "cancelled" for ctx.Err(),  *)
(* or "unset" for the zero value and a nil error.                          *)
(***************************************************************************)
EXTENDS Naturals, Sequences

CONSTANT MaxInputs   \* bound on the length of the input

Effect == {"accepted", "rejected", "panics"}
Slot == {"accepted", "rejected", "cancelled", "unset"}
Batches == UNION {[1 .. n -> Effect] : n \in 0 .. MaxInputs}

VARIABLES
  effect,      \* what validating each element of the input does
  cancelled,   \* ctx.Err() is not nil
  answer       \* what the call returned or raised

fanoutVars == <<effect, cancelled, answer>>

Pending == [kind |-> "none", slots |-> <<>>, index |-> 0]
Panicked(i) == [kind |-> "panic", slots |-> <<>>, index |-> i]
Cancelled(slots) == [kind |-> "cancelled", slots |-> slots, index |-> 0]
Done(slots) == [kind |-> "done", slots |-> slots, index |-> 0]

Init ==
  /\ effect \in Batches
  /\ cancelled \in BOOLEAN
  /\ answer = Pending

Cancel ==
  /\ ~cancelled
  /\ cancelled' = TRUE
  /\ UNCHANGED <<effect, answer>>

\* An answer without a panic has no element that was skipped silently: every
\* slot is the effect of its element.
ReturnDone ==
  /\ answer = Pending
  /\ "panics" \notin {effect[i] : i \in DOMAIN effect}
  /\ answer' = Done(effect)
  /\ UNCHANGED <<effect, cancelled>>

\* After a cancellation an element may be left out.
ReturnCancelled ==
  /\ answer = Pending
  /\ cancelled
  /\ \E slots \in [DOMAIN effect -> Slot] \cup {<<>>} :
       /\ \A i \in DOMAIN slots : slots[i] \in {effect[i], "cancelled", "unset"}
       /\ answer' = Cancelled(slots)
  /\ UNCHANGED <<effect, cancelled>>

\* WorkerPanic names an element whose validation panicked.
Raise ==
  /\ answer = Pending
  /\ \E i \in DOMAIN effect : effect[i] = "panics" /\ answer' = Panicked(i)
  /\ UNCHANGED <<effect, cancelled>>

Next == Cancel \/ ReturnDone \/ ReturnCancelled \/ Raise
Spec == Init /\ [][Next]_fanoutVars
=============================================================================
