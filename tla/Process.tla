------------------------------ MODULE Process -------------------------------
(* The goroutines of a process that shares the state of the z package. *)
CONSTANTS
  Goroutine,
  None          \* no call, no value yet
=============================================================================
