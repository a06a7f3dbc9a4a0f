------------------------------ MODULE Payloads ------------------------------
(***************************************************************************)
(* src/z/payload.go: the payload that every parser reads and writes, and   *)
(* the pool the payloads are taken from.                                   *)
(*                                                                         *)
(* A payload is an identifier; its fields are functions of the identifier. *)
(* Values are not given a type here: the engine only compares them with    *)
(* Missing and hands them to callbacks.                                    *)
(***************************************************************************)
EXTENDS Naturals, Sequences, SequencesExt

CONSTANTS
  PayloadId,    \* payload objects: the ones in the pool and the ones in use
  Goroutine,    \* callers; the ParseCtx of a caller is named by the caller
  NoCtx,        \* the nil *ParseCtx
  Missing,      \* missingSentinel, the absent value
  Null          \* nil, the JSON null

ASSUME PayloadAssumption == NoCtx \notin Goroutine /\ Missing # Null

VARIABLES
  value,        \* Payload.Value
  issues,       \* Payload.Issues
  aborted,      \* Payload.Aborted
  parseCtx,     \* Payload.parseCtx
  pool,         \* how many times the payload is in payloadPool
  base          \* history: the absolute path of the payload's value

payloadVars == <<value, issues, aborted, parseCtx, pool, base>>

-----------------------------------------------------------------------------
(* Issues.  cont is the issue's continue mode; path is relative to the     *)
(* payload that holds the issue, and at records the absolute path at which *)
(* it was raised (history only).  keys is set for unrecognized_keys.       *)

Cont == {"unset", "yes", "no"}
Code == {"invalid_type", "too_small", "too_big", "unrecognized_keys", "invalid_key",
         "invalid_union", "custom", "check"}
Path == Seq(Nat)
Issue == [code : Code, cont : Cont, path : Path, at : Path, keys : SUBSET Nat]

IssueAt(p, code, cont, path) ==
  [code |-> code, cont |-> cont, path |-> path, at |-> base[p] \o path, keys |-> {}]

\* Mutant: PrependPath appends.
AppendedPath(iss, seg) == [i \in DOMAIN iss |-> [iss[i] EXCEPT !.path = Append(@, seg)]]

\* PrependPath, on the issues a child left.
Prefixed(iss, seg) == [i \in DOMAIN iss |-> [iss[i] EXCEPT !.path = <<seg>> \o @]]

-----------------------------------------------------------------------------
\* aborted(start), with start counted from 0 as in the code.
AbortedFrom(ab, iss, start) ==
  ab \/ \E i \in (start + 1) .. Len(iss) : iss[i].cont # "yes"

\* explicitlyAborted(0).
ExplicitlyAborted(ab, iss) ==
  ab \/ \E i \in 1 .. Len(iss) : iss[i].cont = "no"

\* Mutant: the pool hands out a payload that is in use.
AcquireInUse(p, v, c, path) ==
  /\ pool' = [pool EXCEPT ![p] = @ - 1]
  /\ value' = [value EXCEPT ![p] = v]
  /\ issues' = [issues EXCEPT ![p] = <<>>]
  /\ aborted' = [aborted EXCEPT ![p] = FALSE]
  /\ parseCtx' = [parseCtx EXCEPT ![p] = c]
  /\ base' = [base EXCEPT ![p] = path]

\* AcquirePayload(v), followed by the caller's assignment of parseCtx.
Acquire(p, v, c, path) ==
  /\ pool[p] > 0
  /\ pool' = [pool EXCEPT ![p] = @ - 1]
  /\ value' = [value EXCEPT ![p] = v]
  /\ issues' = [issues EXCEPT ![p] = <<>>]
  /\ aborted' = [aborted EXCEPT ![p] = FALSE]
  /\ parseCtx' = [parseCtx EXCEPT ![p] = c]
  /\ base' = [base EXCEPT ![p] = path]

Zeroed(field, ps, zero) == [p \in PayloadId |-> IF p \in ps THEN zero ELSE field[p]]

\* ReleasePayload on each payload of the sequence ps; the fields written just
\* before are given by the functions val, iss and ab.  Value, Aborted and
\* parseCtx are zeroed; Issues keeps its contents until the next Acquire.
ReleaseAll(ps, val, iss, ab) ==
  /\ pool' = [p \in PayloadId |-> pool[p] + Cardinality({i \in DOMAIN ps : ps[i] = p})]
  /\ value' = Zeroed(val, Range(ps), Null)
  /\ aborted' = Zeroed(ab, Range(ps), FALSE)
  /\ parseCtx' = Zeroed(parseCtx, Range(ps), NoCtx)
  /\ issues' = iss

\* payloadPool and the zero Payload before the first call.
PayloadInit ==
  /\ value = [p \in PayloadId |-> Null]
  /\ issues = [p \in PayloadId |-> <<>>]
  /\ aborted = [p \in PayloadId |-> FALSE]
  /\ parseCtx = [p \in PayloadId |-> NoCtx]
  /\ pool = [p \in PayloadId |-> 1]
  /\ base = [p \in PayloadId |-> <<>>]
=============================================================================
