------------------------------ MODULE Globals -------------------------------
(***************************************************************************)
(* The process-wide state of the library under concurrent use: goroutines  *)
(* that each register metadata, configure or parse, one call at a time.    *)
(***************************************************************************)
EXTENDS Registry, Messages

CONSTANT MaxCalls    \* bound on the calls of all goroutines together

ASSUME GlobalsAssumption == MaxCalls \in Nat

VARIABLE calls       \* the calls made so far

vars == <<registryVars, messageVars, calls>>

GlobalsInit == RegistryInit /\ MessagesInit /\ calls = 0

Idle(g) == pc[g] = "idle" /\ step[g] = "idle"

CallRegistry(g) ==
  /\ \E r \in Requests : Begin(g, r)
  /\ UNCHANGED messageVars

CallConfigure(g) ==
  /\ \E c \in Config : BeginConfigure(g, c)
  /\ UNCHANGED registryVars

CallParse(g) ==
  /\ \E ctx \in ParseCtxs, plan \in Plans : BeginParse(g, ctx, plan)
  /\ UNCHANGED registryVars

StartCall(g) ==
  /\ Idle(g)
  /\ calls < MaxCalls
  /\ calls' = calls + 1
  /\ CallRegistry(g) \/ CallConfigure(g) \/ CallParse(g)

Step(g) ==
  /\ \/ RegistryStep(g) /\ UNCHANGED messageVars
     \/ MessagesStep(g) /\ UNCHANGED registryVars
  /\ UNCHANGED calls

Finished ==
  /\ calls = MaxCalls
  /\ \A g \in Goroutine : Idle(g)
  /\ UNCHANGED vars

GlobalsNext == (\E g \in Goroutine : StartCall(g) \/ Step(g)) \/ Finished

GlobalsSpec == GlobalsInit /\ [][GlobalsNext]_vars
-----------------------------------------------------------------------------
\* The maps, the lock, the configuration and the locals of the calls hold what
\* their types allow.
GlobalsTypeOK == RegistryTypeOK /\ MessagesTypeOK
=============================================================================
