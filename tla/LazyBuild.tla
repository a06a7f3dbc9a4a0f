----------------------------- MODULE LazyBuild ------------------------------
(***************************************************************************)
(* The dispatch tables of the discriminated unions of schema_discunion.go  *)
(* that have a Lazy option.  Such a union builds its table on its first    *)
(* Parse, in whichever goroutine gets there first, under a sync.Once; a    *)
(* Lazy that leads to another such union builds that one on the way.  The  *)
(* building flag is there for unions that lead back to themselves.         *)
(***************************************************************************)
EXTENDS Naturals, Sequences, SequencesExt

CONSTANTS
  Goroutine,
  Union,       \* discriminated unions with lazyBuild set
  Plain,       \* an option with discriminator values of its own
  OptionLists, \* what the options of a union may be: sequences over Union and Plain
  MaxParses    \* bound on the parses of one goroutine

ASSUME LazyBuildAssumption ==
  Plain \notin Union /\ OptionLists \subseteq Seq(Union \cup {Plain}) /\ MaxParses \in Nat

VARIABLES
  options,     \* per union, its options; never changes
  once,        \* per union, its buildOnce: "unused", "running" or "done"
  building,    \* per union, its flag
  built,       \* per union, whether discMap is there
  buildErr,    \* per union, whether the build panicked
  stack,       \* per goroutine, the calls of ensureDiscMap it is in
  parses,      \* per goroutine, the parses it has begun
  verdicts     \* per union, how its parses went: "dispatched" or "panicked"

vars == <<options, once, building, built, buildErr, stack, parses, verdicts>>

Frame == [u : Union, pc : {"once", "flag", "option", "values", "publish", "failed", "unflag", "leave"},
          k : Nat]
Call(u) == [u |-> u, pc |-> "once", k |-> 1]

Init ==
  /\ options \in [Union -> OptionLists]
  /\ once = [u \in Union |-> "unused"]
  /\ building = [u \in Union |-> FALSE]
  /\ built = [u \in Union |-> FALSE]
  /\ buildErr = [u \in Union |-> FALSE]
  /\ stack = [g \in Goroutine |-> <<>>]
  /\ parses = [g \in Goroutine |-> 0]
  /\ verdicts = [u \in Union |-> {}]

Top(g) == Last(stack[g])
At(g, pc) == stack[g] # <<>> /\ Top(g).pc = pc
Goto(g, pc) == stack' = [stack EXCEPT ![g] = Append(Front(@), [Top(g) EXCEPT !.pc = pc])]

\* Parse of union u, or its Resolve.
Parse(g) ==
  /\ stack[g] = <<>>
  /\ parses[g] < MaxParses
  /\ \E u \in Union : stack' = [stack EXCEPT ![g] = <<Call(u)>>]
  /\ parses' = [parses EXCEPT ![g] = @ + 1]
  /\ UNCHANGED <<options, once, building, built, buildErr, verdicts>>

\* buildOnce.Do runs the build in one goroutine; the others wait for its end.
StartBuild(g) ==
  /\ At(g, "once")
  /\ once[Top(g).u] = "unused"
  /\ once' = [once EXCEPT ![Top(g).u] = "running"]
  /\ Goto(g, "flag")
  /\ UNCHANGED <<options, building, built, buildErr, parses, verdicts>>

\* Mutant: ensureDiscMap does not wait for a build in progress.
EnsuredEarly(g) ==
  /\ At(g, "once")
  /\ once[Top(g).u] # "unused"
  /\ stack' = [stack EXCEPT ![g] = Front(@)]
  /\ verdicts' = IF Len(stack[g]) > 1 THEN verdicts
                 ELSE [verdicts EXCEPT ![Top(g).u] =
                         @ \cup {IF buildErr[Top(g).u] THEN "panicked" ELSE "dispatched"}]
  /\ UNCHANGED <<options, once, building, built, buildErr, parses>>

\* ensureDiscMap returns: to the build that needs u's values, or to Parse.
Ensured(g) ==
  /\ At(g, "once")
  /\ once[Top(g).u] = "done"
  /\ stack' = [stack EXCEPT ![g] = Front(@)]
  /\ verdicts' = IF Len(stack[g]) > 1 THEN verdicts
                 ELSE [verdicts EXCEPT ![Top(g).u] =
                         @ \cup {IF buildErr[Top(g).u] THEN "panicked" ELSE "dispatched"}]
  /\ UNCHANGED <<options, once, building, built, buildErr, parses>>

SetFlag(g) ==
  /\ At(g, "flag")
  /\ building' = [building EXCEPT ![Top(g).u] = TRUE]
  /\ Goto(g, "option")
  /\ UNCHANGED <<options, once, built, buildErr, parses, verdicts>>

\* buildDiscMap: discriminatorValues of the next option.  A union that is being
\* built has none to give, and an option without values panics.
NextOption(g) ==
  /\ At(g, "option")
  /\ LET f == Top(g)
         opts == options[f.u]
     IN
     \/ /\ f.k > Len(opts)
        /\ Goto(g, "publish")
     \/ /\ f.k <= Len(opts)
        /\ opts[f.k] = Plain
        /\ stack' = [stack EXCEPT ![g] = Append(Front(@), [f EXCEPT !.k = @ + 1])]
     \/ /\ f.k <= Len(opts)
        /\ opts[f.k] # Plain
        /\ IF building[opts[f.k]]
           THEN Goto(g, "failed")
           ELSE stack' = [stack EXCEPT ![g] =
                            Append(Append(Front(@), [f EXCEPT !.pc = "values"]), Call(opts[f.k]))]
  /\ UNCHANGED <<options, once, building, built, buildErr, parses, verdicts>>

\* Mutant: an empty table is taken for one without values.
ReadNoValues(g) ==
  /\ At(g, "values")
  /\ stack' = [stack EXCEPT ![g] = Append(Front(@), [Top(g) EXCEPT !.pc = "option", !.k = @ + 1])]
  /\ UNCHANGED <<options, once, building, built, buildErr, parses, verdicts>>

\* Mutant: the values of an empty table are asked for again.
ReadAgain(g) ==
  /\ At(g, "values")
  /\ LET f == Top(g) IN
     stack' = [stack EXCEPT ![g] =
                 Append(Front(@), [f EXCEPT !.pc = "option",
                                            !.k = IF built[options[f.u][f.k]] THEN @ + 1 ELSE @])]
  /\ UNCHANGED <<options, once, building, built, buildErr, parses, verdicts>>

\* The option's table is empty when its build failed.
ReadValues(g) ==
  /\ At(g, "values")
  /\ LET f == Top(g) IN
     IF built[options[f.u][f.k]]
     THEN stack' = [stack EXCEPT ![g] = Append(Front(@), [f EXCEPT !.pc = "option", !.k = @ + 1])]
     ELSE Goto(g, "failed")
  /\ UNCHANGED <<options, once, building, built, buildErr, parses, verdicts>>

\* Mutant: the options are dropped once the table is there.
PublishAndDrop(g) ==
  /\ At(g, "publish")
  /\ built' = [built EXCEPT ![Top(g).u] = TRUE]
  /\ options' = [options EXCEPT ![Top(g).u] = <<>>]
  /\ Goto(g, "unflag")
  /\ UNCHANGED <<once, building, buildErr, parses, verdicts>>

Publish(g) ==
  /\ At(g, "publish")
  /\ built' = [built EXCEPT ![Top(g).u] = TRUE]
  /\ Goto(g, "unflag")
  /\ UNCHANGED <<options, once, building, buildErr, parses, verdicts>>

\* The deferred recover.
Recover(g) ==
  /\ At(g, "failed")
  /\ buildErr' = [buildErr EXCEPT ![Top(g).u] = TRUE]
  /\ Goto(g, "unflag")
  /\ UNCHANGED <<options, once, building, built, parses, verdicts>>

ClearFlag(g) ==
  /\ At(g, "unflag")
  /\ building' = [building EXCEPT ![Top(g).u] = FALSE]
  /\ Goto(g, "leave")
  /\ UNCHANGED <<options, once, built, buildErr, parses, verdicts>>

EndBuild(g) ==
  /\ At(g, "leave")
  /\ once' = [once EXCEPT ![Top(g).u] = "done"]
  /\ Goto(g, "once")
  /\ UNCHANGED <<options, building, built, buildErr, parses, verdicts>>

Step(g) ==
  \/ Parse(g) \/ StartBuild(g) \/ Ensured(g) \/ SetFlag(g) \/ NextOption(g) \/ ReadValues(g)
  \/ Publish(g) \/ Recover(g) \/ ClearFlag(g) \/ EndBuild(g)

Finished ==
  /\ \A g \in Goroutine : stack[g] = <<>> /\ parses[g] = MaxParses
  /\ UNCHANGED vars

Next == (\E g \in Goroutine : Step(g)) \/ Finished
Spec == Init /\ [][Next]_vars
FairSpec == Spec /\ \A g \in Goroutine : WF_vars(Step(g))

-----------------------------------------------------------------------------
(* Properties. *)

\* The unions and the calls of ensureDiscMap are well formed.
TypeOK ==
  /\ options \in [Union -> OptionLists]
  /\ once \in [Union -> {"unused", "running", "done"}]
  /\ building \in [Union -> BOOLEAN]
  /\ built \in [Union -> BOOLEAN]
  /\ buildErr \in [Union -> BOOLEAN]
  /\ stack \in [Goroutine -> Seq(Frame)]
  /\ parses \in [Goroutine -> 0 .. MaxParses]
  /\ verdicts \in [Union -> SUBSET {"dispatched", "panicked"}]

\* A union that does not lead back to itself, nor to one that does: it is in every
\* set that holds each union whose options it holds.
Leads(v) == Range(options[v]) \ {Plain}
WellFormed(u) ==
  \A S \in SUBSET Union : (\A v \in Union : Leads(v) \subseteq S => v \in S) => u \in S

\* "the union fails the same way on every Parse rather than staying half-built":
\* no two parses of one union, in any goroutines, go differently.
SameVerdict == \A u \in Union : verdicts[u] # {"dispatched", "panicked"}

\* A table that is there is complete: each option that is a union has one too,
\* and no union that leads back to itself has any.
TablesComplete ==
  \A u \in Union : built[u] =>
    /\ WellFormed(u)
    /\ \A v \in Leads(u) : built[v]

\* Two goroutines never wait for each other in a Once, also for unions that lead
\* to each other: each sets its flag before it reads the other's.
EveryParseEnds == \A g \in Goroutine : []<>(stack[g] = <<>>)

\* "a schema may be shared across any number of goroutines and Parse [...] may be
\* called concurrently without locks" (concurrent.go): a union that is well
\* formed is built, whoever else is building.
WellFormedBuilds == \A u \in Union : buildErr[u] => ~WellFormed(u)
=============================================================================
