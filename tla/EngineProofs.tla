---------------------------- MODULE EngineProofs ----------------------------
(***************************************************************************)
(* Who owns a payload, proved of the engine for any number of goroutines,  *)
(* payloads, schemas and calls, whatever the callbacks do.                 *)
(*                                                                         *)
(* Every action of the engine moves the stack of one goroutine in one of   *)
(* five ways; the ownership of the payloads depends on nothing else.       *)
(***************************************************************************)
EXTENDS Engine, TLAPS, SequenceTheorems, FiniteSetTheorems

-----------------------------------------------------------------------------
(* Stacks.  The engine's frames carry values of no fixed type (indices into *)
(* inputs, lengths), so a stack is only known to be a sequence of frames.   *)

IsSeq(s) == s \in Seq({s[i] : i \in 1 .. Len(s)})

\* Where a frame may hold payloads of its own.
HoldingPc == {"field", "item", "slot", "key", "value", "options", "option", "choices", "choice",
              "left", "right", "merge"}

IsFrame(f) ==
  /\ f = [n |-> f.n, pc |-> f.pc, p |-> f.p, i |-> f.i, start |-> f.start,
          flag |-> f.flag, kids |-> f.kids, marks |-> f.marks]
  /\ f.p \in PayloadId
  /\ f.kids \in Seq(PayloadId)
  /\ f.pc \notin HoldingPc => f.kids = <<>>
  /\ f.pc = "left" => Len(f.kids) >= 1
  /\ f.pc = "right" => Len(f.kids) >= 2

IsStack(s) == IsSeq(s) /\ \A i \in 1 .. Len(s) : IsFrame(s[i])

\* A sequence is one of its own elements.
LEMMA SeqIsSeq == ASSUME NEW S, NEW s \in Seq(S) PROVE IsSeq(s)
  <1>1. Len(s) \in Nat /\ s \in [1 .. Len(s) -> S] /\ DOMAIN s = 1 .. Len(s)
    BY LenProperties
  <1>2. s \in [1 .. Len(s) -> {s[i] : i \in 1 .. Len(s)}]
    BY <1>1
  <1> QED
    BY <1>1, <1>2, SeqDef DEF IsSeq

\* The elements of Append(s, e).
LEMMA AppendAt ==
  ASSUME NEW S, NEW s \in Seq(S), NEW e \in S
  PROVE  /\ Append(s, e) \in Seq(S) /\ Len(Append(s, e)) = Len(s) + 1
         /\ \A i \in 1 .. Len(s) + 1 : Append(s, e)[i] = IF i = Len(s) + 1 THEN e ELSE s[i]
  BY AppendProperties, LenProperties

\* Enter pushes a frame.
LEMMA PushAt ==
  ASSUME NEW s, IsSeq(s), NEW e
  PROVE  /\ IsSeq(Append(s, e)) /\ Len(Append(s, e)) = Len(s) + 1
         /\ \A i \in 1 .. Len(s) + 1 : Append(s, e)[i] = IF i = Len(s) + 1 THEN e ELSE s[i]
  <1> DEFINE S == {s[i] : i \in 1 .. Len(s)} \cup {e}
  <1>1. s \in Seq(S) /\ e \in S
    BY SeqMonotonic DEF IsSeq
  <1> HIDE DEF S
  <1>2. /\ Append(s, e) \in Seq(S) /\ Len(Append(s, e)) = Len(s) + 1
        /\ \A i \in 1 .. Len(s) + 1 : Append(s, e)[i] = IF i = Len(s) + 1 THEN e ELSE s[i]
    BY <1>1, AppendAt
  <1>3. IsSeq(Append(s, e))
    BY <1>2, SeqIsSeq
  <1> QED
    BY <1>2, <1>3

\* Return pops the last frame.
LEMMA PopAt ==
  ASSUME NEW s, IsSeq(s), s # <<>>
  PROVE  /\ Len(s) \in Nat /\ Len(s) >= 1 /\ DOMAIN s = 1 .. Len(s)
         /\ IsSeq(Front(s)) /\ Len(Front(s)) = Len(s) - 1
         /\ \A i \in 1 .. Len(s) - 1 : Front(s)[i] = s[i]
  <1> DEFINE S == {s[i] : i \in 1 .. Len(s)}
             k == Len(s)
  <1>1. s \in Seq(S)
    BY DEF IsSeq
  <1> HIDE DEF S
  <1>2. k \in Nat /\ k >= 1 /\ DOMAIN s = 1 .. k /\ \A i \in 1 .. k : s[i] \in S
    BY <1>1, EmptySeq, LenProperties
  <1>3. Front(s) = SubSeq(s, 1, k - 1)
    BY DEF Front
  <1> HIDE DEF k
  <1>4. \A i \in 1 .. k - 1 : s[i] \in S
    BY <1>2
  <1>5. /\ SubSeq(s, 1, k - 1) \in Seq(S)
        /\ Len(SubSeq(s, 1, k - 1)) = IF 1 <= k - 1 THEN (k - 1) - 1 + 1 ELSE 0
        /\ \A i \in 1 .. (k - 1) - 1 + 1 : SubSeq(s, 1, k - 1)[i] = s[1 + i - 1]
    BY <1>2, <1>4, SubSeqProperties
  <1>6. Len(SubSeq(s, 1, k - 1)) = k - 1
    BY <1>2, <1>5
  <1>7. \A i \in 1 .. k - 1 : SubSeq(s, 1, k - 1)[i] = s[i]
    BY <1>2, <1>5
  <1>8. IsSeq(SubSeq(s, 1, k - 1))
    BY <1>5, SeqIsSeq
  <1> QED
    BY <1>2, <1>3, <1>6, <1>7, <1>8 DEF k

\* Goto replaces the last frame.
LEMMA SwapAt ==
  ASSUME NEW s, IsSeq(s), s # <<>>, NEW f
  PROVE  /\ IsSeq(Append(Front(s), f)) /\ Len(Append(Front(s), f)) = Len(s)
         /\ \A i \in 1 .. Len(s) : Append(Front(s), f)[i] = IF i = Len(s) THEN f ELSE s[i]
  <1> DEFINE front == Front(s)
             swapped == Append(front, f)
             k == Len(s)
  <1>1. k \in Nat /\ k >= 1 /\ IsSeq(front) /\ Len(front) = k - 1
    BY PopAt
  <1>2. \A i \in 1 .. k - 1 : front[i] = s[i]
    BY PopAt
  <1> HIDE DEF front
  <1>3. /\ IsSeq(swapped) /\ Len(swapped) = Len(front) + 1
        /\ \A i \in 1 .. Len(front) + 1 : swapped[i] = IF i = Len(front) + 1 THEN f ELSE front[i]
    BY <1>1, PushAt
  <1> HIDE DEF swapped, k
  <1>4. Len(swapped) = k
    BY <1>1, <1>3
  <1>5. \A i \in 1 .. k : swapped[i] = IF i = k THEN f ELSE s[i]
    BY <1>1, <1>2, <1>3
  <1> QED
    BY <1>3, <1>4, <1>5 DEF swapped, front, k

-----------------------------------------------------------------------------
(* The ways a step moves the stack of a goroutine. *)

Types ==
  /\ aborted \in [PayloadId -> BOOLEAN]
  /\ parseCtx \in [PayloadId -> Goroutine \cup {NoCtx}]
  /\ pool \in [PayloadId -> Nat]
  /\ call \in [Goroutine -> CallRecord]
  /\ stack = [g \in Goroutine |-> stack[g]]
  /\ \A g \in Goroutine : IsStack(stack[g])
  /\ \A g \in Goroutine : ~call[g].busy => stack[g] = <<>>

\* f is the running frame of g, further on.
Onward(g, f) == IsFrame(f) /\ f.p = Top(g).p /\ f.n = Top(g).n

Quiet == UNCHANGED <<pool, parseCtx>>

Goes(g) == Quiet /\ \E f : Onward(g, f) /\ f.kids = Top(g).kids /\ Goto(g, f)

Runs(g) ==
  /\ Quiet
  /\ NodeOf(g).kind \notin Passing
  /\ \E f, n, p : /\ Onward(g, f) /\ f.kids = Top(g).kids
                  /\ p \in {f.p} \cup Range(f.kids)
                  /\ Enter(g, f, n, p)

Pops(g) == Quiet /\ Top(g).kids = <<>> /\ Return(g)

\* A payload leaves the pool.
Takes(g) == \E f, n, cp, p, c :
  /\ cp \in PayloadId /\ pool[cp] > 0
  /\ pool' = [pool EXCEPT ![cp] = @ - 1]
  /\ parseCtx' = [parseCtx EXCEPT ![cp] = c]
  /\ c = ChildCtx(g, Top(g).p) \/ c = call[g].ctx \/ (c = NoCtx /\ NodeOf(g).kind \notin Passing)
  /\ Onward(g, f) /\ f.kids = Append(Top(g).kids, cp)
  /\ \/ NodeOf(g).kind \notin Passing /\ Goto(g, f)
     \/ Enter(g, f, n, cp)
     \/ NodeOf(g).kind \notin Passing /\ p \in Range(Top(g).kids) /\ Enter(g, f, n, p)

\* The payloads of the running frame go back to it.
Gives(g) ==
  /\ \A p \in PayloadId :
       pool'[p] = pool[p] + Cardinality({i \in DOMAIN Top(g).kids : Top(g).kids[i] = p})
  /\ pool' = [p \in PayloadId |-> pool'[p]]
  /\ parseCtx' = Zeroed(parseCtx, Range(Top(g).kids), NoCtx)
  /\ \E f : Onward(g, f) /\ f.kids = <<>> /\ Goto(g, f)

CallKept ==
  /\ call' \in [Goroutine -> CallRecord]
  /\ \A g \in Goroutine : /\ call'[g].busy = call[g].busy
                          /\ call'[g].p = call[g].p
                          /\ call'[g].ctx = call[g].ctx

Moves(g) ==
  /\ call[g].busy /\ stack[g] # <<>>
  /\ CallKept /\ UNCHANGED graph /\ aborted' \in [PayloadId -> BOOLEAN]
  /\ Goes(g) \/ Runs(g) \/ Pops(g) \/ Takes(g) \/ Gives(g)

\* The running frame is a frame.
LEMMA TopFrame ==
  ASSUME Types, NEW g \in Goroutine, stack[g] # <<>>
  PROVE  IsFrame(Top(g))
  <1>1. IsSeq(stack[g]) /\ Len(stack[g]) \in 1 .. Len(stack[g])
    BY PopAt DEF Types, IsStack
  <1> QED
    BY <1>1 DEF Types, IsStack, Top, Last

\* A frame that holds nothing may go to any label.
LEMMA FrameJump ==
  ASSUME NEW f, IsFrame(f), NEW pc, pc \notin {"left", "right"},
         pc \in HoldingPc \/ f.kids = <<>>
  PROVE  LET h == [f EXCEPT !.pc = pc] IN
         IsFrame(h) /\ h.p = f.p /\ h.n = f.n /\ h.kids = f.kids
  BY DEF IsFrame

\* The checks only move on in their frame.
LEMMA CheckMoves ==
  ASSUME Types, NEW g \in Goroutine, CheckStep(g)
  PROVE  Moves(g)
  <1>1. call[g].busy /\ stack[g] # <<>> /\ Top(g).pc \in {"parsed", "checks"}
    BY DEF CheckStep, StartChecks, SkipCheck, RunCheck, EndChecks, At
  <1>2. IsFrame(Top(g)) /\ Top(g).kids = <<>>
    BY <1>1, TopFrame DEF IsFrame, HoldingPc
  <1>3. CallKept /\ UNCHANGED graph /\ aborted' \in [PayloadId -> BOOLEAN] /\ Quiet
    BY DEF CheckStep, StartChecks, SkipCheck, RunCheck, EndChecks, payloadVars, CallKept, Types, Quiet
  <1>4. CASE StartChecks(g)
    <2>1. CASE Return(g)
      BY <1>1, <1>2, <1>3, <2>1 DEF Moves, Pops
    <2>2. CASE ~Return(g)
      <3>1. PICK f : /\ f = [Top(g) EXCEPT !.pc = "checks", !.i = 1,
                                           !.flag = AbortedFrom(aborted[Top(g).p], issues[Top(g).p], 0)]
                     /\ Goto(g, f)
        BY <1>4, <2>2 DEF StartChecks
      <3>2. Onward(g, f) /\ f.kids = Top(g).kids
        BY <1>2, <3>1 DEF Onward, IsFrame, HoldingPc
      <3> QED
        BY <1>1, <1>3, <3>1, <3>2 DEF Moves, Goes
    <2> QED
      BY <2>1, <2>2
  <1>5. CASE SkipCheck(g)
    <2>1. PICK f : f = [Top(g) EXCEPT !.i = @ + 1] /\ Goto(g, f)
      BY <1>5 DEF SkipCheck
    <2>2. Onward(g, f) /\ f.kids = Top(g).kids
      BY <1>2, <2>1 DEF Onward, IsFrame, HoldingPc
    <2> QED
      BY <1>1, <1>3, <2>1, <2>2 DEF Moves, Goes
  <1>6. CASE RunCheck(g)
    <2>1. PICK f, flag : f = [Top(g) EXCEPT !.i = @ + 1, !.flag = flag] /\ Goto(g, f)
      <3>1. CASE \E f : f = [Top(g) EXCEPT !.i = @ + 1] /\ Goto(g, f)
        <4>1. PICK f : f = [Top(g) EXCEPT !.i = @ + 1] /\ Goto(g, f)
          BY <3>1
        <4>2. f = [Top(g) EXCEPT !.i = @ + 1, !.flag = Top(g).flag]
          BY <1>2, <4>1 DEF IsFrame
        <4> QED
          BY <4>1, <4>2
      <3>2. CASE ~\E f : f = [Top(g) EXCEPT !.i = @ + 1] /\ Goto(g, f)
        BY <1>6, <3>2 DEF RunCheck
      <3> QED
        BY <3>1, <3>2
    <2>2. Onward(g, f) /\ f.kids = Top(g).kids
      BY <1>2, <2>1 DEF Onward, IsFrame, HoldingPc
    <2> QED
      BY <1>1, <1>3, <2>1, <2>2 DEF Moves, Goes
  <1>7. CASE EndChecks(g)
    BY <1>1, <1>2, <1>3, <1>7 DEF Moves, Pops, EndChecks
  <1> QED
    BY <1>4, <1>5, <1>6, <1>7 DEF CheckStep

\* What a step that acquires and releases nothing leaves alone.
Steady(g) ==
  /\ call[g].busy /\ stack[g] # <<>> /\ Top(g).pc \notin HoldingPc
  /\ CallKept /\ UNCHANGED graph /\ aborted' \in [PayloadId -> BOOLEAN] /\ Quiet

\* A frame that holds nothing goes on, or runs a schema on its own payload.
LEMMA SteadyMoves ==
  ASSUME Types, NEW g \in Goroutine, Steady(g),
         \E pc : /\ pc \notin {"left", "right"}
                 /\ \/ Jump(g, pc)
                    \/ NodeOf(g).kind \notin Passing /\ \E n : RunSelf(g, pc, n)
  PROVE  Moves(g)
  <1>1. IsFrame(Top(g)) /\ Top(g).kids = <<>>
    BY TopFrame DEF IsFrame, Steady
  <1>2. PICK pc : /\ pc \notin {"left", "right"}
                  /\ \/ Jump(g, pc)
                     \/ NodeOf(g).kind \notin Passing /\ \E n : RunSelf(g, pc, n)
    OBVIOUS
  <1>3. PICK f : f = [Top(g) EXCEPT !.pc = pc]
    OBVIOUS
  <1>4. Onward(g, f) /\ f.kids = Top(g).kids /\ f.p = Top(g).p
    BY <1>1, <1>2, <1>3, FrameJump DEF Onward
  <1>5. CASE Jump(g, pc)
    BY <1>3, <1>4, <1>5 DEF Jump, Steady, Moves, Goes
  <1>6. CASE NodeOf(g).kind \notin Passing /\ \E n : RunSelf(g, pc, n)
    <2>1. PICK n : Enter(g, f, n, Top(g).p)
      BY <1>3, <1>6 DEF RunSelf
    <2>2. Runs(g)
      BY <1>4, <1>6, <2>1 DEF Runs, Steady
    <2> QED
      BY <2>2 DEF Steady, Moves
  <1> QED
    BY <1>2, <1>5, <1>6

\* The wrappers only move on, or run an inner schema on their own payload.
LEMMA WrapperMoves ==
  ASSUME Types, NEW g \in Goroutine, WrapperStep(g)
  PROVE  Moves(g)
  <1> USE DEF At, Passing, HoldingPc
  <1>2. CASE Leaf(g)
    BY <1>2, SteadyMoves DEF Leaf, Steady, Types, Quiet, CallKept
  <1>3. CASE EnterAlias(g)
    BY <1>3, SteadyMoves DEF EnterAlias, Aliases, Steady, Types, Quiet, CallKept, payloadVars
  <1>4. CASE EnterOptional(g)
    <2>1. Steady(g) /\ NodeOf(g).kind \notin Passing
      BY <1>4 DEF EnterOptional, Steady, Types, Quiet, CallKept, payloadVars
    <2>2. CASE Traits(Kid(g, 1)).optIn
      <3>1. PICK f, flag, start :
              /\ f = [Top(g) EXCEPT !.pc = "rescue", !.flag = flag, !.start = start]
              /\ Enter(g, f, Kid(g, 1), Top(g).p)
        BY <1>4, <2>2 DEF EnterOptional
      <3>2. IsFrame(Top(g)) /\ Top(g).kids = <<>>
        BY <2>1, TopFrame DEF IsFrame, Steady
      <3>3. Onward(g, f) /\ f.kids = Top(g).kids
        BY <3>1, <3>2 DEF Onward, IsFrame
      <3>4. Top(g).p \in {f.p} \cup Range(f.kids)
        BY <3>3 DEF Onward
      <3>5. Runs(g)
        BY <2>1, <3>1, <3>3, <3>4 DEF Runs, Steady
      <3> QED
        BY <2>1, <3>5 DEF Moves, Steady
    <2>3. CASE ~Traits(Kid(g, 1)).optIn
      BY <1>4, <2>1, <2>3, SteadyMoves DEF EnterOptional
    <2> QED
      BY <2>2, <2>3
  <1>5. CASE Rescue(g)
    <2>1. aborted[Top(g).p] \in BOOLEAN /\ call[g].leaked \in BOOLEAN
      BY <1>5, TopFrame DEF Rescue, Types, IsFrame, CallRecord
    <2>2. PICK leaked \in BOOLEAN : call' = [call EXCEPT ![g].leaked = leaked]
      <3>1. CASE UNCHANGED call
        <4>1. call = [call EXCEPT ![g].leaked = call[g].leaked]
          BY DEF Types, CallRecord
        <4> QED
          BY <2>1, <3>1, <4>1
      <3>2. CASE call' = [call EXCEPT ![g].leaked = @ \/ aborted[Top(g).p]]
        BY <2>1, <3>2
      <3> QED
        BY <1>5, <3>1, <3>2 DEF Rescue
    <2>3. CallKept
      <3>1. call[g] \in CallRecord
        BY DEF Types
      <3>2. [call[g] EXCEPT !.leaked = leaked] \in CallRecord
        BY <3>1 DEF CallRecord
      <3>3. /\ call'[g] = [call[g] EXCEPT !.leaked = leaked]
            /\ \A h \in Goroutine \ {g} : call'[h] = call[h]
            /\ call' \in [Goroutine -> CallRecord]
        BY <2>2, <3>2 DEF Types
      <3>4. /\ call'[g].busy = call[g].busy /\ call'[g].p = call[g].p
            /\ call'[g].ctx = call[g].ctx
        BY <3>1, <3>3 DEF CallRecord
      <3> QED
        BY <3>3, <3>4 DEF CallKept
    <2> QED
      BY <1>5, <2>3, SteadyMoves DEF Rescue, Steady, Types, Quiet
  <1>6. CASE EnterNullable(g)
    BY <1>6, SteadyMoves DEF EnterNullable, Steady, Types, Quiet, CallKept, payloadVars
  <1>7. CASE EnterNonOptional(g)
    BY <1>7, SteadyMoves DEF EnterNonOptional, Steady, Types, Quiet, CallKept, payloadVars
  <1>8. CASE RejectMissing(g)
    BY <1>8, SteadyMoves DEF RejectMissing, Steady, Types, Quiet, CallKept
  <1>9. CASE EnterDefault(g)
    BY <1>9, SteadyMoves DEF EnterDefault, Steady, Types, Quiet, CallKept
  <1>10. CASE DefaultAfter(g)
    BY <1>10, SteadyMoves DEF DefaultAfter, Steady, Types, Quiet, CallKept
  <1>11. CASE EnterPrefault(g)
    BY <1>11, SteadyMoves DEF EnterPrefault, Steady, Types, Quiet, CallKept
  <1>12. CASE EnterCatch(g)
    BY <1>12, SteadyMoves DEF EnterCatch, Steady, Types, Quiet, CallKept, payloadVars
  <1>13. CASE CatchIssues(g)
    BY <1>13, SteadyMoves DEF CatchIssues, Steady, Types, Quiet, CallKept
  <1>14. CASE EnterTransform(g)
    BY <1>14, SteadyMoves DEF EnterTransform, Steady, Types, Quiet, CallKept, payloadVars
  <1>15. CASE EnterPipe(g)
    BY <1>15, SteadyMoves DEF EnterPipe, Steady, Types, Quiet, CallKept, payloadVars
  <1>16. CASE FirstFailed(g)
    BY <1>16, SteadyMoves DEF FirstFailed, Steady, Types, Quiet, CallKept
  <1>17. CASE RunSecond(g)
    BY <1>17, SteadyMoves DEF RunSecond, Steady, Types, Quiet, CallKept, payloadVars
  <1>18. CASE Convert(g)
    BY <1>18, SteadyMoves DEF Convert, Steady, Types, Quiet, CallKept
  <1>19. CASE Preprocess(g)
    BY <1>19, SteadyMoves DEF Preprocess, Steady, Types, Quiet, CallKept
  <1> QED
    BY <1>2, <1>3, <1>4, <1>5, <1>6, <1>7, <1>8, <1>9, <1>10, <1>11, <1>12, <1>13,
       <1>14, <1>15, <1>16, <1>17, <1>18, <1>19 DEF WrapperStep

\* A frame that acquires a payload and runs a schema on it.
LEMMA RunOnMoves ==
  ASSUME Types, NEW g \in Goroutine, call[g].busy, stack[g] # <<>>,
         UNCHANGED <<graph, call>>,
         NEW f, Onward(g, f), f.kids = Top(g).kids, f.pc \in HoldingPc,
         NEW n, NEW v, NEW c, NEW path,
         c = ChildCtx(g, Top(g).p) \/ c = call[g].ctx \/ (c = NoCtx /\ NodeOf(g).kind \notin Passing),
         RunOn(g, f, n, v, c, path)
  PROVE  Moves(g)
  <1>1. PICK cp \in PayloadId :
          /\ Acquire(cp, v, c, path)
          /\ Enter(g, [f EXCEPT !.kids = Append(@, cp)], n, cp)
    BY DEF RunOn
  <1>2. PICK h : h = [f EXCEPT !.kids = Append(@, cp)] /\ Enter(g, h, n, cp)
    BY <1>1
  <1>3. /\ Append(f.kids, cp) \in Seq(PayloadId)
        /\ Len(f.kids) \in Nat /\ Len(Append(f.kids, cp)) = Len(f.kids) + 1
    BY AppendProperties, LenProperties DEF Onward, IsFrame
  <1>4. Onward(g, h) /\ h.kids = Append(Top(g).kids, cp)
    <2>1. /\ h = [f EXCEPT !.kids = Append(f.kids, cp)]
          /\ f.pc = "left" => Len(f.kids) >= 1
          /\ f.pc = "right" => Len(f.kids) >= 2
      BY <1>2 DEF Onward, IsFrame
    <2>2. /\ h.pc = f.pc /\ h.p = f.p /\ h.n = f.n
          /\ h.kids = Append(f.kids, cp)
      BY <2>1 DEF Onward, IsFrame
    <2>3. h.pc = "left" => Len(h.kids) >= 1
      BY <1>3, <2>1, <2>2
    <2>4. h.pc = "right" => Len(h.kids) >= 2
      BY <1>3, <2>1, <2>2
    <2> QED
      BY <1>3, <2>1, <2>2, <2>3, <2>4 DEF Onward, IsFrame
  <1>5. Takes(g)
    BY <1>1, <1>2, <1>4 DEF Takes, Acquire
  <1>6. CallKept /\ aborted' \in [PayloadId -> BOOLEAN]
    BY <1>1 DEF CallKept, Types, Acquire
  <1> QED
    BY <1>5, <1>6 DEF Moves

\* A frame that gives back the payloads it holds.
LEMMA GivesMoves ==
  ASSUME Types, NEW g \in Goroutine, call[g].busy, stack[g] # <<>>,
         UNCHANGED <<graph, call>>,
         NEW val, NEW iss, ReleaseAll(Top(g).kids, val, iss, aborted),
         NEW f, Onward(g, f), f.kids = <<>>, Goto(g, f)
  PROVE  Moves(g)
  <1>1. /\ pool' = [p \in PayloadId |->
                      pool[p] + Cardinality({i \in DOMAIN Top(g).kids : Top(g).kids[i] = p})]
        /\ parseCtx' = Zeroed(parseCtx, Range(Top(g).kids), NoCtx)
        /\ aborted' = Zeroed(aborted, Range(Top(g).kids), FALSE)
    BY DEF ReleaseAll
  <1>2. /\ \A p \in PayloadId :
             pool'[p] = pool[p] + Cardinality({i \in DOMAIN Top(g).kids : Top(g).kids[i] = p})
        /\ pool' = [p \in PayloadId |-> pool'[p]]
    BY <1>1
  <1>3. Gives(g)
    BY <1>1, <1>2 DEF Gives
  <1>4. CallKept /\ aborted' \in [PayloadId -> BOOLEAN]
    BY <1>1 DEF CallKept, Types, Zeroed
  <1> QED
    BY <1>3, <1>4 DEF Moves

\* A container holds at most the payload of the element it runs.
LEMMA ContainerMoves ==
  ASSUME Types, NEW g \in Goroutine, ContainerStep(g)
  PROVE  Moves(g)
  <1> DEFINE top == Top(g)
  <1>0. call[g].busy /\ stack[g] # <<>> /\ IsFrame(top)
    BY TopFrame DEF ContainerStep, WrongType, EnterObject, RunField, FieldDone, EndFields,
         EnterArray, RunItem, ItemDone, EndItems, EnterTuple, RunSlot, SlotDone, Assemble, At
  <1>1. ASSUME NEW f, Onward(g, f), Goto(g, f), top.pc \notin HoldingPc, f.kids = top.kids,
               Quiet, UNCHANGED <<graph, call, aborted>>
        PROVE  Moves(g)
    BY <1>0, <1>1 DEF Moves, Goes, CallKept, Types
  <1>2. CASE WrongType(g) \/ EndFields(g) \/ EndItems(g)
    BY <1>2, SteadyMoves
       DEF WrongType, EndFields, EndItems, At, HoldingPc, Steady, Types, Quiet, CallKept
  <1>3. CASE EnterObject(g)
    <2>1. PICK f : f = [top EXCEPT !.pc = "fields", !.i = 0] /\ Goto(g, f)
      BY <1>3 DEF EnterObject
    <2>2. Onward(g, f) /\ f.kids = top.kids /\ top.pc \notin HoldingPc
      BY <1>0, <1>3, <2>1 DEF Onward, IsFrame, HoldingPc, EnterObject, At
    <2> QED
      BY <1>1, <1>3, <2>1, <2>2 DEF EnterObject, payloadVars, Quiet
  <1>4. CASE EnterArray(g)
    <2>1. PICK f : f = [top EXCEPT !.pc = "items", !.i = 1] /\ Goto(g, f)
      BY <1>4 DEF EnterArray
    <2>2. Onward(g, f) /\ f.kids = top.kids /\ top.pc \notin HoldingPc
      BY <1>0, <1>4, <2>1 DEF Onward, IsFrame, HoldingPc, EnterArray, At
    <2> QED
      BY <1>1, <1>4, <2>1, <2>2 DEF EnterArray, payloadVars, Quiet
  <1>5. CASE EnterTuple(g)
    <2>1. PICK f, pc : /\ pc \in {"parsed", "slots"}
                       /\ f = [top EXCEPT !.pc = pc, !.i = 1] /\ Goto(g, f)
      BY <1>5 DEF EnterTuple
    <2>2. Onward(g, f) /\ f.kids = top.kids /\ top.pc \notin HoldingPc
      BY <1>0, <1>5, <2>1 DEF Onward, IsFrame, HoldingPc, EnterTuple, At
    <2> QED
      BY <1>1, <1>5, <2>1, <2>2 DEF EnterTuple, Quiet
  <1>6. CASE Assemble(g)
    <2>1. PICK f : f = [top EXCEPT !.pc = "items", !.marks = <<>>] /\ Goto(g, f)
      BY <1>6 DEF Assemble
    <2>2. Onward(g, f) /\ f.kids = top.kids /\ top.pc \notin HoldingPc
      BY <1>0, <1>6, <2>1 DEF Onward, IsFrame, HoldingPc, Assemble, At
    <2> QED
      BY <1>1, <1>6, <2>1, <2>2 DEF Assemble, Quiet
  <1>7. CASE RunField(g)
    <2>1. PICK f, k, n, v : /\ f = [top EXCEPT !.pc = "field", !.i = k]
                            /\ RunChild(g, f, n, v, k)
      BY <1>7 DEF RunField
    <2>2. Onward(g, f) /\ f.kids = top.kids /\ f.pc \in HoldingPc
      BY <1>0, <1>7, <2>1 DEF Onward, IsFrame, HoldingPc, RunField, At
    <2>3. RunOn(g, f, n, v, ChildCtx(g, top.p), Append(base[top.p], k))
      BY <2>1, <2>2 DEF RunChild, Onward
    <2> QED
      BY <1>0, <1>7, <2>2, <2>3, RunOnMoves DEF RunField
  <1>8. CASE RunSlot(g)
    <2>1. PICK f, n, v, k, marks : /\ f = [top EXCEPT !.pc = "slot", !.marks = marks]
                                   /\ RunChild(g, f, n, v, k)
      BY <1>8 DEF RunSlot
    <2>2. Onward(g, f) /\ f.kids = top.kids /\ f.pc \in HoldingPc
      BY <1>0, <1>8, <2>1 DEF Onward, IsFrame, HoldingPc, RunSlot, At
    <2>3. RunOn(g, f, n, v, ChildCtx(g, top.p), Append(base[top.p], k))
      BY <2>1, <2>2 DEF RunChild, Onward
    <2> QED
      BY <1>0, <1>8, <2>2, <2>3, RunOnMoves DEF RunSlot
  <1>9. CASE RunItem(g)
    <2>1. PICK f, v : /\ f = [top EXCEPT !.pc = "item"]
                      /\ IF NodeOf(g).kind = "set"
                         THEN RunOn(g, f, NodeOf(g).rest, v, NoCtx, base[f.p])
                         ELSE RunChild(g, f, NodeOf(g).rest, v, f.i)
      BY <1>9 DEF RunItem
    <2>2. Onward(g, f) /\ f.kids = top.kids /\ f.pc \in HoldingPc
      BY <1>0, <1>9, <2>1 DEF Onward, IsFrame, HoldingPc, RunItem, At
    <2>3. CASE NodeOf(g).kind = "set"
      BY <1>0, <1>9, <2>1, <2>2, <2>3, RunOnMoves DEF RunItem, Passing
    <2>4. CASE NodeOf(g).kind # "set"
      <3>1. RunOn(g, f, NodeOf(g).rest, v, ChildCtx(g, top.p), Append(base[top.p], f.i))
        BY <2>1, <2>2, <2>4 DEF RunChild, Onward
      <3> QED
        BY <1>0, <1>9, <2>2, <3>1, RunOnMoves DEF RunItem
    <2> QED
      BY <2>3, <2>4
  <1>10. CASE FieldDone(g)
    <2>1. PICK f : f = [top EXCEPT !.pc = "fields", !.kids = <<>>] /\ Goto(g, f)
      BY <1>10 DEF FieldDone
    <2>2. Onward(g, f) /\ f.kids = <<>>
      BY <1>0, <2>1, EmptySeq DEF Onward, IsFrame
    <2>3. PICK iss : ReleaseAll(top.kids, value, iss, aborted)
      BY <1>10 DEF FieldDone
    <2> QED
      BY <1>0, <1>10, <2>1, <2>2, <2>3, GivesMoves DEF FieldDone
  <1>11. CASE ItemDone(g)
    <2>1. PICK f, k : f = [top EXCEPT !.pc = "items", !.i = k, !.kids = <<>>] /\ Goto(g, f)
      <3>1. PICK f : f = [top EXCEPT !.pc = "items", !.i = @ + 1, !.kids = <<>>] /\ Goto(g, f)
        BY <1>11 DEF ItemDone
      <3>2. f = [top EXCEPT !.pc = "items", !.i = top.i + 1, !.kids = <<>>]
        BY <3>1
      <3> QED
        BY <3>1, <3>2
    <2>2. Onward(g, f) /\ f.kids = <<>>
      BY <1>0, <2>1, EmptySeq DEF Onward, IsFrame
    <2>3. PICK iss : ReleaseAll(top.kids, value, iss, aborted)
      BY <1>11 DEF ItemDone
    <2> QED
      BY <1>0, <1>11, <2>1, <2>2, <2>3, GivesMoves DEF ItemDone
  <1>12. CASE SlotDone(g)
    <2>1. PICK f, k : f = [top EXCEPT !.pc = "slots", !.i = k, !.kids = <<>>] /\ Goto(g, f)
      <3>1. PICK f : f = [top EXCEPT !.pc = "slots", !.i = @ + 1, !.kids = <<>>] /\ Goto(g, f)
        BY <1>12 DEF SlotDone
      <3>2. f = [top EXCEPT !.pc = "slots", !.i = top.i + 1, !.kids = <<>>]
        BY <3>1
      <3> QED
        BY <3>1, <3>2
    <2>2. Onward(g, f) /\ f.kids = <<>>
      BY <1>0, <2>1, EmptySeq DEF Onward, IsFrame
    <2>3. PICK iss : ReleaseAll(top.kids, value, iss, aborted)
      BY <1>12 DEF SlotDone
    <2> QED
      BY <1>0, <1>12, <2>1, <2>2, <2>3, GivesMoves DEF SlotDone
  <1> QED
    BY <1>2, <1>3, <1>4, <1>5, <1>6, <1>7, <1>8, <1>9, <1>10, <1>11, <1>12 DEF ContainerStep

\* Records and maps acquire a payload for a key or a value and give it back.
LEMMA EntryMoves ==
  ASSUME Types, NEW g \in Goroutine, EntryStep(g)
  PROVE  Moves(g)
  <1> DEFINE top == Top(g)
  <1>0. call[g].busy /\ stack[g] # <<>> /\ IsFrame(top)
    BY TopFrame DEF EntryStep, EnterEntries, RunKey, KeyDone, RunEntry, EntryDone, EndEntries, At
  <1>1. ASSUME NEW f, Onward(g, f), Goto(g, f), top.pc \notin HoldingPc, f.kids = top.kids,
               Quiet, UNCHANGED <<graph, call, aborted>>
        PROVE  Moves(g)
    BY <1>0, <1>1 DEF Moves, Goes, CallKept, Types
  <1>2. CASE EnterEntries(g)
    <2>1. PICK f, order : f = [top EXCEPT !.pc = "keys", !.i = 1, !.marks = order] /\ Goto(g, f)
      BY <1>2 DEF EnterEntries
    <2>2. Onward(g, f) /\ f.kids = top.kids /\ top.pc \notin HoldingPc
      BY <1>0, <1>2, <2>1 DEF Onward, IsFrame, HoldingPc, EnterEntries, At
    <2> QED
      BY <1>1, <1>2, <2>1, <2>2 DEF EnterEntries, payloadVars, Quiet
  <1>3. CASE EndEntries(g)
    <2>1. PICK f : f = [top EXCEPT !.pc = "parsed", !.marks = <<>>] /\ Goto(g, f)
      BY <1>3 DEF EndEntries
    <2>2. Onward(g, f) /\ f.kids = top.kids /\ top.pc \notin HoldingPc
      BY <1>0, <1>3, <2>1 DEF Onward, IsFrame, HoldingPc, EndEntries, At
    <2> QED
      BY <1>1, <1>3, <2>1, <2>2 DEF EndEntries, Quiet
  <1>4. CASE RunKey(g)
    <2>1. PICK f, n, v, path : /\ f = [top EXCEPT !.pc = "key"]
                               /\ RunOn(g, f, n, v, call[g].ctx, path)
      BY <1>4 DEF RunKey
    <2>2. Onward(g, f) /\ f.kids = top.kids /\ f.pc \in HoldingPc
      BY <1>0, <1>4, <2>1 DEF Onward, IsFrame, HoldingPc, RunKey, At
    <2> QED
      BY <1>0, <1>4, <2>1, <2>2, RunOnMoves DEF RunKey
  <1>5. CASE RunEntry(g)
    <2>1. PICK f, n, v, k :
            /\ f = [top EXCEPT !.pc = "value"]
            /\ IF NodeOf(g).kind = "map"
               THEN RunOn(g, f, n, v, call[g].ctx, Append(base[f.p], k))
               ELSE RunChild(g, f, n, v, k)
      BY <1>5 DEF RunEntry
    <2>2. Onward(g, f) /\ f.kids = top.kids /\ f.pc \in HoldingPc
      BY <1>0, <1>5, <2>1 DEF Onward, IsFrame, HoldingPc, RunEntry, At
    <2>3. CASE NodeOf(g).kind = "map"
      BY <1>0, <1>5, <2>1, <2>2, <2>3, RunOnMoves DEF RunEntry
    <2>4. CASE NodeOf(g).kind # "map"
      <3>1. RunOn(g, f, n, v, ChildCtx(g, top.p), Append(base[top.p], k))
        BY <2>1, <2>2, <2>4 DEF RunChild, Onward
      <3> QED
        BY <1>0, <1>5, <2>2, <3>1, RunOnMoves DEF RunEntry
    <2> QED
      BY <2>3, <2>4
  <1>6. CASE KeyDone(g)
    <2>1. PICK skipped, start :
            Goto(g, [top EXCEPT !.pc = IF skipped THEN "keys" ELSE "entry", !.kids = <<>>,
                                !.i = IF skipped THEN @ + 1 ELSE @, !.start = start])
      BY <1>6 DEF KeyDone
    <2>2. PICK pc, i : /\ pc = (IF skipped THEN "keys" ELSE "entry")
                       /\ i = (IF skipped THEN top.i + 1 ELSE top.i)
      OBVIOUS
    <2>3. PICK f : f = [top EXCEPT !.pc = pc, !.kids = <<>>, !.i = i, !.start = start]
      OBVIOUS
    <2>4. Goto(g, f)
      BY <2>1, <2>2, <2>3
    <2>5. Onward(g, f) /\ f.kids = <<>>
      BY <1>0, <2>2, <2>3, EmptySeq DEF Onward, IsFrame
    <2>6. PICK iss : ReleaseAll(top.kids, value, iss, aborted)
      BY <1>6 DEF KeyDone
    <2> QED
      BY <1>0, <1>6, <2>4, <2>5, <2>6, GivesMoves DEF KeyDone
  <1>7. CASE EntryDone(g)
    <2>1. PICK f, k : f = [top EXCEPT !.pc = "keys", !.i = k, !.kids = <<>>] /\ Goto(g, f)
      <3>1. PICK f : f = [top EXCEPT !.pc = "keys", !.i = @ + 1, !.kids = <<>>] /\ Goto(g, f)
        BY <1>7 DEF EntryDone
      <3>2. f = [top EXCEPT !.pc = "keys", !.i = top.i + 1, !.kids = <<>>]
        BY <3>1
      <3> QED
        BY <3>1, <3>2
    <2>2. Onward(g, f) /\ f.kids = <<>>
      BY <1>0, <2>1, EmptySeq DEF Onward, IsFrame
    <2>3. PICK iss : ReleaseAll(top.kids, value, iss, aborted)
      BY <1>7 DEF EntryDone
    <2> QED
      BY <1>0, <1>7, <2>1, <2>2, <2>3, GivesMoves DEF EntryDone
  <1> QED
    BY <1>2, <1>3, <1>4, <1>5, <1>6, <1>7 DEF EntryStep

\* The schemas that run several schemas on copies of the value.
LEMMA UnionMoves ==
  ASSUME Types, NEW g \in Goroutine, UnionStep(g)
  PROVE  Moves(g)
  <1> DEFINE top == Top(g)
  <1>0. /\ call[g].busy /\ stack[g] # <<>> /\ IsFrame(top)
        /\ NodeOf(g).kind \notin Passing
    BY TopFrame DEF UnionStep, EnterUnion, RunOption, OptionDone, OptionsFailed, RunChoice,
         ChoiceDone, EndChoices, EnterDiscUnion, EnterIntersection, RunLeft, RunRight,
         MergeSides, At, Passing
  <1>1. ASSUME NEW f, Onward(g, f), Goto(g, f), f.kids = top.kids,
               Quiet, UNCHANGED <<graph, call, aborted>>
        PROVE  Moves(g)
    BY <1>0, <1>1 DEF Moves, Goes, CallKept, Types
  <1>2. ASSUME NEW val, NEW iss, Settle(g, val, iss), UNCHANGED <<graph, call>>
        PROVE  Moves(g)
    <2>1. PICK f : f = [top EXCEPT !.pc = "parsed", !.kids = <<>>] /\ Goto(g, f)
      BY <1>2 DEF Settle
    <2>2. Onward(g, f) /\ f.kids = <<>>
      BY <1>0, <2>1, EmptySeq DEF Onward, IsFrame
    <2>3. ReleaseAll(top.kids, val, iss, aborted)
      BY <1>2 DEF Settle
    <2> QED
      BY <1>0, <1>2, <2>1, <2>2, <2>3, GivesMoves
  <1>3. CASE EnterUnion(g)
    BY <1>0, <1>3, SteadyMoves
       DEF EnterUnion, At, HoldingPc, Steady, Types, Quiet, CallKept, payloadVars
  <1>4. CASE EnterDiscUnion(g)
    BY <1>0, <1>4, SteadyMoves
       DEF EnterDiscUnion, At, HoldingPc, Steady, Types, Quiet, CallKept
  <1>5. CASE RunOption(g)
    <2>1. PICK f, n : f = [top EXCEPT !.pc = "option"] /\ RunApart(g, f, n)
      BY <1>5 DEF RunOption
    <2>2. Onward(g, f) /\ f.kids = top.kids /\ f.pc \in HoldingPc
      BY <1>0, <2>1 DEF Onward, IsFrame, HoldingPc
    <2>3. PICK v, path : RunOn(g, f, n, v, NoCtx, path)
      BY <2>1 DEF RunApart
    <2> QED
      BY <1>0, <1>5, <2>2, <2>3, RunOnMoves DEF RunOption
  <1>6. CASE RunChoice(g)
    <2>1. PICK f, n : f = [top EXCEPT !.pc = "choice"] /\ RunApart(g, f, n)
      BY <1>6 DEF RunChoice
    <2>2. Onward(g, f) /\ f.kids = top.kids /\ f.pc \in HoldingPc
      BY <1>0, <2>1 DEF Onward, IsFrame, HoldingPc
    <2>3. PICK v, path : RunOn(g, f, n, v, NoCtx, path)
      BY <2>1 DEF RunApart
    <2> QED
      BY <1>0, <1>6, <2>2, <2>3, RunOnMoves DEF RunChoice
  <1>7. CASE OptionDone(g)
    <2>1. CASE \E val : Settle(g, val, issues)
      BY <1>2, <1>7, <2>1 DEF OptionDone
    <2>2. CASE ~\E val : Settle(g, val, issues)
      <3>1. PICK f, k : f = [top EXCEPT !.pc = "options", !.i = k] /\ Goto(g, f)
        BY <1>7, <2>2 DEF OptionDone
      <3>2. Onward(g, f) /\ f.kids = top.kids
        BY <1>0, <3>1 DEF Onward, IsFrame, HoldingPc
      <3> QED
        BY <1>1, <1>7, <2>2, <3>1, <3>2 DEF OptionDone, Quiet
    <2> QED
      BY <2>1, <2>2
  <1>8. CASE ChoiceDone(g)
    <2>1. PICK f, k : f = [top EXCEPT !.pc = "choices", !.i = k] /\ Goto(g, f)
      BY <1>8 DEF ChoiceDone
    <2>2. Onward(g, f) /\ f.kids = top.kids
      BY <1>0, <2>1 DEF Onward, IsFrame, HoldingPc
    <2> QED
      BY <1>1, <1>8, <2>1, <2>2 DEF ChoiceDone, payloadVars, Quiet
  <1>9. CASE OptionsFailed(g) \/ EndChoices(g) \/ MergeSides(g)
    BY <1>2, <1>9 DEF OptionsFailed, EndChoices, MergeSides
  <1>10. CASE EnterIntersection(g)
    <2>1. PICK cp, v, path :
            /\ cp \in PayloadId
            /\ Acquire(cp, v, NoCtx, path)
            /\ Goto(g, [top EXCEPT !.pc = "left", !.kids = <<cp>>])
      BY <1>10 DEF EnterIntersection
    <2>a. cp \in PayloadId
      BY <2>1
    <2>2. PICK kids : kids = <<cp>>
      OBVIOUS
    <2>3. PICK f : f = [top EXCEPT !.pc = "left", !.kids = kids] /\ Goto(g, f)
      BY <2>1, <2>2
    <2>4. kids \in Seq(PayloadId) /\ Len(kids) = 1 /\ Append(<<>>, cp) = kids
      BY <2>a, <2>2
    <2>5. Onward(g, f) /\ f.kids = Append(top.kids, cp)
      <3>1. top.kids = <<>>
        BY <1>0, <1>10 DEF EnterIntersection, At, IsFrame, HoldingPc
      <3>2. Len(kids) >= 1
        BY <2>4
      <3>3. IsFrame(f) /\ f.kids = kids /\ f.p = top.p /\ f.n = top.n
        BY <1>0, <2>3, <2>4, <3>2 DEF IsFrame, HoldingPc
      <3> QED
        BY <2>4, <3>1, <3>3 DEF Onward
    <2>6. Takes(g)
      BY <1>0, <2>1, <2>3, <2>5 DEF Takes, Acquire
    <2>7. CallKept /\ aborted' \in [PayloadId -> BOOLEAN]
      BY <1>10, <2>1 DEF CallKept, Types, Acquire, EnterIntersection
    <2> QED
      BY <1>0, <1>10, <2>6, <2>7 DEF Moves, EnterIntersection
  <1>11. CASE RunLeft(g)
    <2>1. PICK cp, v, path :
            /\ cp \in PayloadId
            /\ Acquire(cp, v, NoCtx, path)
            /\ Enter(g, [top EXCEPT !.pc = "right", !.kids = Append(@, cp)], Kid(g, 1), top.kids[1])
      BY <1>11 DEF RunLeft
    <2>a. cp \in PayloadId
      BY <2>1
    <2>2. PICK f : /\ f = [top EXCEPT !.pc = "right", !.kids = Append(top.kids, cp)]
                   /\ Enter(g, f, Kid(g, 1), top.kids[1])
      BY <2>1
    <2>3. top.kids \in Seq(PayloadId) /\ Len(top.kids) >= 1
      BY <1>0, <1>11 DEF RunLeft, At, IsFrame
    <2>4. top.kids[1] \in Range(top.kids)
      BY <2>3, LenProperties DEF Range
    <2>5. Append(top.kids, cp) \in Seq(PayloadId) /\ Len(Append(top.kids, cp)) >= 2
      BY <2>a, <2>3, LenProperties, AppendProperties
    <2>6. Onward(g, f) /\ f.kids = Append(top.kids, cp)
      BY <1>0, <2>2, <2>5 DEF Onward, IsFrame, HoldingPc
    <2>7. Takes(g)
      BY <1>0, <2>1, <2>2, <2>4, <2>6 DEF Takes, Acquire
    <2>8. CallKept /\ aborted' \in [PayloadId -> BOOLEAN]
      BY <1>11, <2>1 DEF CallKept, Types, Acquire, RunLeft
    <2> QED
      BY <1>0, <1>11, <2>7, <2>8 DEF Moves, RunLeft
  <1>12. CASE RunRight(g)
    <2>1. PICK f : f = [top EXCEPT !.pc = "merge"] /\ Enter(g, f, Kid(g, 2), top.kids[2])
      BY <1>12 DEF RunRight
    <2>2. Onward(g, f) /\ f.kids = top.kids
      BY <1>0, <2>1 DEF Onward, IsFrame, HoldingPc
    <2>3. top.kids \in Seq(PayloadId) /\ Len(top.kids) >= 2
      BY <1>0, <1>12 DEF RunRight, At, IsFrame
    <2>4. top.kids[2] \in Range(f.kids)
      BY <2>2, <2>3, LenProperties DEF Range
    <2>5. Runs(g)
      BY <1>0, <1>12, <2>1, <2>2, <2>4 DEF Runs, RunRight, payloadVars, Quiet
    <2> QED
      BY <1>0, <1>12, <2>5 DEF Moves, RunRight, payloadVars, CallKept, Types
  <1> QED
    BY <1>3, <1>4, <1>5, <1>6, <1>7, <1>8, <1>9, <1>10, <1>11, <1>12 DEF UnionStep

\* Every step inside a call moves the stack in one of the five ways.
LEMMA StepMoves == ASSUME Types, NEW g \in Goroutine, Step(g) PROVE Moves(g)
  BY CheckMoves, WrapperMoves, ContainerMoves, EntryMoves, UnionMoves DEF Step

-----------------------------------------------------------------------------
(* Ownership. *)

CallOwns(g, p) == call[g].busy /\ call[g].p = p
KidOwns(g, i, j, p) ==
  /\ i \in 1 .. Len(stack[g])
  /\ j \in 1 .. Len(stack[g][i].kids)
  /\ stack[g][i].kids[j] = p

\* A payload is once in the pool or has one owner, at one place.
Own ==
  /\ \A p \in PayloadId : pool[p] \in {0, 1}
  /\ \A g \in Goroutine, p \in PayloadId : CallOwns(g, p) => pool[p] = 0
  /\ \A g \in Goroutine, i, j \in Nat, p \in PayloadId : KidOwns(g, i, j, p) => pool[p] = 0
  /\ \A g, h \in Goroutine, p \in PayloadId : CallOwns(g, p) /\ CallOwns(h, p) => g = h
  /\ \A g, h \in Goroutine, i, j \in Nat, p \in PayloadId :
       CallOwns(g, p) => ~KidOwns(h, i, j, p)
  /\ \A g, h \in Goroutine, i, j, k, l \in Nat, p \in PayloadId :
       KidOwns(g, i, j, p) /\ KidOwns(h, k, l, p) => g = h /\ i = k /\ j = l
  /\ \A p \in PayloadId : pool[p] = 0 =>
       \/ \E g \in Goroutine : CallOwns(g, p)
       \/ \E g \in Goroutine, i, j \in Nat : KidOwns(g, i, j, p)

\* A step that neither acquires nor releases.
LEMMA KeepOwn ==
  ASSUME Own, UNCHANGED pool, CallKept,
         \A h \in Goroutine, i, j \in Nat, p \in PayloadId :
           KidOwns(h, i, j, p)' <=> KidOwns(h, i, j, p)
  PROVE  Own'
  <1>1. \A h \in Goroutine, p \in PayloadId : CallOwns(h, p)' <=> CallOwns(h, p)
    BY DEF CallOwns, CallKept
  <1> QED
    BY <1>1 DEF Own

\* What stays true of the owners when none is added.
LEMMA FewerOwners ==
  ASSUME Own, CallKept,
         \A h \in Goroutine, i, j \in Nat, p \in PayloadId :
           KidOwns(h, i, j, p)' => KidOwns(h, i, j, p)
  PROVE  /\ \A g \in Goroutine, p \in PayloadId : CallOwns(g, p)' <=> CallOwns(g, p)
         /\ \A g, h \in Goroutine, p \in PayloadId : CallOwns(g, p)' /\ CallOwns(h, p)' => g = h
         /\ \A g, h \in Goroutine, i, j \in Nat, p \in PayloadId :
              CallOwns(g, p)' => ~KidOwns(h, i, j, p)'
         /\ \A g, h \in Goroutine, i, j, k, l \in Nat, p \in PayloadId :
              KidOwns(g, i, j, p)' /\ KidOwns(h, k, l, p)' => g = h /\ i = k /\ j = l
  <1>1. \A h \in Goroutine, p \in PayloadId : CallOwns(h, p)' <=> CallOwns(h, p)
    BY DEF CallOwns, CallKept
  <1> QED
    BY <1>1 DEF Own

\* The step adds the owner cp, as the k-th child of the m-th frame of g.
Adds(g, m, k, cp) ==
  \A h \in Goroutine, i, j \in Nat, p \in PayloadId :
    KidOwns(h, i, j, p)' <=> KidOwns(h, i, j, p) \/ (h = g /\ i = m /\ j = k /\ p = cp)

\* A frame of g acquires cp.
LEMMA TakeOwn ==
  ASSUME Own, Types, CallKept,
         NEW cp \in PayloadId, pool[cp] = 1, pool'[cp] = 0,
         \A p \in PayloadId : p # cp => pool'[p] = pool[p],
         NEW g \in Goroutine, NEW ti \in Nat, NEW tj \in Nat, Adds(g, ti, tj, cp)
  PROVE  Own'
  <1> USE DEF Adds
  <1>1. pool[cp] = 1 /\ pool'[cp] = 0 /\ \A p \in PayloadId : p # cp => pool'[p] = pool[p]
    OBVIOUS
  <1>2. \A h \in Goroutine, i, j \in Nat : ~KidOwns(h, i, j, cp) /\ ~CallOwns(h, cp)
    BY <1>1 DEF Own
  <1>3. \A h \in Goroutine, p \in PayloadId : CallOwns(h, p)' <=> CallOwns(h, p)
    BY DEF CallOwns, CallKept
  <1>4. \A p \in PayloadId : pool'[p] \in {0, 1}
    BY <1>1 DEF Own
  <1>5. \A h \in Goroutine, p \in PayloadId : CallOwns(h, p)' => pool'[p] = 0
    BY <1>1, <1>3 DEF Own
  <1>6. \A h \in Goroutine, i, j \in Nat, p \in PayloadId : KidOwns(h, i, j, p)' => pool'[p] = 0
    BY <1>1, <1>2 DEF Own
  <1>7. \A h1, h2 \in Goroutine, i, j \in Nat, p \in PayloadId :
          CallOwns(h1, p)' => ~KidOwns(h2, i, j, p)'
    BY <1>2, <1>3 DEF Own
  <1>8. \A h1, h2 \in Goroutine, i, j, k, l \in Nat, p \in PayloadId :
          KidOwns(h1, i, j, p)' /\ KidOwns(h2, k, l, p)' => h1 = h2 /\ i = k /\ j = l
    BY <1>2 DEF Own
  <1>9. \A p \in PayloadId : pool'[p] = 0 =>
          \/ \E h \in Goroutine : CallOwns(h, p)'
          \/ \E h \in Goroutine, i, j \in Nat : KidOwns(h, i, j, p)'
    <2>1. ASSUME NEW p \in PayloadId, p # cp, pool'[p] = 0
          PROVE  \/ \E h \in Goroutine : CallOwns(h, p)'
                 \/ \E h \in Goroutine, i, j \in Nat : KidOwns(h, i, j, p)'
      BY <1>1, <1>3, <2>1 DEF Own
    <2>2. KidOwns(g, ti, tj, cp)'
      OBVIOUS
    <2> QED
      BY <2>1, <2>2
  <1>10. \A h1, h2 \in Goroutine, p \in PayloadId : CallOwns(h1, p)' /\ CallOwns(h2, p)' => h1 = h2
    BY <1>3 DEF Own
  <1> QED
    BY <1>4, <1>5, <1>6, <1>7, <1>8, <1>9, <1>10 DEF Own

\* The frame of g at t releases what it holds.
LEMMA GiveOwn ==
  ASSUME Own, Types, CallKept,
         NEW g \in Goroutine, NEW t \in Nat, t \in 1 .. Len(stack[g]),
         NEW kids \in Seq(PayloadId), kids = stack[g][t].kids,
         \A p \in PayloadId :
           pool'[p] = pool[p] + Cardinality({i \in DOMAIN kids : kids[i] = p}),
         \A h \in Goroutine, i, j \in Nat, p \in PayloadId :
           KidOwns(h, i, j, p)' <=> KidOwns(h, i, j, p) /\ ~(h = g /\ i = t)
  PROVE  Own'
  <1>1. DOMAIN kids = 1 .. Len(kids) /\ Len(kids) \in Nat /\ \A j \in DOMAIN kids : j \in Nat
    BY LenProperties
  <1>2. \A j \in Nat, p \in PayloadId :
          KidOwns(g, t, j, p) <=> j \in DOMAIN kids /\ kids[j] = p
    BY <1>1 DEF KidOwns
  <1>3. ASSUME NEW p \in PayloadId, NEW j \in Nat, KidOwns(g, t, j, p)
        PROVE  pool'[p] = 1 /\ pool[p] = 0
    <2>1. {i \in DOMAIN kids : kids[i] = p} = {j}
      <3>1. \A i \in Nat : KidOwns(g, t, i, p) => i = j
        BY <1>3 DEF Own
      <3> QED
        BY <1>1, <1>2, <1>3, <3>1
    <2>2. Cardinality({i \in DOMAIN kids : kids[i] = p}) = 1
      BY <2>1, FS_Singleton
    <2>3. pool[p] = 0
      BY <1>3 DEF Own
    <2> QED
      BY <2>2, <2>3
  <1>4. ASSUME NEW p \in PayloadId, \A j \in Nat : ~KidOwns(g, t, j, p)
        PROVE  pool'[p] = pool[p]
    <2>1. {i \in DOMAIN kids : kids[i] = p} = {}
      BY <1>1, <1>2, <1>4
    <2>2. Cardinality({i \in DOMAIN kids : kids[i] = p}) = 0
      BY <2>1, FS_EmptySet
    <2> QED
      BY <2>2 DEF Types
  <1>5. \A p \in PayloadId : pool'[p] \in {0, 1}
    BY <1>3, <1>4 DEF Own
  <1>6. \A h \in Goroutine, i, j \in Nat, p \in PayloadId :
          KidOwns(h, i, j, p)' => KidOwns(h, i, j, p)
    OBVIOUS
  <1>7. /\ \A h1 \in Goroutine, p \in PayloadId : CallOwns(h1, p)' <=> CallOwns(h1, p)
        /\ \A h1, h2 \in Goroutine, p \in PayloadId : CallOwns(h1, p)' /\ CallOwns(h2, p)' => h1 = h2
        /\ \A h1, h2 \in Goroutine, i, j \in Nat, p \in PayloadId :
             CallOwns(h1, p)' => ~KidOwns(h2, i, j, p)'
        /\ \A h1, h2 \in Goroutine, i, j, k, l \in Nat, p \in PayloadId :
             KidOwns(h1, i, j, p)' /\ KidOwns(h2, k, l, p)' => h1 = h2 /\ i = k /\ j = l
    BY <1>6, FewerOwners
  <1>11. \A h \in Goroutine, p \in PayloadId : CallOwns(h, p)' <=> CallOwns(h, p)
    BY <1>7
  <1>12. \A h \in Goroutine, i, j \in Nat, p \in PayloadId :
           KidOwns(h, i, j, p) /\ ~(h = g /\ i = t) => KidOwns(h, i, j, p)'
    OBVIOUS
  <1>8. \A h \in Goroutine, p \in PayloadId : CallOwns(h, p)' => pool'[p] = 0
    BY <1>4, <1>11 DEF Own
  <1>9. \A h \in Goroutine, i, j \in Nat, p \in PayloadId : KidOwns(h, i, j, p)' => pool'[p] = 0
    <2> SUFFICES ASSUME NEW h \in Goroutine, NEW i \in Nat, NEW j \in Nat, NEW p \in PayloadId,
                        KidOwns(h, i, j, p)'
                 PROVE  pool'[p] = 0
      OBVIOUS
    <2>1. KidOwns(h, i, j, p) /\ ~(h = g /\ i = t)
      OBVIOUS
    <2>2. \A l \in Nat : ~KidOwns(g, t, l, p)
      BY <2>1 DEF Own
    <2>3. pool'[p] = pool[p]
      BY <1>4, <2>2
    <2>4. pool[p] = 0
      BY <2>1 DEF Own
    <2> QED
      BY <2>3, <2>4
  <1>10. \A p \in PayloadId : pool'[p] = 0 =>
           \/ \E h \in Goroutine : CallOwns(h, p)'
           \/ \E h \in Goroutine, i, j \in Nat : KidOwns(h, i, j, p)'
    <2> SUFFICES ASSUME NEW p \in PayloadId, pool'[p] = 0
                 PROVE  \/ \E h \in Goroutine : CallOwns(h, p)'
                        \/ \E h \in Goroutine, i, j \in Nat : KidOwns(h, i, j, p)'
      OBVIOUS
    <2>1. \A j \in Nat : ~KidOwns(g, t, j, p)
      BY <1>3
    <2>2. pool[p] = 0
      BY <1>4, <2>1
    <2>3. \/ \E h \in Goroutine : CallOwns(h, p)
          \/ \E h \in Goroutine, i, j \in Nat : KidOwns(h, i, j, p)
      BY <2>2 DEF Own
    <2>4. CASE \E h \in Goroutine : CallOwns(h, p)
      <3>1. PICK h \in Goroutine : CallOwns(h, p)
        BY <2>4
      <3>2. CallOwns(h, p)'
        BY <1>11, <3>1
      <3> QED
        BY <3>2
    <2>5. CASE \E h \in Goroutine, i, j \in Nat : KidOwns(h, i, j, p)
      <3>1. PICK h \in Goroutine, i \in Nat, j \in Nat : KidOwns(h, i, j, p)
        BY <2>5
      <3>2. ~(h = g /\ i = t)
        BY <2>1, <3>1
      <3>3. KidOwns(h, i, j, p)'
        BY <1>12, <3>1, <3>2
      <3> QED
        BY <3>3
    <2> QED
      BY <2>3, <2>4, <2>5
  <1> QED
    BY <1>5, <1>7, <1>8, <1>9, <1>10 DEF Own

-----------------------------------------------------------------------------
(* The stacks after each move. *)

\* The stacks of the other goroutines stay.
LEMMA OtherStacks ==
  ASSUME Types, NEW g \in Goroutine, NEW s, stack' = [stack EXCEPT ![g] = s]
  PROVE  /\ stack' = [h \in Goroutine |-> stack'[h]]
         /\ \A h \in Goroutine : h # g => stack'[h] = stack[h]
         /\ stack'[g] = s
  <1>1. DOMAIN stack = Goroutine
    BY DEF Types
  <1> QED
    BY <1>1

\* The frames after Goto.
LEMMA GotoAt ==
  ASSUME Types, NEW g \in Goroutine, stack[g] # <<>>, NEW f, Goto(g, f),
         NEW t, t = Len(stack[g])
  PROVE  /\ stack' = [h \in Goroutine |-> stack'[h]]
         /\ \A h \in Goroutine : h # g => stack'[h] = stack[h]
         /\ t \in Nat /\ t >= 1 /\ Top(g) = stack[g][t]
         /\ IsSeq(stack'[g]) /\ Len(stack'[g]) = t
         /\ \A i \in 1 .. t : stack'[g][i] = IF i = t THEN f ELSE stack[g][i]
  <1> DEFINE s == Append(Front(stack[g]), f)
  <1>1. stack' = [stack EXCEPT ![g] = s]
    BY DEF Goto
  <1>2. IsSeq(stack[g])
    BY DEF Types, IsStack
  <1>3. t \in Nat /\ t >= 1
    BY <1>2, PopAt
  <1>4. IsSeq(s) /\ Len(s) = t /\ \A i \in 1 .. t : s[i] = IF i = t THEN f ELSE stack[g][i]
    BY <1>2, SwapAt
  <1> HIDE DEF s
  <1>5. /\ stack' = [h \in Goroutine |-> stack'[h]]
        /\ \A h \in Goroutine : h # g => stack'[h] = stack[h]
        /\ stack'[g] = s
    BY <1>1, OtherStacks
  <1>6. Top(g) = stack[g][t]
    BY DEF Top, Last
  <1> QED
    BY <1>3, <1>4, <1>5, <1>6

\* The frames after Enter.
LEMMA EnterAt ==
  ASSUME Types, NEW g \in Goroutine, stack[g] # <<>>, NEW f, NEW n, NEW p,
         Enter(g, f, n, p), NEW t, t = Len(stack[g])
  PROVE  /\ stack' = [h \in Goroutine |-> stack'[h]]
         /\ \A h \in Goroutine : h # g => stack'[h] = stack[h]
         /\ t \in Nat /\ t >= 1 /\ Top(g) = stack[g][t]
         /\ IsSeq(stack'[g]) /\ Len(stack'[g]) = t + 1
         /\ \A i \in 1 .. t + 1 : stack'[g][i] =
              IF i = t + 1 THEN NewFrame(n, p) ELSE IF i = t THEN f ELSE stack[g][i]
  <1> DEFINE s == Append(Front(stack[g]), f)
  <1>1. stack' = [stack EXCEPT ![g] = Append(s, NewFrame(n, p))]
    BY DEF Enter
  <1>2. IsSeq(stack[g])
    BY DEF Types, IsStack
  <1>3. t \in Nat /\ t >= 1
    BY <1>2, PopAt
  <1>4. IsSeq(s) /\ Len(s) = t /\ \A i \in 1 .. t : s[i] = IF i = t THEN f ELSE stack[g][i]
    BY <1>2, SwapAt
  <1> HIDE DEF s
  <1>5. stack'[g] = Append(s, NewFrame(n, p))
    BY <1>1, OtherStacks
  <1>6. /\ IsSeq(stack'[g]) /\ Len(stack'[g]) = t + 1
        /\ \A i \in 1 .. t + 1 : stack'[g][i] = IF i = t + 1 THEN NewFrame(n, p) ELSE s[i]
    BY <1>4, <1>5, PushAt
  <1>7. \A i \in 1 .. t + 1 : stack'[g][i] =
          IF i = t + 1 THEN NewFrame(n, p) ELSE IF i = t THEN f ELSE stack[g][i]
    BY <1>3, <1>4, <1>6
  <1> QED
    BY <1>1, <1>3, <1>6, <1>7, OtherStacks DEF Top, Last

\* The frames after Return.
LEMMA ReturnAt ==
  ASSUME Types, NEW g \in Goroutine, stack[g] # <<>>, Return(g), NEW t, t = Len(stack[g])
  PROVE  /\ stack' = [h \in Goroutine |-> stack'[h]]
         /\ \A h \in Goroutine : h # g => stack'[h] = stack[h]
         /\ t \in Nat /\ t >= 1 /\ Top(g) = stack[g][t]
         /\ IsSeq(stack'[g]) /\ Len(stack'[g]) = t - 1
         /\ \A i \in 1 .. t - 1 : stack'[g][i] = stack[g][i]
  <1> DEFINE s == Front(stack[g])
  <1>1. stack' = [stack EXCEPT ![g] = s]
    BY DEF Return
  <1>2. IsSeq(stack[g])
    BY DEF Types, IsStack
  <1>3. t \in Nat /\ t >= 1
    BY <1>2, PopAt
  <1>4. IsSeq(s) /\ Len(s) = t - 1 /\ \A i \in 1 .. t - 1 : s[i] = stack[g][i]
    BY <1>2, PopAt
  <1> HIDE DEF s
  <1>5. /\ stack' = [h \in Goroutine |-> stack'[h]]
        /\ \A h \in Goroutine : h # g => stack'[h] = stack[h]
        /\ stack'[g] = s
    BY <1>1, OtherStacks
  <1>6. Top(g) = stack[g][t]
    BY DEF Top, Last
  <1> QED
    BY <1>3, <1>4, <1>5, <1>6

\* A new frame is a frame.
LEMMA NewFrameIs ==
  ASSUME NEW n, NEW p \in PayloadId
  PROVE  IsFrame(NewFrame(n, p)) /\ NewFrame(n, p).p = p /\ NewFrame(n, p).n = n
         /\ NewFrame(n, p).kids = <<>>
  <1>1. NewFrame(n, p).kids \in Seq(PayloadId)
    BY EmptySeq DEF NewFrame
  <1> QED
    BY <1>1 DEF NewFrame, IsFrame, HoldingPc

-----------------------------------------------------------------------------
(* The frames run on payloads their call holds, and parseCtx follows them. *)

\* The i-th frame of g runs on p; its frame i hands p to the next one.
RunsOn(g, i, p) == i \in 1 .. Len(stack[g]) /\ stack[g][i].p = p
PassedTo(g, i, p) ==
  /\ i \in 1 .. Len(stack[g]) - 1
  /\ graph[stack[g][i].n].kind \in Passing
  /\ stack[g][i + 1].p = p

\* The payload of a frame is that of the call or held by a frame below it.
Chain == \A g \in Goroutine, i \in Nat, p \in PayloadId :
  RunsOn(g, i, p) => \/ CallOwns(g, p)
                     \/ \E k, j \in Nat : k < i /\ KidOwns(g, k, j, p)

Carried ==
  /\ \A g \in Goroutine, p \in PayloadId :
       CallOwns(g, p) => parseCtx[p] \in {NoCtx, call[g].ctx}
  /\ \A g \in Goroutine, i, j \in Nat, p \in PayloadId :
       KidOwns(g, i, j, p) => parseCtx[p] \in {NoCtx, call[g].ctx}
  /\ \A g \in Goroutine, i \in Nat, p \in PayloadId :
       PassedTo(g, i, p) => parseCtx[p] = call[g].ctx

Inv == Types /\ Own /\ Chain /\ Carried

\* The payload of a running frame is not in the pool.
LEMMA RunningHeld ==
  ASSUME Inv, NEW g \in Goroutine, NEW i \in Nat, NEW p \in PayloadId, RunsOn(g, i, p)
  PROVE  pool[p] = 0 /\ parseCtx[p] \in {NoCtx, call[g].ctx}
  BY DEF Inv, Chain, Own, Carried

\* What the moves of one goroutine must respect for Chain and Carried: its
\* frame t is the running one, and q the payload of a frame it may add.
RunsNext(g, t, q) == \A h \in Goroutine, i \in Nat, p \in PayloadId :
  RunsOn(h, i, p)' => \/ RunsOn(h, i, p)
                      \/ /\ h = g /\ i = t + 1 /\ p = q
                         /\ RunsOn(g, t, q) \/ \E j \in Nat : KidOwns(g, t, j, q)'
PassesNext(q) == \A h \in Goroutine, i \in Nat, p \in PayloadId :
  PassedTo(h, i, p)' => PassedTo(h, i, p) \/ (p = q /\ parseCtx'[q] = call[h].ctx)
StaysBelow(g, t) == \A h \in Goroutine, i, j \in Nat, p \in PayloadId :
  KidOwns(h, i, j, p) /\ (h # g \/ i < t) => KidOwns(h, i, j, p)'
CtxStays == \A h \in Goroutine, i \in Nat, p \in PayloadId :
  RunsOn(h, i, p) => parseCtx'[p] = parseCtx[p]
CtxFollows ==
  /\ \A h \in Goroutine, i, j \in Nat, p \in PayloadId :
       KidOwns(h, i, j, p)' => parseCtx'[p] \in {NoCtx, call[h].ctx}
  /\ \A h \in Goroutine, p \in PayloadId :
       CallOwns(h, p) => parseCtx'[p] \in {NoCtx, call[h].ctx}

LEMMA FollowOn ==
  ASSUME Inv, CallKept, NEW g \in Goroutine, NEW t \in Nat, t = Len(stack[g]),
         NEW q \in PayloadId,
         RunsNext(g, t, q), PassesNext(q), StaysBelow(g, t), CtxStays, CtxFollows
  PROVE  Chain' /\ Carried'
  <1> USE DEF RunsNext, PassesNext, StaysBelow, CtxStays, CtxFollows
  <1>1. /\ \A h \in Goroutine, p \in PayloadId : CallOwns(h, p)' <=> CallOwns(h, p)
        /\ \A h \in Goroutine : call'[h].ctx = call[h].ctx
    BY DEF CallOwns, CallKept
  <1>2. Chain'
    <2> SUFFICES ASSUME NEW h \in Goroutine, NEW i \in Nat, NEW p \in PayloadId, RunsOn(h, i, p)'
                 PROVE  \/ CallOwns(h, p)'
                        \/ \E k, j \in Nat : k < i /\ KidOwns(h, k, j, p)'
      BY DEF Chain
    <2>1. ASSUME NEW m \in Nat, RunsOn(h, m, p), m <= i
          PROVE  \/ CallOwns(h, p)'
                 \/ \E k, j \in Nat : k < i /\ KidOwns(h, k, j, p)'
      <3>1. h = g => m <= t
        BY <2>1 DEF RunsOn
      <3>2. CASE CallOwns(h, p)
        BY <1>1, <3>2
      <3>3. CASE \E k, j \in Nat : k < m /\ KidOwns(h, k, j, p)
        <4>1. PICK k \in Nat, j \in Nat : k < m /\ KidOwns(h, k, j, p)
          BY <3>3
        <4>2. k < i /\ (h # g \/ k < t)
          BY <2>1, <3>1, <4>1
        <4>3. KidOwns(h, k, j, p)'
          BY <4>1, <4>2
        <4> QED
          BY <4>2, <4>3
      <3> QED
        BY <2>1, <3>2, <3>3 DEF Inv, Chain
    <2>2. CASE RunsOn(h, i, p)
      BY <2>1, <2>2
    <2>3. CASE h = g /\ i = t + 1 /\ p = q /\ RunsOn(g, t, q)
      BY <2>1, <2>3
    <2>4. CASE h = g /\ i = t + 1 /\ p = q /\ \E j \in Nat : KidOwns(g, t, j, q)'
      BY <2>4
    <2> QED
      BY <2>2, <2>3, <2>4
  <1>3. \A h \in Goroutine, i \in Nat, p \in PayloadId : PassedTo(h, i, p) => RunsOn(h, i + 1, p)
    BY DEF PassedTo, RunsOn
  <1>4. \A h \in Goroutine, i \in Nat, p \in PayloadId :
          PassedTo(h, i, p)' => parseCtx'[p] = call[h].ctx
    BY <1>3 DEF Inv, Carried
  <1> QED
    BY <1>1, <1>2, <1>4 DEF Carried

\* What the frames run on and hold after Goto.
LEMMA GotoRuns ==
  ASSUME Types, NEW g \in Goroutine, stack[g] # <<>>, NEW f, Onward(g, f), Goto(g, f),
         UNCHANGED graph, NEW t, t = Len(stack[g])
  PROVE  /\ t \in Nat /\ t >= 1 /\ Top(g) = stack[g][t]
         /\ stack' = [h \in Goroutine |-> stack'[h]] /\ IsStack(stack'[g])
         /\ \A h \in Goroutine : h # g => stack'[h] = stack[h]
         /\ \A h \in Goroutine, i \in Nat, p \in PayloadId :
              /\ RunsOn(h, i, p)' <=> RunsOn(h, i, p)
              /\ PassedTo(h, i, p)' <=> PassedTo(h, i, p)
         /\ \A h \in Goroutine, i, j \in Nat, p \in PayloadId :
              KidOwns(h, i, j, p)' <=> IF h = g /\ i = t
                                       THEN j \in 1 .. Len(f.kids) /\ f.kids[j] = p
                                       ELSE KidOwns(h, i, j, p)
  <1>1. /\ stack' = [h \in Goroutine |-> stack'[h]]
        /\ \A h \in Goroutine : h # g => stack'[h] = stack[h]
        /\ t \in Nat /\ t >= 1 /\ Top(g) = stack[g][t]
        /\ IsSeq(stack'[g]) /\ Len(stack'[g]) = t
        /\ \A i \in 1 .. t : stack'[g][i] = IF i = t THEN f ELSE stack[g][i]
    BY GotoAt
  <1>2. IsStack(stack'[g])
    BY <1>1 DEF IsStack, Onward, Types
  <1>3. \A i \in 1 .. t : stack'[g][i].p = stack[g][i].p /\ stack'[g][i].n = stack[g][i].n
    BY <1>1 DEF Onward
  <1>4. \A h \in Goroutine, i \in Nat, p \in PayloadId : RunsOn(h, i, p)' <=> RunsOn(h, i, p)
    BY <1>1, <1>3 DEF RunsOn
  <1>5. \A h \in Goroutine, i \in Nat, p \in PayloadId : PassedTo(h, i, p)' <=> PassedTo(h, i, p)
    <2>1. ASSUME NEW h \in Goroutine, NEW i \in Nat, NEW p \in PayloadId
          PROVE  PassedTo(h, i, p)' <=> PassedTo(h, i, p)
      <3>1. CASE h # g
        BY <1>1, <3>1 DEF PassedTo
      <3>2. CASE h = g
        <4>1. i \in 1 .. t - 1 => i \in 1 .. t /\ i + 1 \in 1 .. t
          BY <1>1
        <4>2. i \in 1 .. t - 1 => /\ stack'[g][i].n = stack[g][i].n
                                 /\ stack'[g][i + 1].p = stack[g][i + 1].p
          BY <1>3, <4>1
        <4> QED
          BY <1>1, <3>2, <4>2 DEF PassedTo
      <3> QED
        BY <3>1, <3>2
    <2> QED
      BY <2>1
  <1>6. \A h \in Goroutine, i, j \in Nat, p \in PayloadId :
          KidOwns(h, i, j, p)' <=> IF h = g /\ i = t
                                   THEN j \in 1 .. Len(f.kids) /\ f.kids[j] = p
                                   ELSE KidOwns(h, i, j, p)
    <2>1. \A h \in Goroutine, i, j \in Nat, p \in PayloadId :
            h # g => (KidOwns(h, i, j, p)' <=> KidOwns(h, i, j, p))
      BY <1>1 DEF KidOwns
    <2>2. \A i, j \in Nat, p \in PayloadId :
            i # t => (KidOwns(g, i, j, p)' <=> KidOwns(g, i, j, p))
      BY <1>1 DEF KidOwns
    <2>3. t \in 1 .. Len(stack'[g]) /\ stack'[g][t] = f
      BY <1>1
    <2>4. \A j \in Nat, p \in PayloadId :
            KidOwns(g, t, j, p)' <=> j \in 1 .. Len(f.kids) /\ f.kids[j] = p
      BY <2>3 DEF KidOwns
    <2> QED
      BY <2>1, <2>2, <2>4
  <1> QED
    BY <1>1, <1>2, <1>4, <1>5, <1>6

\* What the frames run on and hold after Enter.
LEMMA EnterRuns ==
  ASSUME Types, NEW g \in Goroutine, stack[g] # <<>>, NEW f, NEW n, NEW q \in PayloadId,
         Onward(g, f), Enter(g, f, n, q), UNCHANGED graph, NEW t, t = Len(stack[g])
  PROVE  /\ t \in Nat /\ t >= 1 /\ Top(g) = stack[g][t]
         /\ stack' = [h \in Goroutine |-> stack'[h]] /\ IsStack(stack'[g])
         /\ \A h \in Goroutine : h # g => stack'[h] = stack[h]
         /\ \A h \in Goroutine, i \in Nat, p \in PayloadId :
              /\ RunsOn(h, i, p)' <=> RunsOn(h, i, p) \/ (h = g /\ i = t + 1 /\ p = q)
              /\ PassedTo(h, i, p)' <=>
                   \/ PassedTo(h, i, p)
                   \/ h = g /\ i = t /\ p = q /\ NodeOf(g).kind \in Passing
         /\ \A h \in Goroutine, i, j \in Nat, p \in PayloadId :
              KidOwns(h, i, j, p)' <=> IF h = g /\ i = t
                                       THEN j \in 1 .. Len(f.kids) /\ f.kids[j] = p
                                       ELSE KidOwns(h, i, j, p)
  <1>1. /\ stack' = [h \in Goroutine |-> stack'[h]]
        /\ \A h \in Goroutine : h # g => stack'[h] = stack[h]
        /\ t \in Nat /\ t >= 1 /\ Top(g) = stack[g][t]
        /\ IsSeq(stack'[g]) /\ Len(stack'[g]) = t + 1
        /\ \A i \in 1 .. t + 1 : stack'[g][i] =
             IF i = t + 1 THEN NewFrame(n, q) ELSE IF i = t THEN f ELSE stack[g][i]
    BY EnterAt
  <1>2. /\ IsFrame(NewFrame(n, q)) /\ NewFrame(n, q).p = q
        /\ NewFrame(n, q).kids = <<>>
    BY NewFrameIs
  <1>3. IsStack(stack'[g])
    BY <1>1, <1>2 DEF IsStack, Onward, Types
  <1>4. /\ \A i \in 1 .. t : stack'[g][i].p = stack[g][i].p /\ stack'[g][i].n = stack[g][i].n
        /\ stack'[g][t + 1].p = q
    BY <1>1, <1>2 DEF Onward
  <1>5. \A h \in Goroutine, i \in Nat, p \in PayloadId :
          RunsOn(h, i, p)' <=> RunsOn(h, i, p) \/ (h = g /\ i = t + 1 /\ p = q)
    BY <1>1, <1>4 DEF RunsOn
  <1>6. \A h \in Goroutine, i \in Nat, p \in PayloadId :
          PassedTo(h, i, p)' <=> \/ PassedTo(h, i, p)
                                 \/ h = g /\ i = t /\ p = q /\ NodeOf(g).kind \in Passing
    <2> SUFFICES ASSUME NEW h \in Goroutine, NEW i \in Nat, NEW p \in PayloadId
                 PROVE  PassedTo(h, i, p)' <=>
                          \/ PassedTo(h, i, p)
                          \/ h = g /\ i = t /\ p = q /\ NodeOf(g).kind \in Passing
      OBVIOUS
    <2>1. CASE h # g
      BY <1>1, <2>1 DEF PassedTo
    <2>2. CASE h = g /\ i # t
      <3>1. i \in 1 .. Len(stack'[g]) - 1 <=> i \in 1 .. t - 1
        BY <1>1, <2>2
      <3>2. i \in 1 .. t - 1 => /\ stack'[g][i].n = stack[g][i].n
                               /\ stack'[g][i + 1].p = stack[g][i + 1].p
        <4>1. i \in 1 .. t - 1 => i \in 1 .. t /\ i + 1 \in 1 .. t
          BY <1>1
        <4> QED
          BY <1>4, <4>1
      <3> QED
        BY <2>2, <3>1, <3>2 DEF PassedTo
    <2>3. CASE h = g /\ i = t
      BY <1>1, <1>4, <2>3 DEF PassedTo, NodeOf
    <2> QED
      BY <2>1, <2>2, <2>3
  <1>7. \A h \in Goroutine, i, j \in Nat, p \in PayloadId :
          KidOwns(h, i, j, p)' <=> IF h = g /\ i = t
                                   THEN j \in 1 .. Len(f.kids) /\ f.kids[j] = p
                                   ELSE KidOwns(h, i, j, p)
    <2> SUFFICES ASSUME NEW h \in Goroutine, NEW i \in Nat, NEW j \in Nat, NEW p \in PayloadId
                 PROVE  KidOwns(h, i, j, p)' <=> IF h = g /\ i = t
                                   THEN j \in 1 .. Len(f.kids) /\ f.kids[j] = p
                                   ELSE KidOwns(h, i, j, p)
      OBVIOUS
    <2>1. CASE h # g
      BY <1>1, <2>1 DEF KidOwns
    <2>2. CASE h = g /\ i \in 1 .. t
      <3>1. /\ i \in 1 .. Len(stack[g]) /\ i \in 1 .. Len(stack'[g])
            /\ stack'[g][i] = IF i = t THEN f ELSE stack[g][i]
        BY <1>1, <2>2
      <3>2. KidOwns(h, i, j, p)' <=>
              j \in 1 .. Len(stack'[g][i].kids) /\ stack'[g][i].kids[j] = p
        BY <2>2, <3>1 DEF KidOwns
      <3>3. KidOwns(h, i, j, p) <=>
              j \in 1 .. Len(stack[g][i].kids) /\ stack[g][i].kids[j] = p
        BY <2>2, <3>1 DEF KidOwns
      <3>4. CASE i = t
        BY <2>2, <3>1, <3>2, <3>4
      <3>5. CASE i # t
        BY <2>2, <3>1, <3>2, <3>3, <3>5
      <3> QED
        BY <3>4, <3>5
    <2>3. CASE h = g /\ i = t + 1
      <3>1. Len(stack'[g][t + 1].kids) = 0
        BY <1>1, <1>2, EmptySeq
      <3> QED
        BY <1>1, <2>3, <3>1 DEF KidOwns
    <2>4. CASE h = g /\ i \notin 1 .. t + 1
      BY <1>1, <2>4 DEF KidOwns
    <2> QED
      BY <1>1, <2>1, <2>2, <2>3, <2>4
  <1> QED
    BY <1>1, <1>3, <1>5, <1>6, <1>7

\* What the frames run on and hold after Return.
LEMMA ReturnRuns ==
  ASSUME Types, NEW g \in Goroutine, stack[g] # <<>>, Top(g).kids = <<>>, Return(g),
         UNCHANGED graph, NEW t, t = Len(stack[g])
  PROVE  /\ t \in Nat /\ t >= 1
         /\ stack' = [h \in Goroutine |-> stack'[h]] /\ IsStack(stack'[g])
         /\ \A h \in Goroutine : h # g => stack'[h] = stack[h]
         /\ \A h \in Goroutine, i \in Nat, p \in PayloadId :
              /\ RunsOn(h, i, p)' => RunsOn(h, i, p)
              /\ PassedTo(h, i, p)' => PassedTo(h, i, p)
         /\ \A h \in Goroutine, i, j \in Nat, p \in PayloadId :
              KidOwns(h, i, j, p)' <=> KidOwns(h, i, j, p)
  <1>1. /\ stack' = [h \in Goroutine |-> stack'[h]]
        /\ \A h \in Goroutine : h # g => stack'[h] = stack[h]
        /\ t \in Nat /\ t >= 1 /\ Top(g) = stack[g][t]
        /\ IsSeq(stack'[g]) /\ Len(stack'[g]) = t - 1
        /\ \A i \in 1 .. t - 1 : stack'[g][i] = stack[g][i]
    BY ReturnAt
  <1>2. IsStack(stack'[g])
    BY <1>1 DEF IsStack, Types
  <1>3. \A h \in Goroutine, i \in Nat, p \in PayloadId : RunsOn(h, i, p)' => RunsOn(h, i, p)
    BY <1>1 DEF RunsOn
  <1>4. \A h \in Goroutine, i \in Nat, p \in PayloadId : PassedTo(h, i, p)' => PassedTo(h, i, p)
    <2> SUFFICES ASSUME NEW h \in Goroutine, NEW i \in Nat, NEW p \in PayloadId, PassedTo(h, i, p)'
                 PROVE  PassedTo(h, i, p)
      OBVIOUS
    <2>1. CASE h # g
      BY <1>1, <2>1 DEF PassedTo
    <2>2. CASE h = g
      <3>1. i \in 1 .. t - 1 - 1
        BY <1>1, <2>2 DEF PassedTo
      <3>2. i \in 1 .. t - 1 /\ i + 1 \in 1 .. t - 1
        BY <1>1, <3>1
      <3>3. stack'[g][i] = stack[g][i] /\ stack'[g][i + 1] = stack[g][i + 1]
        BY <1>1, <3>2
      <3> QED
        BY <2>2, <3>2, <3>3 DEF PassedTo
    <2> QED
      BY <2>1, <2>2
  <1>5. Len(stack[g][t].kids) = 0
    BY <1>1, EmptySeq
  <1>6. \A h \in Goroutine, i, j \in Nat, p \in PayloadId :
          KidOwns(h, i, j, p)' <=> KidOwns(h, i, j, p)
    <2>1. \A h \in Goroutine, i, j \in Nat, p \in PayloadId :
            h # g => (KidOwns(h, i, j, p)' <=> KidOwns(h, i, j, p))
      BY <1>1 DEF KidOwns
    <2>2. ASSUME NEW i \in Nat, NEW j \in Nat, NEW p \in PayloadId
          PROVE  KidOwns(g, i, j, p)' <=> KidOwns(g, i, j, p)
      <3>1. CASE i = t
        <4>1. ~(i \in 1 .. Len(stack'[g])) /\ ~(j \in 1 .. Len(stack[g][i].kids))
          BY <1>1, <1>5, <3>1
        <4> QED
          BY <4>1 DEF KidOwns
      <3>2. CASE i # t
        BY <1>1, <3>2 DEF KidOwns
      <3> QED
        BY <3>1, <3>2
    <2> QED
      BY <2>1, <2>2
  <1> QED
    BY <1>1, <1>2, <1>3, <1>4, <1>6

-----------------------------------------------------------------------------
(* Each move keeps the invariant. *)

\* The part every move has in common.
LEMMA TypesKept ==
  ASSUME Types, NEW g \in Goroutine, call[g].busy, CallKept,
         aborted' \in [PayloadId -> BOOLEAN],
         parseCtx' \in [PayloadId -> Goroutine \cup {NoCtx}], pool' \in [PayloadId -> Nat],
         stack' = [h \in Goroutine |-> stack'[h]], IsStack(stack'[g]),
         \A h \in Goroutine : h # g => stack'[h] = stack[h]
  PROVE  Types'
  <1>1. \A h \in Goroutine : IsStack(stack'[h])
    BY DEF Types
  <1>2. \A h \in Goroutine : ~call'[h].busy => stack'[h] = <<>>
    BY DEF Types, CallKept
  <1> QED
    BY <1>1, <1>2 DEF Types, CallKept, IsStack, IsSeq

\* The ParseCtx of the payloads that stay where they are.
LEMMA CtxKept ==
  ASSUME Inv, UNCHANGED parseCtx
  PROVE  /\ \A h \in Goroutine, i \in Nat, p \in PayloadId :
              RunsOn(h, i, p) => parseCtx'[p] = parseCtx[p]
         /\ \A h \in Goroutine, i, j \in Nat, p \in PayloadId :
              KidOwns(h, i, j, p) => parseCtx'[p] \in {NoCtx, call[h].ctx}
         /\ \A h \in Goroutine, p \in PayloadId :
              CallOwns(h, p) => parseCtx'[p] \in {NoCtx, call[h].ctx}
  BY DEF Inv, Carried

\* A frame goes on with what it holds.
LEMMA GoesInv ==
  ASSUME Inv, NEW g \in Goroutine, Moves(g), Goes(g)
  PROVE  Inv'
  <1>1. PICK f : Onward(g, f) /\ f.kids = Top(g).kids /\ Goto(g, f)
    BY DEF Goes
  <1>2. PICK t : t = Len(stack[g])
    OBVIOUS
  <1>3. Types /\ Own /\ stack[g] # <<>> /\ call[g].busy /\ CallKept /\ UNCHANGED graph
        /\ aborted' \in [PayloadId -> BOOLEAN] /\ Quiet
    BY DEF Inv, Moves, Goes
  <1>4. /\ t \in Nat /\ t >= 1 /\ Top(g) = stack[g][t]
        /\ stack' = [h \in Goroutine |-> stack'[h]] /\ IsStack(stack'[g])
        /\ \A h \in Goroutine : h # g => stack'[h] = stack[h]
        /\ \A h \in Goroutine, i \in Nat, p \in PayloadId :
             /\ RunsOn(h, i, p)' <=> RunsOn(h, i, p)
             /\ PassedTo(h, i, p)' <=> PassedTo(h, i, p)
        /\ \A h \in Goroutine, i, j \in Nat, p \in PayloadId :
             KidOwns(h, i, j, p)' <=> IF h = g /\ i = t
                                      THEN j \in 1 .. Len(f.kids) /\ f.kids[j] = p
                                      ELSE KidOwns(h, i, j, p)
    BY <1>1, <1>2, <1>3, GotoRuns
  <1>5. \A h \in Goroutine, i, j \in Nat, p \in PayloadId :
          KidOwns(h, i, j, p)' <=> KidOwns(h, i, j, p)
    <2>1. t \in 1 .. Len(stack[g]) /\ stack[g][t].kids = f.kids
      BY <1>1, <1>2, <1>4
    <2>2. \A j \in Nat, p \in PayloadId :
            KidOwns(g, t, j, p) <=> j \in 1 .. Len(f.kids) /\ f.kids[j] = p
      BY <2>1 DEF KidOwns
    <2> QED
      BY <1>4, <2>2
  <1>6. Types'
    BY <1>3, <1>4, TypesKept DEF Quiet, Types
  <1>7. Own'
    BY <1>3, <1>5, KeepOwn DEF Quiet
  <1>8. Chain' /\ Carried'
    <2>1. PICK q \in PayloadId : TRUE
      BY <1>1 DEF Onward, IsFrame
    <2>2. RunsNext(g, t, q) /\ PassesNext(q)
      BY <1>4 DEF RunsNext, PassesNext
    <2>3. StaysBelow(g, t)
      BY <1>5 DEF StaysBelow
    <2>4. CtxStays /\ CtxFollows
      BY <1>3, <1>5, CtxKept DEF Quiet, CtxStays, CtxFollows
    <2> QED
      BY <1>2, <1>3, <1>4, <2>1, <2>2, <2>3, <2>4, FollowOn
  <1> QED
    BY <1>6, <1>7, <1>8 DEF Inv

\* A frame that holds nothing is left.
LEMMA PopsInv ==
  ASSUME Inv, NEW g \in Goroutine, Moves(g), Pops(g)
  PROVE  Inv'
  <1>2. PICK t : t = Len(stack[g])
    OBVIOUS
  <1>3. Types /\ Own /\ stack[g] # <<>> /\ call[g].busy /\ CallKept /\ UNCHANGED graph
        /\ aborted' \in [PayloadId -> BOOLEAN] /\ Quiet
    BY DEF Inv, Moves, Pops
  <1>4. /\ t \in Nat /\ t >= 1
        /\ stack' = [h \in Goroutine |-> stack'[h]] /\ IsStack(stack'[g])
        /\ \A h \in Goroutine : h # g => stack'[h] = stack[h]
        /\ \A h \in Goroutine, i \in Nat, p \in PayloadId :
             /\ RunsOn(h, i, p)' => RunsOn(h, i, p)
             /\ PassedTo(h, i, p)' => PassedTo(h, i, p)
        /\ \A h \in Goroutine, i, j \in Nat, p \in PayloadId :
             KidOwns(h, i, j, p)' <=> KidOwns(h, i, j, p)
    BY <1>2, <1>3, ReturnRuns DEF Pops
  <1>6. Types'
    BY <1>3, <1>4, TypesKept DEF Quiet, Types
  <1>7. Own'
    BY <1>3, <1>4, KeepOwn DEF Quiet
  <1>8. Chain' /\ Carried'
    <2>1. PICK q \in PayloadId : TRUE
      BY <1>3, TopFrame DEF IsFrame
    <2>2. RunsNext(g, t, q) /\ PassesNext(q)
      BY <1>4 DEF RunsNext, PassesNext
    <2>3. StaysBelow(g, t)
      BY <1>4 DEF StaysBelow
    <2>4. CtxStays /\ CtxFollows
      BY <1>3, <1>4, CtxKept DEF Quiet, CtxStays, CtxFollows
    <2> QED
      BY <1>2, <1>3, <1>4, <2>1, <2>2, <2>3, <2>4, FollowOn
  <1> QED
    BY <1>6, <1>7, <1>8 DEF Inv

\* A frame runs an inner schema on its own payload or on one it holds.
LEMMA RunsInv ==
  ASSUME Inv, NEW g \in Goroutine, Moves(g), Runs(g)
  PROVE  Inv'
  <1>1. PICK f, n, q : /\ Onward(g, f) /\ f.kids = Top(g).kids
                       /\ q \in {f.p} \cup Range(f.kids)
                       /\ Enter(g, f, n, q)
    BY DEF Runs
  <1>2. PICK t : t = Len(stack[g])
    OBVIOUS
  <1>3. Types /\ Own /\ stack[g] # <<>> /\ call[g].busy /\ CallKept /\ UNCHANGED graph
        /\ aborted' \in [PayloadId -> BOOLEAN] /\ Quiet /\ NodeOf(g).kind \notin Passing
    BY DEF Inv, Moves, Runs
  <1>0. f.p \in PayloadId /\ DOMAIN f.kids = 1 .. Len(f.kids) /\ Len(f.kids) \in Nat
        /\ f.kids \in Seq(PayloadId)
    BY <1>1, LenProperties DEF Onward, IsFrame
  <1>10. q \in PayloadId
    BY <1>0, <1>1, ElementOfSeq DEF Range
  <1>4. /\ t \in Nat /\ t >= 1 /\ Top(g) = stack[g][t]
        /\ stack' = [h \in Goroutine |-> stack'[h]] /\ IsStack(stack'[g])
        /\ \A h \in Goroutine : h # g => stack'[h] = stack[h]
        /\ \A h \in Goroutine, i \in Nat, p \in PayloadId :
             /\ RunsOn(h, i, p)' <=> RunsOn(h, i, p) \/ (h = g /\ i = t + 1 /\ p = q)
             /\ PassedTo(h, i, p)' <=>
                  \/ PassedTo(h, i, p)
                  \/ h = g /\ i = t /\ p = q /\ NodeOf(g).kind \in Passing
        /\ \A h \in Goroutine, i, j \in Nat, p \in PayloadId :
             KidOwns(h, i, j, p)' <=> IF h = g /\ i = t
                                      THEN j \in 1 .. Len(f.kids) /\ f.kids[j] = p
                                      ELSE KidOwns(h, i, j, p)
    BY <1>1, <1>2, <1>3, <1>10, EnterRuns
  <1>5. /\ \A h \in Goroutine, i, j \in Nat, p \in PayloadId :
             KidOwns(h, i, j, p)' <=> KidOwns(h, i, j, p)
        /\ RunsOn(g, t, q) \/ \E j \in Nat : KidOwns(g, t, j, q)
    <2>1. t \in 1 .. Len(stack[g]) /\ stack[g][t].kids = f.kids /\ stack[g][t].p = f.p
      BY <1>1, <1>2, <1>4 DEF Onward
    <2>2. \A j \in Nat, p \in PayloadId :
            KidOwns(g, t, j, p) <=> j \in 1 .. Len(f.kids) /\ f.kids[j] = p
      BY <2>1 DEF KidOwns
    <2>3. RunsOn(g, t, q) \/ \E j \in Nat : KidOwns(g, t, j, q)
      <3>1. CASE q = f.p
        BY <2>1, <3>1 DEF RunsOn
      <3>2. CASE q \in Range(f.kids)
        BY <1>0, <1>10, <2>2, <3>2 DEF Range
      <3> QED
        BY <1>1, <3>1, <3>2
    <2> QED
      BY <1>4, <2>2, <2>3
  <1>6. Types'
    BY <1>3, <1>4, TypesKept DEF Quiet, Types
  <1>7. Own'
    BY <1>3, <1>5, KeepOwn DEF Quiet
  <1>8. Chain' /\ Carried'
    <2>1. RunsNext(g, t, q)
      BY <1>4, <1>5 DEF RunsNext
    <2>2. PassesNext(q)
      BY <1>3, <1>4 DEF PassesNext
    <2>3. StaysBelow(g, t)
      BY <1>5 DEF StaysBelow
    <2>4. CtxStays /\ CtxFollows
      BY <1>3, <1>5, CtxKept DEF Quiet, CtxStays, CtxFollows
    <2> QED
      BY <1>2, <1>3, <1>4, <1>10, <2>1, <2>2, <2>3, <2>4, FollowOn
  <1> QED
    BY <1>6, <1>7, <1>8 DEF Inv

\* A frame acquires a payload, and may run a schema on it or on another it holds.
LEMMA TakesInv ==
  ASSUME Inv, NEW g \in Goroutine, Moves(g), Takes(g)
  PROVE  Inv'
  <1>1. PICK f, n, cp, q, c :
          /\ cp \in PayloadId /\ pool[cp] > 0
          /\ pool' = [pool EXCEPT ![cp] = @ - 1]
          /\ parseCtx' = [parseCtx EXCEPT ![cp] = c]
          /\ c = ChildCtx(g, Top(g).p) \/ c = call[g].ctx \/ (c = NoCtx /\ NodeOf(g).kind \notin Passing)
          /\ Onward(g, f) /\ f.kids = Append(Top(g).kids, cp)
          /\ \/ NodeOf(g).kind \notin Passing /\ Goto(g, f)
             \/ Enter(g, f, n, cp)
             \/ NodeOf(g).kind \notin Passing /\ q \in Range(Top(g).kids) /\ Enter(g, f, n, q)
    BY DEF Takes
  <1>2. PICK t : t = Len(stack[g])
    OBVIOUS
  <1>3. Types /\ Own /\ stack[g] # <<>> /\ call[g].busy /\ CallKept /\ UNCHANGED graph
        /\ aborted' \in [PayloadId -> BOOLEAN]
    BY DEF Inv, Moves
  <1>4. t \in Nat /\ t >= 1 /\ t \in 1 .. Len(stack[g]) /\ Top(g) = stack[g][t] /\ IsFrame(Top(g))
    <2>1. IsSeq(stack[g])
      BY <1>3 DEF Types, IsStack
    <2>2. Len(stack[g]) \in Nat /\ Len(stack[g]) >= 1
      BY <1>3, <2>1, PopAt
    <2> QED
      BY <1>2, <1>3, <2>2, TopFrame DEF Top, Last
  <1> DEFINE kids == Top(g).kids
             next == Len(kids) + 1
  <1>5. /\ kids \in Seq(PayloadId) /\ Len(kids) \in Nat /\ DOMAIN kids = 1 .. Len(kids)
        /\ \A j \in 1 .. Len(kids) : kids[j] \in PayloadId
        /\ Len(f.kids) = next
        /\ \A j \in 1 .. next : f.kids[j] = IF j = next THEN cp ELSE kids[j]
    <2>1. kids \in Seq(PayloadId)
      BY <1>4 DEF IsFrame
    <2> HIDE DEF kids
    <2>2. Len(kids) \in Nat /\ DOMAIN kids = 1 .. Len(kids)
          /\ \A j \in 1 .. Len(kids) : kids[j] \in PayloadId
      BY <2>1, LenProperties, ElementOfSeq
    <2>3. f.kids = Append(kids, cp)
      BY <1>1 DEF kids
    <2>4. Len(Append(kids, cp)) = Len(kids) + 1
          /\ \A j \in 1 .. Len(kids) + 1 :
               Append(kids, cp)[j] = IF j = Len(kids) + 1 THEN cp ELSE kids[j]
      BY <1>1, <2>1, AppendAt
    <2> QED
      BY <2>1, <2>2, <2>3, <2>4
  <1>6. \A j \in Nat, p \in PayloadId :
          /\ KidOwns(g, t, j, p) <=> j \in 1 .. Len(kids) /\ kids[j] = p
          /\ j \in 1 .. Len(f.kids) /\ f.kids[j] = p <=>
               KidOwns(g, t, j, p) \/ (j = next /\ p = cp)
    <2>1. \A j \in Nat, p \in PayloadId :
            KidOwns(g, t, j, p) <=> j \in 1 .. Len(kids) /\ kids[j] = p
      BY <1>4 DEF KidOwns
    <2> HIDE DEF kids
    <2>2. \A j \in Nat : j \in 1 .. next <=> j \in 1 .. Len(kids) \/ j = next
      BY <1>5
    <2>3. \A j \in Nat : j \in 1 .. Len(kids) => j # next
      BY <1>5
    <2> QED
      BY <1>5, <2>1, <2>2, <2>3
  <1>7. q \in Range(kids) => q \in PayloadId /\ \E j \in Nat : KidOwns(g, t, j, q)
    <2> HIDE DEF kids
    <2> SUFFICES ASSUME q \in Range(kids)
                 PROVE  q \in PayloadId /\ \E j \in Nat : KidOwns(g, t, j, q)
      OBVIOUS
    <2>1. PICK j \in 1 .. Len(kids) : kids[j] = q
      BY <1>5 DEF Range
    <2> QED
      BY <1>5, <1>6, <2>1
  <1> HIDE DEF kids, next
  <1>8. /\ stack' = [h \in Goroutine |-> stack'[h]] /\ IsStack(stack'[g])
        /\ \A h \in Goroutine : h # g => stack'[h] = stack[h]
        /\ \A h \in Goroutine, i, j \in Nat, p \in PayloadId :
             KidOwns(h, i, j, p)' <=> \/ KidOwns(h, i, j, p)
                                      \/ h = g /\ i = t /\ j = next /\ p = cp
    <2>1. /\ stack' = [h \in Goroutine |-> stack'[h]] /\ IsStack(stack'[g])
          /\ \A h \in Goroutine : h # g => stack'[h] = stack[h]
          /\ \A h \in Goroutine, i, j \in Nat, p \in PayloadId :
               KidOwns(h, i, j, p)' <=> IF h = g /\ i = t
                                        THEN j \in 1 .. Len(f.kids) /\ f.kids[j] = p
                                        ELSE KidOwns(h, i, j, p)
      <3>0. Onward(g, f) /\ cp \in PayloadId
        BY <1>1
      <3>1. CASE Goto(g, f)
        BY <1>2, <1>3, <3>0, <3>1, GotoRuns
      <3>2. CASE Enter(g, f, n, cp)
        BY <1>2, <1>3, <3>0, <3>2, EnterRuns
      <3>3. CASE q \in Range(Top(g).kids) /\ Enter(g, f, n, q)
        <4>1. q \in PayloadId
          BY <1>7, <3>3 DEF kids
        <4> QED
          BY <1>2, <1>3, <3>0, <3>3, <4>1, EnterRuns
      <3> QED
        BY <1>1, <3>1, <3>2, <3>3
    <2>2. ASSUME NEW h \in Goroutine, NEW i \in Nat, NEW j \in Nat, NEW p \in PayloadId
          PROVE  KidOwns(h, i, j, p)' <=> \/ KidOwns(h, i, j, p)
                                          \/ h = g /\ i = t /\ j = next /\ p = cp
      <3>1. KidOwns(h, i, j, p)' <=> IF h = g /\ i = t
                                     THEN j \in 1 .. Len(f.kids) /\ f.kids[j] = p
                                     ELSE KidOwns(h, i, j, p)
        BY <2>1
      <3>2. CASE h = g /\ i = t
        <4>1. j \in 1 .. Len(f.kids) /\ f.kids[j] = p <=>
                KidOwns(g, t, j, p) \/ (j = next /\ p = cp)
          BY <1>6
        <4> QED
          BY <3>1, <3>2, <4>1
      <3>3. CASE ~(h = g /\ i = t)
        BY <3>1, <3>3
      <3> QED
        BY <3>2, <3>3
    <2>3. /\ stack' = [h \in Goroutine |-> stack'[h]] /\ IsStack(stack'[g])
          /\ \A h \in Goroutine : h # g => stack'[h] = stack[h]
      BY <2>1
    <2> QED
      BY <2>2, <2>3
  <1>9. c \in {NoCtx, call[g].ctx} /\ c \in Goroutine \cup {NoCtx}
        /\ (NodeOf(g).kind \in Passing => c = call[g].ctx)
    <2>1. Top(g).p \in PayloadId /\ RunsOn(g, t, Top(g).p)
      BY <1>2, <1>4 DEF IsFrame, RunsOn
    <2>2. PICK p \in PayloadId : p = Top(g).p /\ RunsOn(g, t, p)
      BY <2>1
    <2>3. parseCtx[p] \in {NoCtx, call[g].ctx}
      BY <1>4, <2>2, RunningHeld
    <2>4. ChildCtx(g, p) = call[g].ctx
      BY <2>3 DEF ChildCtx
    <2>5. call[g].ctx \in Goroutine \cup {NoCtx}
      BY <1>3 DEF Types, CallRecord
    <2> QED
      BY <1>1, <2>2, <2>4, <2>5
  <1>10. parseCtx'[cp] = c /\ \A p \in PayloadId : p # cp => parseCtx'[p] = parseCtx[p]
    BY <1>1, <1>3 DEF Types
  <1>11. /\ cp \in PayloadId /\ pool[cp] = 1 /\ pool'[cp] = 0
         /\ \A p \in PayloadId : p # cp => pool'[p] = pool[p]
    BY <1>1, <1>3 DEF Types, Own
  <1>12. Types'
    <2>1. pool' \in [PayloadId -> Nat] /\ parseCtx' \in [PayloadId -> Goroutine \cup {NoCtx}]
      BY <1>1, <1>3, <1>9 DEF Types
    <2> QED
      BY <1>3, <1>8, <2>1, TypesKept
  <1>13. Own'
    <2>1. next \in Nat
      BY <1>5 DEF next
    <2>2. Adds(g, t, next, cp)
      BY <1>8 DEF Adds
    <2>3. t \in Nat
      BY <1>4
    <2> QED
      BY <1>3, <1>11, <2>1, <2>2, <2>3, TakeOwn
  <1>14. CtxStays /\ CtxFollows
    <2>1. \A h \in Goroutine, i \in Nat, p \in PayloadId : RunsOn(h, i, p) => p # cp
      BY <1>1, RunningHeld
    <2>2. \A h \in Goroutine, i, j \in Nat, p \in PayloadId :
            KidOwns(h, i, j, p) \/ CallOwns(h, p) => p # cp
      BY <1>3, <1>11 DEF Own
    <2>3. CtxStays
      BY <1>10, <2>1 DEF CtxStays
    <2>4. \A h \in Goroutine, i, j \in Nat, p \in PayloadId :
            KidOwns(h, i, j, p)' => parseCtx'[p] \in {NoCtx, call[h].ctx}
      <3> SUFFICES ASSUME NEW h \in Goroutine, NEW i \in Nat, NEW j \in Nat, NEW p \in PayloadId,
                          KidOwns(h, i, j, p)'
                   PROVE  parseCtx'[p] \in {NoCtx, call[h].ctx}
        OBVIOUS
      <3>1. CASE KidOwns(h, i, j, p)
        <4>1. parseCtx[p] \in {NoCtx, call[h].ctx}
          BY <3>1 DEF Inv, Carried
        <4> QED
          BY <1>10, <2>2, <3>1, <4>1
      <3>2. CASE h = g /\ p = cp
        BY <1>9, <1>10, <3>2
      <3> QED
        BY <1>8, <3>1, <3>2
    <2>5. \A h \in Goroutine, p \in PayloadId :
            CallOwns(h, p) => parseCtx'[p] \in {NoCtx, call[h].ctx}
      <3>1. \A h \in Goroutine, p \in PayloadId :
              CallOwns(h, p) => parseCtx[p] \in {NoCtx, call[h].ctx}
        BY DEF Inv, Carried
      <3> QED
        BY <1>10, <2>2, <3>1
    <2> QED
      BY <2>3, <2>4, <2>5 DEF CtxFollows
  <1>15. CASE NodeOf(g).kind \notin Passing /\ Goto(g, f)
    <2>1. \A h \in Goroutine, i \in Nat, p \in PayloadId :
            /\ RunsOn(h, i, p)' <=> RunsOn(h, i, p)
            /\ PassedTo(h, i, p)' <=> PassedTo(h, i, p)
      BY <1>1, <1>2, <1>3, <1>15, GotoRuns
    <2>2. Chain' /\ Carried'
      <3>1. StaysBelow(g, t)
        BY <1>8 DEF StaysBelow
      <3>2. cp \in PayloadId /\ t \in Nat
        BY <1>4, <1>11
      <3>3. RunsNext(g, t, cp) /\ PassesNext(cp)
        BY <2>1 DEF RunsNext, PassesNext
      <3> QED
        BY <1>2, <1>3, <1>14, <3>1, <3>2, <3>3, FollowOn
    <2> QED
      BY <1>12, <1>13, <2>2 DEF Inv
  <1>16. CASE Enter(g, f, n, cp)
    <2>1. \A h \in Goroutine, i \in Nat, p \in PayloadId :
            /\ RunsOn(h, i, p)' <=> RunsOn(h, i, p) \/ (h = g /\ i = t + 1 /\ p = cp)
            /\ PassedTo(h, i, p)' <=>
                 \/ PassedTo(h, i, p)
                 \/ h = g /\ i = t /\ p = cp /\ NodeOf(g).kind \in Passing
      BY <1>1, <1>2, <1>3, <1>16, EnterRuns
    <2>2. \E j \in Nat : KidOwns(g, t, j, cp)'
      <3>1. next \in Nat
        BY <1>5 DEF next
      <3> QED
        BY <1>1, <1>4, <1>8, <3>1
    <2>3. Chain' /\ Carried'
      <3>1. RunsNext(g, t, cp)
        BY <2>1, <2>2 DEF RunsNext
      <3>2. PassesNext(cp)
        BY <1>9, <1>10, <2>1 DEF PassesNext
      <3>3. StaysBelow(g, t)
        BY <1>8 DEF StaysBelow
      <3>4. cp \in PayloadId /\ t \in Nat
        BY <1>4, <1>11
      <3> QED
        BY <1>2, <1>3, <1>14, <3>1, <3>2, <3>3, <3>4, FollowOn
    <2> QED
      BY <1>12, <1>13, <2>3 DEF Inv
  <1>17. CASE NodeOf(g).kind \notin Passing /\ q \in Range(Top(g).kids) /\ Enter(g, f, n, q)
    <2>1. q \in PayloadId /\ \E j \in Nat : KidOwns(g, t, j, q)
      BY <1>7, <1>17 DEF kids
    <2>2. \A h \in Goroutine, i \in Nat, p \in PayloadId :
            /\ RunsOn(h, i, p)' <=> RunsOn(h, i, p) \/ (h = g /\ i = t + 1 /\ p = q)
            /\ PassedTo(h, i, p)' <=>
                 \/ PassedTo(h, i, p)
                 \/ h = g /\ i = t /\ p = q /\ NodeOf(g).kind \in Passing
      BY <1>1, <1>2, <1>3, <1>17, <2>1, EnterRuns
    <2>3. \E j \in Nat : KidOwns(g, t, j, q)'
      BY <1>4, <1>8, <2>1
    <2>4. Chain' /\ Carried'
      <3>1. RunsNext(g, t, q)
        BY <2>2, <2>3 DEF RunsNext
      <3>2. PassesNext(q)
        BY <1>17, <2>2 DEF PassesNext
      <3>3. StaysBelow(g, t)
        BY <1>8 DEF StaysBelow
      <3> QED
        BY <1>2, <1>3, <1>4, <1>14, <2>1, <3>1, <3>2, <3>3, FollowOn
    <2> QED
      BY <1>12, <1>13, <2>4 DEF Inv
  <1> QED
    BY <1>1, <1>15, <1>16, <1>17

\* A frame releases what it holds.
LEMMA GivesInv ==
  ASSUME Inv, NEW g \in Goroutine, Moves(g), Gives(g)
  PROVE  Inv'
  <1>1. PICK f : Onward(g, f) /\ f.kids = <<>> /\ Goto(g, f)
    BY DEF Gives
  <1>2. PICK t : t = Len(stack[g])
    OBVIOUS
  <1>3. Types /\ Own /\ stack[g] # <<>> /\ call[g].busy /\ CallKept /\ UNCHANGED graph
        /\ aborted' \in [PayloadId -> BOOLEAN]
    BY DEF Inv, Moves
  <1>4. /\ t \in Nat /\ t >= 1 /\ Top(g) = stack[g][t]
        /\ stack' = [h \in Goroutine |-> stack'[h]] /\ IsStack(stack'[g])
        /\ \A h \in Goroutine : h # g => stack'[h] = stack[h]
        /\ \A h \in Goroutine, i \in Nat, p \in PayloadId :
             /\ RunsOn(h, i, p)' <=> RunsOn(h, i, p)
             /\ PassedTo(h, i, p)' <=> PassedTo(h, i, p)
        /\ \A h \in Goroutine, i, j \in Nat, p \in PayloadId :
             KidOwns(h, i, j, p)' <=> IF h = g /\ i = t
                                      THEN j \in 1 .. Len(f.kids) /\ f.kids[j] = p
                                      ELSE KidOwns(h, i, j, p)
    BY <1>1, <1>2, <1>3, GotoRuns
  <1>5. \A h \in Goroutine, i, j \in Nat, p \in PayloadId :
          KidOwns(h, i, j, p)' <=> KidOwns(h, i, j, p) /\ ~(h = g /\ i = t)
    <2>1. Len(f.kids) = 0
      BY <1>1, EmptySeq
    <2> QED
      BY <1>4, <2>1
  <1>6. PICK kids : kids = Top(g).kids
    OBVIOUS
  <1>7. /\ kids \in Seq(PayloadId) /\ kids = stack[g][t].kids /\ t \in 1 .. Len(stack[g])
        /\ DOMAIN kids = 1 .. Len(kids) /\ Len(kids) \in Nat
    <2>1. kids \in Seq(PayloadId) /\ kids = stack[g][t].kids /\ t \in 1 .. Len(stack[g])
      BY <1>2, <1>3, <1>4, <1>6, TopFrame DEF IsFrame
    <2> QED
      BY <2>1, LenProperties
  <1>8. Own'
    <2>1. \A p \in PayloadId :
            pool'[p] = pool[p] + Cardinality({i \in DOMAIN kids : kids[i] = p})
      BY <1>6 DEF Gives
    <2>2. t \in Nat /\ t \in 1 .. Len(stack[g])
      BY <1>4, <1>7
    <2>3. kids \in Seq(PayloadId) /\ kids = stack[g][t].kids
      BY <1>7
    <2> QED
      BY <1>3, <1>5, <2>1, <2>2, <2>3, GiveOwn
  <1>9. /\ \A p \in PayloadId \ Range(kids) : parseCtx'[p] = parseCtx[p]
        /\ \A p \in Range(kids) : p \in PayloadId => parseCtx'[p] = NoCtx
        /\ parseCtx' \in [PayloadId -> Goroutine \cup {NoCtx}]
    BY <1>3, <1>6 DEF Gives, Zeroed, Types
  <1>10. pool' \in [PayloadId -> Nat]
    <2>1. \A p \in PayloadId : pool'[p] \in Nat
      BY <1>8 DEF Own
    <2>2. pool' = [p \in PayloadId |-> pool'[p]]
      BY DEF Gives
    <2> QED
      BY <2>1, <2>2
  <1>11. Types'
    BY <1>3, <1>4, <1>9, <1>10, TypesKept
  <1>12. \A h \in Goroutine, i \in Nat, p \in PayloadId :
           RunsOn(h, i, p) => parseCtx'[p] = parseCtx[p]
    <2> SUFFICES ASSUME NEW h \in Goroutine, NEW i \in Nat, NEW p \in PayloadId, RunsOn(h, i, p)
                 PROVE  p \notin Range(kids)
      BY <1>9
    <2>1. p \in Range(kids) => \E j \in Nat : KidOwns(g, t, j, p)
      BY <1>7 DEF KidOwns, Range
    <2>2. h = g => i <= t
      BY <1>2 DEF RunsOn
    <2>3. \/ CallOwns(h, p)
          \/ \E k, j \in Nat : k < i /\ KidOwns(h, k, j, p)
      BY DEF Inv, Chain
    <2>4. ASSUME NEW k \in Nat, k < i, h = g
          PROVE  k # t
      BY <2>2, <2>4, <1>4
    <2>5. CASE CallOwns(h, p)
      <3>1. \A j \in Nat : ~KidOwns(g, t, j, p)
        BY <1>3, <1>4, <2>5 DEF Own
      <3> QED
        BY <2>1, <3>1
    <2>6. CASE \E k, j \in Nat : k < i /\ KidOwns(h, k, j, p)
      <3>1. PICK k \in Nat, j \in Nat : k < i /\ KidOwns(h, k, j, p)
        BY <2>6
      <3>2. ~(h = g /\ k = t)
        BY <2>4, <3>1
      <3>3. \A l \in Nat : KidOwns(g, t, l, p) => h = g /\ k = t
        BY <1>3, <1>4, <3>1 DEF Own
      <3> QED
        BY <2>1, <3>2, <3>3
    <2> QED
      BY <2>3, <2>5, <2>6
  <1>13. \A p \in PayloadId : parseCtx'[p] = parseCtx[p] \/ parseCtx'[p] = NoCtx
    BY <1>9
  <1>14. Chain' /\ Carried'
    <2>1. PICK q \in PayloadId : TRUE
      BY <1>1 DEF Onward, IsFrame
    <2>2. CtxFollows
      <3>1. /\ \A h \in Goroutine, i, j \in Nat, p \in PayloadId :
                 KidOwns(h, i, j, p) => parseCtx[p] \in {NoCtx, call[h].ctx}
            /\ \A h \in Goroutine, p \in PayloadId :
                 CallOwns(h, p) => parseCtx[p] \in {NoCtx, call[h].ctx}
        BY DEF Inv, Carried
      <3>2. \A h \in Goroutine, i, j \in Nat, p \in PayloadId :
              KidOwns(h, i, j, p)' => KidOwns(h, i, j, p)
        BY <1>5
      <3> QED
        BY <1>13, <3>1, <3>2 DEF CtxFollows
    <2>3. StaysBelow(g, t)
      <3>1. \A i \in Nat : i < t => i # t
        BY <1>4
      <3> QED
        BY <1>5, <3>1 DEF StaysBelow
    <2>4. RunsNext(g, t, q) /\ PassesNext(q)
      BY <1>4 DEF RunsNext, PassesNext
    <2>5. CtxStays
      BY <1>12 DEF CtxStays
    <2> QED
      BY <1>2, <1>3, <1>4, <2>1, <2>2, <2>3, <2>4, <2>5, FollowOn
  <1> QED
    BY <1>8, <1>11, <1>14 DEF Inv

\* A step inside a call.
LEMMA StepInv == ASSUME Inv, NEW g \in Goroutine, Step(g) PROVE Inv'
  <1>1. Moves(g)
    BY StepMoves DEF Inv
  <1> QED
    BY <1>1, GoesInv, RunsInv, PopsInv, TakesInv, GivesInv DEF Moves

-----------------------------------------------------------------------------
(* The steps that begin and end a call. *)

\* A call begins: its payload leaves the pool.
LEMMA StartInv == ASSUME Inv, NEW g \in Goroutine, StartCall(g) PROVE Inv'
  <1>1. /\ Types /\ Own /\ Chain /\ Carried
        /\ ~call[g].busy /\ stack[g] = <<>> /\ graph' = graph
    BY DEF Inv, StartCall, Types
  <1>2. PICK v \in Inputs, encode \in Encodings, c \in {g, NoCtx}, p \in PayloadId :
          /\ encode => c = g
          /\ Acquire(p, v, c, <<>>)
          /\ call' = [call EXCEPT ![g] = [busy |-> TRUE, encode |-> encode, ctx |-> c, input |-> v,
                                          calls |-> @.calls + 1, p |-> p, leaked |-> FALSE]]
          /\ stack' = [stack EXCEPT ![g] = <<NewFrame(Root, p)>>]
    BY DEF StartCall
  <1>3. PICK f : f = NewFrame(Root, p)
    OBVIOUS
  <1>4. /\ stack' = [h \in Goroutine |-> stack'[h]]
        /\ \A h \in Goroutine : h # g => stack'[h] = stack[h]
        /\ stack'[g] = <<f>>
    BY <1>1, <1>2, <1>3, OtherStacks
  <1>5. Len(<<f>>) = 1 /\ <<f>>[1] = f /\ f.p = p /\ f.kids = <<>> /\ Len(f.kids) = 0 /\ IsFrame(f)
    BY <1>3, NewFrameIs, EmptySeq
  <1>6. /\ call'[g].busy /\ call'[g].ctx = c /\ call'[g].p = p
        /\ \A h \in Goroutine : h # g => call'[h] = call[h]
    BY <1>1, <1>2 DEF Types
  <1>7. call' \in [Goroutine -> CallRecord]
    <2>1. call[g] \in CallRecord /\ call[g].calls < MaxCalls
      BY <1>1 DEF Types, StartCall
    <2>2. call[g].calls + 1 \in 0 .. MaxCalls
      BY <2>1, EngineAssumption DEF CallRecord
    <2>3. encode \in BOOLEAN
      BY EngineAssumption
    <2>4. [busy |-> TRUE, encode |-> encode, ctx |-> c, input |-> v,
           calls |-> call[g].calls + 1, p |-> p, leaked |-> FALSE] \in CallRecord
      BY <1>2, <2>2, <2>3 DEF CallRecord
    <2> QED
      BY <1>1, <1>2, <2>4 DEF Types
  <1>8. /\ pool[p] = 1 /\ pool'[p] = 0 /\ \A q \in PayloadId : q # p => pool'[q] = pool[q]
        /\ parseCtx'[p] = c /\ \A q \in PayloadId : q # p => parseCtx'[q] = parseCtx[q]
        /\ pool' \in [PayloadId -> Nat] /\ parseCtx' \in [PayloadId -> Goroutine \cup {NoCtx}]
        /\ aborted' \in [PayloadId -> BOOLEAN]
    BY <1>1, <1>2 DEF Acquire, Own, Types
  <1>9. Types'
    <2>1. IsStack(stack'[g])
      <3>1. <<f>> \in Seq({f})
        OBVIOUS
      <3>2. IsSeq(<<f>>)
        BY <3>1, SeqIsSeq
      <3> QED
        BY <1>4, <1>5, <3>2 DEF IsStack
    <2>2. \A h \in Goroutine : IsStack(stack'[h])
      BY <1>1, <1>4, <2>1 DEF Types
    <2>3. \A h \in Goroutine : ~call'[h].busy => stack'[h] = <<>>
      BY <1>1, <1>4, <1>6 DEF Types
    <2> QED
      BY <1>4, <1>7, <1>8, <2>2, <2>3 DEF Types, IsStack, IsSeq
  <1>10. Len(stack[g]) = 0
    BY <1>1, EmptySeq
  <1>11. \A h \in Goroutine, i, j \in Nat, q \in PayloadId :
           KidOwns(h, i, j, q)' <=> KidOwns(h, i, j, q)
    <2>1. \A i, j \in Nat, q \in PayloadId : ~KidOwns(g, i, j, q) /\ ~KidOwns(g, i, j, q)'
      BY <1>4, <1>5, <1>10 DEF KidOwns
    <2>2. \A h \in Goroutine, i, j \in Nat, q \in PayloadId :
            h # g => (KidOwns(h, i, j, q)' <=> KidOwns(h, i, j, q))
      BY <1>4 DEF KidOwns
    <2> QED
      BY <2>1, <2>2
  <1>12. \A h \in Goroutine, q \in PayloadId :
           CallOwns(h, q)' <=> CallOwns(h, q) \/ (h = g /\ q = p)
    BY <1>1, <1>6 DEF CallOwns
  <1>13. \A h \in Goroutine, i, j \in Nat : ~KidOwns(h, i, j, p) /\ ~CallOwns(h, p)
    BY <1>1, <1>8 DEF Own
  <1>14. \A q \in PayloadId : ~CallOwns(g, q)
    BY <1>1 DEF CallOwns
  <1>15. Own'
    <2>1. \A q \in PayloadId : pool'[q] \in {0, 1}
      BY <1>1, <1>8 DEF Own
    <2>2. \A h \in Goroutine, q \in PayloadId : CallOwns(h, q)' => pool'[q] = 0
      <3> SUFFICES ASSUME NEW h \in Goroutine, NEW q \in PayloadId, CallOwns(h, q)', q # p
                   PROVE  pool'[q] = 0
        BY <1>8
      <3>1. CallOwns(h, q)
        BY <1>12
      <3>2. pool[q] = 0
        BY <1>1, <3>1 DEF Own
      <3> QED
        BY <1>8, <3>2
    <2>5. \A h \in Goroutine, i, j \in Nat, q \in PayloadId : KidOwns(h, i, j, q)' => pool'[q] = 0
      <3> SUFFICES ASSUME NEW h \in Goroutine, NEW i \in Nat, NEW j \in Nat, NEW q \in PayloadId,
                          KidOwns(h, i, j, q)', q # p
                   PROVE  pool'[q] = 0
        BY <1>8
      <3>1. KidOwns(h, i, j, q)
        BY <1>11
      <3>2. pool[q] = 0
        BY <1>1, <3>1 DEF Own
      <3> QED
        BY <1>8, <3>2
    <2>6. \A h, k \in Goroutine, q \in PayloadId : CallOwns(h, q)' /\ CallOwns(k, q)' => h = k
      <3> SUFFICES ASSUME NEW h \in Goroutine, NEW k \in Goroutine, NEW q \in PayloadId,
                          CallOwns(h, q)', CallOwns(k, q)'
                   PROVE  h = k
        OBVIOUS
      <3>1. CASE q = p
        BY <1>12, <1>13, <3>1
      <3>2. CASE q # p
        BY <1>1, <1>12, <3>2 DEF Own
      <3> QED
        BY <3>1, <3>2
    <2>7. \A h, k \in Goroutine, i, j \in Nat, q \in PayloadId :
            CallOwns(h, q)' => ~KidOwns(k, i, j, q)'
      <3> SUFFICES ASSUME NEW h \in Goroutine, NEW k \in Goroutine, NEW i \in Nat, NEW j \in Nat,
                          NEW q \in PayloadId, CallOwns(h, q)'
                   PROVE  ~KidOwns(k, i, j, q)
        BY <1>11
      <3>1. CASE q = p
        BY <1>13, <3>1
      <3>2. CASE q # p
        <4>1. CallOwns(h, q)
          BY <1>12, <3>2
        <4> QED
          BY <1>1, <4>1 DEF Own
      <3> QED
        BY <3>1, <3>2
    <2>3. \A h, k \in Goroutine, i, j, m, l \in Nat, q \in PayloadId :
            KidOwns(h, i, j, q)' /\ KidOwns(k, m, l, q)' => h = k /\ i = m /\ j = l
      <3>1. \A h, k \in Goroutine, i, j, m, l \in Nat, q \in PayloadId :
              KidOwns(h, i, j, q) /\ KidOwns(k, m, l, q) => h = k /\ i = m /\ j = l
        BY <1>1 DEF Own
      <3> QED
        BY <1>11, <3>1
    <2>4. ASSUME NEW q \in PayloadId, pool'[q] = 0
          PROVE  \/ \E h \in Goroutine : CallOwns(h, q)'
                 \/ \E h \in Goroutine, i, j \in Nat : KidOwns(h, i, j, q)'
      <3>1. CASE q = p
        BY <1>12, <3>1
      <3>2. CASE q # p
        <4>1. pool[q] = 0
          BY <1>8, <2>4, <3>2
        <4>2. \/ \E h \in Goroutine : CallOwns(h, q)
              \/ \E h \in Goroutine, i, j \in Nat : KidOwns(h, i, j, q)
          BY <1>1, <4>1 DEF Own
        <4>3. CASE \E h \in Goroutine : CallOwns(h, q)
          BY <1>12, <4>3
        <4>4. CASE \E h \in Goroutine, i, j \in Nat : KidOwns(h, i, j, q)
          <5>1. PICK h \in Goroutine, i \in Nat, j \in Nat : KidOwns(h, i, j, q)
            BY <4>4
          <5>2. KidOwns(h, i, j, q)'
            BY <1>11, <5>1
          <5> QED
            BY <5>2
        <4> QED
          BY <4>2, <4>3, <4>4
      <3> QED
        BY <3>1, <3>2
    <2> QED
      BY <2>1, <2>2, <2>3, <2>4, <2>5, <2>6, <2>7 DEF Own
  <1>16. \A h \in Goroutine, i \in Nat, q \in PayloadId :
           /\ RunsOn(h, i, q)' <=> RunsOn(h, i, q) \/ (h = g /\ i = 1 /\ q = p)
           /\ PassedTo(h, i, q)' <=> PassedTo(h, i, q)
    <2>1. \A i \in Nat, q \in PayloadId :
            /\ RunsOn(g, i, q)' <=> i = 1 /\ q = p
            /\ ~RunsOn(g, i, q) /\ ~PassedTo(g, i, q) /\ ~PassedTo(g, i, q)'
      BY <1>4, <1>5, <1>10 DEF RunsOn, PassedTo
    <2>2. \A h \in Goroutine, i \in Nat, q \in PayloadId :
            h # g => /\ RunsOn(h, i, q)' <=> RunsOn(h, i, q)
                     /\ PassedTo(h, i, q)' <=> PassedTo(h, i, q)
      BY <1>1, <1>4 DEF RunsOn, PassedTo
    <2> QED
      BY <2>1, <2>2
  <1>17. Chain'
    BY <1>1, <1>11, <1>12, <1>16 DEF Chain
  <1>18. \A h \in Goroutine, i \in Nat, q \in PayloadId : PassedTo(h, i, q) => q # p /\ h # g
    <2>1. \A h \in Goroutine, i \in Nat, q \in PayloadId : PassedTo(h, i, q) => RunsOn(h, i + 1, q)
      BY DEF PassedTo, RunsOn
    <2>2. \A h \in Goroutine, i \in Nat, q \in PayloadId : RunsOn(h, i, q) => q # p
      BY <1>8, RunningHeld
    <2>3. \A i \in Nat, q \in PayloadId : ~PassedTo(g, i, q)
      BY <1>10 DEF PassedTo
    <2> QED
      BY <2>1, <2>2, <2>3
  <1>19. \A h \in Goroutine, i, j \in Nat, q \in PayloadId : ~KidOwns(g, i, j, q)
    BY <1>10 DEF KidOwns
  <1>20. Carried'
    <2>1. \A h \in Goroutine, q \in PayloadId :
            CallOwns(h, q)' => parseCtx'[q] \in {NoCtx, call'[h].ctx}
      BY <1>1, <1>6, <1>8, <1>12, <1>13, <1>14 DEF Carried
    <2>2. \A h \in Goroutine, i, j \in Nat, q \in PayloadId :
            KidOwns(h, i, j, q)' => parseCtx'[q] \in {NoCtx, call'[h].ctx}
      BY <1>1, <1>6, <1>8, <1>11, <1>13, <1>19 DEF Carried
    <2>3. \A h \in Goroutine, i \in Nat, q \in PayloadId :
            PassedTo(h, i, q)' => parseCtx'[q] = call'[h].ctx
      BY <1>1, <1>6, <1>8, <1>16, <1>18 DEF Carried
    <2> QED
      BY <2>1, <2>2, <2>3 DEF Carried
  <1> QED
    BY <1>9, <1>15, <1>17, <1>20 DEF Inv

\* A call that ends: what it owned is in the pool again.
Ends(g) ==
  /\ call[g].busy
  /\ call' = [call EXCEPT ![g].busy = FALSE]
  /\ UNCHANGED graph
  /\ stack' = [stack EXCEPT ![g] = <<>>]
  /\ aborted' \in [PayloadId -> BOOLEAN]
  /\ pool' = [p \in PayloadId |-> pool'[p]]
  /\ parseCtx' = [p \in PayloadId |-> parseCtx'[p]]
  /\ \A p \in PayloadId :
       IF CallOwns(g, p) \/ \E i, j \in Nat : KidOwns(g, i, j, p)
       THEN pool'[p] = 1 /\ parseCtx'[p] = NoCtx
       ELSE pool'[p] = pool[p] /\ parseCtx'[p] = parseCtx[p]

\* The end of a call keeps the invariant: it only takes away its own frames and payloads.
LEMMA EndsInv == ASSUME Inv, NEW g \in Goroutine, Ends(g) PROVE Inv'
  <1>1. /\ Types /\ Own /\ Chain /\ Carried /\ call[g].busy /\ graph' = graph
        /\ aborted' \in [PayloadId -> BOOLEAN]
    BY DEF Inv, Ends
  <1>2. /\ stack' = [h \in Goroutine |-> stack'[h]]
        /\ \A h \in Goroutine : h # g => stack'[h] = stack[h]
        /\ stack'[g] = <<>>
    BY <1>1, OtherStacks DEF Ends
  <1>3. call[g] \in CallRecord
    BY <1>1 DEF Types
  <1>4. [call[g] EXCEPT !.busy = FALSE] \in CallRecord
    BY <1>3 DEF CallRecord
  <1>5. /\ ~call'[g].busy /\ call' \in [Goroutine -> CallRecord]
        /\ \A h \in Goroutine : h # g => call'[h] = call[h]
    BY <1>1, <1>3, <1>4 DEF Ends, Types, CallRecord
  <1> DEFINE Owned(p) == CallOwns(g, p) \/ \E i, j \in Nat : KidOwns(g, i, j, p)
  <1>6. \A p \in PayloadId :
          /\ Owned(p) => pool'[p] = 1 /\ parseCtx'[p] = NoCtx
          /\ ~Owned(p) => pool'[p] = pool[p] /\ parseCtx'[p] = parseCtx[p]
    BY DEF Ends
  <1>7. /\ pool' \in [PayloadId -> Nat] /\ parseCtx' \in [PayloadId -> Goroutine \cup {NoCtx}]
        /\ \A p \in PayloadId : pool'[p] \in {0, 1}
    <2>1. \A p \in PayloadId : pool'[p] \in {0, 1} /\ parseCtx'[p] \in Goroutine \cup {NoCtx}
      BY <1>1, <1>6 DEF Own, Types
    <2> QED
      BY <2>1 DEF Ends
  <1>8. Types'
    <2>1. IsSeq(<<>>) /\ Len(<<>>) = 0
      BY SeqIsSeq, EmptySeq
    <2>2. \A h \in Goroutine : IsStack(stack'[h])
      BY <1>1, <1>2, <2>1 DEF Types, IsStack
    <2>3. \A h \in Goroutine : ~call'[h].busy => stack'[h] = <<>>
      BY <1>1, <1>2, <1>5 DEF Types
    <2> QED
      BY <1>1, <1>2, <1>5, <1>7, <2>2, <2>3 DEF Types, IsStack, IsSeq
  <1>9. Len(stack'[g]) = 0
    BY <1>2, EmptySeq
  <1>10. /\ \A h \in Goroutine, i, j \in Nat, p \in PayloadId :
              KidOwns(h, i, j, p)' <=> KidOwns(h, i, j, p) /\ h # g
         /\ \A h \in Goroutine, p \in PayloadId :
              CallOwns(h, p)' <=> CallOwns(h, p) /\ h # g
         /\ \A h \in Goroutine, i \in Nat, p \in PayloadId :
              /\ RunsOn(h, i, p)' <=> RunsOn(h, i, p) /\ h # g
              /\ PassedTo(h, i, p)' <=> PassedTo(h, i, p) /\ h # g
    <2>1. \A h \in Goroutine, i, j \in Nat, p \in PayloadId :
            KidOwns(h, i, j, p)' <=> KidOwns(h, i, j, p) /\ h # g
      BY <1>2, <1>9 DEF KidOwns
    <2>2. \A h \in Goroutine, p \in PayloadId : CallOwns(h, p)' <=> CallOwns(h, p) /\ h # g
      BY <1>5 DEF CallOwns
    <2>3. \A h \in Goroutine, i \in Nat, p \in PayloadId :
            RunsOn(h, i, p)' <=> RunsOn(h, i, p) /\ h # g
      BY <1>2, <1>9 DEF RunsOn
    <2>4. \A h \in Goroutine, i \in Nat, p \in PayloadId :
            PassedTo(h, i, p)' <=> PassedTo(h, i, p) /\ h # g
      BY <1>1, <1>2, <1>9 DEF PassedTo
    <2> QED
      BY <2>1, <2>2, <2>3, <2>4
  <1>11. /\ \A h \in Goroutine, p \in PayloadId : CallOwns(h, p) /\ h # g => ~Owned(p)
         /\ \A h \in Goroutine, i, j \in Nat, p \in PayloadId :
              KidOwns(h, i, j, p) /\ h # g => ~Owned(p)
    BY <1>1 DEF Own
  <1>12. Own'
    <2>1. /\ \A h \in Goroutine, p \in PayloadId : CallOwns(h, p)' => pool'[p] = 0
          /\ \A h \in Goroutine, i, j \in Nat, p \in PayloadId : KidOwns(h, i, j, p)' => pool'[p] = 0
      BY <1>1, <1>6, <1>10, <1>11 DEF Own
    <2>2. /\ \A h, k \in Goroutine, p \in PayloadId : CallOwns(h, p)' /\ CallOwns(k, p)' => h = k
          /\ \A h, k \in Goroutine, i, j \in Nat, p \in PayloadId :
               CallOwns(h, p)' => ~KidOwns(k, i, j, p)'
          /\ \A h, k \in Goroutine, i, j, m, l \in Nat, p \in PayloadId :
               KidOwns(h, i, j, p)' /\ KidOwns(k, m, l, p)' => h = k /\ i = m /\ j = l
      BY <1>1, <1>10 DEF Own
    <2>3. ASSUME NEW p \in PayloadId, pool'[p] = 0
          PROVE  \/ \E h \in Goroutine : CallOwns(h, p)'
                 \/ \E h \in Goroutine, i, j \in Nat : KidOwns(h, i, j, p)'
      <3>1. ~Owned(p) /\ pool[p] = 0
        BY <1>6, <2>3
      <3>2. CASE \E h \in Goroutine : CallOwns(h, p)
        BY <1>10, <3>1, <3>2
      <3>3. CASE \E h \in Goroutine, i, j \in Nat : KidOwns(h, i, j, p)
        BY <1>10, <3>1, <3>3
      <3> QED
        BY <1>1, <3>1, <3>2, <3>3 DEF Own
    <2> QED
      BY <1>7, <2>1, <2>2, <2>3 DEF Own
  <1>13. Chain'
    BY <1>1, <1>10 DEF Chain
  <1>14. Carried'
    <2>1. \A h \in Goroutine, i \in Nat, p \in PayloadId :
            PassedTo(h, i, p) /\ h # g => ~Owned(p)
      <3>1. \A h \in Goroutine, i \in Nat, p \in PayloadId : PassedTo(h, i, p) => RunsOn(h, i + 1, p)
        BY DEF PassedTo, RunsOn
      <3>2. \A h \in Goroutine, i \in Nat, p \in PayloadId : RunsOn(h, i, p) /\ h # g => ~Owned(p)
        BY <1>1, <1>11 DEF Chain
      <3> QED
        BY <3>1, <3>2
    <2>2. \A h \in Goroutine : h # g => call'[h].ctx = call[h].ctx
      BY <1>5
    <2> HIDE DEF Owned
    <2> QED
      BY <1>1, <1>6, <1>10, <1>11, <2>1, <2>2 DEF Carried
  <1> QED
    BY <1>8, <1>12, <1>13, <1>14 DEF Inv

\* A call that returns owned its payload alone.
LEMMA FinishInv == ASSUME Inv, NEW g \in Goroutine, FinishCall(g) PROVE Inv'
  <1>1. Types /\ Own /\ call[g].busy /\ stack[g] = <<>> /\ Len(stack[g]) = 0
    BY EmptySeq DEF Inv, FinishCall
  <1>2. PICK p : p = call[g].p
    OBVIOUS
  <1>3. p \in PayloadId
    BY <1>1, <1>2 DEF Types, CallRecord
  <1>4. ReleaseAll(<<p>>, value, issues, aborted)
    BY <1>2 DEF FinishCall
  <1>5. Range(<<p>>) = {p} /\ DOMAIN <<p>> = {1}
    BY DEF Range
  <1>6. \A q \in PayloadId : (CallOwns(g, q) \/ \E i, j \in Nat : KidOwns(g, i, j, q)) <=> q = p
    BY <1>1, <1>2 DEF CallOwns, KidOwns
  <1>7. pool[p] = 0
    BY <1>3, <1>6, <1>1 DEF Own
  <1>8. \A q \in PayloadId : pool'[q] = IF q = p THEN 1 ELSE pool[q]
    <2> SUFFICES ASSUME NEW q \in PayloadId PROVE pool'[q] = IF q = p THEN 1 ELSE pool[q]
      OBVIOUS
    <2>1. pool'[q] = pool[q] + Cardinality({i \in DOMAIN <<p>> : <<p>>[i] = q})
      BY <1>4 DEF ReleaseAll
    <2>2. CASE q = p
      <3>1. {i \in DOMAIN <<p>> : <<p>>[i] = q} = {1}
        BY <1>5, <2>2
      <3>2. Cardinality({i \in DOMAIN <<p>> : <<p>>[i] = q}) = 1
        BY <3>1, FS_Singleton
      <3> QED
        BY <1>7, <2>1, <2>2, <3>2
    <2>3. CASE q # p
      <3>1. {i \in DOMAIN <<p>> : <<p>>[i] = q} = {}
        BY <1>5, <2>3
      <3>2. Cardinality({i \in DOMAIN <<p>> : <<p>>[i] = q}) = 0
        BY <3>1, FS_EmptySet
      <3>3. pool[q] \in Nat
        BY <1>1 DEF Types
      <3> QED
        BY <2>1, <2>3, <3>2, <3>3
    <2> QED
      BY <2>2, <2>3
  <1>9. \A q \in PayloadId : parseCtx'[q] = IF q = p THEN NoCtx ELSE parseCtx[q]
    BY <1>4, <1>5 DEF ReleaseAll, Zeroed
  <1>10. /\ aborted' \in [PayloadId -> BOOLEAN]
         /\ pool' = [q \in PayloadId |-> pool'[q]]
         /\ parseCtx' = [q \in PayloadId |-> parseCtx'[q]]
    BY <1>1, <1>4 DEF ReleaseAll, Zeroed, Types
  <1>11. stack' = [stack EXCEPT ![g] = <<>>]
    BY <1>1 DEF FinishCall, Types
  <1>12. /\ call' = [call EXCEPT ![g].busy = FALSE]
         /\ UNCHANGED graph
    BY DEF FinishCall
  <1>13. Ends(g)
    BY <1>1, <1>6, <1>8, <1>9, <1>10, <1>11, <1>12 DEF Ends
  <1> QED
    BY <1>13, EndsInv

\* What a call holds is what it owns.
LEMMA HeldIs ==
  ASSUME Types, NEW g \in Goroutine, call[g].busy
  PROVE  /\ Held(g) \subseteq PayloadId
         /\ \A q \in PayloadId :
              q \in Held(g) <=> CallOwns(g, q) \/ \E i, j \in Nat : KidOwns(g, i, j, q)
  <1>1. IsSeq(stack[g]) /\ \A i \in 1 .. Len(stack[g]) : stack[g][i].kids \in Seq(PayloadId)
    BY DEF Types, IsStack, IsFrame
  <1>2. Len(stack[g]) \in Nat /\ DOMAIN stack[g] = 1 .. Len(stack[g])
    BY <1>1, LenProperties DEF IsSeq
  <1>3. \A i \in 1 .. Len(stack[g]) :
          /\ DOMAIN stack[g][i].kids = 1 .. Len(stack[g][i].kids)
          /\ Len(stack[g][i].kids) \in Nat
          /\ \A j \in 1 .. Len(stack[g][i].kids) : stack[g][i].kids[j] \in PayloadId
    BY <1>1, LenProperties, ElementOfSeq
  <1>4. call[g].p \in PayloadId
    BY DEF Types, CallRecord
  <1>5. Held(g) \subseteq PayloadId
    BY <1>2, <1>3, <1>4 DEF Held, Range
  <1>6. \A q \in PayloadId :
          q \in Held(g) <=> CallOwns(g, q) \/ \E i, j \in Nat : KidOwns(g, i, j, q)
    <2> SUFFICES ASSUME NEW q \in PayloadId
                 PROVE  q \in Held(g) <=> CallOwns(g, q) \/ \E i, j \in Nat : KidOwns(g, i, j, q)
      OBVIOUS
    <2>1. \A i \in 1 .. Len(stack[g]) :
            q \in Range(stack[g][i].kids) <=> \E j \in Nat : KidOwns(g, i, j, q)
      <3> SUFFICES ASSUME NEW i \in 1 .. Len(stack[g])
                   PROVE  q \in Range(stack[g][i].kids) <=> \E j \in Nat : KidOwns(g, i, j, q)
        OBVIOUS
      <3>1. \A j \in 1 .. Len(stack[g][i].kids) : j \in Nat
        BY <1>3
      <3> QED
        BY <1>3, <3>1 DEF KidOwns, Range
    <2>2. q \in Held(g) <=>
            q = call[g].p \/ \E i \in 1 .. Len(stack[g]) : q \in Range(stack[g][i].kids)
      BY <1>2 DEF Held
    <2>3. \A i, j \in Nat : KidOwns(g, i, j, q) => i \in 1 .. Len(stack[g])
      BY DEF KidOwns
    <2>4. \A i \in 1 .. Len(stack[g]) : i \in Nat
      BY <1>2
    <2> QED
      BY <2>1, <2>2, <2>3, <2>4 DEF CallOwns
  <1> QED
    BY <1>5, <1>6

\* A panic leaves no payload out of the pool: what was held is replaced by new.
LEMMA PanicInv == ASSUME Inv, NEW g \in Goroutine, Panic(g) PROVE Inv'
  <1>1. Types /\ call[g].busy /\ call[g].p \in PayloadId
    BY DEF Inv, Panic, Types, CallRecord
  <1>2. \A q \in PayloadId :
          q \in Held(g) <=> CallOwns(g, q) \/ \E i, j \in Nat : KidOwns(g, i, j, q)
    BY <1>1, HeldIs
  <1>3. /\ \A q \in PayloadId : pool'[q] = IF q \in Held(g) THEN 1 ELSE pool[q]
        /\ \A q \in PayloadId : parseCtx'[q] = IF q \in Held(g) THEN NoCtx ELSE parseCtx[q]
        /\ pool' = [q \in PayloadId |-> pool'[q]]
        /\ parseCtx' = [q \in PayloadId |-> parseCtx'[q]]
        /\ aborted' \in [PayloadId -> BOOLEAN]
    BY <1>1 DEF Panic, Zeroed, Types
  <1>4. /\ stack' = [stack EXCEPT ![g] = <<>>]
        /\ call' = [call EXCEPT ![g].busy = FALSE]
        /\ UNCHANGED graph
    BY DEF Panic
  <1>5. Ends(g)
    BY <1>1, <1>2, <1>3, <1>4 DEF Ends
  <1> QED
    BY <1>5, EndsInv

\* Before the first call every payload is in the pool.
LEMMA InitInv == Init => Inv
  <1> SUFFICES ASSUME Init PROVE Inv
    OBVIOUS
  <1>1. \A g \in Goroutine : call[g].busy = FALSE /\ stack[g] = <<>> /\ Len(stack[g]) = 0
    BY EmptySeq DEF Init, NoCall
  <1>2. Types
    <2>1. IsStack(<<>>)
      <3>1. IsSeq(<<>>) /\ Len(<<>>) = 0
        BY SeqIsSeq, EmptySeq
      <3> QED
        BY <3>1 DEF IsStack
    <2>2. \A p \in PayloadId : NoCall(p) \in CallRecord
      BY EngineAssumption DEF NoCall, CallRecord
    <2>3. call \in [Goroutine -> CallRecord]
      BY <2>2 DEF Init
    <2> QED
      BY <1>1, <2>1, <2>3 DEF Types, Init, PayloadInit
  <1>3. /\ \A g \in Goroutine, p \in PayloadId : ~CallOwns(g, p)
        /\ \A g \in Goroutine, i, j \in Nat, p \in PayloadId : ~KidOwns(g, i, j, p)
        /\ \A g \in Goroutine, i \in Nat, p \in PayloadId : ~RunsOn(g, i, p) /\ ~PassedTo(g, i, p)
    BY <1>1 DEF CallOwns, KidOwns, RunsOn, PassedTo
  <1>4. Own
    BY <1>3 DEF Own, Init, PayloadInit
  <1>5. Chain /\ Carried
    BY <1>3 DEF Chain, Carried
  <1> QED
    BY <1>2, <1>4, <1>5 DEF Inv

\* Ownership is invariant, whatever the schemas, the inputs and the callbacks.
THEOREM Invariance == Spec => []Inv
  <1>1. Inv /\ [Next]_vars => Inv'
    <2> SUFFICES ASSUME Inv, [Next]_vars PROVE Inv'
      OBVIOUS
    <2>1. CASE UNCHANGED vars
      BY <2>1 DEF vars, Inv, Types, Own, Chain, Carried, CallOwns, KidOwns, RunsOn, PassedTo
    <2>2. CASE \E g \in Goroutine : StartCall(g) \/ FinishCall(g) \/ Panic(g) \/ Step(g)
      BY <2>2, StartInv, FinishInv, PanicInv, StepInv
    <2>3. CASE Finished
      BY <2>1, <2>3 DEF Finished
    <2> QED
      BY <2>1, <2>2, <2>3 DEF Next
  <1> QED
    BY <1>1, InitInv, PTL DEF Spec

\* The holders of a payload are its owners.
LEMMA HoldersAre ==
  ASSUME Types, NEW p \in PayloadId
  PROVE  \A h : h \in Holders(p) <=>
           \/ \E g \in Goroutine : CallOwns(g, p) /\ h = <<g, 0, 0>>
           \/ \E g \in Goroutine, i, j \in Nat : KidOwns(g, i, j, p) /\ h = <<g, i, j>>
  <1>1. \A g \in Goroutine :
          /\ IsSeq(stack[g])
          /\ \A i \in 1 .. Len(stack[g]) : stack[g][i].kids \in Seq(PayloadId)
    BY DEF Types, IsStack, IsFrame
  <1>2. \A g \in Goroutine : Len(stack[g]) \in Nat /\ DOMAIN stack[g] = 1 .. Len(stack[g])
    BY <1>1, LenProperties DEF IsSeq
  <1>3. \A g \in Goroutine : \A i \in 1 .. Len(stack[g]) :
          /\ DOMAIN stack[g][i].kids = 1 .. Len(stack[g][i].kids)
          /\ Len(stack[g][i].kids) \in Nat
    BY <1>1, LenProperties
  <1>4. \A g \in Goroutine, i, j \in Nat :
          KidOwns(g, i, j, p) <=> /\ i \in DOMAIN stack[g]
                                  /\ j \in DOMAIN stack[g][i].kids
                                  /\ stack[g][i].kids[j] = p
    BY <1>2, <1>3 DEF KidOwns
  <1>5. \A g \in Goroutine : \A i \in DOMAIN stack[g] :
          i \in Nat /\ \A j \in DOMAIN stack[g][i].kids : j \in Nat
    <2> SUFFICES ASSUME NEW g \in Goroutine, NEW i \in DOMAIN stack[g]
                 PROVE  i \in Nat /\ \A j \in DOMAIN stack[g][i].kids : j \in Nat
      OBVIOUS
    <2>1. i \in 1 .. Len(stack[g]) /\ i \in Nat
      BY <1>2
    <2>2. DOMAIN stack[g][i].kids = 1 .. Len(stack[g][i].kids) /\ Len(stack[g][i].kids) \in Nat
      BY <1>3, <2>1
    <2> QED
      BY <2>1, <2>2
  <1> QED
    BY <1>4, <1>5 DEF Holders, CallOwns

\* Once in the pool or held at one place, never both and never lost.
LEMMA InvPool == Inv => PoolDiscipline
  <1> SUFFICES ASSUME Inv, NEW p \in PayloadId PROVE pool[p] + Cardinality(Holders(p)) = 1
    BY DEF PoolDiscipline
  <1>1. \A h : h \in Holders(p) <=>
          \/ \E g \in Goroutine : CallOwns(g, p) /\ h = <<g, 0, 0>>
          \/ \E g \in Goroutine, i, j \in Nat : KidOwns(g, i, j, p) /\ h = <<g, i, j>>
    BY HoldersAre DEF Inv
  <1>2. CASE pool[p] = 1
    <2>1. Holders(p) = {}
      BY <1>1, <1>2 DEF Inv, Own
    <2> QED
      BY <1>2, <2>1, FS_EmptySet
  <1>3. CASE pool[p] = 0
    <2>1. PICK h : h \in Holders(p)
      <3>1. CASE \E g \in Goroutine : CallOwns(g, p)
        BY <1>1, <3>1
      <3>2. CASE \E g \in Goroutine, i, j \in Nat : KidOwns(g, i, j, p)
        BY <1>1, <3>2
      <3> QED
        BY <1>3, <3>1, <3>2 DEF Inv, Own
    <2>2. ASSUME NEW k \in Holders(p) PROVE k = h
      <3>1. CASE \E g \in Goroutine : CallOwns(g, p) /\ h = <<g, 0, 0>>
        <4>1. PICK g \in Goroutine : CallOwns(g, p) /\ h = <<g, 0, 0>>
          BY <3>1
        <4>2. \E g1 \in Goroutine : CallOwns(g1, p) /\ k = <<g1, 0, 0>>
          BY <1>1, <4>1 DEF Inv, Own
        <4> QED
          BY <4>1, <4>2 DEF Inv, Own
      <3>2. CASE \E g \in Goroutine, i, j \in Nat : KidOwns(g, i, j, p) /\ h = <<g, i, j>>
        <4>1. PICK g \in Goroutine, i \in Nat, j \in Nat : KidOwns(g, i, j, p) /\ h = <<g, i, j>>
          BY <3>2
        <4>2. \E g1 \in Goroutine, i1, j1 \in Nat : KidOwns(g1, i1, j1, p) /\ k = <<g1, i1, j1>>
          BY <1>1, <4>1 DEF Inv, Own
        <4> QED
          BY <4>1, <4>2 DEF Inv, Own
      <3> QED
        BY <1>1, <2>1, <3>1, <3>2
    <2>3. Holders(p) = {h}
      BY <2>1, <2>2
    <2>4. Cardinality({h}) = 1
      BY FS_Singleton
    <2>5. Cardinality(Holders(p)) = 1
      BY <2>3, <2>4
    <2> QED
      BY <1>3, <2>5
  <1>4. pool[p] = 0 \/ pool[p] = 1
    BY DEF Inv, Own
  <1> QED
    BY <1>2, <1>3, <1>4, Zenon

\* No payload of a call carries the ParseCtx of another, and fields carry their own.
LEMMA InvCtx == Inv => CtxIsolation
  <1> SUFFICES ASSUME Inv, NEW g \in Goroutine, call[g].busy
               PROVE  /\ \A p \in Held(g) : parseCtx[p] \in {NoCtx, call[g].ctx}
                      /\ \A i \in 1 .. Len(stack[g]) - 1 :
                           graph[stack[g][i].n].kind \in Passing
                             => parseCtx[stack[g][i + 1].p] = call[g].ctx
    BY DEF CtxIsolation
  <1>1. \A p \in Held(g) : parseCtx[p] \in {NoCtx, call[g].ctx}
    BY HeldIs DEF Inv, Carried
  <1>2. ASSUME NEW i \in 1 .. Len(stack[g]) - 1,
               graph[stack[g][i].n].kind \in Passing
        PROVE  parseCtx[stack[g][i + 1].p] = call[g].ctx
    <2>1. IsStack(stack[g])
      BY DEF Inv, Types
    <2>2. Len(stack[g]) \in Nat
      BY <2>1, LenProperties DEF IsStack, IsSeq
    <2>3. i \in Nat /\ i + 1 \in 1 .. Len(stack[g])
      BY <2>2
    <2>4. PICK p \in PayloadId : p = stack[g][i + 1].p
      BY <2>1, <2>3 DEF IsStack, IsFrame
    <2>5. PassedTo(g, i, p)
      BY <1>2, <2>4 DEF PassedTo
    <2> QED
      BY <2>3, <2>4, <2>5 DEF Inv, Carried
  <1> QED
    BY <1>1, <1>2

\* AcquirePayload and ReleasePayload are paired in every handler, for any number
\* of goroutines that share the pool.
THEOREM PoolDisciplineHolds == Spec => []PoolDiscipline
  BY Invariance, InvPool, PTL

\* A callback sees the ParseCtx of its own call or none, and the fields, elements
\* and items see that of their call.
THEOREM CtxIsolationHolds == Spec => []CtxIsolation
  BY Invariance, InvCtx, PTL
=============================================================================
