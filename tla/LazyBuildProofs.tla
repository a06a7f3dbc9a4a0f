-------------------------- MODULE LazyBuildProofs --------------------------
(***************************************************************************)
(* The one-time build of dispatch tables, proved for any number of unions  *)
(* and goroutines, whatever the unions lead to: one verdict per union,     *)
(* complete tables, and no circle of goroutines that wait for each other   *)
(* in a Once.                                                              *)
(***************************************************************************)
EXTENDS LazyBuild, TLAPS, SequenceTheorems

-----------------------------------------------------------------------------
(* The inductive invariant. *)

\* Where a call of ensureDiscMap is inside buildOnce.Do, and where it is between
\* the two assignments of the flag.
InBuild == {"flag", "option", "values", "publish", "failed", "unflag", "leave"}
UnderFlag == {"option", "values", "publish", "failed", "unflag"}

\* A call keeps the Once of its union running and its flag set, and has seen the
\* tables of the options it has passed.
CallOK(f) ==
  /\ f.k >= 1
  /\ f.pc \in InBuild => once[f.u] = "running"
  /\ f.pc \in UnderFlag => building[f.u]
  /\ f.pc = "values" => f.k <= Len(options[f.u]) /\ options[f.u][f.k] \in Union
  /\ f.pc = "publish" => f.k > Len(options[f.u])
  /\ \A j \in 1 .. Len(options[f.u]) : j < f.k => options[f.u][j] = Plain \/ built[options[f.u][j]]

CallsOK == \A g \in Goroutine : \A i \in 1 .. Len(stack[g]) : CallOK(stack[g][i])

\* A call that has called another one waits for the values of that one's union.
Linked == \A g \in Goroutine : \A i \in 1 .. Len(stack[g]) - 1 :
  /\ stack[g][i].pc = "values"
  /\ stack[g][i + 1].u = options[stack[g][i].u][stack[g][i].k]

\* One build of a union at a time, and one for each Once that runs.
Alone == \A g, h \in Goroutine : \A i \in 1 .. Len(stack[g]), j \in 1 .. Len(stack[h]) :
  /\ stack[g][i].pc \in InBuild
  /\ stack[h][j].pc \in InBuild
  /\ stack[g][i].u = stack[h][j].u
  => g = h /\ i = j

Attended == \A u \in Union : once[u] = "running" =>
  \E g \in Goroutine : \E i \in 1 .. Len(stack[g]) : stack[g][i].u = u /\ stack[g][i].pc \in InBuild

\* A verdict is reached when the Once is done, and is the one of the build.
Judged == \A u \in Union :
  /\ verdicts[u] \subseteq {IF buildErr[u] THEN "panicked" ELSE "dispatched"}
  /\ verdicts[u] # {} => once[u] = "done"

\* The unions whose values a build of u is waiting for.
Asks(u) == {v \in Union : \E g \in Goroutine : \E i \in 1 .. Len(stack[g]) :
              stack[g][i].u = u /\ stack[g][i].pc = "values" /\ options[u][stack[g][i].k] = v}

\* No union waits for itself through others.
NoCircle == \A S \in SUBSET Union : (\A v \in Union : Asks(v) \subseteq S => v \in S) => Union \subseteq S

IInv ==
  /\ TypeOK /\ CallsOK /\ Linked /\ Alone /\ Attended /\ Judged /\ NoCircle
  /\ TablesComplete

\* A goroutine that is in ensureDiscMap and does not wait for a Once.
Runs(g) == stack[g] # <<>> /\ ~(Top(g).pc = "once" /\ once[Top(g).u] = "running")
SomeoneRuns == (\E g \in Goroutine : stack[g] # <<>>) => \E g \in Goroutine : Runs(g)

-----------------------------------------------------------------------------
(* Stacks of calls. *)

\* The last call of a stack, and the ones below it.
LEMMA StackTop ==
  ASSUME NEW S, NEW s \in Seq(S), s # <<>>
  PROVE  /\ Len(s) \in Nat /\ Len(s) >= 1 /\ Last(s) = s[Len(s)] /\ Last(s) \in S
         /\ Front(s) \in Seq(S) /\ Len(Front(s)) = Len(s) - 1
         /\ \A i \in 1 .. Len(s) - 1 : Front(s)[i] = s[i]
  <1> DEFINE k == Len(s)
  <1>1. k \in Nat /\ k >= 1 /\ \A i \in 1 .. k : s[i] \in S
    BY EmptySeq, LenProperties
  <1>2. Front(s) = SubSeq(s, 1, k - 1) /\ Last(s) = s[k]
    BY DEF Front, Last
  <1> HIDE DEF k
  <1>3. /\ SubSeq(s, 1, k - 1) \in Seq(S)
        /\ Len(SubSeq(s, 1, k - 1)) = IF 1 <= k - 1 THEN (k - 1) - 1 + 1 ELSE 0
        /\ \A i \in 1 .. (k - 1) - 1 + 1 : SubSeq(s, 1, k - 1)[i] = s[1 + i - 1]
    BY <1>1, SubSeqProperties
  <1>4. Len(SubSeq(s, 1, k - 1)) = k - 1
    BY <1>1, <1>3
  <1>5. \A i \in 1 .. k - 1 : SubSeq(s, 1, k - 1)[i] = s[i]
    BY <1>1, <1>3
  <1>6. s[k] \in S
    BY <1>1
  <1> QED
    BY <1>1, <1>2, <1>3, <1>4, <1>5, <1>6 DEF k

\* One call more.
LEMMA StackPush ==
  ASSUME NEW S, NEW s \in Seq(S), NEW e \in S
  PROVE  /\ Append(s, e) \in Seq(S) /\ Len(Append(s, e)) = Len(s) + 1 /\ Len(s) \in Nat
         /\ \A i \in 1 .. Len(s) + 1 : Append(s, e)[i] = IF i = Len(s) + 1 THEN e ELSE s[i]
  BY AppendProperties, LenProperties

\* Another last call.
LEMMA StackSwap ==
  ASSUME NEW S, NEW s \in Seq(S), s # <<>>, NEW e \in S
  PROVE  /\ Append(Front(s), e) \in Seq(S) /\ Len(Append(Front(s), e)) = Len(s)
         /\ \A i \in 1 .. Len(s) : Append(Front(s), e)[i] = IF i = Len(s) THEN e ELSE s[i]
  <1> DEFINE front == Front(s)
             swapped == Append(front, e)
             k == Len(s)
  <1>1. k \in Nat /\ k >= 1 /\ front \in Seq(S) /\ Len(front) = k - 1 /\ \A i \in 1 .. k - 1 : front[i] = s[i]
    BY StackTop
  <1> HIDE DEF front
  <1>2. /\ swapped \in Seq(S) /\ Len(swapped) = Len(front) + 1
        /\ \A i \in 1 .. Len(front) + 1 : swapped[i] = IF i = Len(front) + 1 THEN e ELSE front[i]
    BY <1>1, StackPush
  <1> HIDE DEF swapped, k
  <1>3. Len(swapped) = k /\ \A i \in 1 .. k : swapped[i] = IF i = k THEN e ELSE s[i]
    BY <1>1, <1>2
  <1> QED
    BY <1>2, <1>3 DEF swapped, front, k

-----------------------------------------------------------------------------
(* The steps that leave a goroutine in the call it is in. *)

\* g goes on in its last call, which is now f.
Goes(g, f) == stack' = [stack EXCEPT ![g] = Append(Front(@), f)]

\* Where the calls are after such a step.
LEMMA GoesTo ==
  ASSUME stack \in [Goroutine -> Seq(Frame)], NEW g \in Goroutine, stack[g] # <<>>,
         NEW f \in Frame, Goes(g, f)
  PROVE  /\ stack' \in [Goroutine -> Seq(Frame)]
         /\ Len(stack[g]) \in Nat /\ Len(stack[g]) >= 1
         /\ Top(g) = stack[g][Len(stack[g])] /\ Top(g) \in Frame
         /\ \A h \in Goroutine : Len(stack'[h]) = Len(stack[h])
         /\ \A h \in Goroutine : \A i \in 1 .. Len(stack[h]) :
              stack'[h][i] = IF h = g /\ i = Len(stack[g]) THEN f ELSE stack[h][i]
  <1>1. stack[g] \in Seq(Frame)
    OBVIOUS
  <1>2. /\ Len(stack[g]) \in Nat /\ Len(stack[g]) >= 1
        /\ Top(g) = stack[g][Len(stack[g])] /\ Top(g) \in Frame
    BY <1>1, StackTop DEF Top
  <1>3. /\ Append(Front(stack[g]), f) \in Seq(Frame) /\ Len(Append(Front(stack[g]), f)) = Len(stack[g])
        /\ \A i \in 1 .. Len(stack[g]) :
              Append(Front(stack[g]), f)[i] = IF i = Len(stack[g]) THEN f ELSE stack[g][i]
    BY <1>1, StackSwap
  <1>4. \A h \in Goroutine : stack'[h] = IF h = g THEN Append(Front(stack[g]), f) ELSE stack[h]
    BY DEF Goes
  <1>5. stack' \in [Goroutine -> Seq(Frame)]
    BY <1>3 DEF Goes
  <1> HIDE DEF Goes
  <1> QED
    BY <1>2, <1>3, <1>4, <1>5

\* The calls are records, and every one of them keeps its promises.
LEMMA CallFacts ==
  ASSUME TypeOK, NEW g \in Goroutine, NEW i \in 1 .. Len(stack[g])
  PROVE  /\ stack[g] \in Seq(Frame) /\ Len(stack[g]) \in Nat /\ stack[g][i] \in Frame
         /\ stack[g][i].u \in Union /\ stack[g][i].k \in Nat
  <1>1. stack[g] \in Seq(Frame)
    BY DEF TypeOK
  <1>2. Len(stack[g]) \in Nat /\ stack[g][i] \in Frame
    BY <1>1, LenProperties, ElementOfSeq
  <1> QED
    BY <1>1, <1>2 DEF Frame

\* Asking for less makes no circle.
LEMMA FewerAsks ==
  ASSUME NoCircle, \A v \in Union : Asks(v)' \subseteq Asks(v)
  PROVE  NoCircle'
  <1> SUFFICES ASSUME NEW S \in SUBSET Union,
                      \A v \in Union : Asks(v)' \subseteq S => v \in S
               PROVE  Union \subseteq S
    BY DEF NoCircle
  <1>1. \A v \in Union : Asks(v) \subseteq S => v \in S
    OBVIOUS
  <1> HIDE DEF Asks
  <1> QED
    BY <1>1 DEF NoCircle

\* When a goroutine goes on in its last call, and no union asks for more than
\* before, the calls stay linked, alone and without a circle.
LEMMA GoesInv ==
  ASSUME IInv, NEW g \in Goroutine, stack[g] # <<>>, NEW f \in Frame, Goes(g, f),
         f.u = Top(g).u, f.pc # "values", options' = options,
         Top(g).pc \in InBuild \/ once[f.u] = "unused",
         CallOK(f)',
         \A c \in Frame : (CallOK(c) /\ (c.u = f.u => c.pc \notin InBuild)) => CallOK(c)',
         \A u \in Union \ {f.u} : once'[u] = once[u],
         once'[f.u] = "running" => f.pc \in InBuild
  PROVE  CallsOK' /\ Linked' /\ Alone' /\ Attended' /\ NoCircle'
  <1> DEFINE n == Len(stack[g])
  <1>0. TypeOK /\ CallsOK /\ Linked /\ Alone /\ Attended /\ NoCircle
    BY DEF IInv
  <1>1. /\ n \in Nat /\ n >= 1 /\ Top(g) = stack[g][n] /\ Top(g) \in Frame
        /\ \A h \in Goroutine : Len(stack'[h]) = Len(stack[h])
        /\ \A h \in Goroutine : \A i \in 1 .. Len(stack[h]) :
              stack'[h][i] = IF h = g /\ i = n THEN f ELSE stack[h][i]
    <2>1. stack \in [Goroutine -> Seq(Frame)]
      BY <1>0 DEF TypeOK
    <2> QED
      BY <2>1, GoesTo
  <1> HIDE DEF n
  <1>2. n \in 1 .. Len(stack[g])
    BY <1>1 DEF n
  <1>3. \A h \in Goroutine : \A i \in 1 .. Len(stack[h]) :
          ~(h = g /\ i = n) /\ stack[h][i].u = f.u => stack[h][i].pc \notin InBuild
    <2> SUFFICES ASSUME NEW h \in Goroutine, NEW i \in 1 .. Len(stack[h]), ~(h = g /\ i = n),
                        stack[h][i].u = f.u, stack[h][i].pc \in InBuild
                 PROVE  FALSE
      OBVIOUS
    <2>1. CASE Top(g).pc \in InBuild
      BY <2>1, <1>0, <1>1, <1>2 DEF Alone
    <2>2. CASE once[f.u] = "unused"
      <3>1. CallOK(stack[h][i])
        BY <1>0 DEF CallsOK
      <3> QED
        BY <3>1, <2>2 DEF CallOK
    <2> QED
      BY <2>1, <2>2
  <1>4. CallsOK'
    <2> SUFFICES ASSUME NEW h \in Goroutine, NEW i \in 1 .. Len(stack[h])
                 PROVE  CallOK(stack[h][i])'
      BY <1>1 DEF CallsOK
    <2>1. stack[h][i] \in Frame /\ CallOK(stack[h][i])
      BY <1>0, CallFacts DEF CallsOK
    <2>2. CASE h = g /\ i = n
      <3>1. stack'[h][i] = f
        BY <2>2, <1>1
      <3> QED
        BY <3>1 DEF CallOK
    <2>3. CASE ~(h = g /\ i = n)
      <3> DEFINE c == stack[h][i]
      <3>1. stack'[h][i] = c
        BY <2>3, <1>1
      <3>2. c \in Frame /\ CallOK(c) /\ (c.u = f.u => c.pc \notin InBuild)
        BY <2>1, <2>3, <1>3
      <3>3. PICK d \in Frame : d = c
        BY <3>2
      <3>4. CallOK(d) /\ (d.u = f.u => d.pc \notin InBuild)
        BY <3>2, <3>3
      <3>5. CallOK(d)'
        BY <3>4
      <3>6. stack'[h][i] = d
        BY <3>1, <3>3
      <3> QED
        BY <3>5, <3>6 DEF CallOK
    <2> QED
      BY <2>2, <2>3
  <1>5. Linked'
    <2> SUFFICES ASSUME NEW h \in Goroutine, NEW i \in 1 .. Len(stack[h]) - 1
                 PROVE  /\ stack'[h][i].pc = "values"
                        /\ stack'[h][i + 1].u = options[stack'[h][i].u][stack'[h][i].k]
      BY <1>1 DEF Linked
    <2>1. Len(stack[h]) \in Nat
      BY <1>0, LenProperties DEF TypeOK
    <2>2. i \in 1 .. Len(stack[h]) /\ i + 1 \in 1 .. Len(stack[h])
      BY <2>1
    <2>3. stack'[h][i] = stack[h][i]
      BY <1>1, <2>1, <2>2 DEF n
    <2>4. stack'[h][i + 1].u = stack[h][i + 1].u
      BY <1>1, <2>2
    <2> QED
      BY <1>0, <2>3, <2>4 DEF Linked
  <1>6. Alone'
    <2> SUFFICES ASSUME NEW h \in Goroutine, NEW m \in Goroutine,
                        NEW i \in 1 .. Len(stack[h]), NEW j \in 1 .. Len(stack[m]),
                        stack'[h][i].pc \in InBuild, stack'[m][j].pc \in InBuild,
                        stack'[h][i].u = stack'[m][j].u
                 PROVE  h = m /\ i = j
      BY <1>1 DEF Alone
    <2>1. CASE (h = g /\ i = n) /\ (m = g /\ j = n)
      BY <2>1
    <2>2. CASE (h = g /\ i = n) /\ ~(m = g /\ j = n)
      BY <2>2, <1>1, <1>3
    <2>3. CASE ~(h = g /\ i = n) /\ (m = g /\ j = n)
      BY <2>3, <1>1, <1>3
    <2>4. CASE ~(h = g /\ i = n) /\ ~(m = g /\ j = n)
      <3>1. stack'[h][i] = stack[h][i] /\ stack'[m][j] = stack[m][j]
        BY <2>4, <1>1
      <3> QED
        BY <3>1, <1>0 DEF Alone
    <2> QED
      BY <2>1, <2>2, <2>3, <2>4
  <1>7. Attended'
    <2> SUFFICES ASSUME NEW u \in Union, once'[u] = "running"
                 PROVE  \E h \in Goroutine : \E i \in 1 .. Len(stack[h]) :
                          stack'[h][i].u = u /\ stack'[h][i].pc \in InBuild
      BY <1>1 DEF Attended
    <2>1. CASE u = f.u
      <3>1. stack'[g][n] = f
        BY <1>1, <1>2
      <3> QED
        BY <2>1, <3>1, <1>2
    <2>2. CASE u # f.u
      <3>1. once[u] = "running"
        BY <2>2
      <3>a. PICK h \in Goroutine : \E i \in 1 .. Len(stack[h]) :
              stack[h][i].u = u /\ stack[h][i].pc \in InBuild
        BY <3>1, <1>0 DEF Attended
      <3>2. PICK i \in 1 .. Len(stack[h]) : stack[h][i].u = u /\ stack[h][i].pc \in InBuild
        BY <3>a
      <3>3. ~(h = g /\ i = n)
        BY <3>2, <2>2, <1>1
      <3> QED
        BY <3>2, <3>3, <1>1
    <2> QED
      BY <2>1, <2>2
  <1>8. NoCircle'
    <2>1. \A v \in Union : Asks(v)' \subseteq Asks(v)
      <3> SUFFICES ASSUME NEW v \in Union, NEW w \in Union, NEW h \in Goroutine,
                          NEW i \in 1 .. Len(stack[h]), stack'[h][i].u = v,
                          stack'[h][i].pc = "values", options[v][stack'[h][i].k] = w
                   PROVE  w \in Asks(v)
        BY <1>1 DEF Asks
      <3>1. stack'[h][i] = stack[h][i]
        BY <1>1
      <3> QED
        BY <3>1 DEF Asks
    <2> QED
      BY <2>1, <1>0, FewerAsks
  <1> QED
    BY <1>4, <1>5, <1>6, <1>7, <1>8

-----------------------------------------------------------------------------
(* The steps that begin and end a call. *)

\* Parse calls ensureDiscMap.
LEMMA ParseStep == ASSUME IInv, NEW g \in Goroutine, Parse(g) PROVE IInv'
  <1>0. TypeOK /\ CallsOK /\ Linked /\ Alone /\ Attended /\ Judged /\ NoCircle /\ TablesComplete
    BY DEF IInv
  <1>1. PICK u \in Union : stack' = [stack EXCEPT ![g] = <<Call(u)>>]
    BY DEF Parse
  <1>2. /\ stack[g] = <<>> /\ parses' = [parses EXCEPT ![g] = @ + 1] /\ parses[g] < MaxParses
        /\ UNCHANGED <<options, once, building, built, buildErr, verdicts>>
    BY DEF Parse
  <1>3. /\ Call(u) \in Frame /\ Call(u).pc = "once" /\ Call(u).k = 1
    BY DEF Call, Frame
  <1>4. <<Call(u)>> \in Seq(Frame) /\ Len(<<Call(u)>>) = 1 /\ <<Call(u)>>[1] = Call(u) /\ Len(stack[g]) = 0
    BY <1>2, <1>3
  <1>5. stack \in [Goroutine -> Seq(Frame)]
    BY <1>0 DEF TypeOK
  <1>6. /\ stack' \in [Goroutine -> Seq(Frame)]
        /\ \A h \in Goroutine \ {g} : stack'[h] = stack[h]
        /\ Len(stack'[g]) = 1 /\ stack'[g][1] = Call(u)
    BY <1>1, <1>4, <1>5
  <1> HIDE DEF Call
  <1>7. \A h \in Goroutine : \A i \in 1 .. Len(stack'[h]) :
          stack'[h][i].pc # "once" => h # g /\ stack'[h] = stack[h]
    BY <1>3, <1>6
  <1>8. TypeOK'
    <2>1. parses' \in [Goroutine -> 0 .. MaxParses]
      BY <1>0, <1>2, LazyBuildAssumption DEF TypeOK
    <2> QED
      BY <2>1, <1>0, <1>2, <1>6 DEF TypeOK
  <1>9. CallsOK'
    <2> SUFFICES ASSUME NEW h \in Goroutine, NEW i \in 1 .. Len(stack'[h]) PROVE CallOK(stack[h][i])'
      BY DEF CallsOK
    <2>1. CASE h = g
      <3>1. stack'[h][i] = Call(u)
        BY <2>1, <1>6
      <3>2. \A j \in 1 .. Len(options'[Call(u).u]) : ~(j < Call(u).k)
        BY <1>3
      <3> QED
        BY <3>1, <3>2, <1>3 DEF CallOK, InBuild, UnderFlag
    <2>2. CASE h # g
      <3>1. CallOK(stack[h][i]) /\ stack'[h][i] = stack[h][i]
        BY <2>2, <1>0, <1>6 DEF CallsOK
      <3> QED
        BY <3>1, <1>2 DEF CallOK
    <2> QED
      BY <2>1, <2>2
  <1>10. Linked'
    <2> SUFFICES ASSUME NEW h \in Goroutine, NEW i \in 1 .. Len(stack'[h]) - 1
                 PROVE  /\ stack'[h][i].pc = "values"
                        /\ stack'[h][i + 1].u = options[stack'[h][i].u][stack'[h][i].k]
      BY <1>2 DEF Linked
    <2>1. CASE h = g
      BY <2>1, <1>6
    <2>2. CASE h # g
      BY <2>2, <1>0, <1>6 DEF Linked
    <2> QED
      BY <2>1, <2>2
  <1>11. Alone'
    <2> SUFFICES ASSUME NEW h \in Goroutine, NEW m \in Goroutine,
                        NEW i \in 1 .. Len(stack'[h]), NEW j \in 1 .. Len(stack'[m]),
                        stack'[h][i].pc \in InBuild, stack'[m][j].pc \in InBuild,
                        stack'[h][i].u = stack'[m][j].u
                 PROVE  h = m /\ i = j
      BY DEF Alone
    <2>1. stack'[h] = stack[h] /\ stack'[m] = stack[m]
      BY <1>7 DEF InBuild
    <2> QED
      BY <2>1, <1>0 DEF Alone
  <1>12. Attended'
    <2> SUFFICES ASSUME NEW v \in Union, once[v] = "running"
                 PROVE  \E h \in Goroutine : \E i \in 1 .. Len(stack'[h]) :
                          stack'[h][i].u = v /\ stack'[h][i].pc \in InBuild
      BY <1>2 DEF Attended
    <2>1. PICK h \in Goroutine : \E i \in 1 .. Len(stack[h]) :
            stack[h][i].u = v /\ stack[h][i].pc \in InBuild
      BY <1>0 DEF Attended
    <2>2. h # g
      BY <2>1, <1>4
    <2> QED
      BY <2>1, <2>2, <1>6
  <1>13. NoCircle'
    <2>1. \A v \in Union : Asks(v)' \subseteq Asks(v)
      <3> SUFFICES ASSUME NEW v \in Union, NEW w \in Union, NEW h \in Goroutine,
                          NEW i \in 1 .. Len(stack'[h]), stack'[h][i].u = v,
                          stack'[h][i].pc = "values", options[v][stack'[h][i].k] = w
                   PROVE  w \in Asks(v)
        BY <1>2 DEF Asks
      <3>1. stack'[h] = stack[h]
        BY <1>7
      <3> QED
        BY <3>1 DEF Asks
    <2> QED
      BY <2>1, <1>0, FewerAsks
  <1>14. Judged' /\ TablesComplete'
    BY <1>0, <1>2 DEF Judged, TablesComplete, WellFormed, Leads
  <1> QED
    BY <1>8, <1>9, <1>10, <1>11, <1>12, <1>13, <1>14 DEF IInv

\* A call returns, to the build that made it or to Parse.
LEMMA EnsuredStep == ASSUME IInv, NEW g \in Goroutine, Ensured(g) PROVE IInv'
  <1> DEFINE n == Len(stack[g])
             u == Top(g).u
             verdict == IF buildErr[u] THEN "panicked" ELSE "dispatched"
  <1>0. TypeOK /\ CallsOK /\ Linked /\ Alone /\ Attended /\ Judged /\ NoCircle /\ TablesComplete
    BY DEF IInv
  <1>1. /\ stack[g] # <<>> /\ Top(g).pc = "once" /\ once[u] = "done"
        /\ stack' = [stack EXCEPT ![g] = Front(@)]
        /\ verdicts' = verdicts \/ verdicts' = [verdicts EXCEPT ![u] = @ \cup {verdict}]
        /\ UNCHANGED <<options, once, building, built, buildErr, parses>>
    BY DEF Ensured, At
  <1>2. stack \in [Goroutine -> Seq(Frame)]
    BY <1>0 DEF TypeOK
  <1>3. /\ n \in Nat /\ n >= 1 /\ Top(g) = stack[g][n] /\ Top(g) \in Frame
        /\ Front(stack[g]) \in Seq(Frame) /\ Len(Front(stack[g])) = n - 1
        /\ \A i \in 1 .. n - 1 : Front(stack[g])[i] = stack[g][i]
    <2>1. stack[g] \in Seq(Frame) /\ stack[g] # <<>>
      BY <1>1, <1>2
    <2> QED
      BY <2>1, StackTop DEF Top
  <1>4. u \in Union
    BY <1>3 DEF Frame
  <1>5. /\ stack' \in [Goroutine -> Seq(Frame)]
        /\ \A h \in Goroutine \ {g} : stack'[h] = stack[h]
        /\ Len(stack'[g]) = n - 1 /\ \A i \in 1 .. n - 1 : stack'[g][i] = stack[g][i]
    BY <1>1, <1>2, <1>3
  <1>6. \A h \in Goroutine : Len(stack[h]) \in Nat
    BY <1>2, LenProperties
  <1> HIDE DEF n, u
  <1>7. \A h \in Goroutine : \A i \in 1 .. Len(stack'[h]) :
          i \in 1 .. Len(stack[h]) /\ stack'[h][i] = stack[h][i]
    BY <1>3, <1>5, <1>6 DEF n
  <1>8. TypeOK'
    <2>1. verdicts' \in [Union -> SUBSET {"dispatched", "panicked"}]
      BY <1>0, <1>1, <1>4 DEF TypeOK
    <2> QED
      BY <2>1, <1>0, <1>1, <1>5 DEF TypeOK
  <1>9. CallsOK'
    <2> SUFFICES ASSUME NEW h \in Goroutine, NEW i \in 1 .. Len(stack'[h]) PROVE CallOK(stack[h][i])'
      BY DEF CallsOK
    <2>1. CallOK(stack[h][i]) /\ stack'[h][i] = stack[h][i]
      BY <1>0, <1>7 DEF CallsOK
    <2> QED
      BY <2>1, <1>1 DEF CallOK
  <1>10. Linked'
    <2> SUFFICES ASSUME NEW h \in Goroutine, NEW i \in 1 .. Len(stack'[h]) - 1
                 PROVE  /\ stack'[h][i].pc = "values"
                        /\ stack'[h][i + 1].u = options[stack'[h][i].u][stack'[h][i].k]
      BY <1>1 DEF Linked
    <2>1. Len(stack'[h]) \in Nat /\ Len(stack[h]) \in Nat /\ Len(stack'[h]) <= Len(stack[h])
      <3>1. CASE h = g
        BY <3>1, <1>3, <1>5 DEF n
      <3>2. CASE h # g
        BY <3>2, <1>5, <1>6
      <3> QED
        BY <3>1, <3>2
    <2>2. i \in 1 .. Len(stack[h]) - 1 /\ stack'[h][i] = stack[h][i] /\ stack'[h][i + 1] = stack[h][i + 1]
      BY <2>1, <1>7
    <2> QED
      BY <2>2, <1>0 DEF Linked
  <1>11. Alone'
    <2> SUFFICES ASSUME NEW h \in Goroutine, NEW m \in Goroutine,
                        NEW i \in 1 .. Len(stack'[h]), NEW j \in 1 .. Len(stack'[m]),
                        stack'[h][i].pc \in InBuild, stack'[m][j].pc \in InBuild,
                        stack'[h][i].u = stack'[m][j].u
                 PROVE  h = m /\ i = j
      BY DEF Alone
    <2>1. /\ i \in 1 .. Len(stack[h]) /\ stack'[h][i] = stack[h][i]
          /\ j \in 1 .. Len(stack[m]) /\ stack'[m][j] = stack[m][j]
      BY <1>7
    <2> QED
      BY <2>1, <1>0 DEF Alone
  <1>12. Attended'
    <2> SUFFICES ASSUME NEW v \in Union, once[v] = "running"
                 PROVE  \E h \in Goroutine : \E i \in 1 .. Len(stack'[h]) :
                          stack'[h][i].u = v /\ stack'[h][i].pc \in InBuild
      BY <1>1 DEF Attended
    <2>1. PICK h \in Goroutine : \E i \in 1 .. Len(stack[h]) :
            stack[h][i].u = v /\ stack[h][i].pc \in InBuild
      BY <1>0 DEF Attended
    <2>2. PICK i \in 1 .. Len(stack[h]) : stack[h][i].u = v /\ stack[h][i].pc \in InBuild
      BY <2>1
    <2>3. ~(h = g /\ i = n)
      BY <2>2, <1>1, <1>3 DEF InBuild
    <2>4. i \in 1 .. Len(stack'[h]) /\ stack'[h][i] = stack[h][i]
      BY <2>3, <1>3, <1>5 DEF n
    <2> QED
      BY <2>2, <2>4
  <1>13. NoCircle'
    <2>1. \A v \in Union : Asks(v)' \subseteq Asks(v)
      BY <1>1, <1>7 DEF Asks
    <2> QED
      BY <2>1, <1>0, FewerAsks
  <1>14. Judged'
    <2> SUFFICES ASSUME NEW v \in Union
                 PROVE  /\ verdicts'[v] \subseteq {IF buildErr[v] THEN "panicked" ELSE "dispatched"}
                        /\ verdicts'[v] # {} => once[v] = "done"
      BY <1>1 DEF Judged
    <2>1. \/ verdicts'[v] = verdicts[v]
          \/ v = u /\ verdicts'[v] = verdicts[v] \cup {verdict}
      BY <1>0, <1>1, <1>4 DEF TypeOK
    <2> QED
      BY <2>1, <1>0, <1>1 DEF Judged
  <1>15. TablesComplete'
    BY <1>0, <1>1 DEF TablesComplete, WellFormed, Leads
  <1> QED
    BY <1>8, <1>9, <1>10, <1>11, <1>12, <1>13, <1>14, <1>15 DEF IInv

\* A build of union u calls ensureDiscMap of the union v whose values it needs.
Asking(g, u, v) ==
  /\ At(g, "option")
  /\ Top(g).u = u
  /\ Top(g).k <= Len(options[u])
  /\ options[u][Top(g).k] = v
  /\ ~building[v]
  /\ stack' = [stack EXCEPT ![g] =
                 Append(Append(Front(@), [Top(g) EXCEPT !.pc = "values"]), Call(v))]
  /\ UNCHANGED <<options, once, building, built, buildErr, parses, verdicts>>

LEMMA CallStep ==
  ASSUME IInv, NEW g \in Goroutine, NEW u \in Union, NEW v \in Union, Asking(g, u, v)
  PROVE  IInv'
  <1> DEFINE n == Len(stack[g])
             f == [Top(g) EXCEPT !.pc = "values"]
             c == Call(v)
  <1>0. TypeOK /\ CallsOK /\ Linked /\ Alone /\ Attended /\ Judged /\ NoCircle /\ TablesComplete
    BY DEF IInv
  <1>a. /\ Top(g).u = u /\ Top(g).k <= Len(options[u]) /\ options[u][Top(g).k] = v /\ ~building[v]
        /\ UNCHANGED <<options, once, building, built, buildErr, parses, verdicts>>
    BY DEF Asking
  <1>1. stack \in [Goroutine -> Seq(Frame)] /\ stack[g] \in Seq(Frame) /\ stack[g] # <<>> /\ Top(g).pc = "option"
    BY <1>0 DEF TypeOK, At, Asking
  <1>2. n \in Nat /\ n >= 1 /\ Top(g) = stack[g][n] /\ Top(g) \in Frame
    BY <1>1, StackTop DEF Top
  <1>3. /\ f \in Frame /\ f.u = u /\ f.k = Top(g).k /\ f.pc = "values"
        /\ c \in Frame /\ c.u = v /\ c.k = 1 /\ c.pc = "once"
    BY <1>a, <1>2 DEF Frame, Call
  <1> HIDE DEF f, c
  <1>4. /\ Append(Front(stack[g]), f) \in Seq(Frame) /\ Len(Append(Front(stack[g]), f)) = n
        /\ \A i \in 1 .. n : Append(Front(stack[g]), f)[i] = IF i = n THEN f ELSE stack[g][i]
    BY <1>1, <1>3, StackSwap
  <1> DEFINE lower == Append(Front(stack[g]), f)
  <1> HIDE DEF lower
  <1>5. /\ Append(lower, c) \in Seq(Frame) /\ Len(Append(lower, c)) = Len(lower) + 1
        /\ \A i \in 1 .. Len(lower) + 1 : Append(lower, c)[i] = IF i = Len(lower) + 1 THEN c ELSE lower[i]
    BY <1>3, <1>4, StackPush DEF lower
  <1>6. /\ stack' \in [Goroutine -> Seq(Frame)]
        /\ \A h \in Goroutine \ {g} : stack'[h] = stack[h]
        /\ stack'[g] = Append(lower, c)
    BY <1>1, <1>5 DEF lower, f, c, Asking
  <1> HIDE DEF n
  <1>7. /\ Len(stack'[g]) = n + 1 /\ stack'[g][n + 1] = c /\ stack'[g][n] = f
        /\ \A i \in 1 .. n - 1 : stack'[g][i] = stack[g][i]
    <2>1. Len(lower) = n /\ \A i \in 1 .. n : lower[i] = IF i = n THEN f ELSE stack[g][i]
      BY <1>4 DEF lower
    <2> DEFINE upper == Append(lower, c)
    <2>2. stack'[g] = upper /\ Len(upper) = n + 1
          /\ \A i \in 1 .. n + 1 : upper[i] = IF i = n + 1 THEN c ELSE lower[i]
      BY <2>1, <1>5, <1>6
    <2> HIDE DEF upper
    <2>3. n + 1 \in 1 .. n + 1 /\ n \in 1 .. n + 1 /\ n \in 1 .. n /\ n # n + 1
      BY <1>2
    <2>4. upper[n + 1] = c /\ upper[n] = f
      BY <2>1, <2>2, <2>3
    <2>5. \A i \in 1 .. n - 1 : upper[i] = stack[g][i]
      BY <2>1, <2>2, <1>2
    <2> QED
      BY <2>2, <2>4, <2>5
  <1>8. \A h \in Goroutine : Len(stack[h]) \in Nat
    BY <1>1, LenProperties
  <1>9. \A h \in Goroutine : \A i \in 1 .. Len(stack'[h]) :
          \/ i \in 1 .. Len(stack[h]) /\ stack'[h][i] = stack[h][i] /\ ~(h = g /\ i = n)
          \/ h = g /\ i = n /\ stack'[h][i] = f
          \/ h = g /\ i = n + 1 /\ stack'[h][i] = c
    <2> SUFFICES ASSUME NEW h \in Goroutine, NEW i \in 1 .. Len(stack'[h])
                 PROVE  \/ i \in 1 .. Len(stack[h]) /\ stack'[h][i] = stack[h][i] /\ ~(h = g /\ i = n)
                        \/ h = g /\ i = n /\ stack'[h][i] = f
                        \/ h = g /\ i = n + 1 /\ stack'[h][i] = c
      OBVIOUS
    <2>1. CASE h = g
      <3>1. i \in 1 .. n + 1
        BY <2>1, <1>7
      <3>2. CASE i \in 1 .. n - 1
        BY <2>1, <3>2, <1>2, <1>7 DEF n
      <3>3. CASE i = n
        BY <2>1, <3>3, <1>7
      <3>4. CASE i = n + 1
        BY <2>1, <3>4, <1>7
      <3> QED
        BY <3>1, <3>2, <3>3, <3>4, <1>2
    <2>2. CASE h # g
      BY <2>2, <1>6
    <2> QED
      BY <2>1, <2>2
  <1>10. CallOK(Top(g)) /\ n \in 1 .. Len(stack[g]) /\ building[u] /\ once[u] = "running"
    <2>1. n \in 1 .. Len(stack[g]) /\ CallOK(Top(g))
      BY <1>0, <1>2 DEF CallsOK, n
    <2> QED
      BY <2>1, <1>a, <1>1 DEF CallOK, UnderFlag, InBuild
  <1>11. TypeOK'
    BY <1>0, <1>a, <1>6 DEF TypeOK
  <1>12. CallsOK'
    <2> SUFFICES ASSUME NEW h \in Goroutine, NEW i \in 1 .. Len(stack'[h]) PROVE CallOK(stack[h][i])'
      BY DEF CallsOK
    <2>1. CASE i \in 1 .. Len(stack[h]) /\ stack'[h][i] = stack[h][i]
      <3>1. CallOK(stack[h][i])
        BY <2>1, <1>0 DEF CallsOK
      <3> QED
        BY <3>1, <2>1, <1>a DEF CallOK
    <2>2. CASE stack'[h][i] = f
      <3>1. f.k >= 1 /\ f.k <= Len(options[f.u]) /\ options[f.u][f.k] \in Union
        BY <1>a, <1>3, <1>10 DEF CallOK
      <3>2. \A j \in 1 .. Len(options[f.u]) : j < f.k => options[f.u][j] = Plain \/ built[options[f.u][j]]
        BY <1>a, <1>3, <1>10 DEF CallOK
      <3> QED
        BY <2>2, <3>1, <3>2, <1>a, <1>3, <1>10 DEF CallOK
    <2>3. CASE stack'[h][i] = c
      <3>1. \A j \in 1 .. Len(options[c.u]) : ~(j < c.k)
        BY <1>3
      <3> QED
        BY <2>3, <3>1, <1>a, <1>3 DEF CallOK, InBuild, UnderFlag
    <2> QED
      BY <2>1, <2>2, <2>3, <1>9
  <1>13. Linked'
    <2> SUFFICES ASSUME NEW h \in Goroutine, NEW i \in 1 .. Len(stack'[h]) - 1
                 PROVE  /\ stack'[h][i].pc = "values"
                        /\ stack'[h][i + 1].u = options[stack'[h][i].u][stack'[h][i].k]
      BY <1>a DEF Linked
    <2>1. CASE h # g
      BY <2>1, <1>0, <1>6 DEF Linked
    <2>2. CASE h = g /\ i = n
      BY <2>2, <1>a, <1>3, <1>7
    <2>3. CASE h = g /\ i = n - 1
      <3>1. i \in 1 .. n - 1 /\ i + 1 = n
        BY <2>3, <1>2, <1>7
      <3>2. stack'[g][i] = stack[g][i] /\ stack'[g][i + 1].u = stack[g][i + 1].u
        BY <3>1, <1>a, <1>2, <1>3, <1>7
      <3> QED
        <4>1. /\ stack[g][i].pc = "values"
              /\ stack[g][i + 1].u = options[stack[g][i].u][stack[g][i].k]
          BY <3>1, <1>0 DEF Linked, n
        <4> QED
          BY <2>3, <3>2, <4>1
    <2>4. CASE h = g /\ i # n /\ i # n - 1
      <3>1. i \in 1 .. n - 1 /\ i + 1 \in 1 .. n - 1
        BY <2>4, <1>2, <1>7
      <3>2. stack'[g][i] = stack[g][i] /\ stack'[g][i + 1] = stack[g][i + 1]
        BY <3>1, <1>7
      <3> QED
        <4>1. i \in 1 .. Len(stack[g]) - 1
          BY <3>1, <1>2 DEF n
        <4>2. /\ stack[g][i].pc = "values"
              /\ stack[g][i + 1].u = options[stack[g][i].u][stack[g][i].k]
          BY <4>1, <1>0 DEF Linked
        <4> QED
          BY <2>4, <3>2, <4>2
    <2> QED
      BY <2>1, <2>2, <2>3, <2>4
  <1>14. \A h \in Goroutine : \A i \in 1 .. Len(stack[h]) :
           ~(h = g /\ i = n) /\ stack[h][i].u = u => stack[h][i].pc \notin InBuild
    BY <1>0, <1>a, <1>1, <1>2, <1>10 DEF Alone, InBuild
  <1>15. Alone'
    <2> SUFFICES ASSUME NEW h \in Goroutine, NEW m \in Goroutine,
                        NEW i \in 1 .. Len(stack'[h]), NEW j \in 1 .. Len(stack'[m]),
                        stack'[h][i].pc \in InBuild, stack'[m][j].pc \in InBuild,
                        stack'[h][i].u = stack'[m][j].u
                 PROVE  h = m /\ i = j
      BY DEF Alone
    <2>1. c.pc \notin InBuild
      BY <1>3 DEF InBuild
    <2>2. CASE (h = g /\ i = n) /\ (m = g /\ j = n)
      BY <2>2
    <2>3. CASE (h = g /\ i = n) /\ ~(m = g /\ j = n)
      BY <2>1, <2>3, <1>3, <1>7, <1>9, <1>14
    <2>4. CASE ~(h = g /\ i = n) /\ (m = g /\ j = n)
      BY <2>1, <2>4, <1>3, <1>7, <1>9, <1>14
    <2>5. CASE ~(h = g /\ i = n) /\ ~(m = g /\ j = n)
      <3>1. /\ i \in 1 .. Len(stack[h]) /\ stack'[h][i] = stack[h][i]
            /\ j \in 1 .. Len(stack[m]) /\ stack'[m][j] = stack[m][j]
        BY <2>1, <2>5, <1>9
      <3> QED
        BY <3>1, <1>0 DEF Alone
    <2> QED
      BY <2>2, <2>3, <2>4, <2>5
  <1>16. Attended'
    <2> SUFFICES ASSUME NEW w \in Union, once[w] = "running"
                 PROVE  \E h \in Goroutine : \E i \in 1 .. Len(stack'[h]) :
                          stack'[h][i].u = w /\ stack'[h][i].pc \in InBuild
      BY <1>a DEF Attended
    <2>1. PICK h \in Goroutine : \E i \in 1 .. Len(stack[h]) :
            stack[h][i].u = w /\ stack[h][i].pc \in InBuild
      BY <1>0 DEF Attended
    <2>2. PICK i \in 1 .. Len(stack[h]) : stack[h][i].u = w /\ stack[h][i].pc \in InBuild
      BY <2>1
    <2>3. CASE h = g /\ i = n
      <3>1. n \in 1 .. Len(stack'[g]) /\ stack'[g][n].u = w /\ stack'[g][n].pc \in InBuild
        BY <2>2, <2>3, <1>a, <1>2, <1>3, <1>7 DEF InBuild
      <3> QED
        BY <3>1
    <2>4. CASE ~(h = g /\ i = n)
      <3>1. i \in 1 .. Len(stack'[h]) /\ stack'[h][i] = stack[h][i]
        <4>1. CASE h = g
          <5>1. i \in 1 .. n - 1
            BY <2>4, <4>1, <1>2 DEF n
          <5> QED
            BY <5>1, <4>1, <1>2, <1>7
        <4>2. CASE h # g
          BY <4>2, <1>6
        <4> QED
          BY <4>1, <4>2
      <3> QED
        BY <2>2, <3>1
    <2> QED
      BY <2>3, <2>4
  <1>17. NoCircle'
    <2> SUFFICES ASSUME NEW S \in SUBSET Union,
                        \A w \in Union : Asks(w)' \subseteq S => w \in S
                 PROVE  Union \subseteq S
      BY DEF NoCircle
    <2>1. v \in S
      <3>1. \A h \in Goroutine : \A i \in 1 .. Len(stack'[h]) :
              ~(stack'[h][i].u = v /\ stack'[h][i].pc = "values")
        <4> SUFFICES ASSUME NEW h \in Goroutine, NEW i \in 1 .. Len(stack'[h]),
                            stack'[h][i].u = v, stack'[h][i].pc = "values"
                     PROVE  FALSE
          OBVIOUS
        <4>1. CASE i \in 1 .. Len(stack[h]) /\ stack'[h][i] = stack[h][i]
          BY <4>1, <1>0, <1>a DEF CallsOK, CallOK, UnderFlag
        <4>2. CASE stack'[h][i] = f
          BY <4>2, <1>a, <1>3, <1>10
        <4>3. CASE stack'[h][i] = c
          BY <4>3, <1>3
        <4> QED
          BY <4>1, <4>2, <4>3, <1>9
      <3>2. Asks(v)' \subseteq S
        BY <3>1 DEF Asks
      <3> QED
        BY <3>2
    <2>2. u \in S
      <3>1. \A h \in Goroutine : \A i \in 1 .. Len(stack'[h]) :
              stack'[h][i].u = u /\ stack'[h][i].pc = "values" => options[u][stack'[h][i].k] = v
        <4> SUFFICES ASSUME NEW h \in Goroutine, NEW i \in 1 .. Len(stack'[h]),
                            stack'[h][i].u = u, stack'[h][i].pc = "values"
                     PROVE  options[u][stack'[h][i].k] = v
          OBVIOUS
        <4>1. CASE i \in 1 .. Len(stack[h]) /\ stack'[h][i] = stack[h][i] /\ ~(h = g /\ i = n)
          BY <4>1, <1>14 DEF InBuild
        <4>2. CASE stack'[h][i] = f
          BY <4>2, <1>a, <1>3
        <4>3. CASE stack'[h][i] = c
          BY <4>3, <1>3
        <4> QED
          BY <4>1, <4>2, <4>3, <1>9
      <3>2. Asks(u)' \subseteq {v}
        BY <1>a, <3>1 DEF Asks
      <3> QED
        BY <2>1, <3>2
    <2>3. \A w \in Union : Asks(w) \subseteq S => w \in S
      <3> SUFFICES ASSUME NEW w \in Union, Asks(w) \subseteq S, w # u PROVE w \in S
        BY <2>2
      <3>1. Asks(w)' \subseteq Asks(w)
        <4> SUFFICES ASSUME NEW x \in Union, NEW h \in Goroutine,
                            NEW i \in 1 .. Len(stack'[h]), stack'[h][i].u = w,
                            stack'[h][i].pc = "values", options[w][stack'[h][i].k] = x
                     PROVE  x \in Asks(w)
          BY <1>a DEF Asks
        <4>1. i \in 1 .. Len(stack[h]) /\ stack'[h][i] = stack[h][i]
          BY <1>3, <1>9
        <4> QED
          BY <4>1 DEF Asks
      <3> QED
        BY <3>1
    <2> HIDE DEF Asks
    <2> QED
      BY <2>3, <1>0 DEF NoCircle
  <1>18. Judged' /\ TablesComplete'
    BY <1>0, <1>a DEF Judged, TablesComplete, WellFormed, Leads
  <1> QED
    BY <1>11, <1>12, <1>13, <1>15, <1>16, <1>17, <1>18 DEF IInv

-----------------------------------------------------------------------------
(* The steps of a build. *)

\* A call turned to another place of the code.
LEMMA Turned ==
  ASSUME IInv, NEW g \in Goroutine, stack[g] # <<>>,
         NEW pc \in {"once", "flag", "option", "values", "publish", "failed", "unflag", "leave"}
  PROVE  LET f == [Top(g) EXCEPT !.pc = pc] IN
         /\ Top(g) \in Frame /\ Top(g).u \in Union /\ Top(g).k \in Nat /\ CallOK(Top(g))
         /\ f \in Frame /\ f.u = Top(g).u /\ f.k = Top(g).k /\ f.pc = pc
         /\ Goto(g, pc) => Goes(g, f)
  <1>1. stack[g] \in Seq(Frame) /\ CallsOK
    BY DEF IInv, TypeOK
  <1>2. /\ Len(stack[g]) \in Nat /\ Len(stack[g]) >= 1 /\ Top(g) = stack[g][Len(stack[g])]
        /\ Top(g) \in Frame
    BY <1>1, StackTop DEF Top
  <1>3. CallOK(Top(g))
    BY <1>1, <1>2 DEF CallsOK
  <1> QED
    BY <1>2, <1>3 DEF Frame, Goto, Goes

\* What the steps below leave of the invariant to prove.
LEMMA Settles ==
  ASSUME IInv, NEW g \in Goroutine, stack[g] # <<>>, NEW f \in Frame, Goes(g, f),
         CallsOK' /\ Linked' /\ Alone' /\ Attended' /\ NoCircle',
         UNCHANGED <<options, parses, verdicts>>,
         once' \in [Union -> {"unused", "running", "done"}],
         building' \in [Union -> BOOLEAN],
         built' \in [Union -> BOOLEAN],
         buildErr' \in [Union -> BOOLEAN],
         Judged', TablesComplete'
  PROVE  IInv'
  <1>1. stack' \in [Goroutine -> Seq(Frame)]
    BY GoesTo DEF IInv, TypeOK
  <1> QED
    BY <1>1 DEF IInv, TypeOK

LEMMA StartBuildStep == ASSUME IInv, NEW g \in Goroutine, StartBuild(g) PROVE IInv'
  <1>1. /\ stack[g] # <<>> /\ Top(g).pc = "once" /\ once[Top(g).u] = "unused" /\ Goto(g, "flag")
        /\ once' = [once EXCEPT ![Top(g).u] = "running"]
        /\ UNCHANGED <<options, building, built, buildErr, parses, verdicts>>
    BY DEF StartBuild, At
  <1>2. PICK f \in Frame : f = [Top(g) EXCEPT !.pc = "flag"]
    BY <1>1, Turned
  <1>3. /\ Goes(g, f) /\ f.pc = "flag" /\ f.u = Top(g).u /\ f.k = Top(g).k /\ f.u \in Union
        /\ CallOK(Top(g))
    BY <1>1, <1>2, Turned
  <1>4. TypeOK /\ Judged /\ TablesComplete
    BY DEF IInv
  <1>5. \A u \in Union : once'[u] = IF u = f.u THEN "running" ELSE once[u]
    BY <1>1, <1>3, <1>4 DEF TypeOK
  <1>6. CallOK(f)'
    BY <1>1, <1>3, <1>5 DEF CallOK, UnderFlag
  <1>7. ASSUME NEW c \in Frame, CallOK(c), c.u = f.u => c.pc \notin InBuild
        PROVE  CallOK(c)'
    <2>1. c.u \in Union
      BY DEF Frame
    <2> QED
      BY <2>1, <1>1, <1>5, <1>7 DEF CallOK
  <1>8. CallsOK' /\ Linked' /\ Alone' /\ Attended' /\ NoCircle'
    BY <1>1, <1>3, <1>5, <1>6, <1>7, GoesInv DEF InBuild
  <1>9. Judged' /\ TablesComplete'
    BY <1>1, <1>3, <1>4, <1>5 DEF Judged, TablesComplete, WellFormed, Leads
  <1> QED
    BY <1>1, <1>3, <1>4, <1>8, <1>9, Settles DEF TypeOK

LEMMA SetFlagStep == ASSUME IInv, NEW g \in Goroutine, SetFlag(g) PROVE IInv'
  <1>1. /\ stack[g] # <<>> /\ Top(g).pc = "flag" /\ Goto(g, "option")
        /\ building' = [building EXCEPT ![Top(g).u] = TRUE]
        /\ UNCHANGED <<options, once, built, buildErr, parses, verdicts>>
    BY DEF SetFlag, At
  <1>2. PICK f \in Frame : f = [Top(g) EXCEPT !.pc = "option"]
    BY <1>1, Turned
  <1>3. /\ Goes(g, f) /\ f.pc = "option" /\ f.u = Top(g).u /\ f.k = Top(g).k /\ f.u \in Union
        /\ CallOK(Top(g))
    BY <1>1, <1>2, Turned
  <1>4. TypeOK /\ Judged /\ TablesComplete
    BY DEF IInv
  <1>5. \A u \in Union : building'[u] = (u = f.u \/ building[u])
    BY <1>1, <1>3, <1>4 DEF TypeOK
  <1>6. CallOK(f)'
    BY <1>1, <1>3, <1>5 DEF CallOK, InBuild
  <1>7. ASSUME NEW c \in Frame, CallOK(c), c.u = f.u => c.pc \notin InBuild
        PROVE  CallOK(c)'
    <2>1. c.u \in Union
      BY DEF Frame
    <2> QED
      BY <2>1, <1>1, <1>5, <1>7 DEF CallOK
  <1>8. CallsOK' /\ Linked' /\ Alone' /\ Attended' /\ NoCircle'
    BY <1>1, <1>3, <1>6, <1>7, GoesInv DEF InBuild
  <1>9. Judged' /\ TablesComplete'
    BY <1>1, <1>4 DEF Judged, TablesComplete, WellFormed, Leads
  <1> QED
    BY <1>1, <1>3, <1>4, <1>8, <1>9, Settles DEF TypeOK

\* A step that only moves on in the code, or on to the next option.
LEMMA MoveStep ==
  ASSUME IInv, NEW g \in Goroutine, stack[g] # <<>>, NEW f \in Frame, Goes(g, f),
         f.u = Top(g).u, f.pc \in InBuild \ {"values"}, Top(g).pc \in InBuild, CallOK(f),
         UNCHANGED <<options, once, building, built, buildErr, parses, verdicts>>
  PROVE  IInv'
  <1>1. TypeOK /\ Judged /\ TablesComplete
    BY DEF IInv
  <1>2. ASSUME NEW c, CallOK(c) PROVE CallOK(c)'
    BY <1>2 DEF CallOK
  <1>3. CallsOK' /\ Linked' /\ Alone' /\ Attended' /\ NoCircle'
    BY <1>2, GoesInv
  <1>4. Judged' /\ TablesComplete'
    BY <1>1 DEF Judged, TablesComplete, WellFormed, Leads
  <1> QED
    BY <1>1, <1>3, <1>4, Settles DEF TypeOK

LEMMA NextOptionStep == ASSUME IInv, NEW g \in Goroutine, NextOption(g) PROVE IInv'
  <1> DEFINE u == Top(g).u
             k == Top(g).k
  <1>1. /\ stack[g] # <<>> /\ Top(g).pc = "option"
        /\ UNCHANGED <<options, once, building, built, buildErr, parses, verdicts>>
    BY DEF NextOption, At
  <1>2. /\ Top(g) \in Frame /\ u \in Union /\ k \in Nat /\ CallOK(Top(g))
        /\ once[u] = "running" /\ building[u]
        /\ \A j \in 1 .. Len(options[u]) : j < k => options[u][j] = Plain \/ built[options[u][j]]
    <2>1. Top(g) \in Frame /\ u \in Union /\ k \in Nat /\ CallOK(Top(g))
      BY <1>1, Turned
    <2> QED
      BY <2>1, <1>1 DEF CallOK, InBuild, UnderFlag
  <1>3. options[u] \in Seq(Union \cup {Plain}) /\ Len(options[u]) \in Nat
    <2>1. options[u] \in OptionLists
      BY <1>2 DEF IInv, TypeOK
    <2>2. options[u] \in Seq(Union \cup {Plain})
      BY <2>1, LazyBuildAssumption
    <2> QED
      BY <2>2, LenProperties
  <1>4. CASE k > Len(options[u]) /\ Goto(g, "publish")
    <2>1. PICK f \in Frame : f = [Top(g) EXCEPT !.pc = "publish"]
      BY <1>1, Turned
    <2>2. Goes(g, f) /\ f.pc = "publish" /\ f.u = u /\ f.k = k
      BY <1>1, <1>4, <2>1, Turned
    <2>3. CallOK(f)
      BY <1>2, <1>4, <2>2 DEF CallOK
    <2> QED
      BY <1>1, <2>2, <2>3, MoveStep DEF InBuild
  <1>5. CASE /\ k <= Len(options[u]) /\ options[u][k] = Plain
             /\ stack' = [stack EXCEPT ![g] = Append(Front(@), [Top(g) EXCEPT !.k = @ + 1])]
    <2>a. Top(g).k + 1 \in Nat
      BY <1>2
    <2>1. PICK f \in Frame : f = [Top(g) EXCEPT !.k = @ + 1]
      BY <2>a, <1>2, Zenon DEF Frame
    <2>2. Goes(g, f) /\ f.pc = "option" /\ f.u = u /\ f.k = k + 1
      BY <1>1, <1>2, <1>5, <2>1 DEF Goes, Frame
    <2>3. \A j \in 1 .. Len(options[u]) : j < k + 1 => options[u][j] = Plain \/ built[options[u][j]]
      BY <1>2, <1>3, <1>5
    <2>4. CallOK(f)
      BY <1>2, <2>2, <2>3 DEF CallOK
    <2> QED
      BY <1>1, <2>2, <2>4, MoveStep DEF InBuild
  <1>6. CASE Goto(g, "failed")
    <2>1. PICK f \in Frame : f = [Top(g) EXCEPT !.pc = "failed"]
      BY <1>1, Turned
    <2>2. Goes(g, f) /\ f.pc = "failed" /\ f.u = u /\ f.k = k
      BY <1>1, <1>6, <2>1, Turned
    <2>3. CallOK(f)
      BY <1>2, <2>2 DEF CallOK
    <2> QED
      BY <1>1, <2>2, <2>3, MoveStep DEF InBuild
  <1>7. CASE /\ k <= Len(options[u]) /\ options[u][k] # Plain /\ ~building[options[u][k]]
             /\ stack' = [stack EXCEPT ![g] = Append(Append(Front(@), [Top(g) EXCEPT !.pc = "values"]),
                                                    Call(options[u][k]))]
    <2>1. PICK v \in Union : v = options[u][k]
      <3>1. k \in 1 .. Len(options[u])
        BY <1>2, <1>3, <1>7 DEF CallOK
      <3>2. options[u][k] \in Union \cup {Plain}
        BY <3>1, <1>3, ElementOfSeq
      <3> QED
        BY <3>2, <1>7
    <2>2. PICK w \in Union : w = u
      BY <1>2
    <2>3. Asking(g, w, v)
      BY <1>1, <1>7, <2>1, <2>2 DEF Asking, At
    <2> QED
      BY <2>3, CallStep
  <1> QED
    BY <1>4, <1>5, <1>6, <1>7 DEF NextOption

LEMMA ReadValuesStep == ASSUME IInv, NEW g \in Goroutine, ReadValues(g) PROVE IInv'
  <1> DEFINE u == Top(g).u
             k == Top(g).k
  <1>1. /\ stack[g] # <<>> /\ Top(g).pc = "values"
        /\ UNCHANGED <<options, once, building, built, buildErr, parses, verdicts>>
    BY DEF ReadValues, At
  <1>2. /\ Top(g) \in Frame /\ u \in Union /\ k \in Nat /\ CallOK(Top(g))
        /\ once[u] = "running" /\ building[u]
        /\ \A j \in 1 .. Len(options[u]) : j < k => options[u][j] = Plain \/ built[options[u][j]]
    <2>1. Top(g) \in Frame /\ u \in Union /\ k \in Nat /\ CallOK(Top(g))
      BY <1>1, Turned
    <2> QED
      BY <2>1, <1>1 DEF CallOK, InBuild, UnderFlag
  <1>3. CASE /\ built[options[u][k]]
             /\ stack' = [stack EXCEPT ![g] =
                            Append(Front(@), [Top(g) EXCEPT !.pc = "option", !.k = @ + 1])]
    <2>a. Top(g).k + 1 \in Nat
      BY <1>2
    <2>1. PICK f \in Frame : f = [Top(g) EXCEPT !.pc = "option", !.k = @ + 1]
      BY <2>a, <1>2, Zenon DEF Frame
    <2>2. Goes(g, f) /\ f.pc = "option" /\ f.u = u /\ f.k = k + 1
      BY <1>1, <1>2, <1>3, <2>1 DEF Goes, Frame
    <2>3. \A j \in 1 .. Len(options[u]) : j < k + 1 => options[u][j] = Plain \/ built[options[u][j]]
      BY <1>2, <1>3
    <2>4. CallOK(f)
      BY <1>2, <2>2, <2>3 DEF CallOK
    <2> QED
      BY <1>1, <2>2, <2>4, MoveStep DEF InBuild
  <1>4. CASE Goto(g, "failed")
    <2>1. PICK f \in Frame : f = [Top(g) EXCEPT !.pc = "failed"]
      BY <1>1, Turned
    <2>2. Goes(g, f) /\ f.pc = "failed" /\ f.u = u /\ f.k = k
      BY <1>1, <1>4, <2>1, Turned
    <2>3. CallOK(f)
      BY <1>2, <2>2 DEF CallOK
    <2> QED
      BY <1>1, <2>2, <2>3, MoveStep DEF InBuild
  <1> QED
    BY <1>3, <1>4 DEF ReadValues

\* The options the table is made of have tables themselves, and none of them
\* leads back to itself.
LEMMA PublishStep == ASSUME IInv, NEW g \in Goroutine, Publish(g) PROVE IInv'
  <1>1. /\ stack[g] # <<>> /\ Top(g).pc = "publish" /\ Goto(g, "unflag")
        /\ built' = [built EXCEPT ![Top(g).u] = TRUE]
        /\ UNCHANGED <<options, once, building, buildErr, parses, verdicts>>
    BY DEF Publish, At
  <1>2. PICK f \in Frame : f = [Top(g) EXCEPT !.pc = "unflag"]
    BY <1>1, Turned
  <1>3. /\ Goes(g, f) /\ f.pc = "unflag" /\ f.u = Top(g).u /\ f.k = Top(g).k /\ f.u \in Union
        /\ f.k \in Nat /\ CallOK(Top(g))
    BY <1>1, <1>2, Turned
  <1>4. TypeOK /\ Judged /\ TablesComplete
    BY DEF IInv
  <1>5. \A u \in Union : built'[u] = (u = f.u \/ built[u])
    BY <1>1, <1>3, <1>4 DEF TypeOK
  <1>6. /\ options[f.u] \in Seq(Union \cup {Plain}) /\ Len(options[f.u]) \in Nat
        /\ \A u \in Union : options[u] \in Seq(Union \cup {Plain})
    <2>1. \A u \in Union : options[u] \in Seq(Union \cup {Plain})
      BY <1>4, LazyBuildAssumption DEF TypeOK
    <2> QED
      BY <2>1, <1>3, LenProperties
  <1>7. \A u \in Union : \A j \in 1 .. Len(options[u]) : options[u][j] \in Union \cup {Plain}
    BY <1>6, ElementOfSeq
  <1>8. ASSUME NEW c \in Frame, CallOK(c) PROVE
          \A j \in 1 .. Len(options[c.u]) : j < c.k => options[c.u][j] = Plain \/ built'[options[c.u][j]]
    <2> SUFFICES ASSUME NEW j \in 1 .. Len(options[c.u]), j < c.k, options[c.u][j] # Plain
                 PROVE  built'[options[c.u][j]]
      OBVIOUS
    <2>1. c.u \in Union
      BY DEF Frame
    <2>2. options[c.u][j] \in Union /\ built[options[c.u][j]]
      BY <2>1, <1>7, <1>8 DEF CallOK
    <2> QED
      BY <2>2, <1>5
  <1>9. CallOK(f)'
    <2>1. /\ CallOK(f) /\ once[f.u] = "running" /\ building[f.u]
      BY <1>1, <1>3 DEF CallOK, InBuild, UnderFlag
    <2> QED
      BY <2>1, <1>1, <1>3, <1>8 DEF CallOK
  <1>10. ASSUME NEW c \in Frame, CallOK(c), c.u = f.u => c.pc \notin InBuild
         PROVE  CallOK(c)'
    BY <1>1, <1>8, <1>10 DEF CallOK
  <1>11. CallsOK' /\ Linked' /\ Alone' /\ Attended' /\ NoCircle'
    BY <1>1, <1>3, <1>9, <1>10, GoesInv DEF InBuild
  <1>12. TablesComplete'
    <2>1. \A v \in Leads(f.u) : v \in Union /\ built[v]
      <3> SUFFICES ASSUME NEW j \in DOMAIN options[f.u], options[f.u][j] # Plain
                   PROVE  options[f.u][j] \in Union /\ built[options[f.u][j]]
        BY DEF Leads, Range
      <3>1. j \in 1 .. Len(options[f.u]) /\ j < f.k
        BY <1>1, <1>3, <1>6, LenProperties DEF CallOK
      <3> QED
        BY <3>1, <1>1, <1>3, <1>7 DEF CallOK
    <2>2. \A v \in Leads(f.u) : WellFormed(v)
      BY <2>1, <1>4 DEF TablesComplete
    <2>3. WellFormed(f.u)
      <3> SUFFICES ASSUME NEW S \in SUBSET Union, \A v \in Union : Leads(v) \subseteq S => v \in S
                   PROVE  f.u \in S
        BY DEF WellFormed
      <3>1. Leads(f.u) \subseteq S
        BY <2>2 DEF WellFormed
      <3> QED
        BY <3>1, <1>3
    <2>4. options' = options
      BY <1>1
    <2>5. \A v : Leads(v)' = Leads(v)
      BY <2>4 DEF Leads
    <2>6. \A v : WellFormed(v)' = WellFormed(v)
      BY <2>5 DEF WellFormed
    <2> SUFFICES ASSUME NEW u \in Union, built'[u]
                 PROVE  WellFormed(u) /\ \A v \in Leads(u) : built'[v]
      BY <2>5, <2>6 DEF TablesComplete
    <2>7. CASE u = f.u
      BY <2>1, <2>3, <2>7, <1>5
    <2>8. CASE u # f.u
      <3>1. WellFormed(u) /\ \A v \in Leads(u) : built[v]
        BY <2>8, <1>4, <1>5 DEF TablesComplete
      <3>2. Leads(u) \subseteq Union
        BY <1>6, <1>7, LenProperties DEF Leads, Range
      <3> QED
        BY <3>1, <3>2, <1>5
    <2> QED
      BY <2>7, <2>8
  <1>13. Judged'
    BY <1>1, <1>4 DEF Judged
  <1> QED
    BY <1>1, <1>3, <1>4, <1>11, <1>12, <1>13, Settles DEF TypeOK

LEMMA RecoverStep == ASSUME IInv, NEW g \in Goroutine, Recover(g) PROVE IInv'
  <1>1. /\ stack[g] # <<>> /\ Top(g).pc = "failed" /\ Goto(g, "unflag")
        /\ buildErr' = [buildErr EXCEPT ![Top(g).u] = TRUE]
        /\ UNCHANGED <<options, once, building, built, parses, verdicts>>
    BY DEF Recover, At
  <1>2. PICK f \in Frame : f = [Top(g) EXCEPT !.pc = "unflag"]
    BY <1>1, Turned
  <1>3. /\ Goes(g, f) /\ f.pc = "unflag" /\ f.u = Top(g).u /\ f.k = Top(g).k /\ f.u \in Union
        /\ CallOK(Top(g))
    BY <1>1, <1>2, Turned
  <1>4. TypeOK /\ Judged /\ TablesComplete
    BY DEF IInv
  <1>5. \A u \in Union : buildErr'[u] = (u = f.u \/ buildErr[u])
    BY <1>1, <1>3, <1>4 DEF TypeOK
  <1>6. CallOK(f)' /\ once[f.u] = "running"
    BY <1>1, <1>3 DEF CallOK, InBuild, UnderFlag
  <1>7. ASSUME NEW c \in Frame, CallOK(c), c.u = f.u => c.pc \notin InBuild
        PROVE  CallOK(c)'
    BY <1>1, <1>7 DEF CallOK
  <1>8. CallsOK' /\ Linked' /\ Alone' /\ Attended' /\ NoCircle'
    BY <1>1, <1>3, <1>6, <1>7, GoesInv DEF InBuild
  <1>9. Judged'
    <2> SUFFICES ASSUME NEW u \in Union
                 PROVE  /\ verdicts[u] \subseteq {IF buildErr'[u] THEN "panicked" ELSE "dispatched"}
                        /\ verdicts[u] # {} => once[u] = "done"
      BY <1>1 DEF Judged
    <2>1. CASE u = f.u
      BY <2>1, <1>3, <1>4, <1>6 DEF Judged
    <2>2. CASE u # f.u
      BY <2>2, <1>4, <1>5 DEF Judged
    <2> QED
      BY <2>1, <2>2
  <1>10. TablesComplete'
    BY <1>1, <1>4 DEF TablesComplete, WellFormed, Leads
  <1> QED
    BY <1>1, <1>3, <1>4, <1>8, <1>9, <1>10, Settles DEF TypeOK

LEMMA ClearFlagStep == ASSUME IInv, NEW g \in Goroutine, ClearFlag(g) PROVE IInv'
  <1>1. /\ stack[g] # <<>> /\ Top(g).pc = "unflag" /\ Goto(g, "leave")
        /\ building' = [building EXCEPT ![Top(g).u] = FALSE]
        /\ UNCHANGED <<options, once, built, buildErr, parses, verdicts>>
    BY DEF ClearFlag, At
  <1>2. PICK f \in Frame : f = [Top(g) EXCEPT !.pc = "leave"]
    BY <1>1, Turned
  <1>3. /\ Goes(g, f) /\ f.pc = "leave" /\ f.u = Top(g).u /\ f.k = Top(g).k /\ f.u \in Union
        /\ CallOK(Top(g))
    BY <1>1, <1>2, Turned
  <1>4. TypeOK /\ Judged /\ TablesComplete
    BY DEF IInv
  <1>5. \A u \in Union : building'[u] = (u # f.u /\ building[u])
    BY <1>1, <1>3, <1>4 DEF TypeOK
  <1>6. CallOK(f)'
    BY <1>1, <1>3 DEF CallOK, InBuild, UnderFlag
  <1>7. ASSUME NEW c \in Frame, CallOK(c), c.u = f.u => c.pc \notin InBuild
        PROVE  CallOK(c)'
    <2>1. c.u \in Union
      BY DEF Frame
    <2>2. c.pc \in UnderFlag => building'[c.u]
      BY <2>1, <1>5, <1>7 DEF CallOK, InBuild, UnderFlag
    <2> QED
      BY <2>2, <1>1, <1>7 DEF CallOK
  <1>8. CallsOK' /\ Linked' /\ Alone' /\ Attended' /\ NoCircle'
    BY <1>1, <1>3, <1>6, <1>7, GoesInv DEF InBuild
  <1>9. Judged' /\ TablesComplete'
    BY <1>1, <1>4 DEF Judged, TablesComplete, WellFormed, Leads
  <1> QED
    BY <1>1, <1>3, <1>4, <1>8, <1>9, Settles DEF TypeOK

LEMMA EndBuildStep == ASSUME IInv, NEW g \in Goroutine, EndBuild(g) PROVE IInv'
  <1>1. /\ stack[g] # <<>> /\ Top(g).pc = "leave" /\ Goto(g, "once")
        /\ once' = [once EXCEPT ![Top(g).u] = "done"]
        /\ UNCHANGED <<options, building, built, buildErr, parses, verdicts>>
    BY DEF EndBuild, At
  <1>2. PICK f \in Frame : f = [Top(g) EXCEPT !.pc = "once"]
    BY <1>1, Turned
  <1>3. /\ Goes(g, f) /\ f.pc = "once" /\ f.u = Top(g).u /\ f.k = Top(g).k /\ f.u \in Union
        /\ CallOK(Top(g))
    BY <1>1, <1>2, Turned
  <1>4. TypeOK /\ Judged /\ TablesComplete
    BY DEF IInv
  <1>5. \A u \in Union : once'[u] = IF u = f.u THEN "done" ELSE once[u]
    BY <1>1, <1>3, <1>4 DEF TypeOK
  <1>6. CallOK(f)'
    BY <1>1, <1>3 DEF CallOK, InBuild, UnderFlag
  <1>7. ASSUME NEW c \in Frame, CallOK(c), c.u = f.u => c.pc \notin InBuild
        PROVE  CallOK(c)'
    <2>1. c.u \in Union
      BY DEF Frame
    <2>2. c.pc \in InBuild => once'[c.u] = "running"
      BY <2>1, <1>5, <1>7 DEF CallOK
    <2> QED
      BY <2>2, <1>1, <1>7 DEF CallOK
  <1>8. CallsOK' /\ Linked' /\ Alone' /\ Attended' /\ NoCircle'
    BY <1>1, <1>3, <1>5, <1>6, <1>7, GoesInv DEF InBuild
  <1>9. Judged' /\ TablesComplete'
    BY <1>1, <1>4, <1>5 DEF Judged, TablesComplete, WellFormed, Leads
  <1> QED
    BY <1>1, <1>3, <1>4, <1>8, <1>9, Settles DEF TypeOK

-----------------------------------------------------------------------------
(* The theorems. *)

LEMMA InitInv == Init => IInv
  <1> SUFFICES ASSUME Init PROVE IInv
    OBVIOUS
  <1>1. \A g \in Goroutine : stack[g] = <<>> /\ Len(stack[g]) = 0
    BY DEF Init
  <1>2. TypeOK
    BY LazyBuildAssumption DEF Init, TypeOK
  <1>3. CallsOK /\ Linked /\ Alone
    <2>1. \A g \in Goroutine : 1 .. Len(stack[g]) = {} /\ 1 .. Len(stack[g]) - 1 = {}
      BY <1>1
    <2> QED
      BY <2>1 DEF CallsOK, Linked, Alone
  <1>4. Attended /\ Judged /\ TablesComplete
    BY DEF Init, Attended, Judged, TablesComplete
  <1>5. NoCircle
    <2>1. \A v \in Union : Asks(v) = {}
      BY <1>1 DEF Asks
    <2> HIDE DEF Asks
    <2> QED
      BY <2>1 DEF NoCircle
  <1> QED
    BY <1>2, <1>3, <1>4, <1>5 DEF IInv

LEMMA StepInv == IInv /\ [Next]_vars => IInv'
  <1> SUFFICES ASSUME IInv, [Next]_vars PROVE IInv'
    OBVIOUS
  <1>1. CASE \E g \in Goroutine : Step(g)
    <2>1. PICK g \in Goroutine : Step(g)
      BY <1>1
    <2>2. CASE Parse(g)
      BY <2>2, ParseStep
    <2>3. CASE StartBuild(g)
      BY <2>3, StartBuildStep
    <2>4. CASE Ensured(g)
      BY <2>4, EnsuredStep
    <2>5. CASE SetFlag(g)
      BY <2>5, SetFlagStep
    <2>6. CASE NextOption(g)
      BY <2>6, NextOptionStep
    <2>7. CASE ReadValues(g)
      BY <2>7, ReadValuesStep
    <2>8. CASE Publish(g)
      BY <2>8, PublishStep
    <2>9. CASE Recover(g)
      BY <2>9, RecoverStep
    <2>10. CASE ClearFlag(g)
      BY <2>10, ClearFlagStep
    <2>11. CASE EndBuild(g)
      BY <2>11, EndBuildStep
    <2> QED
      BY <2>1, <2>2, <2>3, <2>4, <2>5, <2>6, <2>7, <2>8, <2>9, <2>10, <2>11 DEF Step
  <1>2. CASE UNCHANGED vars
    <2>1. UNCHANGED <<options, once, building, built, buildErr, stack, parses, verdicts>>
      BY <1>2 DEF vars
    <2>2. TypeOK' /\ Judged'
      BY <2>1 DEF IInv, TypeOK, Judged
    <2>2a. CallsOK' /\ Linked'
      BY <2>1 DEF IInv, CallsOK, CallOK, Linked
    <2>2b. Alone' /\ Attended'
      BY <2>1 DEF IInv, Alone, Attended
    <2>3. NoCircle'
      <3>1. \A v \in Union : Asks(v)' \subseteq Asks(v)
        BY <2>1 DEF Asks
      <3> QED
        BY <3>1, FewerAsks DEF IInv
    <2>4. TablesComplete'
      BY <2>1 DEF IInv, TablesComplete, WellFormed, Leads
    <2> QED
      BY <2>2, <2>2a, <2>2b, <2>3, <2>4 DEF IInv
  <1> QED
    BY <1>1, <1>2 DEF Next, Finished

\* The invariant holds whatever the goroutines do.
THEOREM Invariance == Spec => []IInv
  BY InitInv, StepInv, PTL DEF Spec

\* The unions, the Onces and the calls of ensureDiscMap stay well formed.
THEOREM TypeCorrect == Spec => []TypeOK
  <1>1. IInv => TypeOK
    BY DEF IInv
  <1> QED
    BY <1>1, Invariance, PTL

\* All parses of a union dispatch, or all of them panic: the verdict of its one
\* build is final before any parse sees it.
THEOREM SameVerdictHolds == Spec => []SameVerdict
  <1>1. IInv => SameVerdict
    <2> SUFFICES ASSUME IInv, NEW u \in Union PROVE verdicts[u] # {"dispatched", "panicked"}
      BY DEF SameVerdict
    <2>1. verdicts[u] \subseteq {IF buildErr[u] THEN "panicked" ELSE "dispatched"}
      BY DEF IInv, Judged
    <2> QED
      BY <2>1
  <1> QED
    BY <1>1, Invariance, PTL

\* A table that is there is complete, and no union that leads back to itself has
\* one, however the builds of unions that share options interleave.
THEOREM TablesCompleteHolds == Spec => []TablesComplete
  <1>1. IInv => TablesComplete
    BY DEF IInv
  <1> QED
    BY <1>1, Invariance, PTL

\* A union that is being built, or one it waits for, is being built by a
\* goroutine that does not wait.
LEMMA BuilderRuns == ASSUME IInv PROVE \A v \in Union : once[v] = "running" => \E g \in Goroutine : Runs(g)
  <1> DEFINE S == {v \in Union : once[v] = "running" => \E g \in Goroutine : Runs(g)}
  <1>0. TypeOK /\ CallsOK /\ Linked /\ Attended /\ NoCircle
    BY DEF IInv
  <1>1. ASSUME NEW v \in Union, Asks(v) \subseteq S, once[v] = "running"
        PROVE  \E g \in Goroutine : Runs(g)
    <2>1. PICK g \in Goroutine : \E i \in 1 .. Len(stack[g]) : stack[g][i].u = v /\ stack[g][i].pc \in InBuild
      BY <1>0, <1>1 DEF Attended
    <2>2. PICK i \in 1 .. Len(stack[g]) : stack[g][i].u = v /\ stack[g][i].pc \in InBuild
      BY <2>1
    <2>3. stack[g] \in Seq(Frame) /\ stack[g] # <<>>
      BY <2>2, CallFacts, <1>0
    <2>4. Len(stack[g]) \in Nat /\ Top(g) = stack[g][Len(stack[g])]
      BY <2>3, StackTop DEF Top
    <2>5. CASE i = Len(stack[g])
      BY <2>2, <2>3, <2>4, <2>5 DEF Runs, InBuild
    <2>6. CASE i # Len(stack[g])
      <3>1. i \in 1 .. Len(stack[g]) - 1 /\ i + 1 \in 1 .. Len(stack[g])
        BY <2>4, <2>6
      <3>2. /\ stack[g][i].pc = "values"
            /\ stack[g][i + 1].u = options[v][stack[g][i].k]
        BY <3>1, <2>2, <1>0 DEF Linked
      <3>3. stack[g][i + 1].u \in Union
        BY <3>1, <1>0, CallFacts
      <3>4. stack[g][i + 1].u \in Asks(v)
        BY <2>2, <3>2, <3>3 DEF Asks
      <3>5. CASE once[stack[g][i + 1].u] = "running"
        BY <3>4, <3>5, <1>1
      <3>6. CASE once[stack[g][i + 1].u] # "running"
        <4>1. stack[g][i + 1].pc \notin InBuild
          BY <3>1, <3>6, <1>0 DEF CallsOK, CallOK
        <4>2. i + 1 = Len(stack[g])
          <5> SUFFICES ASSUME i + 1 # Len(stack[g]) PROVE FALSE
            OBVIOUS
          <5>1. i + 1 \in 1 .. Len(stack[g]) - 1
            BY <3>1, <2>4
          <5> QED
            BY <5>1, <4>1, <1>0 DEF Linked, InBuild
        <4> QED
          BY <4>2, <3>6, <2>3, <2>4 DEF Runs
      <3> QED
        BY <3>5, <3>6
    <2> QED
      BY <2>5, <2>6
  <1>2. \A v \in Union : Asks(v) \subseteq S => v \in S
    BY <1>1
  <1>3. S \in SUBSET Union
    OBVIOUS
  <1>4. Union \subseteq S
    <2> HIDE DEF S, Asks
    <2> QED
      BY <1>2, <1>3, <1>0 DEF NoCircle
  <1> QED
    BY <1>4

\* Of the goroutines that are in ensureDiscMap there is always one that does not
\* wait for a Once, also when unions lead to each other in a circle: the flag is
\* set before another union's is read.
THEOREM NoCircularWait == Spec => []SomeoneRuns
  <1>1. IInv => SomeoneRuns
    <2> SUFFICES ASSUME IInv, NEW g \in Goroutine, stack[g] # <<>>
                 PROVE  \E h \in Goroutine : Runs(h)
      BY DEF SomeoneRuns
    <2>1. CASE Top(g).pc = "once" /\ once[Top(g).u] = "running"
      <3>1. Top(g).u \in Union
        BY Turned
      <3> QED
        BY <2>1, <3>1, BuilderRuns
    <2>2. CASE ~(Top(g).pc = "once" /\ once[Top(g).u] = "running")
      BY <2>2 DEF Runs
    <2> QED
      BY <2>1, <2>2
  <1> QED
    BY <1>1, Invariance, PTL
=============================================================================
