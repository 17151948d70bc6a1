-------------------------- MODULE DeadlinesProofs --------------------------
(***************************************************************************)
(* The properties of Deadlines for every set of calls and databases, every *)
(* mix of statement timeouts and every clock.                              *)
(***************************************************************************)
EXTENDS Deadlines, TLAPS

-----------------------------------------------------------------------------
(* Arithmetic *)

\* A remainder that is smaller than the divisor.
LEMMA SmallRemainder ==
  ASSUME NEW a \in Nat, NEW b \in Nat, a < b
  PROVE  a % b = a
  OBVIOUS

\* A product that fits a time.Duration is the product.
LEMMA WrapFits ==
  ASSUME NEW x \in 0 .. MaxDuration
  PROVE  Wrap(x) = x
<1> MaxDuration \in Nat
  BY DeadlinesAssumption
<1> DEFINE a == x + MaxDuration + 1
           b == 2 * (MaxDuration + 1)
<1>1. a \in Nat /\ b \in Nat /\ a < b
  OBVIOUS
<1>2. a % b = a
  BY <1>1, SmallRemainder
<1> QED
  BY <1>2 DEF Wrap

LEMMA ProductBound ==
  ASSUME NEW n \in Nat, NEW m \in Nat, NEW k \in Nat, n <= m
  PROVE  n * k \in Nat /\ n * k <= m * k
  OBVIOUS

\* The duration of an accepted number of seconds.
LEMMA DurationExact ==
  ASSUME NEW secs \in Nat, secs <= MaxInt
  PROVE  Duration(secs) = secs * Second
<1> MaxInt \in Nat /\ Second \in Nat /\ MaxDuration \in Nat
  BY DeadlinesAssumption
<1>1. secs * Second \in Nat /\ secs * Second <= MaxInt * Second
  BY ProductBound
<1>2. MaxInt * Second \in Nat /\ MaxInt * Second <= MaxDuration
  BY SlackAssumption, ProductBound
<1>3. secs * Second \in 0 .. MaxDuration
  BY <1>1, <1>2
<1> QED
  BY <1>3, WrapFits DEF Duration

\* The code's constants satisfy the first half of SlackAssumption.
LEMMA CodeConstants == 2147483647 * 1000000000 <= 9223372036854775807
  OBVIOUS

-----------------------------------------------------------------------------
(* The inductive invariant *)

\* Where a call is bounds the clock, and its deadline is bounded by when it
\* came in and by its database.
CallInv(c) ==
  LET k == call[c]
  IN  /\ k.pc # "idle" => k.db \in Dbs
      /\ k.pc = "enter" => now <= k.start + Pause
      /\ k.pc \in {"acquire", "run"} =>
           /\ now <= k.dl + Pause
           /\ k.dl <= k.start + Pause + limit[k.db] + sessionSlack
           /\ k.tool = "list" => k.dl <= k.start + Pause + probeTimeout
      /\ k.tool = "sql" /\ k.pc \in {"acquire", "run", "undo"} =>
           k.lim = k.arg * Second /\ k.lim \in 0 .. limit[k.db]
      /\ k.cut \in {"no", "undo"}

IInv ==
  /\ TypeOK
  /\ \A d \in Dbs : limit[d] <= maxTimeout
  /\ \A c \in Calls : CallInv(c)

LEMMA InitInv == Init => IInv
  BY DeadlinesAssumption DEF Init, IInv, TypeOK, CallInv, CallState, IsMaxTimeout, Tools

\* A call that moves on without a new deadline keeps its invariant.
LEMMA StepInv ==
  ASSUME IInv, NEW c \in Calls, NEW to \in {"run", "undo", "done"},
         call[c].pc \in {"enter", "acquire", "run", "undo"},
         to = "run" => call[c].pc = "acquire",
         to = "undo" => call[c].pc = "run",
         call' = [call EXCEPT ![c].pc = to],
         UNCHANGED <<now, limit, maxTimeout>>
  PROVE  IInv'
<1>1. TypeOK'
  BY DEF IInv, TypeOK, CallState
<1>2. \A d \in Dbs : limit'[d] <= maxTimeout'
  BY DEF IInv
<1>3. ASSUME NEW e \in Calls PROVE CallInv(e)'
  BY DEF IInv, TypeOK, CallState, CallInv
<1> QED
  BY <1>1, <1>2, <1>3 DEF IInv

\* The time withTx, Insert or Probe gives a call.
LEMMA DeadlineBound ==
  ASSUME TypeOK, NEW t \in Tools, NEW d \in Dbs, NEW lim \in Int
  PROVE  /\ Deadline(t, d, lim) \in Nat
         /\ Deadline(t, d, lim) <= limit[d] + sessionSlack
         /\ t = "list" => Deadline(t, d, lim) <= probeTimeout
<1> limit[d] \in Nat /\ sessionSlack \in Nat /\ probeTimeout \in Nat
  BY DeadlinesAssumption DEF TypeOK
<1> QED
  BY DEF Deadline

LEMMA BeginInv ==
  ASSUME IInv, NEW c \in Calls, Begin(c)
  PROVE  IInv'
<1> USE DeadlinesAssumption
<1> DEFINE k == call[c]
           lim == LimitOf(c)
           d == Deadline(k.tool, k.db, lim)
<1>1. k \in CallState /\ k.db \in Dbs /\ k.tool \in Tools /\ k.pc = "enter"
      /\ now <= k.start + Pause
  BY DEF IInv, TypeOK, CallInv, CallState, Begin
<1>2. k.tool = "sql" => lim = k.arg * Second /\ lim \in 0 .. limit[k.db]
  <2> SUFFICES ASSUME k.tool = "sql"
               PROVE  lim = k.arg * Second /\ lim \in 0 .. limit[k.db]
    OBVIOUS
  <2>1. TimeoutAccepted(k.arg, limit[k.db]) /\ lim = TimeoutArg(k.arg)
    BY DEF Begin, LimitOf
  <2>2. k.arg \in Int /\ limit[k.db] \in Nat
    <3>1. k.arg \in Args \cup {0}
      BY <1>1 DEF CallState
    <3>2. limit[k.db] \in Timeouts
      BY <1>1 DEF IInv, TypeOK
    <3>3. Args \subseteq Int /\ Timeouts \subseteq Nat /\ 0 \in Int
      OBVIOUS
    <3> QED
      BY ONLY <3>1, <3>2, <3>3
  <2>3. CASE k.arg = 0
    <3>1. Second \in Nat /\ k.arg * Second = 0
      BY <2>3
    <3> QED
      BY <2>1, <2>2, <2>3, <3>1 DEF TimeoutArg
  <2>4. CASE k.arg # 0
    <3>1. k.arg \in Nat /\ k.arg <= MaxInt /\ Duration(k.arg) <= limit[k.db]
      BY <2>1, <2>2, <2>4 DEF TimeoutAccepted, ArgInt
    <3>2. Duration(k.arg) = k.arg * Second
      BY <3>1, DurationExact
    <3>3. k.arg * Second \in Nat
      BY <3>1, ProductBound
    <3> QED
      BY <2>1, <2>2, <2>4, <3>1, <3>2, <3>3 DEF TimeoutArg
  <2> QED
    BY <2>3, <2>4
<1>3. lim \in Int
  <2>1. CASE k.tool = "sql"
    BY <1>2, <2>1, <1>1 DEF IInv, TypeOK
  <2>2. CASE k.tool # "sql"
    BY <2>2, <1>1 DEF LimitOf, Tools
  <2> QED
    BY <2>1, <2>2
<1>4. d \in Nat /\ d <= limit[k.db] + sessionSlack
      /\ (k.tool = "list" => d <= probeTimeout)
  BY <1>1, <1>3, DeadlineBound DEF IInv
<1> HIDE DEF lim, d
<1>5. call' = [call EXCEPT ![c] = [k EXCEPT !.pc = "acquire", !.lim = lim, !.dl = now + d]]
      /\ UNCHANGED <<now, limit, maxTimeout>>
  BY <1>1 DEF Begin, lim, d, IInv, TypeOK
<1>6. TypeOK'
  <2>1. now + d \in Nat
    BY <1>4 DEF IInv, TypeOK
  <2>2. [k EXCEPT !.pc = "acquire", !.lim = lim, !.dl = now + d] \in CallState
    BY <1>1, <1>3, <2>1 DEF CallState
  <2> HIDE DEF k
  <2> QED
    BY <1>5, <2>2 DEF IInv, TypeOK
<1>7. ASSUME NEW e \in Calls PROVE CallInv(e)'
  <2>1. CASE e = c
    <3>1. limit[k.db] \in Nat /\ now \in Nat /\ k.start \in Nat
      BY <1>1 DEF IInv, TypeOK, CallState
    <3>2. call'[c] = [k EXCEPT !.pc = "acquire", !.lim = lim, !.dl = now + d]
      BY <1>5 DEF IInv, TypeOK
    <3> QED
      BY <1>1, <1>2, <1>4, <1>5, <2>1, <3>1, <3>2 DEF IInv, CallInv, CallState
  <2>2. CASE e # c
    BY <1>5, <2>2 DEF IInv, TypeOK, CallInv
  <2> QED
    BY <2>1, <2>2
<1> QED
  BY <1>5, <1>6, <1>7 DEF IInv

LEMMA ArriveInv ==
  ASSUME IInv, NEW c \in Calls, Arrive(c)
  PROVE  IInv'
<1> USE DeadlinesAssumption
<1>1. PICK t \in Tools, d \in Dbs, a \in Args \cup {0} :
        call' = [call EXCEPT ![c] = [@ EXCEPT !.pc = "enter", !.tool = t, !.db = d,
                                              !.arg = a, !.start = now]]
  BY DEF Arrive
<1>2. UNCHANGED <<now, limit, maxTimeout>>
  BY DEF Arrive
<1> DEFINE k == [call[c] EXCEPT !.pc = "enter", !.tool = t, !.db = d, !.arg = a, !.start = now]
<1>3. call[c] \in CallState /\ now \in Nat /\ call[c].pc = "idle"
  BY DEF IInv, TypeOK, Arrive
<1>4. k \in CallState
  BY <1>3 DEF CallState
<1>5. /\ k.pc = "enter" /\ k.db = d /\ k.start = now /\ k.cut = call[c].cut
      /\ k.lim = call[c].lim /\ k.dl = call[c].dl /\ k.tool = t /\ k.arg = a
  BY <1>3 DEF CallState
<1>6. call' = [call EXCEPT ![c] = k]
  BY <1>1
<1> HIDE DEF k
<1>7. TypeOK'
  BY <1>2, <1>4, <1>6 DEF IInv, TypeOK
<1>8. ASSUME NEW e \in Calls PROVE CallInv(e)'
  <2>1. CASE e = c
    <3>1. call'[c] = k /\ CallInv(c)
      BY <1>6 DEF IInv, TypeOK
    <3> QED
      BY <1>2, <1>3, <1>5, <2>1, <3>1 DEF CallInv
  <2>2. CASE e # c
    <3>1. call'[e] = call[e] /\ CallInv(e)
      BY <1>6, <2>2 DEF IInv, TypeOK
    <3> QED
      BY <1>2, <3>1 DEF CallInv
  <2> QED
    BY <2>1, <2>2
<1> QED
  BY <1>2, <1>7, <1>8 DEF IInv

\* The middleware fires: the two slacks differ by more than the handler
\* computes, so the call has been past its deadline for longer than it may be,
\* unless it waits for ROLLBACK.
LEMMA FireInv ==
  ASSUME IInv, NEW c \in Calls, Fire(c)
  PROVE  IInv'
<1> USE DeadlinesAssumption, SlackAssumption
<1> DEFINE k == call[c]
<1>1. k \in CallState /\ k.db \in Dbs /\ k.pc \in {"enter", "acquire", "run", "undo"}
      /\ now >= k.start + toolTimeout
  BY DEF IInv, TypeOK, CallInv, CallState, Fire
<1>2. limit[k.db] \in Nat /\ now \in Nat /\ k.start \in Nat /\ k.dl \in Nat /\ maxTimeout \in Nat
      /\ limit[k.db] <= maxTimeout
  BY <1>1 DEF IInv, TypeOK, CallState
<1>3. toolTimeout >= limit[k.db] + toolTimeoutSlack
  BY <1>2 DEF toolTimeout
<1>4. toolTimeout \in Nat
  BY <1>2 DEF toolTimeout
<1>5. k.pc # "enter"
  BY <1>1, <1>2, <1>3, <1>4 DEF IInv, CallInv
<1>6. k.pc \notin {"acquire", "run"}
  <2>1. ASSUME k.pc \in {"acquire", "run"} PROVE FALSE
    <3>1. now <= k.dl + Pause /\ k.dl <= k.start + Pause + limit[k.db] + sessionSlack
      BY <2>1 DEF IInv, CallInv
    <3> QED
      BY <1>1, <1>2, <1>3, <1>4, <3>1
  <2> QED
    BY <2>1
<1>7. k.pc = "undo"
  BY <1>1, <1>5, <1>6
<1>8. call' = [call EXCEPT ![c].cut = "undo"] /\ UNCHANGED <<now, limit, maxTimeout>>
  BY <1>7 DEF Fire
<1> DEFINE m == [k EXCEPT !.cut = "undo"]
<1>9. /\ m \in CallState /\ m.cut = "undo" /\ m.pc = k.pc /\ m.db = k.db /\ m.start = k.start
      /\ m.lim = k.lim /\ m.dl = k.dl /\ m.tool = k.tool /\ m.arg = k.arg
  BY <1>1 DEF CallState
<1>10. call' = [call EXCEPT ![c] = m]
  BY <1>8
<1> HIDE DEF m
<1>11. TypeOK'
  BY <1>8, <1>9, <1>10 DEF IInv, TypeOK
<1>12. ASSUME NEW e \in Calls PROVE CallInv(e)'
  <2>1. CASE e = c
    <3>1. call'[c] = m /\ CallInv(c)
      BY <1>10 DEF IInv, TypeOK
    <3> QED
      BY <1>7, <1>8, <1>9, <2>1, <3>1 DEF CallInv
  <2>2. CASE e # c
    <3>1. call'[e] = call[e] /\ CallInv(e)
      BY <1>10, <2>2 DEF IInv, TypeOK
    <3> QED
      BY <1>8, <3>1 DEF CallInv
  <2> QED
    BY <2>1, <2>2
<1> QED
  BY <1>8, <1>11, <1>12 DEF IInv

LEMMA TickInv ==
  ASSUME IInv, Tick
  PROVE  IInv'
<1> USE DeadlinesAssumption
<1>1. now' = now + 1 /\ UNCHANGED <<limit, maxTimeout, call>>
  BY DEF Tick
<1>2. TypeOK'
  BY <1>1 DEF IInv, TypeOK
<1>3. ASSUME NEW c \in Calls PROVE CallInv(c)'
  <2>1. call[c].pc \in {"enter", "acquire", "run"} => now < Due(c)
    BY DEF Tick
  <2>2. call[c] \in CallState /\ now \in Nat
    BY DEF IInv, TypeOK
  <2> QED
    BY <1>1, <2>1, <2>2 DEF IInv, CallInv, CallState, Due
<1> QED
  BY <1>1, <1>2, <1>3 DEF IInv

LEMMA NextInv == IInv /\ [Next]_vars => IInv'
<1> SUFFICES ASSUME IInv, [Next]_vars PROVE IInv'
  OBVIOUS
<1>1. ASSUME NEW c \in Calls, CallNext(c) PROVE IInv'
  <2>1. CASE Arrive(c)
    BY <2>1, ArriveInv
  <2>2. CASE Refuse(c)
    BY <2>2, StepInv DEF Refuse, Step
  <2>3. CASE Begin(c)
    BY <2>3, BeginInv
  <2>4. CASE Acquire(c)
    BY <2>4, StepInv DEF Acquire, Step
  <2>5. CASE BodyEnds(c)
    BY <2>5, StepInv DEF BodyEnds, Step
  <2>6. CASE Return(c)
    BY <2>6, StepInv DEF Return, Step
  <2>7. CASE Expire(c)
    BY <2>7, StepInv DEF Expire, Step
  <2>8. CASE Fire(c)
    BY <2>8, FireInv
  <2> QED
    BY <1>1, <2>1, <2>2, <2>3, <2>4, <2>5, <2>6, <2>7, <2>8 DEF CallNext
<1>2. CASE Tick
  BY <1>2, TickInv
<1>3. CASE UNCHANGED vars
  BY <1>3 DEF IInv, TypeOK, CallInv, vars
<1> QED
  BY <1>1, <1>2, <1>3 DEF Next, Over

-----------------------------------------------------------------------------
(* Theorems *)

THEOREM Invariant == Spec => []IInv
  BY InitInv, NextInv, PTL DEF Spec

\* Every variable keeps its type: deadlines are never negative.
THEOREM TypeCorrect == Spec => []TypeOK
<1>1. IInv => TypeOK
  BY DEF IInv
<1> QED
  BY Invariant, <1>1, PTL

\* The middleware of runServe ends only a handler whose ROLLBACK withTx still
\* waits for, for every mix of statement timeouts and any number of calls.
THEOREM MiddlewareIsLast == Spec => []MiddlewareLast
<1>1. IInv => MiddlewareLast
  BY DEF IInv, CallInv, MiddlewareLast
<1> QED
  BY Invariant, <1>1, PTL

\* Probe answers within its short deadline however busy the pool is.
THEOREM ProbesArePrompt == Spec => []ProbePrompt
<1>1. IInv => ProbePrompt
  BY DeadlinesAssumption DEF IInv, TypeOK, CallState, CallInv, ProbePrompt
<1> QED
  BY Invariant, <1>1, PTL

\* timeoutArg never overflows, and what it accepts is what withTx sets.
THEOREM TimeoutsHonoured == Spec => []TimeoutHonoured
<1>1. IInv => TimeoutHonoured
  BY DEF IInv, CallInv, TimeoutHonoured
<1> QED
  BY Invariant, <1>1, PTL
=============================================================================
