-------------------------- MODULE LifecycleProofs --------------------------
(***************************************************************************)
(* What Lifecycle promises, for any finite sets of databases and handlers: *)
(* the drain is in order, a database and role never has connections of two *)
(* pools in use, and Registry.Close leaves no pool open but those that a   *)
(* handler opened which outlived the drain.                                *)
(***************************************************************************)
EXTENDS Lifecycle, FiniteSetTheorems, TLAPS

HandlerState == [st: {"none", "asked", "got", "holding", "done"},
                 pool: Pools \cup {NoPool}, gen: 0 .. Cardinality(Handlers)]

PoolState == [open: BOOLEAN, gen: 0 .. Cardinality(Handlers), closing: BOOLEAN]

-----------------------------------------------------------------------------
(* The inductive invariant *)

\* The stage runServe is at, and what it has told the two servers so far.
Stage ==
  /\ ready => main = "waiting"
  /\ stop["mcp"] => main \in {"mcp", "obs", "closing", "exit"}
  /\ stop["obs"] => main \in {"obs", "closing", "exit"} /\ srv["mcp"] = "down"
  /\ main \in {"boot", "stdio"} => srv["mcp"] = "off"
  /\ main = "obs" => srv["mcp"] = "down"
  /\ main \in {"closing", "exit"} => srv["mcp"] \in {"off", "down"}
  /\ main \notin {"closing", "exit"} => todo = Pools

\* The handlers that have been given the pool p.
Given(p) == {c \in Handlers : h[c].st \in {"got", "holding", "done"} /\ h[c].pool = p}

\* A pool has been opened at most as often as it has been given out.
Bounded(p) == pool[p].gen <= Cardinality(Given(p))

\* A handler knows its pool, and one that holds a connection keeps it open.
Holds(c) ==
  /\ h[c].st # "none" => h[c].pool \in Pools
  /\ h[c].st = "holding" => pool[h[c].pool].open /\ pool[h[c].pool].gen = h[c].gen

\* Before the start nothing runs, and after the drain nothing new does.
Outlived(c) ==
  /\ main = "boot" => h[c].st = "none"
  /\ main \in {"closing", "exit"} /\ Running(c) => c \in outlived
  /\ c \in outlived => h[c].st # "none"

\* A pool that Registry.Close is done with has been opened again by a handler
\* that outlived the drain, if it is open.
Closed(p) ==
  /\ main = "boot" => ~pool[p].open
  /\ main = "exit" \/ (main = "closing" /\ p \notin todo) =>
       (pool[p].open => \E c \in outlived : h[c].pool = p)

IInv ==
  /\ TypeOK /\ Stage
  /\ \A c \in Handlers : Holds(c) /\ Outlived(c)
  /\ \A p \in Pools : Bounded(p) /\ Closed(p)

-----------------------------------------------------------------------------
(* What a step leaves alone *)

\* A pool that is not opened, given to no one else: still opened at most as
\* often as it has been given out.
LEMMA FrameBounded ==
  ASSUME NEW p \in Pools, Bounded(p), pool'[p].gen = pool[p].gen,
         \A c \in Handlers : (c \in Given(p))' <=> c \in Given(p)
  PROVE  Bounded(p)'
<1>1. Given(p)' = Given(p)  BY DEF Given
<1>2. QED  BY <1>1 DEF Bounded

\* A step of runServe or of a server touches neither handlers nor pools.
LEMMA FrameHandlers ==
  ASSUME IInv, UNCHANGED <<h, pool>>
  PROVE  /\ \A c \in Handlers : Holds(c)'
         /\ \A p \in Pools : Bounded(p)'
<1>1. \A c \in Handlers : Holds(c)'  BY DEF IInv, Holds
<1>2. ASSUME NEW p \in Pools  PROVE Bounded(p)'
  <2>1. \A c \in Handlers : (c \in Given(p))' <=> c \in Given(p)  BY DEF Given
  <2>2. Bounded(p)  BY DEF IInv
  <2>3. QED  BY <2>1, <2>2, FrameBounded
<1>3. QED  BY <1>1, <1>2

\* A step of a server, of the signal: the place of runServe stays, and so does
\* what Registry.Close has done.
LEMMA FrameServe ==
  ASSUME IInv, UNCHANGED <<main, h, pool, todo, outlived>>
  PROVE  /\ \A c \in Handlers : Holds(c)' /\ Outlived(c)'
         /\ \A p \in Pools : Bounded(p)' /\ Closed(p)'
<1>1. \A c \in Handlers : Outlived(c)'  BY DEF IInv, Outlived, Running
<1>2. \A p \in Pools : Closed(p)'  BY DEF IInv, Closed
<1>3. QED  BY <1>1, <1>2, FrameHandlers

\* A handler that goes on, after it has been given its pool, has it still.
LEMMA FrameGiven ==
  ASSUME IInv, NEW c \in Handlers, NEW s \in {"holding", "done"},
         h[c].st \in {"got", "holding"},
         h' = [h EXCEPT ![c].st = s], UNCHANGED <<main, pool, todo, outlived>>
  PROVE  /\ h' \in [Handlers -> HandlerState]
         /\ \A e \in Handlers : Outlived(e)'
         /\ \A p \in Pools : Bounded(p)' /\ Closed(p)'
<1>1. h \in [Handlers -> HandlerState]  BY DEF IInv, TypeOK, HandlerState
<1>2. \A e \in Handlers : h'[e].pool = h[e].pool /\ h'[e].st = IF e = c THEN s ELSE h[e].st
  BY <1>1 DEF HandlerState
<1>3. h' \in [Handlers -> HandlerState]  BY <1>1 DEF HandlerState
<1>4. \A e \in Handlers : Outlived(e)'  BY <1>2 DEF IInv, Outlived, Running
<1>5. ASSUME NEW p \in Pools  PROVE Bounded(p)' /\ Closed(p)'
  <2>1. \A e \in Handlers : (e \in Given(p))' <=> e \in Given(p)  BY <1>2 DEF Given
  <2>2. Bounded(p)'  BY <2>1, FrameBounded DEF IInv
  <2>3. outlived \subseteq Handlers  BY DEF IInv, TypeOK
  <2>4. Closed(p)'  BY <1>2, <2>3 DEF IInv, Closed
  <2>5. QED  BY <2>2, <2>4
<1>6. QED  BY <1>3, <1>4, <1>5

-----------------------------------------------------------------------------
(* The invariant is inductive *)

LEMMA InitInv == Init => IInv
<1> SUFFICES ASSUME Init PROVE IInv  OBVIOUS
<1>2. Cardinality(Handlers) \in Nat  BY LifecycleAssumption, FS_CardinalityType
<1>3. h \in [Handlers -> HandlerState]  BY <1>2 DEF Init, HandlerState
<1>4. pool \in [Pools -> PoolState]  BY <1>2 DEF Init, PoolState
<1>5. TypeOK  BY <1>3, <1>4 DEF Init, TypeOK, HandlerState, PoolState
<1>6. Stage  BY DEF Init, Stage, Servers
<1>7. \A c \in Handlers : Holds(c) /\ Outlived(c)
  BY DEF Init, Holds, Outlived, Running
<1>8. ASSUME NEW p \in Pools  PROVE Bounded(p) /\ Closed(p)
  <2>1. IsFiniteSet(Given(p))  BY LifecycleAssumption, FS_Subset DEF Given
  <2>2. Cardinality(Given(p)) \in Nat  BY <2>1, FS_CardinalityType
  <2>3. pool[p].gen = 0 /\ ~pool[p].open  BY DEF Init
  <2>4. QED  BY <2>2, <2>3 DEF Init, Bounded, Closed
<1>9. QED  BY <1>5, <1>6, <1>7, <1>8 DEF IInv

LEMMA BootInv == IInv /\ (Boot \/ BootFails) => IInv'
<1> SUFFICES ASSUME IInv, Boot \/ BootFails PROVE IInv'  OBVIOUS
<1>2. main = "boot" /\ UNCHANGED <<ready, done, stop, h, pool, todo, outlived>>
  BY DEF Boot, BootFails, Main
<1>3. main' \in {"stdio", "starting", "exit", "closing"}
  BY DEF Boot, BootFails, Main
<1>4. srv' = srv \/ (main' = "starting" /\ srv' = [s \in Servers |-> "starting"])
  BY DEF Boot, BootFails, Main
<1>5. TypeOK'  BY <1>2, <1>3, <1>4 DEF IInv, TypeOK
<1>6. Stage'  BY <1>2, <1>3, <1>4 DEF IInv, TypeOK, Stage, Servers
<1>7. \A c \in Handlers : Outlived(c)'  BY <1>2, <1>3 DEF IInv, Outlived, Running
<1>8. \A p \in Pools : Closed(p)'  BY <1>2, <1>3 DEF IInv, Closed, Stage
<1>9. QED  BY <1>2, <1>5, <1>6, <1>7, <1>8, FrameHandlers DEF IInv

LEMMA ShutDownInv == IInv /\ (SetReady \/ ShutDown \/ StopMCP \/ StopObs) => IInv'
<1> SUFFICES ASSUME IInv, SetReady \/ ShutDown \/ StopMCP \/ StopObs PROVE IInv'
  OBVIOUS
<1>2. UNCHANGED <<done, srv, h, pool, todo, outlived>>
  BY DEF SetReady, ShutDown, StopMCP, StopObs
<1>3. /\ main \in {"starting", "waiting", "unready", "mcp"}
      /\ main' \in {"waiting", "unready", "mcp", "obs"}
  BY DEF SetReady, ShutDown, StopMCP, StopObs, Main
<1>4. TypeOK'
  <2>1. ready' \in BOOLEAN  BY DEF SetReady, ShutDown, StopMCP, StopObs, IInv, TypeOK
  <2>2. stop' \in [Servers -> BOOLEAN]
    BY DEF SetReady, ShutDown, StopMCP, StopObs, IInv, TypeOK
  <2>3. QED  BY <1>2, <1>3, <2>1, <2>2 DEF IInv, TypeOK
<1>5. Stage'
  <2>1. CASE SetReady  BY <2>1 DEF SetReady, Main, IInv, TypeOK, Stage, Servers
  <2>2. CASE ShutDown  BY <2>2 DEF ShutDown, Main, IInv, TypeOK, Stage, Servers
  <2>3. CASE StopMCP  BY <2>3 DEF StopMCP, Main, IInv, TypeOK, Stage, Servers
  <2>4. CASE StopObs  BY <2>4 DEF StopObs, Main, IInv, TypeOK, Stage, Servers
  <2>5. QED  BY <2>1, <2>2, <2>3, <2>4
<1>6. \A c \in Handlers : Outlived(c)'  BY <1>2, <1>3 DEF IInv, Outlived
<1>7. \A p \in Pools : Closed(p)'  BY <1>2, <1>3 DEF IInv, Closed
<1>8. QED  BY <1>2, <1>4, <1>5, <1>6, <1>7, FrameHandlers DEF IInv

LEMMA UnwindInv == IInv /\ (Unwind \/ Exit) => IInv'
<1> SUFFICES ASSUME IInv, Unwind \/ Exit PROVE IInv'  OBVIOUS
<1>2. UNCHANGED <<ready, done, srv, stop, h, pool, todo>>  BY DEF Unwind, Exit
<1>3. CASE Unwind
  <2>1. main \in {"obs", "stdio"} /\ main' = "closing"  BY <1>3 DEF Unwind, Main
  <2>2. outlived' = {c \in Handlers : Running(c)}  BY <1>3 DEF Unwind
  <2>3. TypeOK'  BY <1>2, <2>1, <2>2 DEF IInv, TypeOK
  <2>4. Stage'  BY <1>2, <2>1 DEF IInv, Stage
  <2>5. \A c \in Handlers : Outlived(c)'  BY <1>2, <2>1, <2>2 DEF Outlived, Running
  <2>6. \A p \in Pools : Closed(p)'  BY <1>2, <2>1 DEF IInv, Stage, Closed
  <2>7. QED  BY <1>2, <2>3, <2>4, <2>5, <2>6, FrameHandlers DEF IInv
<1>4. CASE Exit
  <2>1. main = "closing" /\ main' = "exit" /\ todo = {} /\ outlived' = outlived
    BY <1>4 DEF Exit, Main
  <2>2. TypeOK'  BY <1>2, <2>1 DEF IInv, TypeOK
  <2>3. Stage'  BY <1>2, <2>1 DEF IInv, Stage
  <2>4. \A c \in Handlers : Outlived(c)'  BY <1>2, <2>1 DEF IInv, Outlived, Running
  <2>5. \A p \in Pools : Closed(p)'  BY <1>2, <2>1 DEF IInv, Closed
  <2>6. QED  BY <1>2, <2>2, <2>3, <2>4, <2>5, FrameHandlers DEF IInv
<1>5. QED  BY <1>3, <1>4

LEMMA SignalInv == IInv /\ (Signal \/ UNCHANGED vars) => IInv'
<1> SUFFICES ASSUME IInv, Signal \/ UNCHANGED vars PROVE IInv'  OBVIOUS
<1>2. UNCHANGED <<main, ready, srv, stop, h, pool, todo, outlived>>  BY DEF Signal, vars
<1>3. done' \in BOOLEAN  BY DEF Signal, vars, IInv, TypeOK
<1>4. TypeOK'  BY <1>2, <1>3 DEF IInv, TypeOK
<1>5. Stage'  BY <1>2 DEF IInv, Stage
<1>6. QED  BY <1>2, <1>4, <1>5, FrameServe DEF IInv

LEMMA ServerInv ==
  ASSUME IInv, NEW s \in Servers, Listen(s) \/ ServerFails(s) \/ Drain(s) \/ Drained(s)
  PROVE  IInv'
<1>1. UNCHANGED <<main, ready, stop, h, pool, todo, outlived>>
  BY DEF Listen, ServerFails, Drain, Drained, Ended
<1>2. done' \in BOOLEAN
  BY DEF Listen, ServerFails, Drain, Drained, Ended, IInv, TypeOK
<1>3. srv[s] \in {"starting", "up", "draining"}
  BY DEF Listen, ServerFails, Drain, Drained
<1>4. PICK x \in {"up", "draining", "down"} : srv' = [srv EXCEPT ![s] = x]
  BY DEF Listen, ServerFails, Drain, Drained, Ended
<1>5. TypeOK'  BY <1>1, <1>2, <1>4 DEF IInv, TypeOK
<1>6. Stage'  BY <1>1, <1>3, <1>4 DEF IInv, TypeOK, Stage, Servers
<1>7. QED  BY <1>1, <1>5, <1>6, FrameServe DEF IInv

LEMMA CallInv ==
  ASSUME IInv, NEW c \in Handlers, NEW p \in Pools, Call(c, p)
  PROVE  IInv'
<1>1. UNCHANGED <<main, ready, done, srv, stop, pool, todo, outlived>>  BY DEF Call
<1>2. h \in [Handlers -> HandlerState]  BY DEF IInv, TypeOK, HandlerState
<1>3. Cardinality(Handlers) \in Nat  BY LifecycleAssumption, FS_CardinalityType
<1> DEFINE new == [st |-> "asked", pool |-> p, gen |-> 0]
<1>4. new \in HandlerState /\ new.st = "asked" /\ new.pool = p
  BY <1>3 DEF HandlerState
<1>5. h' = [h EXCEPT ![c] = new]  BY DEF Call
<1> HIDE DEF new
<1>6. h' \in [Handlers -> HandlerState]  BY <1>2, <1>4, <1>5
<1>7. \A e \in Handlers : h'[e] = IF e = c THEN new ELSE h[e]  BY <1>2, <1>5
<1>8. main \notin {"boot", "closing", "exit"}
  BY DEF Call, IInv, Stage
<1>9. h[c].st = "none"  BY DEF Call
<1>10. TypeOK'  BY <1>1, <1>6 DEF IInv, TypeOK, HandlerState
<1>11. Stage'  BY <1>1 DEF IInv, Stage
<1>12. ASSUME NEW e \in Handlers  PROVE Holds(e)' /\ Outlived(e)'
  <2>1. CASE e = c
    BY <1>1, <1>4, <1>7, <1>8, <2>1 DEF Holds, Outlived
  <2>2. CASE e # c
    BY <1>1, <1>7, <2>2 DEF IInv, Holds, Outlived, Running
  <2>3. QED  BY <2>1, <2>2
<1>13. ASSUME NEW q \in Pools  PROVE Bounded(q)' /\ Closed(q)'
  <2>1. \A e \in Handlers : (e \in Given(q))' <=> e \in Given(q)
    BY <1>4, <1>7, <1>9 DEF Given
  <2>2. Bounded(q)'  BY <1>1, <2>1, FrameBounded DEF IInv
  <2>3. Closed(q)'  BY <1>1, <1>8 DEF Closed
  <2>4. QED  BY <2>2, <2>3
<1>14. QED  BY <1>10, <1>11, <1>12, <1>13 DEF IInv

\* A handler opens its pool or is given the one that is there: every handler
\* that holds a connection of it has been given the same one, and a handler
\* that opens a pool which Registry.Close is done with has outlived the drain.
LEMMA GetPoolInv ==
  ASSUME IInv, NEW c \in Handlers, GetPool(c)
  PROVE  IInv'
<1>1. UNCHANGED <<main, ready, done, srv, stop, todo, outlived>>  BY DEF GetPool
<1>2. h \in [Handlers -> HandlerState]  BY DEF IInv, TypeOK, HandlerState
<1>3. pool \in [Pools -> PoolState]  BY DEF IInv, TypeOK, PoolState
<1>4. h[c].st = "asked"  BY DEF GetPool
<1>5. PICK p \in Pools : h[c].pool = p  BY <1>4 DEF IInv, Holds
<1> DEFINE opened == Opened(p)
           new == [h[c] EXCEPT !.st = "got", !.gen = opened.gen]
<1>6. Cardinality(Handlers) \in Nat  BY LifecycleAssumption, FS_CardinalityType
<1>7. /\ opened.open /\ opened.closing \in BOOLEAN
      /\ opened = [open |-> opened.open, gen |-> opened.gen, closing |-> opened.closing]
      /\ opened.gen \in Nat /\ opened.gen <= pool[p].gen + 1
      /\ pool[p].open => opened = pool[p]
  <2>1. pool[p] \in PoolState  BY <1>3
  <2>2. CASE pool[p].open  BY <1>6, <2>1, <2>2 DEF Opened, PoolState
  <2>3. CASE ~pool[p].open
    <3>1. pool[p].gen \in Nat /\ pool[p].closing \in BOOLEAN  BY <1>6, <2>1 DEF PoolState
    <3>2. opened = [open |-> TRUE, gen |-> pool[p].gen + 1, closing |-> pool[p].closing]
      BY <2>1, <2>3 DEF Opened, PoolState
    <3>3. QED  BY <2>3, <3>1, <3>2
  <2>4. QED  BY <2>2, <2>3
<1>8. pool' = [pool EXCEPT ![p] = opened]  BY <1>5 DEF GetPool
<1>9. \A q \in Pools : pool'[q] = IF q = p THEN opened ELSE pool[q]  BY <1>3, <1>8
<1>10. /\ new.st = "got" /\ new.pool = p /\ new.gen = opened.gen
       /\ opened.gen \in 0 .. Cardinality(Handlers) => new \in HandlerState
  BY <1>2, <1>5 DEF HandlerState
<1>11. h' = [h EXCEPT ![c] = new]  BY <1>5 DEF GetPool
<1> HIDE DEF new, opened
<1>12. \A e \in Handlers : h'[e] = IF e = c THEN new ELSE h[e]  BY <1>2, <1>11
<1>13. \A q \in Pools : IsFiniteSet(Given(q)) /\ Cardinality(Given(q)) \in Nat
  BY LifecycleAssumption, FS_Subset, FS_CardinalityType DEF Given
<1>14. Given(p)' = Given(p) \cup {c} /\ c \notin Given(p)
  BY <1>4, <1>5, <1>10, <1>12 DEF Given
<1>15. Cardinality(Given(p)') = Cardinality(Given(p)) + 1
  BY <1>5, <1>13, <1>14, FS_AddElement
<1>16. Cardinality(Given(p)') <= Cardinality(Handlers)
  BY LifecycleAssumption, FS_Subset DEF Given
<1>17. opened.gen <= Cardinality(Given(p)')
  <2>1. pool[p].gen <= Cardinality(Given(p)) /\ pool[p].gen \in Nat
    BY <1>3, <1>5, <1>6 DEF IInv, Bounded, PoolState
  <2>2. QED  BY <1>5, <1>7, <1>13, <1>15, <2>1
<1>18. opened.gen \in 0 .. Cardinality(Handlers)
  BY <1>5, <1>6, <1>7, <1>13, <1>15, <1>16, <1>17
<1>19. h' \in [Handlers -> HandlerState]  BY <1>2, <1>10, <1>11, <1>18
<1>20. opened \in PoolState  BY <1>7, <1>18 DEF PoolState
<1>21. pool' \in [Pools -> PoolState]  BY <1>3, <1>8, <1>20
<1>22. TypeOK'  BY <1>1, <1>19, <1>21 DEF IInv, TypeOK, HandlerState, PoolState
<1>23. Stage'  BY <1>1 DEF IInv, Stage
<1>24. ASSUME NEW e \in Handlers  PROVE Holds(e)' /\ Outlived(e)'
  <2>1. Holds(e) /\ Outlived(e)  BY DEF IInv
  <2>2. CASE e = c
    BY <1>1, <1>4, <1>5, <1>10, <1>12, <2>1, <2>2 DEF Holds, Outlived, Running
  <2>3. CASE e # c
    <3>1. h'[e] = h[e]  BY <1>12, <2>3
    <3>2. Holds(e)'  BY <1>7, <1>9, <2>1, <3>1 DEF Holds
    <3>3. Outlived(e)'  BY <1>1, <2>1, <3>1 DEF Outlived, Running
    <3>4. QED  BY <3>2, <3>3
  <2>4. QED  BY <2>2, <2>3
<1>25. ASSUME NEW q \in Pools  PROVE Bounded(q)' /\ Closed(q)'
  <2>1. \A e \in Handlers : h'[e].pool = h[e].pool  BY <1>5, <1>10, <1>12
  <2>2. outlived \subseteq Handlers  BY DEF IInv, TypeOK
  <2>3. CASE q = p
    <3>1. Bounded(q)'  BY <1>9, <1>17, <2>3 DEF Bounded
    <3>2. main # "boot"  BY <1>4 DEF IInv, Outlived
    <3>3. main \in {"closing", "exit"} => c \in outlived /\ h'[c].pool = q
      BY <1>4, <1>5, <2>1, <2>3 DEF IInv, Outlived, Running
    <3>4. Closed(q)'  BY <1>1, <3>2, <3>3 DEF Closed
    <3>5. QED  BY <3>1, <3>4
  <2>4. CASE q # p
    <3>1. pool'[q] = pool[q]  BY <1>9, <2>4
    <3>2. \A e \in Handlers : (e \in Given(q))' <=> e \in Given(q)
      BY <1>4, <1>5, <1>10, <1>12, <2>4 DEF Given
    <3>3. Bounded(q)'  BY <3>1, <3>2, FrameBounded DEF IInv
    <3>4. Closed(q)'  BY <1>1, <2>1, <2>2, <3>1 DEF IInv, Closed
    <3>5. QED  BY <3>3, <3>4
  <2>5. QED  BY <2>3, <2>4
<1>26. QED  BY <1>22, <1>23, <1>24, <1>25 DEF IInv

LEMMA HandlerInv ==
  ASSUME IInv, NEW c \in Handlers, Acquire(c) \/ Release(c)
  PROVE  IInv'
<1>1. UNCHANGED <<main, ready, done, srv, stop, pool, todo, outlived>>
  BY DEF Acquire, Release
<1>2. h[c].st \in {"got", "holding"}  BY DEF Acquire, Release
<1>3. PICK s \in {"holding", "done"} :
        h' = [h EXCEPT ![c].st = s] /\ (s = "holding" => Usable(c))
  BY DEF Acquire, Release
<1>4. h \in [Handlers -> HandlerState]  BY DEF IInv, TypeOK, HandlerState
<1>5. /\ h' \in [Handlers -> HandlerState]
      /\ \A e \in Handlers : Outlived(e)'
      /\ \A p \in Pools : Bounded(p)' /\ Closed(p)'
  BY <1>1, <1>2, <1>3, FrameGiven
<1>6. TypeOK'  BY <1>1, <1>5 DEF IInv, TypeOK, HandlerState
<1>7. Stage'  BY <1>1 DEF IInv, Stage
<1>8. ASSUME NEW e \in Handlers  PROVE Holds(e)'
  <2>1. /\ h'[e].pool = h[e].pool /\ h'[e].gen = h[e].gen
        /\ h'[e].st = IF e = c THEN s ELSE h[e].st
    BY <1>3, <1>4 DEF HandlerState
  <2>2. Holds(e)  BY DEF IInv
  <2>3. CASE e = c  BY <1>1, <1>2, <1>3, <2>1, <2>2, <2>3 DEF Holds, Usable
  <2>4. CASE e # c  BY <1>1, <2>1, <2>2, <2>4 DEF Holds
  <2>5. QED  BY <2>3, <2>4
<1>9. QED  BY <1>5, <1>6, <1>7, <1>8 DEF IInv

\* Registry.Close: a pool that a handler holds a connection of stays.
LEMMA CloseInv ==
  ASSUME IInv, NEW p \in Pools, BeginClose(p) \/ EndClose(p)
  PROVE  IInv'
<1>1. main = "closing" /\ UNCHANGED <<main, ready, done, srv, stop, h, outlived>>
  BY DEF BeginClose, EndClose
<1>2. pool \in [Pools -> PoolState]  BY DEF IInv, TypeOK, PoolState
<1>3. /\ pool' \in [Pools -> PoolState]
      /\ \A q \in Pools : pool'[q].gen = pool[q].gen
      /\ \A q \in Pools : q # p => pool'[q] = pool[q]
      /\ todo' \subseteq todo /\ todo \subseteq todo' \cup {p}
      /\ pool'[p].open => pool[p].open
      /\ p \notin todo' /\ p \in todo => ~pool'[p].open
      /\ pool[p].open /\ ~pool'[p].open => ~InUse(p)
  <2>1. CASE BeginClose(p) /\ pool[p].open
    <3>1. pool' = [pool EXCEPT ![p].closing = TRUE] /\ todo' = todo
      BY <2>1 DEF BeginClose
    <3>2. QED  BY <1>2, <3>1 DEF PoolState
  <2>2. CASE BeginClose(p) /\ ~pool[p].open
    <3>1. pool' = pool /\ todo' = todo \ {p}  BY <2>2 DEF BeginClose
    <3>2. QED  BY <1>2, <2>2, <3>1
  <2>3. CASE EndClose(p)
    <3>1. /\ pool' = [pool EXCEPT ![p].open = FALSE, ![p].closing = FALSE]
          /\ todo' = todo \ {p} /\ ~InUse(p)
      BY <2>3 DEF EndClose
    <3>2. QED  BY <1>2, <3>1 DEF PoolState
  <2>4. QED  BY <2>1, <2>2, <2>3
<1>4. todo' \subseteq Pools  BY <1>3 DEF IInv, TypeOK
<1>5. TypeOK'  BY <1>1, <1>3, <1>4 DEF IInv, TypeOK, PoolState
<1>6. Stage'  BY <1>1 DEF IInv, Stage
<1>7. ASSUME NEW c \in Handlers  PROVE Holds(c)' /\ Outlived(c)'
  <2>1. Outlived(c)'  BY <1>1 DEF IInv, Outlived, Running
  <2>2. Holds(c)  BY DEF IInv
  <2>3. CASE h[c].st = "holding" /\ h[c].pool = p
    <3>1. InUse(p)  BY <2>3 DEF InUse
    <3>2. pool[p].open  BY <2>2, <2>3 DEF Holds
    <3>3. pool'[p].open /\ pool'[p].gen = h[c].gen  BY <1>3, <2>2, <2>3, <3>1, <3>2 DEF Holds
    <3>4. QED  BY <1>1, <2>1, <2>3, <3>3 DEF Holds
  <2>4. CASE ~(h[c].st = "holding" /\ h[c].pool = p)
    BY <1>1, <1>3, <2>1, <2>2, <2>4 DEF Holds
  <2>5. QED  BY <2>3, <2>4
<1>8. ASSUME NEW q \in Pools  PROVE Bounded(q)' /\ Closed(q)'
  <2>1. \A e \in Handlers : (e \in Given(q))' <=> e \in Given(q)  BY <1>1 DEF Given
  <2>2. Bounded(q)'  BY <1>3, <2>1, FrameBounded DEF IInv
  <2>3. Closed(q)  BY DEF IInv
  <2>4. pool'[q].open => pool[q].open  BY <1>3
  <2>5. q \in todo /\ q \notin todo' => ~pool'[q].open  BY <1>3
  <2>6. (\E c \in outlived : h[c].pool = q) => \E c \in outlived' : h'[c].pool = q
    BY <1>1
  <2>7. Closed(q)'  BY <1>1, <2>3, <2>4, <2>5, <2>6 DEF Closed
  <2>8. QED  BY <2>2, <2>7
<1>9. QED  BY <1>5, <1>6, <1>7, <1>8 DEF IInv

LEMMA NextInv == IInv /\ [Next]_vars => IInv'
<1> SUFFICES ASSUME IInv, [Next]_vars PROVE IInv'  OBVIOUS
<1>1. CASE Boot \/ BootFails  BY <1>1, BootInv
<1>2. CASE SetReady \/ ShutDown \/ StopMCP \/ StopObs  BY <1>2, ShutDownInv
<1>3. CASE Unwind \/ Exit  BY <1>3, UnwindInv
<1>4. CASE Signal \/ Gone \/ UNCHANGED vars  BY <1>4, SignalInv DEF Gone
<1>5. CASE \E s \in Servers : Listen(s) \/ ServerFails(s) \/ Drain(s) \/ Drained(s)
  BY <1>5, ServerInv
<1>6. CASE \E c \in Handlers : GetPool(c)  BY <1>6, GetPoolInv
<1>7. CASE \E c \in Handlers : Acquire(c) \/ Release(c)  BY <1>7, HandlerInv
<1>8. CASE \E c \in Handlers : \E p \in Pools : Call(c, p)  BY <1>8, CallInv
<1>9. CASE \E p \in Pools : BeginClose(p) \/ EndClose(p)  BY <1>9, CloseInv
<1>10. QED  BY <1>1, <1>2, <1>3, <1>4, <1>5, <1>6, <1>7, <1>8, <1>9 DEF Next

\* The invariant holds of every behaviour of the process.
THEOREM Invariant == Spec => []IInv
BY InitInv, NextInv, PTL DEF Spec

-----------------------------------------------------------------------------
(* What the runs check *)

\* /readyz says no before the MCP server is asked to stop, and the server of
\* /readyz and /metrics is asked only when the MCP server has drained (runServe).
THEOREM DrainsInOrder == Spec => []DrainInOrder
<1>1. IInv => DrainInOrder  BY DEF IInv, Stage, DrainInOrder
<1>2. QED  BY <1>1, Invariant, PTL

\* However many handlers race to open it, and although Registry.Close may close
\* and a handler reopen it, the connections in use of a database and role are
\* those of a single pool (lazyPool.get, lazyPool.close).
THEOREM OnePoolInUse == Spec => []OnePool
<1>1. IInv => OnePool
  <2> SUFFICES ASSUME IInv PROVE OnePool  OBVIOUS
  <2>1. \A c \in Handlers : Holds(c)  BY DEF IInv
  <2>2. \A c \in Handlers : h[c].st = "holding" => h[c].gen = pool[h[c].pool].gen
    BY <2>1 DEF Holds
  <2>3. QED  BY <2>2 DEF IInv, OnePool
<1>2. QED  BY <1>1, Invariant, PTL

\* At the end of the process every pool is closed that no handler which
\* outlived the drain has opened again (Registry.Close).
THEOREM EveryPoolClosed == Spec => []PoolsClosed
<1>1. IInv => PoolsClosed  BY DEF IInv, Closed, PoolsClosed
<1>2. QED  BY <1>1, Invariant, PTL
=============================================================================
