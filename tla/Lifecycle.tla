----------------------------- MODULE Lifecycle -----------------------------
(***************************************************************************)
(* The life of the server process: start, readiness, shutdown on a signal  *)
(* or on the failure of one of its two HTTP servers, the drain, and the    *)
(* closing of the lazily opened connection pools while handlers may still  *)
(* be running (cmd/serve.go runServe and runHTTP, internal/timescale/      *)
(* registry.go Pool, lazyPool and Close).                                  *)
(*                                                                         *)
(* httpx.Run, net/http and pgxpool are external: Run listens, serves until *)
(* its context is cancelled, then waits for requests up to a drain time;   *)
(* a pool's Close refuses new connections and waits for those in use.      *)
(***************************************************************************)
EXTENDS Naturals, FiniteSets

CONSTANTS
  Dbs,       \* the configured databases
  Handlers,  \* tool handlers that may run
  NoPool

Servers == {"mcp", "obs"}
Pools == Dbs \X {"insert", "read"}

ASSUME LifecycleAssumption ==
  NoPool \notin Pools /\ IsFiniteSet(Dbs) /\ IsFiniteSet(Handlers)

VARIABLES
  main,    \* where runServe stands
  ready,   \* what /readyz says
  done,    \* shutdownCtx is done: a signal arrived, or a server aborted
  srv,     \* per HTTP server: what httpx.Run is doing
  stop,    \* per HTTP server: its context is cancelled
  h,       \* per handler: [st, pool, gen]
  pool,    \* per pool: [open, gen, closing]; closing holds the mutex
  todo,    \* the pools Registry.Close has not come to yet
  outlived \* history: the handlers still running when Registry.Close began

vars == <<main, ready, done, srv, stop, h, pool, todo, outlived>>

TypeOK ==
  /\ main \in {"boot", "stdio", "starting", "waiting", "unready", "mcp", "obs",
               "closing", "exit"}
  /\ ready \in BOOLEAN /\ done \in BOOLEAN
  /\ srv \in [Servers -> {"off", "starting", "up", "draining", "down"}]
  /\ stop \in [Servers -> BOOLEAN]
  /\ h \in [Handlers -> [st: {"none", "asked", "got", "holding", "done"},
                         pool: Pools \cup {NoPool}, gen: 0 .. Cardinality(Handlers)]]
  /\ pool \in [Pools -> [open: BOOLEAN, gen: 0 .. Cardinality(Handlers), closing: BOOLEAN]]
  /\ todo \subseteq Pools /\ outlived \subseteq Handlers

Running(c) == h[c].st \notin {"none", "done"}

-----------------------------------------------------------------------------
(* runServe *)

Main(from, to) == main = from /\ main' = to

\* Configuration, logging, the registry, then one of the transports; both HTTP
\* servers are started, neither is waited for.
Boot ==
  /\ \/ Main("boot", "stdio") /\ UNCHANGED srv
     \/ Main("boot", "starting") /\ srv' = [s \in Servers |-> "starting"]
  /\ UNCHANGED <<ready, done, stop, h, pool, todo, outlived>>

\* A step of the start fails before the registry exists, or after (OAuth).
BootFails ==
  /\ Main("boot", "exit") \/ Main("boot", "closing")
  /\ UNCHANGED <<ready, done, srv, stop, h, pool, todo, outlived>>

SetReady ==
  /\ Main("starting", "waiting") /\ ready' = TRUE
  /\ UNCHANGED <<done, srv, stop, h, pool, todo, outlived>>

\* SIGTERM or an interrupt.
Signal ==
  /\ main # "exit" /\ ~done /\ done' = TRUE
  /\ UNCHANGED <<main, ready, srv, stop, h, pool, todo, outlived>>

ShutDown ==
  /\ done /\ Main("waiting", "unready") /\ ready' = FALSE
  /\ UNCHANGED <<done, srv, stop, h, pool, todo, outlived>>

StopMCP ==
  /\ Main("unready", "mcp") /\ stop' = [stop EXCEPT !["mcp"] = TRUE]
  /\ UNCHANGED <<ready, done, srv, h, pool, todo, outlived>>

\* Mutant of StopObs: mcpDone is not waited for.
StopObsAtOnce ==
  /\ Main("mcp", "obs") /\ stop' = [stop EXCEPT !["obs"] = TRUE]
  /\ UNCHANGED <<ready, done, srv, h, pool, todo, outlived>>

StopObs ==
  /\ srv["mcp"] = "down"
  /\ Main("mcp", "obs") /\ stop' = [stop EXCEPT !["obs"] = TRUE]
  /\ UNCHANGED <<ready, done, srv, h, pool, todo, outlived>>

\* Both servers are down, or stdio has ended: the deferred functions run.
Unwind ==
  /\ \/ srv["obs"] = "down" /\ Main("obs", "closing")
     \/ Main("stdio", "closing")
  /\ outlived' = {c \in Handlers : Running(c)}
  /\ UNCHANGED <<ready, done, srv, stop, h, pool, todo>>

Exit ==
  /\ todo = {} /\ Main("closing", "exit")
  /\ UNCHANGED <<ready, done, srv, stop, h, pool, todo, outlived>>

-----------------------------------------------------------------------------
(* runHTTP *)

Alive == main # "exit"

Listen(s) ==
  /\ Alive /\ srv[s] = "starting" /\ srv' = [srv EXCEPT ![s] = "up"]
  /\ UNCHANGED <<main, ready, done, stop, h, pool, todo, outlived>>

\* Mutant of Ended: the failure of a server aborts nothing.
EndedQuietly(s, failed) ==
  /\ srv' = [srv EXCEPT ![s] = "down"]
  /\ UNCHANGED <<main, ready, done, stop, h, pool, todo, outlived>>

\* The goroutine of runHTTP ends; after an error it aborts the whole server.
Ended(s, failed) ==
  /\ srv' = [srv EXCEPT ![s] = "down"]
  /\ done' = (done \/ failed)
  /\ UNCHANGED <<main, ready, stop, h, pool, todo, outlived>>

\* The address is taken, or the server fails later.
ServerFails(s) == Alive /\ srv[s] \in {"starting", "up"} /\ Ended(s, TRUE)

Drain(s) ==
  /\ Alive /\ srv[s] \in {"starting", "up"} /\ stop[s]
  /\ srv' = [srv EXCEPT ![s] = "draining"]
  /\ UNCHANGED <<main, ready, done, stop, h, pool, todo, outlived>>

\* No request is left, or the drain time is over: Run returns an error then.
Drained(s) ==
  /\ Alive /\ srv[s] = "draining"
  /\ \/ (s = "obs" \/ \A c \in Handlers : ~Running(c)) /\ Ended(s, FALSE)
     \/ Ended(s, TRUE)

-----------------------------------------------------------------------------
(* Handlers and pools *)

\* A tool call of a database comes in.
Call(c, p) ==
  /\ Alive /\ h[c].st = "none"
  /\ main = "stdio" \/ srv["mcp"] = "up"
  /\ h' = [h EXCEPT ![c] = [st |-> "asked", pool |-> p, gen |-> 0]]
  /\ UNCHANGED <<main, ready, done, srv, stop, pool, todo, outlived>>

\* Mutant of Opened: the pool that is there is not looked for.
OpenedAgain(p) == [pool[p] EXCEPT !.open = TRUE, !.gen = @ + 1]

\* Database.Pool and lazyPool.get, under the mutex: the pool that is there, or
\* a new one.
Opened(p) == IF pool[p].open THEN pool[p]
             ELSE [pool[p] EXCEPT !.open = TRUE, !.gen = @ + 1]

GetPool(c) ==
  LET p == h[c].pool
  IN  /\ Alive /\ h[c].st = "asked" /\ ~pool[p].closing
      /\ pool' = [pool EXCEPT ![p] = Opened(p)]
      /\ h' = [h EXCEPT ![c].st = "got", ![c].gen = Opened(p).gen]
      /\ UNCHANGED <<main, ready, done, srv, stop, todo, outlived>>

\* The pool the handler was given may have been closed meanwhile.
Usable(c) == LET p == h[c].pool
             IN  pool[p].open /\ ~pool[p].closing /\ pool[p].gen = h[c].gen

Acquire(c) ==
  /\ Alive /\ h[c].st = "got"
  /\ h' = [h EXCEPT ![c].st = IF Usable(c) THEN "holding" ELSE "done"]
  /\ UNCHANGED <<main, ready, done, srv, stop, pool, todo, outlived>>

\* The call is over, at the latest at its deadline, and its connection is back.
Release(c) ==
  /\ Alive /\ h[c].st = "holding"
  /\ h' = [h EXCEPT ![c].st = "done"]
  /\ UNCHANGED <<main, ready, done, srv, stop, pool, todo, outlived>>

\* Registry.Close goes through the databases in any order; of one database the
\* insert pool is closed first.
NextToClose(p) ==
  /\ p \in todo
  /\ p[2] = "read" => <<p[1], "insert">> \notin todo
  /\ \A d \in Dbs \ {p[1]} : <<d, "read">> \in todo => <<d, "insert">> \in todo

\* Mutant of BeginClose: Database.Close forgets the insert pool.
BeginCloseRead(p) ==
  /\ main = "closing" /\ NextToClose(p) /\ \A q \in Pools : ~pool[q].closing
  /\ IF pool[p].open /\ p[2] = "read"
       THEN pool' = [pool EXCEPT ![p].closing = TRUE] /\ UNCHANGED todo
       ELSE todo' = todo \ {p} /\ UNCHANGED pool
  /\ UNCHANGED <<main, ready, done, srv, stop, h, outlived>>

\* Database.Close and lazyPool.close take the mutex; a pool that was never
\* opened needs nothing.
BeginClose(p) ==
  /\ main = "closing" /\ NextToClose(p) /\ \A q \in Pools : ~pool[q].closing
  /\ IF pool[p].open
       THEN pool' = [pool EXCEPT ![p].closing = TRUE] /\ UNCHANGED todo
       ELSE todo' = todo \ {p} /\ UNCHANGED pool
  /\ UNCHANGED <<main, ready, done, srv, stop, h, outlived>>

InUse(p) == \E c \in Handlers : h[c].st = "holding" /\ h[c].pool = p

\* pgxpool's Close returns, the pool is forgotten and the mutex released.
EndClose(p) ==
  /\ main = "closing" /\ pool[p].closing /\ ~InUse(p)
  /\ pool' = [pool EXCEPT ![p].open = FALSE, ![p].closing = FALSE]
  /\ todo' = todo \ {p}
  /\ UNCHANGED <<main, ready, done, srv, stop, h, outlived>>

Init ==
  /\ main = "boot" /\ ready = FALSE /\ done = FALSE
  /\ srv = [s \in Servers |-> "off"] /\ stop = [s \in Servers |-> FALSE]
  /\ h = [c \in Handlers |-> [st |-> "none", pool |-> NoPool, gen |-> 0]]
  /\ pool = [p \in Pools |-> [open |-> FALSE, gen |-> 0, closing |-> FALSE]]
  /\ todo = Pools /\ outlived = {}

\* What runServe does by itself; stdio ends when a signal arrives, else only
\* when its input does.
ServeNext ==
  \/ Boot \/ BootFails \/ SetReady \/ ShutDown \/ StopMCP \/ StopObs \/ Exit
  \/ (main = "stdio" => done) /\ Unwind

HandlerNext(c) == GetPool(c) \/ Acquire(c) \/ Release(c)

\* The process is gone.
Gone == main = "exit" /\ UNCHANGED vars

Next ==
  \/ Boot \/ BootFails \/ SetReady \/ Signal \/ ShutDown \/ StopMCP \/ StopObs
  \/ Unwind \/ Exit \/ Gone
  \/ \E s \in Servers : Listen(s) \/ ServerFails(s) \/ Drain(s) \/ Drained(s)
  \/ \E c \in Handlers : \/ GetPool(c) \/ Acquire(c) \/ Release(c)
                         \/ \E p \in Pools : Call(c, p)
  \/ \E p \in Pools : BeginClose(p) \/ EndClose(p)

Spec == Init /\ [][Next]_vars

(***************************************************************************)
(* Go runs every goroutine that can run, and a handler ends by its         *)
(* deadline.  (Sessions shows the one wait that has none.)  Nothing makes  *)
(* a signal arrive, a server fail, or stdio end before its input does.     *)
(***************************************************************************)
Fairness ==
  /\ WF_vars(ServeNext)
  /\ \A s \in Servers : WF_vars(Drain(s)) /\ WF_vars(Drained(s))
  /\ \A c \in Handlers : WF_vars(HandlerNext(c))
  /\ \A p \in Pools : WF_vars(BeginClose(p)) /\ WF_vars(EndClose(p))

FairSpec == Spec /\ Fairness

-----------------------------------------------------------------------------
(* Properties *)

\* The process is told apart from a working one before it stops working: the
\* MCP server is asked to stop only when /readyz says no, and the server of
\* /readyz and /metrics only when the MCP server has drained.
DrainInOrder ==
  /\ stop["mcp"] => ~ready
  /\ stop["obs"] => srv["mcp"] = "down"

\* The connections in use of one database and role are always those of a
\* single pool, so that maxConnections bounds them: a pool opened lazily by
\* several handlers at once is opened once, and a pool opened again after
\* Close meets no connection of the closed one.
OnePool ==
  /\ TypeOK
  /\ \A c, e \in Handlers :
       h[c].st = "holding" /\ h[e].st = "holding" /\ h[c].pool = h[e].pool =>
         h[c].gen = h[e].gen /\ h[c].gen = pool[h[c].pool].gen

\* When the process ends every pool is closed that no handler which outlived
\* the drain has opened again (Registry.Close, both pools of every database).
PoolsClosed ==
  main = "exit" => \A p \in Pools : pool[p].open => \E c \in outlived : h[c].pool = p

\* The process ends after a signal, and also when one of its HTTP servers
\* could not listen or failed: Close, which holds the mutex of a pool while it
\* waits for its connections, never waits for a handler that waits for it.
Terminates == (done \/ \E s \in Servers : srv[s] = "down") ~> main = "exit"
=============================================================================
