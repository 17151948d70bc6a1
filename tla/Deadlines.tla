----------------------------- MODULE Deadlines -----------------------------
(***************************************************************************)
(* The time limits of a tool call on one clock: the statement timeouts of  *)
(* the databases, timeout_seconds and its arithmetic, the deadline of a    *)
(* call and that of a probe, and the timeout middleware around them all    *)
(* (cmd/serve.go, internal/tools/query.go, internal/timescale/session.go,  *)
(* insert.go and catalog.go Probe), with calls that compete for the        *)
(* connections of a pool.                                                  *)
(*                                                                         *)
(* Waiting ends no later than the code's timers make it end; computing     *)
(* between two waits takes at most Pause.  A call may wait for ROLLBACK as *)
(* long as the network lets it, because withTx gives that no deadline.     *)
(***************************************************************************)
EXTENDS Integers, FiniteSets

CONSTANTS
  Calls, Dbs, NoDb,
  Timeouts,          \* the statement timeouts a database may have
  Args,              \* the values of timeout_seconds; 0 stands for none
  MaxConns,          \* the size of a pool
  Second,            \* time.Second, in the clock's unit
  MaxInt,            \* math.MaxInt32
  MaxDuration,       \* the largest time.Duration
  probeTimeout, sessionSlack, toolTimeoutSlack, minToolTimeout,
  Pause,             \* the longest time a handler computes between two waits
  Horizon            \* bound on the clock

ASSUME DeadlinesAssumption ==
  /\ NoDb \notin Dbs /\ Timeouts \subseteq Nat /\ Args \subseteq Int
  /\ MaxConns \in Nat /\ Second \in Nat \ {0} /\ MaxInt \in Nat /\ MaxDuration \in Nat
  /\ probeTimeout \in Nat /\ sessionSlack \in Nat /\ toolTimeoutSlack \in Nat
  /\ minToolTimeout \in Nat /\ Pause \in Nat /\ Horizon \in Nat

\* What the constants of the code satisfy: 2^31 seconds fit a time.Duration,
\* and five seconds, the difference of the two slacks, are more than a handler
\* computes before and after its database work.
ASSUME SlackAssumption ==
  /\ MaxInt * Second <= MaxDuration
  /\ 2 * Pause < toolTimeoutSlack - sessionSlack

Tools == {"read", "sql", "insert", "list"}

VARIABLES
  now,         \* the clock
  limit,       \* StatementTimeout of each database
  maxTimeout,  \* the largest of them
  call         \* per call: see CallState

vars == <<now, limit, maxTimeout, call>>

\* start: the middleware's timer began; dl: the context of the call is done;
\* lim: the statement_timeout set for the transaction, 0: the session's;
\* cut: where the call was when the middleware ended it.
CallState == [pc: {"idle", "enter", "acquire", "run", "undo", "done"}, tool: Tools,
              db: Dbs \cup {NoDb}, arg: Args \cup {0}, start: Nat, dl: Nat, lim: Int,
              cut: {"no", "enter", "acquire", "run", "undo"}]

TypeOK ==
  /\ now \in Nat /\ limit \in [Dbs -> Timeouts] /\ maxTimeout \in Nat
  /\ call \in [Calls -> CallState]

-----------------------------------------------------------------------------
(* The limits *)

\* Mutant of IsMaxTimeout: the timeout of any database, say the last one's.
IsAnyTimeout(m) == m \in {limit[d] : d \in Dbs} \cup {0}

\* Registry.MaxStatementTimeout
IsMaxTimeout(m) ==
  /\ m \in {limit[d] : d \in Dbs} \cup {0}
  /\ \A d \in Dbs : limit[d] <= m

\* runServe: the time the middleware gives a handler.
toolTimeout == LET m == maxTimeout + toolTimeoutSlack
               IN  IF m < minToolTimeout THEN minToolTimeout ELSE m

\* A product as a time.Duration has it: two's complement.
Wrap(x) == ((x + MaxDuration + 1) % (2 * (MaxDuration + 1))) - (MaxDuration + 1)

Duration(secs) == Wrap(secs * Second)

\* Mutant of ArgInt: any integral number is an int.
ArgIntAny(n) == TRUE

\* argInt: a JSON number beyond MaxInt32 is refused.
ArgInt(n) == -MaxInt <= n /\ n <= MaxInt

\* timeoutArg: whether timeout_seconds is accepted on a database, and what it
\* becomes.
TimeoutAccepted(secs, max) ==
  ArgInt(secs) /\ (secs # 0 => secs >= 1 /\ Duration(secs) <= max)

TimeoutArg(secs) == IF secs = 0 THEN 0 ELSE Duration(secs)

\* Mutant of Deadline: a probe is bounded like every other read.
DeadlineShared(t, db, lim) ==
  (IF lim > 0 /\ lim < limit[db] THEN lim ELSE limit[db]) + sessionSlack

\* withTx and Insert: the time a call has from here.  Probe's own context is
\* the shorter of the two that then apply.
Deadline(t, db, lim) ==
  LET d == (IF lim > 0 /\ lim < limit[db] THEN lim ELSE limit[db]) + sessionSlack
  IN  IF t = "list" /\ probeTimeout < d THEN probeTimeout ELSE d

\* The timeout a handler passes to withTx; Insert sets none.
LimitOf(c) == CASE call[c].tool = "sql"  -> TimeoutArg(call[c].arg)
                [] call[c].tool = "list" -> probeTimeout
                [] OTHER -> 0

\* The read pool and the insert pool of a database.
SamePool(c, e) ==
  call[c].db = call[e].db /\ (call[c].tool = "insert" <=> call[e].tool = "insert")

Holders(c) == {e \in Calls : call[e].pc \in {"run", "undo"} /\ SamePool(c, e)}

-----------------------------------------------------------------------------
(* A call *)

\* A request comes in, through the middleware.
Arrive(c) ==
  /\ call[c].pc = "idle"
  /\ \E t \in Tools, d \in Dbs, a \in Args \cup {0} :
       /\ t # "sql" => a = 0
       /\ call' = [call EXCEPT ![c] = [@ EXCEPT !.pc = "enter", !.tool = t, !.db = d,
                                                !.arg = a, !.start = now]]
  /\ UNCHANGED <<now, limit, maxTimeout>>

Step(c, from, to) == call[c].pc = from /\ call' = [call EXCEPT ![c].pc = to]

Refuse(c) ==
  /\ call[c].tool = "sql" /\ ~TimeoutAccepted(call[c].arg, limit[call[c].db])
  /\ Step(c, "enter", "done")
  /\ UNCHANGED <<now, limit, maxTimeout>>

\* withTx, Insert or Probe begins.
Begin(c) ==
  /\ call[c].pc = "enter"
  /\ call[c].tool = "sql" => TimeoutAccepted(call[c].arg, limit[call[c].db])
  /\ call' = [call EXCEPT ![c].pc = "acquire", ![c].lim = LimitOf(c),
                ![c].dl = now + Deadline(call[c].tool, call[c].db, LimitOf(c))]
  /\ UNCHANGED <<now, limit, maxTimeout>>

\* A connection of the pool, the idle one or a new one.
Acquire(c) ==
  /\ now < call[c].dl /\ Cardinality(Holders(c)) < MaxConns
  /\ Step(c, "acquire", "run")
  /\ UNCHANGED <<now, limit, maxTimeout>>

\* The body is over, and withTx waits for ROLLBACK.
BodyEnds(c) ==
  /\ call[c].tool # "insert" /\ Step(c, "run", "undo")
  /\ UNCHANGED <<now, limit, maxTimeout>>

\* COMMIT or ROLLBACK of Insert runs under its deadline, and so does the rest;
\* the ROLLBACK of withTx has been answered.
Return(c) ==
  /\ Step(c, "undo", "done") \/ (call[c].tool = "insert" /\ Step(c, "run", "done"))
  /\ UNCHANGED <<now, limit, maxTimeout>>

\* The context is done: the wait for a connection ends; a statement in flight
\* is abandoned with its connection, and nothing is left to roll back.
Expire(c) ==
  /\ now >= call[c].dl
  /\ Step(c, "acquire", "done") \/ Step(c, "run", "done")
  /\ UNCHANGED <<now, limit, maxTimeout>>

\* The middleware's timer fires while the handler is still running.
Fire(c) ==
  /\ call[c].pc \notin {"idle", "done"} /\ call[c].cut = "no"
  /\ now >= call[c].start + toolTimeout
  /\ call' = [call EXCEPT ![c].cut = call[c].pc]
  /\ UNCHANGED <<now, limit, maxTimeout>>

\* The latest moment at which a call is where it is, if there is one.
Due(c) == IF call[c].pc = "enter" THEN call[c].start + Pause ELSE call[c].dl + Pause

Tick ==
  /\ now < Horizon
  /\ \A c \in Calls : call[c].pc \in {"enter", "acquire", "run"} => now < Due(c)
  /\ now' = now + 1
  /\ UNCHANGED <<limit, maxTimeout, call>>

Init ==
  /\ now = 0 /\ limit \in [Dbs -> Timeouts]
  /\ maxTimeout \in Timeouts \cup {0} /\ IsMaxTimeout(maxTimeout)
  /\ call = [c \in Calls |-> [pc |-> "idle", tool |-> "read", db |-> NoDb, arg |-> 0,
                              start |-> 0, dl |-> 0, lim |-> 0, cut |-> "no"]]

CallNext(c) == \/ Arrive(c) \/ Refuse(c) \/ Begin(c) \/ Acquire(c) \/ BodyEnds(c)
               \/ Return(c) \/ Expire(c) \/ Fire(c)

\* The end of the clock.
Over == now = Horizon /\ UNCHANGED vars

Next == (\E c \in Calls : CallNext(c)) \/ Tick \/ Over

Spec == Init /\ [][Next]_vars

-----------------------------------------------------------------------------
(* Properties *)

\* The middleware ends no handler that is computing, waiting for a connection
\* of a busy pool or waiting for a statement, whatever the mix of statement
\* timeouts: only one whose ROLLBACK is not answered.
MiddlewareLast == \A c \in Calls : call[c].cut \in {"no", "undo"}

\* list_databases does not wait for a busy or a silent database longer than the
\* short deadline of Probe, unless the answer to ROLLBACK is what is missing.
ProbePrompt ==
  \A c \in Calls :
    call[c].tool = "list" /\ call[c].pc \in {"enter", "acquire", "run"} =>
      now <= call[c].start + probeTimeout + 2 * Pause

\* A timeout_seconds that is accepted is the one that is set, to the second,
\* and it is within the statement timeout of the database: no product of an
\* accepted number overflows.
TimeoutHonoured ==
  \A c \in Calls :
    call[c].tool = "sql" /\ call[c].pc \in {"acquire", "run", "undo"} =>
      call[c].lim = call[c].arg * Second /\ call[c].lim \in 0 .. limit[call[c].db]
=============================================================================
