------------------------------ MODULE Sessions ------------------------------
(***************************************************************************)
(* Tool calls running over the pooled PostgreSQL sessions of one database. *)
(*                                                                         *)
(* A read call is one withTx (internal/timescale/session.go), an insert    *)
(* call one Insert (insert.go).  Both take a connection from a lazily      *)
(* filled pgx pool whose sessions AfterConnect prepared (registry.go),     *)
(* open a transaction, attribute it to the caller, run their body and end  *)
(* the transaction: a read call always by ROLLBACK, an insert call by      *)
(* COMMIT, or by ROLLBACK when its body failed.                            *)
(*                                                                         *)
(* A statement takes three steps: the client sends it, the backend executes*)
(* it, the client receives the answer.  In between the deadline of the call*)
(* may pass, the path may hang or break, and the backend may time the      *)
(* statement out or die.  pgx and PostgreSQL are external: they are        *)
(* modelled from what session.go, insert.go and registry.go rely on.       *)
(***************************************************************************)
EXTENDS Naturals, FiniteSets

CONSTANTS
  Readers,    \* calls that go through withTx; a call stands for its caller too
  Inserters,  \* calls that go through Insert
  Conns,      \* identities of connections; one is reused when it is gone
  MaxConns,   \* MaxConns of each pool (config maxConnections)
  Base,       \* the application_name every session starts with
  Forged,     \* an application_name the SQL text of a caller made up
  Smuggle,    \* whether a body may contain set_config(..., false)
  NoCall, NoConn

Calls == Readers \cup Inserters

ASSUME CallsAssumption ==
  /\ Readers \cap Inserters = {}
  /\ NoCall \notin Calls
  /\ Base \notin Calls \cup {Forged}
  /\ Forged \notin Calls
  /\ NoConn \notin Conns
  /\ MaxConns \in Nat \ {0}
  /\ Smuggle \in BOOLEAN

VARIABLES
  call,   \* per call: where withTx or Insert stands
  link,   \* per connection: what the client knows of it, and the path
  srv,    \* per connection: the server-side backend
  rows    \* per call: rows it has durably written

vars == <<call, link, srv, rows>>

-----------------------------------------------------------------------------
(* Data *)

Pools == {"read", "insert"}

\* The statements of a call, in the order in which it may send them.
Ops == {"begin", "attr", "limit", "body", "commit", "undo"}

\* The settings of a session: application_name, statement_timeout,
\* idle_in_transaction_session_timeout, default_transaction_read_only.
Settings == [app: Calls \cup {Base, Forged}, tmo: {"none", "session", "call"},
             idle: BOOLEAN, ro: BOOLEAN]

CallState == [pc: Ops \cup {"start", "acquire", "done"}, sent: BOOLEAN,
              late: BOOLEAN, want: BOOLEAN, conn: Conns \cup {NoConn},
              out: {"none", "ok", "err", "refused"}]

LinkState == [cli: {"none", "new", "idle", "held"}, pool: Pools,
              net: {"up", "hung", "down"}, by: Calls \cup {NoCall},
              ans: {"none", "ok", "err"}]

BackendState == [st: {"gone", "idle", "tx", "failed"}, stmt: Ops \cup {"none"},
                 ro: BOOLEAN, pend: Nat,
                 sess: Settings, keep: Settings, cur: Settings]

TypeOK ==
  /\ call \in [Calls -> CallState]
  /\ link \in [Conns -> LinkState]
  /\ srv \in [Conns -> BackendState]
  /\ rows \in [Calls -> Nat]

PoolOf(c) == IF c \in Readers THEN "read" ELSE "insert"

\* The RuntimeParams a connection starts with, before AfterConnect.
Fresh == [app |-> Base, tmo |-> "none", idle |-> FALSE, ro |-> FALSE]

\* The session defaults AfterConnect leaves; only the read pool is read-only.
Defaults(p) == [app |-> Base, tmo |-> "session", idle |-> TRUE,
                ro |-> (p = "read")]

IdleCall == [pc |-> "start", sent |-> FALSE, late |-> FALSE, want |-> FALSE,
             conn |-> NoConn, out |-> "none"]

GoneBackend == [st |-> "gone", stmt |-> "none", ro |-> FALSE, pend |-> 0,
                sess |-> Fresh, keep |-> Fresh, cur |-> Fresh]

-----------------------------------------------------------------------------
(* The pool (external: pgxpool) *)

InPool(p) == {k \in Conns : link[k].cli # "none" /\ link[k].pool = p}
IdleIn(p) == {k \in InPool(p) : link[k].cli = "idle"}

\* What the client does to a connection it gives up.  A hung path hides it
\* from the backend.
Dropped(l) == [l EXCEPT !.cli = "none", !.ans = "none",
                        !.net = IF l.net = "hung" THEN "hung" ELSE "down"]

\* The call waiting in Acquire finds no idle connection and room for one
\* more: the pool dials, apart from the call's own context.
Connect(c, k) ==
  /\ call[c].pc = "acquire" /\ ~call[c].late
  /\ IdleIn(PoolOf(c)) = {}
  /\ Cardinality(InPool(PoolOf(c))) < MaxConns
  /\ ~ \E j \in Conns : link[j].cli = "new" /\ link[j].by = c
  /\ link[k].cli = "none" /\ srv[k].st = "gone"
  /\ link' = [link EXCEPT ![k] = [cli |-> "new", pool |-> PoolOf(c),
                                  net |-> "up", by |-> c, ans |-> "none"]]
  /\ srv' = [srv EXCEPT ![k] = [GoneBackend EXCEPT !.st = "idle"]]
  /\ UNCHANGED <<call, rows>>

\* Mutant of AfterConnect: no idle_in_transaction_session_timeout.
AfterConnectNoIdle(s, p) ==
  IF s.tmo = "none" THEN [s EXCEPT !.tmo = "session"]
                    ELSE [s EXCEPT !.ro = (p = "read")]

\* The statements of AfterConnect, one at a time, on a session not yet handed
\* out; s is the session's settings, p its pool.
AfterConnect(s, p) ==
  CASE s.tmo = "none"            -> [s EXCEPT !.tmo = "session"]
    [] s.tmo # "none" /\ ~s.idle -> [s EXCEPT !.idle = TRUE]
    [] OTHER                     -> [s EXCEPT !.ro = (p = "read")]

AfterConnectStep(k) ==
  LET s == AfterConnect(srv[k].sess, link[k].pool)
  IN  /\ link[k].cli = "new" /\ link[k].net = "up" /\ srv[k].st = "idle"
      /\ s # srv[k].sess
      /\ srv' = [srv EXCEPT ![k].sess = s, ![k].keep = s, ![k].cur = s]
      /\ UNCHANGED <<call, link, rows>>

\* AfterConnect has nothing left to set: the connection goes to the call that
\* waited for it or, when that call has given up, to the idle ones.
Established(k) == AfterConnect(srv[k].sess, link[k].pool) = srv[k].sess

HandOver(k) ==
  LET c == link[k].by
  IN  /\ link[k].cli = "new" /\ Established(k)
      /\ IF call[c].pc = "acquire"
           THEN /\ call' = [call EXCEPT ![c].pc = "begin", ![c].conn = k]
                /\ link' = [link EXCEPT ![k].cli = "held"]
           ELSE /\ link' = [link EXCEPT ![k].cli = "idle"]
                /\ UNCHANGED call
      /\ UNCHANGED <<srv, rows>>

\* Dialling or a statement of AfterConnect failed: the connection is closed
\* and the call that waits for it gets the error.
ConnectFail(k) ==
  LET c == link[k].by
  IN  /\ link[k].cli = "new" /\ ~Established(k)
      /\ link' = [link EXCEPT ![k] = Dropped(@)]
      /\ IF call[c].pc = "acquire"
           THEN call' = [call EXCEPT ![c].pc = "done", ![c].out = "err"]
           ELSE UNCHANGED call
      /\ UNCHANGED <<srv, rows>>

AcquireIdle(c, k) ==
  /\ call[c].pc = "acquire"
  /\ ~ \E j \in Conns : link[j].cli = "new" /\ link[j].by = c
  /\ k \in IdleIn(PoolOf(c))
  /\ call' = [call EXCEPT ![c].pc = "begin", ![c].conn = k]
  /\ link' = [link EXCEPT ![k].cli = "held", ![k].by = c]
  /\ UNCHANGED <<srv, rows>>

\* MaxConnIdleTime, MaxConnLifetime or the health check closes an idle
\* connection.
Recycle(k) ==
  /\ link[k].cli = "idle"
  /\ link' = [link EXCEPT ![k] = Dropped(@)]
  /\ UNCHANGED <<call, srv, rows>>

-----------------------------------------------------------------------------
(* withTx and Insert *)

\* Insert refuses before it touches the pool: no insert path, a table outside
\* the allowlist, no columns, a malformed column name, an unencodable value.
Refuse(c) ==
  /\ c \in Inserters /\ call[c].pc = "start"
  /\ call' = [call EXCEPT ![c].pc = "done", ![c].out = "refused"]
  /\ UNCHANGED <<link, srv, rows>>

\* The deadline starts to run; want says that the read call brings a
\* statement timeout of its own.
Start(c) ==
  /\ call[c].pc = "start"
  /\ \E w \in IF c \in Readers THEN BOOLEAN ELSE {FALSE} :
       call' = [call EXCEPT ![c].pc = "acquire", ![c].want = w]
  /\ UNCHANGED <<link, srv, rows>>

\* The deadline passes, or the caller of the tool goes away.
Expire(c) ==
  /\ call[c].pc \notin {"start", "done"} /\ ~call[c].late
  /\ call' = [call EXCEPT ![c].late = TRUE]
  /\ UNCHANGED <<link, srv, rows>>

\* Mutant of ReadOnlyMode: withTx begins without its access mode.
ReadWriteMode(c) == FALSE

\* The access mode of BEGIN.
ReadOnlyMode(c) == c \in Readers

\* Mutant of UnderDeadline: Insert rolls back without a deadline as well.
UndoWithoutDeadline(c) == call[c].pc # "undo"

\* Whether the statement a call is at runs under the call's deadline: the
\* deferred Rollback of withTx does not (context.WithoutCancel), the one of
\* Insert does.
UnderDeadline(c) == ~(c \in Readers /\ call[c].pc = "undo")

Expired(c) == call[c].late /\ UnderDeadline(c)

\* Where a call goes when a statement succeeded.  A read body is one or more
\* statements and may still fail on what it got back.
Follow(c) ==
  CASE call[c].pc = "begin" -> {<<"attr", "none">>}
    [] call[c].pc = "attr"  -> {<<IF call[c].want THEN "limit" ELSE "body", "none">>}
    [] call[c].pc = "limit" -> {<<"body", "none">>}
    [] call[c].pc = "body" /\ c \in Readers ->
         {<<"body", "none">>, <<"undo", "ok">>, <<"undo", "err">>}
    [] call[c].pc = "body" /\ c \in Inserters -> {<<"commit", "none">>}
    [] OTHER -> {}

\* Mutant of Outcome: a COMMIT that got no answer is reported as done.
OutcomeHopeful(c) ==
  IF call[c].pc = "commit" THEN "ok"
  ELSE IF call[c].out = "none" THEN "err" ELSE call[c].out

\* Once decided, an outcome stays: what Rollback returns is ignored.
Outcome(c) == IF call[c].out = "none" THEN "err" ELSE call[c].out

Return(c, o) ==
  call' = [call EXCEPT ![c].pc = "done", ![c].sent = FALSE,
                       ![c].conn = NoConn, ![c].out = o]

\* The call ends and its connection is closed: pgx lets one die when BEGIN,
\* ROLLBACK or an unanswered statement fails on it.
ReturnClosing(c) ==
  /\ Return(c, Outcome(c))
  /\ link' = [link EXCEPT ![call[c].conn] = Dropped(@)]

\* The call ends and its connection goes back to the pool.
ReturnReleasing(c, o) ==
  /\ Return(c, o)
  /\ link' = [link EXCEPT ![call[c].conn].cli = "idle",
                          ![call[c].conn].ans = "none"]

MoveOn(c, p, o) ==
  /\ call' = [call EXCEPT ![c].pc = p, ![c].sent = FALSE, ![c].out = o]
  /\ link' = [link EXCEPT ![call[c].conn].ans = "none"]

\* Mutant of Send: the deferred function of withTx commits.
SendCommit(c) ==
  LET k == call[c].conn
  IN  /\ call[c].pc \in Ops /\ ~call[c].sent /\ ~Expired(c)
      /\ call' = [call EXCEPT ![c].sent = TRUE]
      /\ srv' = IF link[k].net = "up"
                  THEN [srv EXCEPT ![k].stmt = IF call[c].pc = "undo" THEN "commit" ELSE call[c].pc]
                  ELSE srv
      /\ UNCHANGED <<link, rows>>

Send(c) ==
  LET k == call[c].conn
  IN  /\ call[c].pc \in Ops /\ ~call[c].sent /\ ~Expired(c)
      /\ call' = [call EXCEPT ![c].sent = TRUE]
      /\ srv' = IF link[k].net = "up"
                  THEN [srv EXCEPT ![k].stmt = call[c].pc]
                  ELSE srv
      /\ UNCHANGED <<link, rows>>

Answered(c) == /\ call[c].sent
               /\ link[call[c].conn].ans # "none"
               /\ link[call[c].conn].net # "hung"

ReceiveOk(c) ==
  /\ Answered(c) /\ link[call[c].conn].ans = "ok"
  /\ IF call[c].pc \in {"commit", "undo"}
       THEN ReturnReleasing(c, IF call[c].pc = "commit" THEN "ok" ELSE call[c].out)
       ELSE \E f \in Follow(c) : MoveOn(c, f[1], f[2])
  /\ UNCHANGED <<srv, rows>>

\* An error answer: withTx and BeginTxFunc roll back, except when BEGIN failed
\* (pgx closes the connection) or COMMIT did (the backend has rolled back).
ReceiveErr(c) ==
  /\ Answered(c) /\ link[call[c].conn].ans = "err"
  /\ CASE call[c].pc \in {"begin", "undo"} -> ReturnClosing(c)
       [] call[c].pc = "commit" -> ReturnReleasing(c, "err")
       [] OTHER -> MoveOn(c, "undo", "err")
  /\ UNCHANGED <<srv, rows>>

\* The deadline has passed before the next statement is sent: pgx fails it
\* without touching the connection.
FailFast(c) ==
  /\ call[c].pc \notin {"start", "done"} /\ ~call[c].sent /\ Expired(c)
  /\ CASE call[c].pc = "acquire" -> Return(c, "err") /\ UNCHANGED link
       [] call[c].pc \in {"begin", "commit", "undo"} -> ReturnClosing(c)
       [] OTHER -> MoveOn(c, "undo", "err")
  /\ UNCHANGED <<srv, rows>>

\* The deadline passes while a statement is in flight: pgx closes the
\* connection, so the Rollback that follows has nothing to talk to.
Abandon(c) ==
  /\ call[c].sent /\ Expired(c)
  /\ ReturnClosing(c)
  /\ UNCHANGED <<srv, rows>>

\* Mutant of Lost: a call tries again when its connection broke.
LostRetries(c) ==
  /\ call[c].sent /\ link[call[c].conn].net = "down"
  /\ call' = [call EXCEPT ![c].pc = "acquire", ![c].sent = FALSE, ![c].conn = NoConn]
  /\ link' = [link EXCEPT ![call[c].conn] = Dropped(@)]
  /\ UNCHANGED <<srv, rows>>

\* The path broke under a statement.
Lost(c) ==
  /\ call[c].sent /\ link[call[c].conn].net = "down"
  /\ ReturnClosing(c)
  /\ UNCHANGED <<srv, rows>>

-----------------------------------------------------------------------------
(* The backend (external: PostgreSQL) *)

Busy(k) == srv[k].stmt # "none"
InTx(k) == srv[k].st \in {"tx", "failed"}

\* The backend has finished a statement: s is its new state, a its answer.
\* Nobody is there to take the answer once the client closed the connection.
Finish(k, s, a) ==
  /\ srv' = [srv EXCEPT ![k] = [s EXCEPT !.stmt = "none"]]
  /\ link' = [link EXCEPT ![k].ans = IF link[k].cli = "held" THEN a ELSE @]

RolledBack(s) == [s EXCEPT !.st = "idle", !.pend = 0, !.keep = s.sess,
                           !.cur = s.sess]
Committed(s) == [s EXCEPT !.st = "idle", !.pend = 0, !.sess = s.keep,
                          !.cur = s.keep]

\* Mutant of Attribute: the caller is left out.
AttributeNothing(s, c) == s

\* set_config('application_name', ..., true): for this transaction only.
Attribute(s, c) == [s EXCEPT !.cur.app = c]

\* Mutant of Limit: the timeout of the call is not applied.
LimitNothing(s) == s

\* set_config('statement_timeout', ..., true): for this transaction only.
Limit(s) == [s EXCEPT !.cur.tmo = "call"]

\* A session-level set_config reached through the SQL text of a caller.
Smuggled(s) == [s EXCEPT !.cur.app = Forged, !.keep.app = Forged,
                         !.cur.tmo = "none", !.keep.tmo = "none"]

\* A statement of withTx or BeginTxFunc other than the body succeeds.
ExecControl(k) ==
  LET s == srv[k]
      c == link[k].by
  IN  \/ /\ s.stmt = "begin" /\ s.st = "idle"
         /\ Finish(k, [s EXCEPT !.st = "tx", !.ro = ReadOnlyMode(c)], "ok")
         /\ UNCHANGED <<call, rows>>
      \/ /\ s.stmt = "attr" /\ s.st = "tx"
         /\ Finish(k, Attribute(s, c), "ok")
         /\ UNCHANGED <<call, rows>>
      \/ /\ s.stmt = "limit" /\ s.st = "tx"
         /\ Finish(k, Limit(s), "ok")
         /\ UNCHANGED <<call, rows>>
      \/ /\ s.stmt = "commit" /\ s.st = "tx"
         /\ Finish(k, Committed(s), "ok")
         /\ rows' = [rows EXCEPT ![c] = @ + s.pend]
         /\ UNCHANGED call
      \/ /\ s.stmt = "undo" /\ InTx(k)
         /\ Finish(k, RolledBack(s), "ok")
         /\ UNCHANGED <<call, rows>>

\* The body of a call succeeds: a read body reads, smuggles a setting or, in a
\* transaction that lets it, writes; the body of an insert call writes its row.
ExecBody(k) ==
  LET s == srv[k]
      c == link[k].by
  IN  /\ s.stmt = "body" /\ s.st = "tx"
      /\ \/ c \in Readers /\ Finish(k, s, "ok")
         \/ c \in Readers /\ Smuggle /\ Finish(k, Smuggled(s), "ok")
         \/ ~s.ro /\ Finish(k, [s EXCEPT !.pend = @ + 1], "ok")
      /\ UNCHANGED <<call, rows>>

\* A statement fails: cancelled, refused by a constraint, a write in a
\* read-only transaction, a COMMIT stopped by a deferred constraint.
ExecErr(k) ==
  LET s == srv[k]
  IN  /\ Busy(k) /\ s.stmt # "undo"
      /\ CASE s.stmt = "begin"  -> Finish(k, s, "err")
           [] s.stmt = "commit" -> Finish(k, RolledBack(s), "err")
           [] OTHER             -> Finish(k, [s EXCEPT !.st = "failed"], "err")
      /\ UNCHANGED <<call, rows>>

StatementTimeout(k) == srv[k].cur.tmo # "none" /\ ExecErr(k)

\* The backend ends; what it had not committed is undone.
Die(k) ==
  /\ srv' = [srv EXCEPT ![k] = GoneBackend]
  /\ link' = [link EXCEPT ![k].net = IF @ = "up" THEN "down" ELSE @]
  /\ UNCHANGED <<call, rows>>

\* idle_in_transaction_session_timeout
IdleTxTimeout(k) == InTx(k) /\ ~Busy(k) /\ srv[k].cur.idle /\ Die(k)

\* The backend reads the end of the connection its client closed.
Disconnect(k) ==
  /\ srv[k].st # "gone" /\ ~Busy(k) /\ link[k].net = "down" /\ Die(k)

\* An administrator or a failover ends the backend.
Terminate(k) == srv[k].st # "gone" /\ Die(k)

\* The path stops carrying anything, in both directions, or is found broken.
Hang(k) ==
  /\ srv[k].st # "gone" /\ link[k].net = "up"
  /\ link' = [link EXCEPT ![k].net = "hung"]
  /\ UNCHANGED <<call, srv, rows>>

Reset(k) ==
  /\ link[k].net = "hung"
  /\ link' = [link EXCEPT ![k].net = "down"]
  /\ UNCHANGED <<call, srv, rows>>

-----------------------------------------------------------------------------
Init ==
  /\ call = [c \in Calls |-> IdleCall]
  /\ link = [k \in Conns |-> [cli |-> "none", pool |-> "read", net |-> "down",
                              by |-> NoCall, ans |-> "none"]]
  /\ srv = [k \in Conns |-> GoneBackend]
  /\ rows = [c \in Calls |-> 0]

\* Steps of the goroutine of a call that it takes by itself.
Step(c) == Send(c) \/ ReceiveOk(c) \/ ReceiveErr(c) \/ FailFast(c)
             \/ Abandon(c) \/ Lost(c)

CallNext(c) ==
  \/ Refuse(c) \/ Start(c) \/ Expire(c)
  \/ Send(c) \/ ReceiveOk(c) \/ ReceiveErr(c)
  \/ FailFast(c) \/ Abandon(c) \/ Lost(c)
  \/ \E k \in Conns : Connect(c, k) \/ AcquireIdle(c, k)

PoolNext(k) == AfterConnectStep(k) \/ HandOver(k) \/ ConnectFail(k) \/ Recycle(k)

BackendNext(k) ==
  \/ ExecControl(k) \/ ExecBody(k) \/ ExecErr(k) \/ StatementTimeout(k)
  \/ IdleTxTimeout(k) \/ Disconnect(k) \/ Terminate(k)

PathNext(k) == Hang(k) \/ Reset(k)

\* Every call has returned and nothing is left to happen.
Quiet == (\A c \in Calls : call[c].pc = "done") /\ UNCHANGED vars

Next ==
  \/ \E c \in Calls : CallNext(c)
  \/ \E k \in Conns : PoolNext(k) \/ BackendNext(k) \/ PathNext(k)
  \/ Quiet

Spec == Init /\ [][Next]_vars

(***************************************************************************)
(* Go schedules every runnable goroutine and fires every timer; the server *)
(* finishes its own short statements, and enforces the two timeouts of the *)
(* session.  No fairness is assumed of dialling, of a caller's statement,  *)
(* of the path or of an administrator.                                     *)
(***************************************************************************)
Fairness ==
  /\ \A c \in Calls : WF_vars(Step(c)) /\ WF_vars(Expire(c))
  /\ \A k \in Conns : /\ WF_vars(ExecControl(k)) /\ WF_vars(StatementTimeout(k))
                      /\ WF_vars(IdleTxTimeout(k)) /\ WF_vars(Disconnect(k))

FairSpec == Spec /\ Fairness

-----------------------------------------------------------------------------
(* Properties *)

\* A connection waiting in a pool never carries anything of the calls that
\* used it: its session is idle, outside a transaction, with the settings
\* AfterConnect gave it, even when a body changed settings for the session.
\* (withTx always rolls back; Insert sets application_name for its own
\* transaction only.)
PoolClean ==
  \A k \in Conns : link[k].cli = "idle" /\ srv[k].st # "gone" =>
    LET d == Defaults(link[k].pool)
    IN  /\ srv[k].st = "idle" /\ ~Busy(k) /\ srv[k].pend = 0
        /\ srv[k].sess = d /\ srv[k].keep = d /\ srv[k].cur = d

\* Whatever runs for a caller, also after the client has given up on it, runs
\* inside a transaction and under the application_name of that caller: never
\* the bare base name, never that of another caller.  The row of an insert is
\* committed under it too.
Attributed ==
  \A k \in Conns : srv[k].stmt \in {"body", "commit"} =>
    /\ srv[k].st = "tx"
    /\ srv[k].cur.app \in {link[k].by} \cup (IF Smuggle THEN {Forged} ELSE {})

\* A caller's statement never runs without a time limit at the server, and it
\* runs under the limit the call asked for (set_config in withTx), or under
\* the session's (AfterConnect) when it asked for none.
TimeLimited ==
  \A c \in Calls : LET k == call[c].conn IN
    (k # NoConn /\ srv[k].stmt = "body") =>
       srv[k].cur.tmo \in {IF call[c].want THEN "call" ELSE "session"}
                           \cup (IF Smuggle THEN {"none"} ELSE {})

\* No write of a read call is ever performed, not even one that a rollback
\* would undo, while the same server does perform those of insert calls.
ReadersNeverWrite ==
  /\ \A k \in Conns : link[k].by \in Readers => srv[k].pend = 0
  /\ \A c \in Readers : rows[c] = 0

\* Insert writes at most one row, has written it when it reports success, and
\* has not written and never will when it refuses or rolls back.  (It may
\* have written, or still be about to, when it fails once COMMIT was sent.)
InsertOutcome ==
  \A c \in Inserters :
    /\ rows[c] <= 1
    /\ call[c].out = "ok" => rows[c] = 1
    /\ call[c].out = "refused" \/ call[c].pc \in {"attr", "body", "undo"} =>
         /\ rows[c] = 0
         /\ \A k \in Conns : link[k].by = c => srv[k].stmt # "commit"

\* The insert calls whose row may still be written: those on their way to
\* COMMIT, and those whose COMMIT a live backend has yet to execute.
Undecided ==
  {c \in Inserters :
     /\ rows[c] = 0
     /\ \/ call[c].pc \notin {"undo", "done"}
        \/ \E k \in Conns : link[k].by = c /\ srv[k].stmt = "commit"}

Contract == INSTANCE CallContract WITH
              out <- [c \in Calls |-> call[c].out], open <- Undecided

\* The sessions implement CallContract: in particular a row is written at most
\* once, and never after the call that wrote it rolled back or was refused.
ImplementsContract == Contract!Spec

\* A call that has started comes to its end or, at worst, hangs in the
\* Rollback of withTx on a path that is hung: every other wait of withTx and
\* Insert is under the deadline.
CallsEnd ==
  \A c \in Calls : call[c].pc = "acquire" ~>
     \/ call[c].pc = "done"
     \/ c \in Readers /\ call[c].pc = "undo" /\ link[call[c].conn].net = "hung"

\* No backend stays in a transaction for good, even when its client is gone or
\* cut off: the two timeouts AfterConnect sets see to it.
NoLingeringTx == \A k \in Conns : InTx(k) ~> ~InTx(k)

\* What the comment on sessionSlack says: "a hung network path cannot hold a
\* handler forever".
HandlersReturn == \A c \in Calls : call[c].pc = "acquire" ~> call[c].pc = "done"
=============================================================================
