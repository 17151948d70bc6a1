----------------------------- MODULE ToolCalls -----------------------------
(***************************************************************************)
(* Concurrent tool calls from the door to the audit line: the MCP server's *)
(* schema validation (switched on by cmd/serve.go), identity, arguments,   *)
(* allowlist, SQL classifier, the database work, the audit line and the    *)
(* answer (internal/tools, with the identity bridge of internal/server and *)
(* the allowlist of internal/config).                                      *)
(*                                                                         *)
(* The work on a database is one step with an outcome: Sessions, Catalog-  *)
(* Reads, Listing and RowCollector look inside it.  list_databases works   *)
(* on several databases at once, one goroutine each.                       *)
(***************************************************************************)
EXTENDS Naturals, Sequences, Functions

CONSTANTS
  Calls,        \* the tool calls
  Servers,      \* [order, local, strict]: the databases in configuration order,
                \* whether there is no OAuth in front (stdio, OAUTH_ENABLED=false),
                \* and whether input schemas are validated: serve switches it on,
                \* and a handler that is called directly goes without
  Emails, Groups,
  Configs,      \* allowlists and insert paths the databases may have
  NoDb          \* the database of a call that has none

\* Who sent a request, as CallerFromContext finds it; sub: there is a subject.
Identities == [sub: BOOLEAN, email: Emails \cup {""}, groups: SUBSET Groups]
NoIdentity == [sub |-> FALSE, email |-> "", groups |-> {}]
Local == [sub |-> TRUE, email |-> "local", groups |-> {}]

ASSUME ToolsAssumption ==
  /\ Configs \subseteq [users: SUBSET (Emails \cup {"local"}), groups: SUBSET Groups,
                        insert: BOOLEAN]
  /\ "" \notin Emails /\ "local" \notin Emails
  /\ \A s \in Servers : /\ s.order \in Seq(Range(s.order)) /\ NoDb \notin Range(s.order)
                        /\ s.local \in BOOLEAN /\ s.strict \in BOOLEAN

VARIABLES
  conf,   \* the server, fixed at startup: [order, local, strict, db], db per database
  call,   \* per call: where it stands
  log     \* the audit log: the lines written so far, per call

vars == <<conf, call, log>>

Order == conf.order
Dbs == Range(Order)
LocalCaller == conf.local

Tools == {"list", "read", "sql", "insert"}

\* A request: the tool, its database argument ("": none, "?": one that is not
\* configured, "bad": not a string), whether there is an undeclared argument,
\* another one of the wrong type or range (bad "schema") or with a value that
\* only the handler refuses ("value"), a text the classifier or Insert refuses.
\* list_databases declares no arguments.
Requests ==
  {r \in [tool: Tools, db: Dbs \cup {"", "?", "bad"}, extra: BOOLEAN,
          bad: {"", "schema", "value"}, refused: BOOLEAN] :
     /\ r.tool = "list" => r.db = "" /\ r.bad = ""
     /\ r.refused => r.tool \in {"sql", "insert"}}

Classes == {"", "no_caller", "forbidden", "bad_argument", "sql_rejected",
            "timeout", "canceled", "connect", "not_found", "no_timescaledb",
            "no_databases", "sql_error", "internal"}

\* The classes timescale.Class gives to what a body met.
BodyClasses == {"", "timeout", "canceled", "connect", "not_found",
                "no_timescaledb", "sql_error", "internal"}

TypeOK ==
  /\ conf.db \in [Dbs -> Configs]
  /\ \A c \in Calls :
       /\ call[c].pc \in {"idle", "refused", "entered", "working", "listing", "probing",
                         "answered"}
       /\ call[c].who \in Identities \cup {Local}
       /\ call[c].req \in Requests
       /\ call[c].db \in Dbs \cup {NoDb}
       /\ call[c].items \in Seq([db: Dbs \cup {NoDb}, probed: Dbs \cup {NoDb},
                                 class: BodyClasses])
       /\ call[c].todo \subseteq DOMAIN call[c].items /\ call[c].hidden \in Nat
       /\ call[c].answer \in {"none", "ok", "error"}
       /\ log[c] \in Seq([who: Identities \cup {Local}, db: Dbs \cup {NoDb},
                          class: Classes])

-----------------------------------------------------------------------------
(* Who may do what *)

Empty(p) == ~p.sub /\ p.email = ""

\* Deps.caller: the identity of the request, else "local" where that is
\* allowed, else nobody.
Caller(p) == IF ~Empty(p) THEN p ELSE IF LocalCaller THEN Local ELSE NoIdentity

\* config.Database.Allows
Allows(d, p) ==
  \/ conf.db[d].users = {} /\ conf.db[d].groups = {}
  \/ p.email # "" /\ p.email \in conf.db[d].users
  \/ conf.db[d].groups \cap p.groups # {}

\* Registry.Insertable: whether timescale_insert_row is registered at all.
Insertable == \E d \in Dbs : conf.db[d].insert

Registered(t) == t = "insert" => Insertable

\* The server's validation of a request against the schema its tool declares:
\* database is required where several are configured.
Conforms(r) ==
  /\ ~r.extra /\ r.bad # "schema" /\ r.db # "bad"
  /\ r.tool # "list" /\ Len(Order) > 1 => r.db # ""

\* Deps.database: the database of a request, or the class of the refusal.
NamedDb(r) == IF r.db = "" /\ Len(Order) = 1 THEN Order[1] ELSE r.db

\* Mutant of DatabaseRefusal: the allowlist is not consulted.
DatabaseOpen(r, p) ==
  CASE Len(Order) = 0 -> "no_databases"
    [] Len(Order) > 0 /\ NamedDb(r) \notin Dbs -> "bad_argument"
    [] OTHER -> ""

DatabaseRefusal(r, p) ==
  CASE Len(Order) = 0 -> "no_databases"
    [] Len(Order) > 0 /\ NamedDb(r) \notin Dbs -> "bad_argument"
    [] Len(Order) > 0 /\ NamedDb(r) \in Dbs /\ ~Allows(NamedDb(r), p) -> "forbidden"
    [] OTHER -> ""

\* What a handler refuses once it has its database: arguments first, then the
\* text.  Insert's own refusals come back as argument errors.
TextRefusal(r) ==
  CASE r.bad # "" -> "bad_argument"
    [] r.bad = "" /\ r.tool = "sql" /\ r.refused -> "sql_rejected"
    [] r.bad = "" /\ r.tool = "insert" /\ (r.refused \/ ~conf.db[NamedDb(r)].insert) -> "bad_argument"
    [] OTHER -> ""

-----------------------------------------------------------------------------
(* A call *)

\* Mutant of Answer: wrap returns before the audit line without a caller.
AnswerUnaudited(c, class, db) ==
  /\ log' = IF class = "no_caller" THEN log
            ELSE [log EXCEPT ![c] = Append(@, [who |-> Caller(call[c].who), db |-> db,
                                                class |-> class])]
  /\ \E a \in IF class = "" THEN {"ok", "error"} ELSE {"error"} :
       call' = [call EXCEPT ![c].pc = "answered", ![c].answer = a, ![c].db = db]
  /\ UNCHANGED conf

\* wrap writes the audit line with what the handler returned, then answers;
\* encoding the answer may still fail.
Answer(c, class, db) ==
  /\ log' = [log EXCEPT ![c] = Append(@, [who |-> Caller(call[c].who), db |-> db,
                                           class |-> class])]
  /\ \E a \in IF class = "" THEN {"ok", "error"} ELSE {"error"} :
       call' = [call EXCEPT ![c].pc = "answered", ![c].answer = a, ![c].db = db]
  /\ UNCHANGED conf

\* Who may have sent a request.  Only a server behind OAuth knows: the token
\* middleware attaches the identity and PromoteOAuthCaller lifts it.
Senders == IF LocalCaller THEN {NoIdentity} ELSE Identities

\* What the server calls a handler for.
Passes(r) == Registered(r.tool) /\ (conf.strict => Conforms(r))

\* A request for a tool that is not there, or one that breaks its tool's
\* schema: the server answers it itself.
Refuse(c) ==
  /\ call[c].pc = "idle"
  /\ \E p \in Senders, r \in Requests :
       /\ ~Passes(r)
       /\ call' = [call EXCEPT ![c].pc = "refused", ![c].answer = "error",
                               ![c].who = p, ![c].req = r]
  /\ UNCHANGED <<conf, log>>

\* Any other request reaches wrap.
Arrive(c) ==
  /\ call[c].pc = "idle"
  /\ \E p \in Senders, r \in Requests :
       /\ Passes(r)
       /\ call' = [call EXCEPT ![c].pc = "entered", ![c].who = p, ![c].req = r]
  /\ UNCHANGED <<conf, log>>

\* wrap resolves the caller and checks the argument names.
Reject(c) ==
  LET p == Caller(call[c].who)
  IN  /\ call[c].pc = "entered"
      /\ \/ Empty(p) /\ Answer(c, "no_caller", NoDb)
         \/ ~Empty(p) /\ call[c].req.extra /\ Answer(c, "bad_argument", NoDb)

Admitted(c) ==
  call[c].pc = "entered" /\ ~Empty(Caller(call[c].who)) /\ ~call[c].req.extra

\* The handlers of the tools that take a database.
Handle(c) ==
  LET r == call[c].req
      p == Caller(call[c].who)
      no == DatabaseRefusal(r, p)
  IN  /\ Admitted(c) /\ r.tool # "list"
      /\ \/ no # "" /\ Answer(c, no, NoDb)
         \/ no = "" /\ TextRefusal(r) # "" /\ Answer(c, TextRefusal(r), NamedDb(r))
         \/ /\ no = "" /\ TextRefusal(r) = ""
            /\ call' = [call EXCEPT ![c].pc = "working", ![c].db = NamedDb(r)]
            /\ UNCHANGED <<conf, log>>

\* The work on the database ends, one way or another.
Finish(c) ==
  /\ call[c].pc = "working"
  /\ \E class \in BodyClasses : Answer(c, class, call[c].db)

\* list_databases goes through the databases in order and keeps those that
\* the caller may use, one slot each; the others are only counted.
List(c) ==
  /\ Admitted(c) /\ call[c].req.tool = "list"
  /\ call' = [call EXCEPT ![c].pc = "listing"]
  /\ UNCHANGED <<conf, log>>

Visited(c) == Len(call[c].items) + call[c].hidden

Slot(d) == [db |-> d, probed |-> NoDb, class |-> ""]

Visit(c) ==
  LET d == Order[Visited(c) + 1]
  IN  /\ call[c].pc = "listing" /\ Visited(c) < Len(Order)
      /\ call' = IF Allows(d, Caller(call[c].who))
                 THEN [call EXCEPT ![c].items = Append(@, Slot(d))]
                 ELSE [call EXCEPT ![c].hidden = @ + 1]
      /\ UNCHANGED <<conf, log>>

\* One goroutine per slot.
Spawn(c) ==
  /\ call[c].pc = "listing" /\ Visited(c) = Len(Order)
  /\ call' = [call EXCEPT ![c].pc = "probing", ![c].todo = DOMAIN call[c].items]
  /\ UNCHANGED <<conf, log>>

\* Mutant of SlotOf: the goroutines share the index.
SlotShared(c, i) == 1

\* The slot into which the goroutine started for slot i writes its result.
SlotOf(c, i) == i

\* Mutant of Probe: a failed probe returns without wg.Done.
ProbeUndone(c, i) ==
  /\ call[c].pc = "probing" /\ i \in call[c].todo
  /\ \E class \in BodyClasses :
       call' = [call EXCEPT ![c].todo = IF class = "" THEN @ \ {i} ELSE @,
                  ![c].items[SlotOf(c, i)] =
                    [@ EXCEPT !.probed = call[c].items[i].db, !.class = class]]
  /\ UNCHANGED <<conf, log>>

\* The goroutine of slot i is done with its database.
Probe(c, i) ==
  /\ call[c].pc = "probing" /\ i \in call[c].todo
  /\ \E class \in BodyClasses :
       call' = [call EXCEPT ![c].todo = @ \ {i},
                  ![c].items[SlotOf(c, i)] =
                    [@ EXCEPT !.probed = call[c].items[i].db, !.class = class]]
  /\ UNCHANGED <<conf, log>>

\* wg.Wait returns when every goroutine is done.
Joined(c) == call[c].todo = {}

Join(c) == call[c].pc = "probing" /\ Joined(c) /\ Answer(c, "", NoDb)

Init ==
  /\ \E s \in Servers : \E f \in [Range(s.order) -> Configs] :
       conf = [order |-> s.order, local |-> s.local, strict |-> s.strict, db |-> f]
  /\ call = [c \in Calls |->
       [pc |-> "idle", who |-> NoIdentity, db |-> NoDb, items |-> <<>>, todo |-> {},
        hidden |-> 0, answer |-> "none",
        req |-> [tool |-> "list", db |-> "", extra |-> FALSE, bad |-> "",
                 refused |-> FALSE]]]
  /\ log = [c \in Calls |-> <<>>]

Step(c) ==
  Reject(c) \/ Handle(c) \/ Finish(c) \/ List(c) \/ Visit(c) \/ Spawn(c) \/ Join(c)
    \/ \E i \in 1 .. Len(Order) : Probe(c, i)

\* Every request has been answered.
Quiet == (\A c \in Calls : call[c].pc \in {"refused", "answered"}) /\ UNCHANGED vars

Next ==
  \/ \E c \in Calls :
       \/ Refuse(c) \/ Arrive(c) \/ Reject(c) \/ Handle(c) \/ Finish(c)
       \/ List(c) \/ Visit(c) \/ Spawn(c) \/ Join(c)
       \/ \E i \in 1 .. Len(Order) : Probe(c, i)
  \/ Quiet

Spec == Init /\ [][Next]_vars

\* Go runs every goroutine of a call, and the deadlines of withTx and Insert
\* end the work on a database.
FairSpec == Spec /\ \A c \in Calls : WF_vars(Step(c))

-----------------------------------------------------------------------------
(* Properties *)

\* The databases a call works on, has worked on or tells about.
Touched(c) ==
  ((IF call[c].pc = "working" THEN {call[c].db} ELSE {})
    \cup {call[c].items[i].db : i \in DOMAIN call[c].items}
    \cup {call[c].items[i].probed : i \in DOMAIN call[c].items}) \ {NoDb}

\* Whether the operator's configuration lets an identity use a database: the
\* database is open, or an entry of one of the lists names the caller; a name
\* in the one list says nothing about the other.
Entitled(p, d) ==
  LET entries == ({"user"} \X conf.db[d].users) \cup ({"group"} \X conf.db[d].groups)
      names == ({"user"} \X {p.email}) \cup ({"group"} \X p.groups)
  IN  entries # {} => entries \cap names # {}

\* No database is worked on, probed or even named for a caller without an
\* identity or one its allowlist leaves out, whatever the arguments; only a
\* server without OAuth lets its one local caller in (caller, database,
\* registerListDatabases).
OnlyEntitled ==
  \A c \in Calls : \A d \in Touched(c) :
    \/ ~Empty(call[c].who) /\ Entitled(call[c].who, d)
    \/ LocalCaller /\ Empty(call[c].who) /\ Entitled(Local, d)

\* Every call that reaches wrap writes exactly one audit line, no later than its
\* answer, and the line tells the truth: who called, whether it succeeded, and
\* which database when one was used.  (An answer that cannot be encoded is the
\* one failure the line does not know of.)  Only a call that the server answers
\* itself goes without a line: its tool is not there, or the validation is on
\* and its arguments are not what the tool declares.
AuditedOnce ==
  /\ TypeOK
  /\ \A c \in Calls :
       /\ Len(log[c]) = IF call[c].pc = "answered" THEN 1 ELSE 0
       /\ call[c].answer # "none" /\ log[c] = <<>> =>
            ~Registered(call[c].req.tool) \/ (conf.strict /\ ~Conforms(call[c].req))
       /\ call[c].pc = "answered" =>
            /\ call[c].answer = "ok" => log[c][1].class = ""
            /\ log[c][1].class \in BodyClasses /\ call[c].req.tool # "list" =>
                 log[c][1].db \in Dbs
            /\ ~Empty(call[c].who) => log[c][1].who = call[c].who

\* list_databases answers with one entry per database the caller may use, each
\* with the result of probing that very database, and counts the others as
\* hidden: no goroutine is left behind and no slot is mixed up.
ProbesJoined ==
  \A c \in Calls :
    call[c].pc = "answered" /\ call[c].req.tool = "list" /\ log[c][1].class = "" =>
      /\ \A i \in DOMAIN call[c].items :
           call[c].items[i].probed = call[c].items[i].db
      /\ {call[c].items[i].db : i \in DOMAIN call[c].items}
           = {d \in Dbs : Entitled(Caller(call[c].who), d)}
      /\ Len(call[c].items) + call[c].hidden = Len(Order)

\* Every call that reaches wrap is answered (WaitGroup of list_databases, deadlines of the rest).
Answered == \A c \in Calls : call[c].pc = "entered" ~> call[c].pc = "answered"
=============================================================================
