# A TLA+ model of mcp-timescale

mcp-timescale is an MCP server that lets callers read TimescaleDB databases and,
where an operator allows it, insert single rows. This directory holds TLA+
specifications of its own logic, TLC configurations that check them on small
instances, and TLAPS proofs of the properties that matter most.

    tlc -workers 2 -config Sessions_reads.cfg MCSessions    # one of the runs
    tlapm SessionsProofs.tla                                # one of the proofs

`PROJECT.json` lists components, runs, mutants, the source lines each definition
stands for, hazards, findings and theorems.

## The system

| Part | State | Operations | Hard because of |
|---|---|---|---|
| Sessions (`internal/timescale/session.go`, `insert.go`, `registry.go`) | pooled connections and their server sessions; open transactions | `withTx`, `Insert`, `AfterConnect` | callers sharing connections, deadlines, hung and broken paths, answers lost around COMMIT |
| Row collection (`query.go`) | the open result of one body | `Query`, `Explain`, `collectRows`, `resolveTypeNames` | off-by-one at the row cap, broken streams, one result per connection |
| Paged listings (`catalog.go`, `tools/catalog.go`) | a page; the client's walk | `Tables`, `Hypertables`, `page`, `attachSizes`, `pagePayload` | several snapshots per call, a swallowed failure, DDL between pages |
| Other catalog tools (`catalog.go`) | what a body has learnt so far | `DescribeTable`, `SampleRows`, `Chunks`, `Jobs`, `ContinuousAggregates`, `Info`, `Schemas`, `Probe` | DDL between the statements of one call |
| Tool handlers (`internal/tools`, `internal/server/auth.go`) | a call; the audit log | `wrap`, `caller`, `database`, the handlers, `list_databases` | refusals in the right order, parallel probes, one truthful audit line |
| Process (`cmd/serve.go`, pools of `registry.go`) | readiness, two HTTP servers, lazily opened pools | `runServe`, `runHTTP`, `Pool`, `Close` | shutdown racing handlers, failing servers, mutexes held while waiting |
| Time limits (`cmd/serve.go`, `tools/query.go`, `session.go`, `insert.go`, `catalog.go`) | timers and deadlines of the calls | statement timeouts, `timeout_seconds`, `withTx`, `Insert`, `Probe`, the timeout middleware | nested timers, a full pool, arithmetic of 64-bit durations |
| Tool arguments (`internal/tools`) | what a handler has read | the declared schemas; `checkArgs`, `argInt`, `requireString`, ... | every rule is written down twice |
| Start (`cmd/serve.go`, `internal/config`, `registry.go`, `internal/server`) | configuration, registry, OAuth storage | `runServe` up to the listeners, `Load`, `validateAndResolve`, `NewRegistry`, `NewAuth`, `BuildMCPMux` | many ways to fail half way, credentials of two roles |
| SQL classifier (`internal/sqlguard`) | none | `tokenize`, `Classify` | loops at the end of a text; a heuristic by its own account |
| Value encoding (`internal/timescale/values.go`) | none | `encodeValue`, `valuerText`, `encodeFloat` | nesting, values JSON has no form for |
| Self-update (`cmd/selfupdate.go`) | the installed binary | `runSelfUpdate` | several runs at once, killed anywhere |

A request passes the OAuth middleware, whose identity `PromoteOAuthCaller` lifts
into the handler's context. `wrap` resolves the caller, checks the argument names
and runs the handler, which picks the database, enforces its allowlist, checks its
arguments and texts, and calls one method of `timescale.Database`. Every read
method is one `withTx` with a body of statements; `Insert` is its own
transaction through a second pool and role. Each database opens its pools on
first use; the process closes them when both HTTP servers have drained.

What makes each part correct: of the sessions, that nothing leaks from one call to
the next, that statements are attributed, limited and read-only, and that an insert
tells the truth; of the row collection, exact and bounded answers; of the listings,
pages that add up and sizes that are what they are said to be; of the other catalog
tools, complete answers and no statement that cannot succeed; of the handlers, that
only entitled callers reach a database and every call is audited once; of the
process, an orderly end that waits for nobody who waits for it; of the time limits,
that the innermost timer fires first and no accepted number wraps; of the arguments,
that schema and handler say the same; of the start, that exactly the sound setups
serve, each pool under its own role, and nothing stays open after a failure; of the
classifier, that it examines the text that is sent and refuses what it should; of
the value encoding, that one odd value never costs the answer; of self-update, that
only verified releases are installed.

## The modules

**Sessions** is the core. A call is at a statement (`pc`): `begin`, `attr` (the
`set_config` of `application_name`), `limit` (the one of `statement_timeout`),
`body`, `commit` or `undo`. A statement is sent (`Send`), executed by the backend
(`ExecControl`, `ExecBody`, `ExecErr`, `StatementTimeout`) and its answer received
(`ReceiveOk`, `ReceiveErr`). The deadline of a call may pass at any time (`Expire`);
what follows depends on whether a statement is in flight (`Abandon`) or not
(`FailFast`), and on whether the statement is under the deadline at all
(`UnderDeadline`: the Rollback of `withTx` is not). The path of a connection may
hang or be reset, a backend may be terminated. A session has settings at three
levels, as in PostgreSQL: `sess`, what a rollback returns to; `keep`, what a commit
would leave; `cur`, what holds now. A read body may contain a session-level
`set_config` (`Smuggled`), as the repository's integration test feeds one past the
classifier. A call stands for its caller too, which is the strongest case for
attribution. pgx's pool and PostgreSQL are external: their actions are written from
what the code relies on (a failed BEGIN or ROLLBACK, or a statement abandoned in
flight, closes the connection; a healthy one is released).

**CallContract** is what Sessions promises about data, without connections: a read
writes nothing; an insert writes its row at most once and only while its fate is
open; success means it is written, refusal that it never will be; a failure may
leave the fate open for a while. Sessions implements it under the mapping
`out <- call[c].out`, `open <- Undecided` (property `ImplementsContract`).

**RowCollector** is the body of `Query`, `Explain` or the last statement of
`SampleRows`. Rows are counted; `streamed` are those that left the server, `data`
those collected. Every statement, row and the closing of the result may fail.
`clash` records a statement sent while a result was open.

**Listing** is a client that walks the pages of a listing. A page is the sequence
version, count, page, size view, sizes of `listTS`, `page` and `attachSizes`; each
statement sees the catalog of its moment, and other sessions create and drop
relations in between. `rels` gives the incarnation at each place of the order, so a
size says whose size it is. `Sorted` lists them by rank, the number of relations before
each, rather than by a sorting algorithm: the order is PostgreSQL's. `walk` is history:
what was shown, which relations were there throughout.

**CatalogReads** has the other catalog tools as programs of statements: `After`
gives the next statement from what the body knows. `Needs` says which objects a
statement names; it fails when one is missing. Between statements the catalog
changes arbitrarily within what a catalog can be (`Catalog`).

**ToolCalls** takes a request from its arrival to its answer and audit line; a
database method is one step with any of the error classes of `timescale.Class`. A request
for a tool that is not registered, or one that breaks its tool's schema while the server
validates (`strict`, which `serve` switches on), is answered before any handler (`Refuse`);
every other enters `wrap` (`Arrive`). Servers without the validation are there because the
handlers promise to hold without it, as the repository's tests call them: with it, some
refusals of `wrap` and of the handlers are unreachable.
`list_databases` walks the configured databases in their order (`Visit`, one turn of its
loop), gives every visible one a slot and a goroutine (`Spawn`), and waits for them
(`Probe`, `Join`).

**Lifecycle** is `runServe` and `runHTTP` with handlers that get pools lazily, acquire
connections and release them, while the process may already be closing the pools.

**Deadlines** puts all timers on one clock. `Tick` advances it, but never past a
moment at which a timer of the code has to act; between two waits a handler computes
for at most `Pause`. A call waits for a connection of a pool of `MaxConns`, runs, and
waits for ROLLBACK, which `withTx` gives no deadline. `timeout_seconds` is multiplied
in two's complement (`Wrap`), as Go does it. Durations are scaled down; what the proofs
need of them is the assumption `SlackAssumption`, which the code's values satisfy.

**Startup** runs one setup (flags, environment, files, entries) through the steps of
`runServe` in their order; each step succeeds or is the one that fails, and the
deferred calls unwind. Constructors of the mcp-oauth library are external: they
succeed or fail. YAML decoding is an outcome of the setup. Timeouts are
in tenths of a second, so that ones just outside the accepted range (0.9 s,
600.1 s) occur. What `pgxpool.ParseConfig` refuses is external too (`PoolConfigOk`): a
malformed DSN; without a DSN, a host that makes no URL (`BadHosts`, constrained only not to
hold the empty string) or a certificate file in which there is no certificate
(`Certificates`), which pgx 5.12 reads whatever the `sslmode`. `NewRegistry` asks it about
the insert pool as well (`PoolsOk`). The `PG*` variables and the service and password files
the driver also consults are taken to be unset, and a certificate path to be a file (the
driver gives the word `system` a meaning of its own).

**Tokenizer** has one action per case of `tokenize`'s loop, over texts of one-character
strings; `Lexeme` states the lexical rules of its comments without its loops. TLC
stops at a read outside a sequence, so a passing run shows there is none. The alphabet
has a member of each lexical class; the vertical tab, a blank like the others, has no
TLA+ escape and is not in it. `nbsp` stands for Unicode white space, whose bytes above
ASCII are letters to the tokenizer and blanks to `strings.TrimSpace`, so the two disagree
at the end of a text: `clean` remembers whether anything but the tokenizer's blanks was
trimmed off. Of the rules of `Classify` this module has only those about the cut and the
row locks. **Classifier** has the rules of `Classify`, `explainBody` and `scan` over
tokens; the grammar of `MCClassifier` says of each sentence whether it only reads, by what
PostgreSQL does with it and not by what the rules say. Constructs that only read and that
the rules are known to refuse are in the grammar and marked `odd`: a whole query in
parentheses, or EXPLAIN of one; EXPLAIN without ANALYZE of a statement that would write;
an alias without AS named like a keyword after a parenthesis; a column named like one
between a parenthesis and a word; `substring(x for key)`; two trailing semicolons. Each
sentence of the instance with an odd construct is in fact refused; nothing requires it.
The grammar is small: the classifier is a
heuristic, `Sessions` shows why the database is safe without it, and a construct that
is not in the grammar is not claimed to be judged rightly.

**Values** is `encodeValue` as a function defined level by level: `encoding` is its body, in
which the function for the level below encodes what a value holds. A value is its Go type,
what distinguishes values of that type, and what it holds; the text it is formatted to is
left out, except whether a time carries a zone. `Shows` gives, by the same levels, the JSON
that shows a value.

**ToolArguments** has the declared schemas (`Schema`, checked by the MCP server, which is
external) and the handlers' own reads (`Reads`), written down independently of each
other as in the code. A run is with or without the server's validation, since handlers
promise to hold without it.

**SelfUpdate** is several runs of the command over one file while releases appear.
Finding the latest release, downloading, verifying and renaming are the library's.

**SessionsProofs**, **DeadlinesProofs**, **LifecycleProofs**, **ToolCallsProofs**,
**StartupProofs** (about Startup and SelfUpdate), **CatalogProofs** (about Listing,
CatalogReads and RowCollector), **ToolArgumentsProofs** (about ToolArguments and Values) and
**TokenizerProofs** hold theorems; the **MC** modules define constants for TLC. Three of them put modules side
by side so that one run checks them: **MCCatalog** Listing, CatalogReads and RowCollector,
**MCStartup** Startup and SelfUpdate, **MCSequentialParts** ToolArguments, Classifier and
Values. The modules share nothing there; a behaviour belongs to one of them.

Definitions commented "Mutant of" are plausible mistakes in the definition that follows;
with one in its place TLC must find a property violated, which shows that the property
depends on the code.

## The runs

| Run | Instance | States | Shows |
|---|---|---|---|
| `sessions_reads` | 2 readers, 1 pooled connection at a time out of 2 identities, smuggling | 171k | `PoolClean`, `Attributed`, `TimeLimited`, `ReadersNeverWrite` |
| `sessions_inserts` | 2 inserters, 1 reader, 1 connection | 172k | `InsertOutcome`, `ImplementsContract`, `CallsEnd`, `NoLingeringTx` |
| `sessions_hung` | 1 reader, 1 connection | | `HandlersReturn` is **violated** (finding 1) |
| `catalog` | listings: 3 places, limits 1..3, threshold 2; other tools: every catalog of one relation; 2 changes each; rows: cap 3, requests -1..4, results 0..6, 2 columns | 606k | `WalkExact`, `CreatesHideNothing`, `SizesTold`, `NothingAborted`, `NothingMissing`, `AnswersTrue`, `Exact`, `ServerBound`, `NeverBusy` |
| `tool_calls` | 1 call; servers with 2, 1 and 0 databases, 3 configurations each, with and without OAuth, with and without validation | 57k | `OnlyEntitled`, `AuditedOnce`, `ProbesJoined`, `Answered` |
| `lifecycle` | 2 databases with 2 pools each, 2 handlers | 33k | `DrainInOrder`, `OnePool`, `PoolsClosed`, `Terminates` |
| `deadlines` | 2 calls, 2 databases, pools of 1, timeouts 2 and 4, arguments 1, 2 and 8 | 3.7M | `MiddlewareLast`, `ProbePrompt`, `TimeoutHonoured` |
| `startup` | some 4,000 setups one or two changes away from ones that start; self-update: 3 runs, 3 releases | 47k | `StartsIffSound`, `RolesApart`, `StorageReleased`, `Gated`, `GuardLifted`, `OnlyVerified`, `ReportsTrue` |
| `sequential_parts` | requests with up to 2 arguments at a boundary; 40,000 sentences; values nested twice | 898k | `GatesAgree`, `AcceptsReads`, `ValuesKept` |
| `tokenizer` | texts of up to 6 or 7 characters over seven alphabets | 2.2M | `OneLexeme`, `CutSafe` |
| `row_locks` | a query and up to 4 words, blanks or semicolons | | `RowLocksRefused` is **violated** (finding 3) |
| `tool_arguments_audit` | as in `sequential_parts` | | `EveryCallAudited` is **violated** (finding 2) |

Why the bounds are enough to be interesting. With two connection identities and
`MaxConns = 1` a call gets a fresh connection while the backend of an abandoned one
still executes; two calls are enough for one to inherit the other's connection. The
readers and the connections are interchangeable, hence the symmetry set of
`sessions_reads` (no liveness is checked there), and so are the runs of self-update in
`startup`. The properties proved by TLAPS do
not depend on the bounds at all. Requests and results lie below, at, one above and
further above the row cap. Pages are smaller than, equal to and larger than the
catalog, and lie on both sides of the size threshold; `MaxDDL = 2` allows a
relation to be dropped and re-created in one page, and one creation in each of two
pages. Calls of ToolCalls share no state, so one call suffices; its goroutines do.

In `deadlines` the argument 8 lies beyond `MaxInt` = 7, and `MaxDuration` = 15 makes its
product wrap below the bound it is compared with; the clock runs to 11, past the
middleware's timeout. Handlers read their arguments independently of each other, so
pairs of unusual arguments suffice; `MaxInt` = 5000 stands for `MaxInt32`, above every
other bound. Texts of seven characters hold an opening, an escape, a closing and what
follows them, for every kind of lexeme.

Deadlock is checked in every run of the server's long-lived parts; where a system may
rest (every call returned, the process gone) an explicit stuttering action says so. The
runs of computations that end (`startup`, `sequential_parts`, `tokenizer`,
`row_locks`, `tool_arguments_audit`) do not check it.

### Properties in words

* `PoolClean`: a pooled connection is outside a transaction and has exactly the
  settings of `AfterConnect`, whatever its earlier users did.
* `Attributed`, `TimeLimited`: what runs for a caller runs in a transaction, under
  that caller's name and the right timeout, also when the client has given up on it.
* `ReadersNeverWrite`, `InsertOutcome`: see CallContract.
* `CallsEnd`: every wait of a call ends, except a Rollback on a hung path.
  `NoLingeringTx`: the server is never left in a transaction for good.
* `Exact`: data, truncated flag and bound of an answer are right, and a broken
  stream never passes for a short result. `ServerBound`: at most `max_rows + 1` rows
  leave the server. `NeverBusy`: no statement meets an open result.
* `WalkExact`, `CreatesHideNothing`: what the pages of a walk add up to at rest, and
  under creations. Drops may hide a relation, and a change between count and page of
  one call may end the walk early; that is how LIMIT/OFFSET works and nothing in the
  repository says otherwise.
* `SizesTold`: what a page says about sizes is true when the catalog stood still.
* `NothingAborted`: nothing is sent in an aborted transaction.
* `NothingMissing`, `AnswersTrue`: a catalog tool trips over a missing object only
  when the catalog changed under it, and otherwise asks exactly what it must. An
  extension without its information views is an exception only `Info` handles.
* `OnlyEntitled`, `ProbesJoined`, `Answered`: the door. `AuditedOnce`: every call that
  reaches `wrap` writes one audit line, which is true, and only calls the server answers
  itself go without (finding 2 is that there are such calls).
* `MiddlewareLast`: the timeout middleware ends no call that computes, waits for a
  connection or for a statement; `ProbePrompt`: a probe waits for neither longer than
  its own short deadline; `TimeoutHonoured`: an accepted `timeout_seconds` is what is set.
* `StartsIffSound`: the server serves exactly the setups its documentation calls sound,
  with hosts and certificates the driver can use, unless the OAuth library fails. `RolesApart`: each pool has the credentials, limits and
  mode of its own section. `StorageReleased`, `Gated`, `GuardLifted`: the OAuth wiring.
* `GatesAgree`: what a handler goes on with conforms to the schema its tool declares,
  also without the server's validation, and a request that conforms is refused only
  for what a schema does not express.
* `OneLexeme`: each turn of the loop passes exactly one lexeme. `CutSafe`: the text that is
  returned has the tokens that were examined, if only blanks of the tokenizer were trimmed
  off (without that finding 3 shows what may happen). `AcceptsReads`: of the grammar's
  sentences only those that read are accepted, and of those that read only ones with a
  construct known as odd are refused.
* `ValuesKept`: every value can be written as JSON and keeps its shape, NULLs and decimals.
* `OnlyVerified`, `ReportsTrue`: what is installed, and what a run says about it.
* `DrainInOrder`, `OnePool`, `PoolsClosed`, `Terminates`: start and shutdown. A
  handler that outlived the drain may open a pool again that nobody closes; the
  process ends then anyway, which is what `PoolsClosed` allows for.

### Fairness

Sessions: weak fairness of a call's own steps and of its deadline (Go runs goroutines
and fires timers), of the server's transaction control, of its two timeouts and of
its noticing a closed connection. None of dialling, of a caller's statement (it may
run until a timeout ends it), of a hung path being found out, or of an
administrator. ToolCalls: weak fairness of a call's steps, whose database work ends
by `CallsEnd`. Lifecycle: weak fairness of `runServe`, of the drain (it is timed),
of handlers and of closing; none of signals, failures or the end of standard input.
The last two assume that database calls end, so they leave finding 1 aside.

## Findings

1. `sessions_hung`. The comment on `sessionSlack` says that a hung network path
   cannot hold a handler forever. The deferred Rollback uses
   `context.WithoutCancel(ctx)`, which has no deadline: if the path hangs after the
   body returned, the handler stays in it until the operating system gives up.
   The same wait is why the comment on `toolTimeoutSlack` ("the middleware never fires
   first") does not hold without the exception `MiddlewareLast` makes.
2. `tool_arguments_audit`. `docs/ARCHITECTURE.md` says that the audit log records every
   call. The MCP server validates arguments before the handler (`WithInputSchemaValidation`
   in `cmd/serve.go`), and only the handler's `wrap` writes the line: a call refused there
   leaves none.
3. `row_locks`. The README says that the classifier refuses row locks. `Classify` returns the
   text trimmed by `strings.TrimSpace`, which takes off Unicode white space; to the tokenizer
   those bytes are letters. A query that ends in FOR UPDATE and a no-break space is examined
   as ending in another word, accepted, and sent as FOR UPDATE. The READ ONLY transaction
   refuses it, so nothing is locked; what is lost is the promised early and clear error.

Observations that no run is about:

* The comment on `isStatementPosition` says that a keyword followed by a comma, a closing
  parenthesis or an operator is an identifier. Directly after a parenthesis closed at depth 0
  it is refused whatever follows, as in `SELECT f(x) comment, y FROM t`; the sentence is in
  the grammar, marked odd.
* The comment on `SizesIncluded` says that it reports whether the rows carry sizes; a
  relation dropped between the page and the sizes statement has a row without one.
  `SizesTold` allows for it.
* The elements of a `timestamp[]` or `date[]` are encoded without their type name and so
  written with a zone, which a column of the element type is not.
* Of two overlapping runs of self-update the slower one may put the older release it
  found over the newer one; each compared only with the version it started from.
* `Probe` sets a statement timeout of three seconds also where the database's own is
  shorter.
* A password variable set to the empty string is accepted, an empty password file is not.

## The proofs

Every property TLC checks on a small instance is proved for every value of the constants
except the ones at the end of this section. None of them is inductive as it stands; what
each proof adds is said below. The assumptions are those the modules state about their
constants, and TLC evaluates them in every run.

*SessionsProofs*: `TypeOK`, `PoolClean`, `Attributed`, `TimeLimited`,
`ReadersNeverWrite` and `InsertOutcome` are invariants for every set of calls and
connections, every pool size, with and without smuggled settings. The only
assumptions are those on the constants (calls, names and connections are told
apart). The strengthening says, for each
connection, who owns it and in which phase: a held connection belongs to exactly
one call, whose `pc` determines the backend's transaction state, the settings at its
three levels and the rows pending; a connection being set up carries one of the
four prefixes of `AfterConnect`; a connection the client dropped may still execute
the statement it was sent, under the settings that statement requires. The last part
is what a COMMIT abandoned in flight needs. The proof has one lemma per action, and
under it one step per conjunct it can disturb.

`ContractKept`: Sessions implements CallContract, for every instance. Initial states map to
initial states, and a step maps to the contract's step of the same call or to a
stutter; the cases that matter are the statements of COMMIT, whose answer may arrive,
be lost, or arrive after the client has given up. The same invariant says in each of
them whether the fate of the row is still open.

*CatalogProofs*, about Listing: `WalkExact`, `CreatesHideNothing`, `SizesTold` and
`NothingAborted` for every finite set of places, every limit, threshold and number of catalog
changes. `WalkExact` speaks of the last page; what carries a walk there is how far it
has come. At rest, the names seen are the first `Reached` ones of the listing and the
total of the page is its length (`AtRest`). While relations are only created, each one
that was there throughout has been seen or has at least `Reached` relations before it,
so it lies on a later page, and the page says that there is one (`Ahead`): creating a
relation only raises ranks (`BeforeGrows`). About CatalogReads: `NothingMissing` and
`AnswersTrue` for any number of catalog changes. The strengthening (`Course`) says for
each statement of each body what the body knows before it and which statements it has
sent, in a catalog that has not changed under it. About RowCollector: `TypeOK`, `Exact`,
`ServerBound`, `NeverBusy` and `AllTyped` for every row cap, request, result size and set
of columns. The strengthening relates `data`, `streamed` and `Offered` at each `pc` and
says where a result may be open.

*ToolCallsProofs*: `OnlyEntitled`, `AuditedOnce` and `ProbesJoined` for every set of
databases, configurations and requests, with and without the validation, and every order of
the goroutines. The
strengthening says what the call has established at each step (caller, database,
entitlement), and, for `list_databases`, that the slots are exactly those of the visible
databases among the ones already visited, and each goroutine writes its own.

*LifecycleProofs*: `DrainInOrder`, `OnePool` and `PoolsClosed` for any databases and any
finite set of handlers. The strengthening says what `runServe` has told its two servers
at each stage (`Stage`); that a handler which holds a connection keeps open the pool it
came from, in the generation it got (`Holds`); that after the drain only handlers that
outlived it still run (`Outlived`); and that a pool which `Close` is done with is open
only if one of those opened it again (`Closed`). A pool is opened at most as often as it
is given out, which bounds its generations by the number of handlers.

*StartupProofs*: `StartsIffSound`, `RolesApart`, `StorageReleased`, `Gated` and
`GuardLifted` for every setup: files with any number of entries, any environment, disk and
choice of the hosts and certificates the driver refuses. The strengthening says, for each step that has been passed, that what it checks
holds of the setup, and for the one that failed that it does not; of the loop over the
entries, that the ones before the current one are sound, have their defaults and
credentials, and names of their own. About SelfUpdate: `OnlyVerified` and `ReportsTrue` for
any number of runs and releases. The strengthening says what each run knows at each point:
what it downloaded, that it verified, that it is newer than what it started from.

*DeadlinesProofs*: `TypeOK`, `MiddlewareLast`, `ProbePrompt` and `TimeoutHonoured` for
every set of calls, databases, timeouts and arguments and every pool size. Assumed are
the types of the constants and `SlackAssumption`: the largest accepted number of seconds
fits a `time.Duration`, and twice `Pause` is less than the middleware's slack minus the
sessions'. The strengthening bounds, for each call and `pc`, the deadline by its start
and the clock by the deadline, and says that no database's timeout exceeds `maxTimeout`.

*ToolArgumentsProofs*: `GatesAgree` for every request of every tool, with and without the
server's validation. Two lemmas are about the tables: each declared property matches exactly
one read of the handler (`Paired`), and of a property and a read that match either accepts
what the other does, but for what a schema cannot say (`Agree`). The invariant says that
before its k-th read a handler has found the first k-1 arguments in order, and that a
refusal has found one that is not. Assumed are the shape of requests and that `MaxInt` is
not below the largest limit, as it is for 32 bits. About Values: `ValuesKept` for values
nested to any depth, from the assumption that the inputs are such values. It is proved for
one level from the one below (`LevelKept`) and then for all; that the functions defined
level by level exist is an induction too (`LevelsExist`).

*TokenizerProofs*: `OneLexeme` and `CutSafe` for every text, a sequence of strings, the
second with its condition on what was trimmed. The
library's induction rules take an operator, which the installed provers do not instantiate,
so the loops of the helpers are characterised by hand: a recursive function on naturals is
shown to exist by well-foundedness (`LoopDefines`), and what its loop does is then an
induction through the least place where a claim fails. Each helper ends where the lexical
rules say its lexeme ends: a literal at the first quote that is neither doubled nor escaped,
a nested comment where its depth, a function of the position, first returns to zero. With
the places and types of `i`, `toks` and the phases (`Shape`) that gives `OneLexeme`.

`CutSafe` compares two readings. A lexeme is local: one that lies in the part `Classify`
keeps is the same lexeme of that part read alone, moved to the front, and a blank or a
comment that is cut short stays one (`LexemeCut`, `SpelledCut`; `Cuts(lo, hi, e)` says what
the cut guarantees of what follows it). A reading is recorded as a road (`Road`): marks
leading lexeme by lexeme from the start to the current place, each with the number of tokens
so far. The invariant says that the first reading examined the tokens along a road
(`Examined`), and that the second follows the part of that road the cut has kept (`Again`);
`RoadCut` carries a road over the cut. At its end the second reading has passed all of it,
so its tokens are the ones examined. This invariant quantifies over functions, so TLC checks
`CutSafe` itself and not the strengthening.

Only model-checked:

* liveness (`CallsEnd`, `NoLingeringTx`, `Answered`, `Terminates`), which is out of the
  prover's reach;
* `AcceptsReads`: it is about the sentences of one grammar, which is itself finite and
  defined for the run; over all token sequences there is nothing to compare `scan` with.

`AllTyped` of RowCollector is proved only.

## Not modelled

Metrics (a handler of the Prometheus client), the version and root commands (no state,
no decision), the Helm chart and CI. The wording of messages and descriptions. The OAuth
flow and the validation of tokens, which live in a library. The setup of logging and
tracing, whose failures only change the logger. A panic in a handler (recovered by
mcp-go, without an audit line) and the size of responses, which a middleware of
mcp-toolkit caps.

## Plan

Done: Sessions, CallContract, RowCollector, Listing, CatalogReads, ToolCalls, Lifecycle,
Deadlines, Startup, Tokenizer, Classifier, SelfUpdate, Values and ToolArguments; the proofs
about all of them except Classifier, and that Sessions implements CallContract. Left, if a
definition of what a statement reads is ever written down independently of `scan`: a proof
about Classifier.
