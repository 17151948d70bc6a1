------------------------------ MODULE Startup ------------------------------
(***************************************************************************)
(* The start of the server, from the operator's environment and databases  *)
(* file to the first request it may serve: cmd/serve.go runServe up to the *)
(* listeners, internal/config Load and the validation of every entry,      *)
(* internal/timescale NewRegistry and poolConfig, internal/server          *)
(* LoadConfig, NewAuth and BuildMCPMux.                                    *)
(*                                                                         *)
(* An optional value (the insert section, a pool, a file's contents) is a  *)
(* sequence of length 0 or 1; an unset string is "", an unset number 0.    *)
(* The constructors of the mcp-oauth library are external: each of them    *)
(* succeeds or fails.                                                      *)
(***************************************************************************)
EXTENDS Integers, Sequences, FiniteSets

CONSTANTS
  Setups,     \* what operators may have set up: flags, environment, entries
  Disk,       \* path -> contents, <<>> where there is no file
  Environ,    \* variable -> value, <<>> where it is not set
  Strings,    \* what a string of the file or the environment may be
  ValidNames, \* the names that match nameRe
  ValidTables, \* the names that match tableRe
  Certificates, \* the texts of files in which there is a PEM certificate
  BadHosts    \* the hosts that make no URL

DefaultPort == 5432
DefaultMaxRows == 500
MaxMaxRows == 5000
DefaultStatementTimeout == 300 \* in tenths of a second, as are all timeouts here
MaxStatementTimeout == 6000
DefaultMaxConnections == 4
MaxMaxConnections == 64
DSNDatabaseName == "default"
Blank == {"", " "} \* what strings.TrimSpace leaves nothing of
sslModes == {"disable", "require", "verify-ca", "verify-full"}

\* The insert section of an entry, an entry, and what the operator sets beside
\* the entries. The file cannot give the DSN or the resolved credentials.
InsertSections ==
  [host: Strings, port: Int, username: Strings, usernameFile: Strings,
   passwordFile: Strings, passwordEnv: Strings, tables: SUBSET Strings,
   user: {<<>>}, password: {<<>>}]
Entries ==
  [name: Strings, maxRows: Int, statementTimeout: Int, maxConnections: Int,
   allowedUsers: SUBSET Strings, allowedGroups: SUBSET Strings, host: Strings, port: Int,
   dbname: Strings, sslmode: Strings, cert: Strings, username: Strings,
   usernameFile: Strings, passwordFile: Strings, passwordEnv: Strings,
   insert: Seq(InsertSections), dsn: Strings, user: {<<>>}, password: {<<>>}]
FileEntries == {e \in Entries : e.dsn = ""}

ASSUME StartupAssumption ==
  /\ \A s \in Setups : s.entries \in Seq(FileEntries) /\ s.dsn \in Strings
  /\ {"", "require", DSNDatabaseName} \subseteq Strings /\ DSNDatabaseName \in ValidNames
  /\ "" \notin BadHosts \* it stands for the host of the entry

VARIABLES
  setup,    \* the operator's setup, fixed for the run
  at,       \* the step runServe comes to next, or "serving", "exited"
  err,      \* the step that failed, or ""
  dbs,      \* the configured databases, validated up to valid
  valid,    \* how many of dbs are validated and resolved
  registry, \* the databases NewRegistry has built
  store,    \* OAuth storage: how often opened and how often closed
  guard,    \* which address checks are lifted: [provider, jwks]
  mux       \* what answers requests: "none", "open" or "gated"

vars == <<setup, at, err, dbs, valid, registry, store, guard, mux>>

-----------------------------------------------------------------------------
(* Environment variables and secret files *)

\* What strconv.ParseBool takes; anything else fails the start.
EnvBoolOk(v) == v \in {"", "true", "false"}
EnvBool(v) == v = "true"

\* A file is [text, eol]: eol newlines end it. Every one of them is trimmed.
ReadSecretFile(path) ==
  IF Disk[path] = <<>> \/ Disk[path][1].text = "" THEN <<>> ELSE <<Disk[path][1].text>>

\* NAME_FILE before NAME; one newline is trimmed, the rest is the secret.
RequireSecretEnv(value, path) ==
  LET v == IF path = "" THEN [text |-> value, eol |-> 0] ELSE Disk[path][1]
      secret == [v EXCEPT !.eol = IF @ = 0 THEN 0 ELSE @ - 1]
  IN  IF (path # "" /\ Disk[path] = <<>>) \/ secret = [text |-> "", eol |-> 0]
      THEN <<>> ELSE <<secret>>

-----------------------------------------------------------------------------
(* internal/config *)

Or(v, default) == IF v = 0 THEN default ELSE v

\* resolveCredentials: the user, or the password, that a section names in
\* exactly one of two ways; <<>> is an error.
ResolveUser(s) ==
  CASE s.username # "" /\ s.usernameFile # "" -> <<>>
    [] s.username # "" /\ s.usernameFile = "" -> <<s.username>>
    [] s.username = "" /\ s.usernameFile # "" -> ReadSecretFile(s.usernameFile)
    [] OTHER -> <<>>

ResolvePassword(s) ==
  CASE s.passwordFile # "" /\ s.passwordEnv # "" -> <<>>
    [] s.passwordFile # "" /\ s.passwordEnv = "" -> ReadSecretFile(s.passwordFile)
    [] s.passwordFile = "" /\ s.passwordEnv # "" -> Environ[s.passwordEnv]
    [] OTHER -> <<>>

WithCredentials(s) ==
  [s EXCEPT !.user = ResolveUser(s), !.password = ResolvePassword(s)]

Resolved(s) == s.user # <<>> /\ s.password # <<>>

\* (*Insert).validateAndResolve: defaults from the parent, then the bounds.
InsertDefaults(in, d) ==
  WithCredentials([in EXCEPT !.host = IF @ = "" THEN d.host ELSE @, !.port = Or(@, d.port)])

\* Mutant of InsertOk: an insert section without tables passes.
InsertOkNoTables(in) ==
  /\ in.port \in 1 .. 65535
  /\ in.tables \subseteq ValidTables
  /\ Resolved(in)

InsertOk(in) ==
  /\ in.port \in 1 .. 65535
  /\ in.tables # {} /\ in.tables \subseteq ValidTables
  /\ Resolved(in)

\* (*Database).validateAndResolve: the entry with its defaults and
\* credentials, and whether one of the checks refuses it.
Defaults(d) ==
  LET e == [d EXCEPT !.maxRows = Or(@, DefaultMaxRows),
                     !.statementTimeout = Or(@, DefaultStatementTimeout),
                     !.maxConnections = Or(@, DefaultMaxConnections)]
  IN IF e.dsn # "" THEN e
     ELSE WithCredentials([e EXCEPT !.port = Or(@, DefaultPort),
                                    !.sslmode = IF @ = "" THEN "require" ELSE @])

Resolve(d) ==
  LET e == Defaults(d)
  IN [e EXCEPT !.insert = [i \in DOMAIN @ |-> InsertDefaults(@[i], e)]]

LimitsOk(e) ==
  /\ e.maxRows \in 1 .. MaxMaxRows
  /\ e.statementTimeout >= 10 /\ e.statementTimeout <= MaxStatementTimeout
  /\ e.maxConnections \in 1 .. MaxMaxConnections

ValidateDSNOnly(e) ==
  /\ {e.host, e.dbname, e.username, e.usernameFile, e.passwordFile, e.passwordEnv,
      e.sslmode, e.cert} = {""}
  /\ e.port = 0 /\ e.insert = <<>>

Accepts(e) ==
  /\ e.name \in ValidNames
  /\ LimitsOk(e)
  /\ Blank \cap (e.allowedUsers \cup e.allowedGroups) = {}
  /\ IF e.dsn # "" THEN ValidateDSNOnly(e)
     ELSE /\ e.host # "" /\ e.port \in 1 .. 65535 /\ e.dbname # ""
          /\ e.sslmode \in sslModes
          /\ e.cert # "" => Disk[e.cert] # <<>>
          /\ Resolved(e)
          /\ \A i \in DOMAIN e.insert : InsertOk(e.insert[i])

DSNEntry(dsn) ==
  [name |-> DSNDatabaseName, maxRows |-> 0, statementTimeout |-> 0, maxConnections |-> 0,
   allowedUsers |-> {}, allowedGroups |-> {}, host |-> "", port |-> 0, dbname |-> "",
   sslmode |-> "", cert |-> "", username |-> "", usernameFile |-> "", passwordFile |-> "",
   passwordEnv |-> "", insert |-> <<>>, dsn |-> dsn, user |-> <<>>, password |-> <<>>]

-----------------------------------------------------------------------------
(* internal/timescale: what a pool connects to and how it is limited *)

\* What pgxpool.ParseConfig takes: a DSN, which carries everything, that is not
\* malformed; else the URL poolConfig makes, whose host must parse and whose
\* sslrootcert must be a file with a certificate.
PoolConfigOk(c) ==
  IF c.dsn # "" THEN c.dsn # "malformed"
  ELSE /\ c.host \notin BadHosts
       /\ c.cert # "" => Disk[c.cert] # <<>> /\ Disk[c.cert][1].text \in Certificates

PoolConfig(c, readOnly) ==
  [dsn |-> c.dsn, host |-> c.host, port |-> c.port, dbname |-> c.dbname,
   sslmode |-> c.sslmode, cert |-> c.cert, user |-> c.user, password |-> c.password,
   conns |-> c.maxConnections, timeout |-> c.statementTimeout, readOnly |-> readOnly]

\* Mutant of InsertCopy: the host is set and the role is forgotten.
InsertCopyHost(c, in) == [c EXCEPT !.host = in.host, !.port = in.port]

InsertCopy(c, in) ==
  [c EXCEPT !.host = in.host, !.port = in.port, !.user = in.user, !.password = in.password]

\* Both pools of a database can be configured.
PoolsOk(c) ==
  PoolConfigOk(c) /\ \A i \in DOMAIN c.insert : PoolConfigOk(InsertCopy(c, c.insert[i]))

NewDatabase(c) ==
  [name |-> c.name, read |-> PoolConfig(c, TRUE),
   insert |-> [i \in DOMAIN c.insert |-> PoolConfig(InsertCopy(c, c.insert[i]), FALSE)]]

-----------------------------------------------------------------------------
(* runServe *)

Init ==
  /\ setup \in Setups
  /\ at = "transport" /\ err = ""
  /\ dbs = <<>> /\ valid = 0 /\ registry = <<>>
  /\ store = [opened |-> 0, closed |-> 0]
  /\ guard = [provider |-> FALSE, jwks |-> FALSE]
  /\ mux = "none"

\* A step goes on when ok and makes runServe return its error otherwise.
Step(here, ok, next) ==
  /\ at = here
  /\ at' = IF ok THEN next ELSE "unwind"
  /\ err' = IF ok THEN "" ELSE here
  /\ UNCHANGED setup

ValidateTransport ==
  /\ Step("transport", setup.transport \in {"stdio", "sse", "streamable-http"}, "env")
  /\ UNCHANGED <<dbs, valid, registry, store, guard, mux>>

LoadConfig ==
  /\ Step("env", EnvBoolOk(setup.debug) /\ EnvBoolOk(setup.oauth), "file")
  /\ UNCHANGED <<dbs, valid, registry, store, guard, mux>>

\* Load: a missing file is an error only when it was named; unknown keys are
\* (file "unparsable"); an empty file is an empty list; the DSN comes last.
Load ==
  /\ Step("file", setup.file = "read" \/ (setup.file = "missing" /\ ~setup.named), "entries")
  /\ dbs' = IF setup.file = "read" \/ setup.file = "missing"
            THEN (IF setup.file = "read" THEN setup.entries ELSE <<>>)
                 \o (IF setup.dsn = "" THEN <<>> ELSE <<DSNEntry(setup.dsn)>>)
            ELSE <<>>
  /\ UNCHANGED <<valid, registry, store, guard, mux>>

ValidateNext ==
  /\ valid < Len(dbs)
  /\ LET e == Resolve(dbs[valid + 1])
     IN /\ Step("entries", Accepts(e), "entries")
        /\ dbs' = [dbs EXCEPT ![valid + 1] = e]
  /\ valid' = valid + 1
  /\ UNCHANGED <<registry, store, guard, mux>>

CheckNames ==
  /\ valid = Len(dbs)
  /\ Step("entries", \A i, j \in DOMAIN dbs : dbs[i].name = dbs[j].name => i = j, "registry")
  /\ UNCHANGED <<dbs, valid, registry, store, guard, mux>>

\* NewRegistry takes the databases in order and checks the names once more.
BuildNext ==
  /\ Len(registry) < Len(dbs)
  /\ LET c == dbs[Len(registry) + 1]
         ok == PoolsOk(c) /\ \A i \in DOMAIN registry : registry[i].name # c.name
     IN /\ Step("registry", ok, "registry")
        /\ registry' = IF ok THEN Append(registry, NewDatabase(c)) ELSE registry
  /\ UNCHANGED <<dbs, valid, store, guard, mux>>

\* Mutant of LocalCaller: the transport alone decides.
LocalCallerStdio == setup.transport = "stdio"

LocalCaller == setup.transport = "stdio" \/ ~EnvBool(setup.oauth)

\* The tools are registered; stdio serves at once and needs no OAuth.
ChooseTransport ==
  /\ Len(registry) = Len(dbs)
  /\ Step("registry", TRUE, CASE setup.transport = "stdio"  -> "serving"
                              [] setup.transport # "stdio" /\ EnvBool(setup.oauth) -> "private"
                              [] OTHER -> "mux")
  /\ UNCHANGED <<dbs, valid, registry, store, guard, mux>>

-----------------------------------------------------------------------------
(* NewAuth *)

\* Mutant of PrivateFlag: either of the two.
PrivateFlagEither == IF EnvBool(setup.alias) THEN "true" ELSE setup.private

\* The alias counts only while the variable itself is unset.
PrivateFlag == IF setup.private # "" THEN setup.private ELSE setup.alias

AllowPrivateURLsFromEnv ==
  /\ Step("private", EnvBoolOk(PrivateFlag), "provider")
  /\ UNCHANGED <<dbs, valid, registry, store, guard, mux>>

DexConfigOk ==
  /\ setup.dexIssuer # "" /\ setup.dexClient # ""
  /\ setup.redirect # "" \/ setup.issuer # ""
  /\ RequireSecretEnv(setup.dexSecret, setup.dexSecretFile) # <<>>

\* With the flag on, the Dex provider is built here; every other one comes
\* from oauthconfig.
NewProvider ==
  /\ LET here == EnvBool(PrivateFlag) /\ setup.provider = "dex"
     IN /\ \E built \in BOOLEAN :
             /\ Step("provider", built /\ (here => DexConfigOk), "encryptor")
             /\ guard' = [guard EXCEPT !.provider = here /\ DexConfigOk /\ built]
  /\ UNCHANGED <<dbs, valid, registry, store, mux>>

NewEncryptor ==
  /\ \E built \in BOOLEAN : Step("encryptor", built, "storage")
  /\ UNCHANGED <<dbs, valid, registry, store, guard, mux>>

OpenStorage ==
  /\ \E opened \in BOOLEAN :
       /\ Step("storage", opened, "oauthconfig")
       /\ store' = IF opened THEN [store EXCEPT !.opened = @ + 1] ELSE store
  /\ UNCHANGED <<dbs, valid, registry, guard, mux>>

CloseStore == [store EXCEPT !.closed = @ + 1]

\* Mutant of Release: the storage is left to a teardown nobody has yet.
ReleaseNothing(ok) == UNCHANGED store

\* A constructor that fails after the storage was opened closes it itself.
Release(ok) == store' = IF ok THEN store ELSE CloseStore

OAuthConfig ==
  /\ \E ok \in BOOLEAN :
       /\ Step("oauthconfig", ok, "oauthserver")
       /\ Release(ok)
       /\ guard' = [guard EXCEPT !.jwks = ok /\ EnvBool(PrivateFlag)]
  /\ UNCHANGED <<dbs, valid, registry, mux>>

NewServer ==
  /\ \E ok \in BOOLEAN : Step("oauthserver", ok, "mux") /\ Release(ok)
  /\ UNCHANGED <<dbs, valid, registry, guard, mux>>

\* BuildMCPMux: gateWithAuth wraps the handler when there is an Auth.
BuildMCPMux ==
  /\ Step("mux", TRUE, "serving")
  /\ mux' = IF EnvBool(setup.oauth) THEN "gated" ELSE "open"
  /\ UNCHANGED <<dbs, valid, registry, store, guard>>

\* runServe has returned: it runs its deferred calls, Auth.Shutdown among
\* them when NewAuth had succeeded.
HasAuth == EnvBool(setup.oauth) /\ mux # "none"

Unwind ==
  /\ at = "unwind" \/ at = "serving"
  /\ at' = "exited"
  /\ store' = IF HasAuth THEN CloseStore ELSE store
  /\ UNCHANGED <<setup, err, dbs, valid, registry, guard, mux>>

Next ==
  \/ ValidateTransport \/ LoadConfig \/ Load \/ ValidateNext \/ CheckNames
  \/ BuildNext \/ ChooseTransport
  \/ AllowPrivateURLsFromEnv \/ NewProvider \/ NewEncryptor \/ OpenStorage
  \/ OAuthConfig \/ NewServer \/ BuildMCPMux \/ Unwind

Spec == Init /\ [][Next]_vars
-----------------------------------------------------------------------------
(* Properties *)

Steps == {"transport", "env", "file", "entries", "registry", "private", "provider",
          "encryptor", "storage", "oauthconfig", "oauthserver", "mux"}
External == {"provider", "encryptor", "storage", "oauthconfig", "oauthserver"}

\* Every variable has its type.
TypeOK ==
  /\ at \in Steps \cup {"serving", "unwind", "exited"}
  /\ err \in Steps \cup {""}
  /\ valid \in 0 .. Len(dbs) /\ Len(registry) \in 0 .. Len(dbs)
  /\ store.opened \in 0 .. 1 /\ store.closed \in 0 .. store.opened
  /\ guard \in [provider: BOOLEAN, jwks: BOOLEAN]
  /\ mux \in {"none", "open", "gated"}

\* What the README says of a setup, of the raw values: a section names its
\* user in one way and its password in one way, both can be read, a number is
\* left out or within its range, and every host and certificate can be used.
OneOf(a, b) == (a = "") # (b = "")
Readable(path) == path # "" => ReadSecretFile(path) # <<>>
InRange(v, low, high) == v = 0 \/ v \in low .. high
SoundSection(s) ==
  /\ OneOf(s.username, s.usernameFile) /\ Readable(s.usernameFile)
  /\ OneOf(s.passwordFile, s.passwordEnv) /\ Readable(s.passwordFile)
  /\ s.passwordEnv # "" => Environ[s.passwordEnv] # <<>>
  /\ InRange(s.port, 1, 65535)
SoundFields(e) ==
  /\ e.name \in ValidNames /\ e.host # "" /\ e.dbname # ""
  /\ SoundSection(e) /\ \A i \in DOMAIN e.insert :
       SoundSection(e.insert[i]) /\ e.insert[i].tables \in (SUBSET ValidTables) \ {{}}
  /\ InRange(e.maxRows, 1, 5000) /\ InRange(e.maxConnections, 1, 64)
  /\ InRange(e.statementTimeout, 10, 6000)
  /\ e.sslmode \in sslModes \cup {""} /\ (e.cert = "" \/ Disk[e.cert] # <<>>)
  /\ \A a \in e.allowedUsers \cup e.allowedGroups : a \notin Blank
SoundTarget(e) ==
  /\ ({e.host} \cup {e.insert[i].host : i \in DOMAIN e.insert}) \cap BadHosts = {}
  /\ e.cert # "" => Disk[e.cert] # <<>> /\ Disk[e.cert][1].text \in Certificates
SoundEntry(e) == SoundFields(e) /\ SoundTarget(e)
NamesOf(s) ==
  (IF s.file = "read" THEN [i \in DOMAIN s.entries |-> s.entries[i].name] ELSE <<>>)
  \o (IF s.dsn = "" THEN <<>> ELSE <<"default">>)
Sound(s) ==
  /\ s.transport \in {"stdio", "sse", "streamable-http"}
  /\ {s.debug, s.oauth} \subseteq {"", "true", "false"}
  /\ s.file \in {"read", "missing"} /\ (s.file = "missing" => ~s.named)
  /\ s.file = "read" => \A i \in DOMAIN s.entries : SoundEntry(s.entries[i])
  /\ Cardinality({NamesOf(s)[i] : i \in DOMAIN NamesOf(s)}) = Len(NamesOf(s))
  /\ s.dsn # "malformed"
  /\ EnvBool(s.oauth) /\ s.transport # "stdio" =>
       IF s.private = "" THEN s.alias \in {"", "true", "false"}
       ELSE s.private \in {"true", "false"}

\* A server that serves had nothing wrong in its setup, and one that refused
\* to start before or beside the OAuth library had: defaults, the order of
\* the checks and the resolution of credentials neither let an unsound entry
\* through nor refuse a sound one (README: "Unknown keys, duplicate names,
\* missing credentials and out-of-range values fail startup"); a host or a
\* certificate that the driver cannot use fails it too, the inserts' included.
StartsIffSound ==
  /\ at = "serving" => Sound(setup)
  /\ err \notin External \cup {""} => ~Sound(setup)

\* What a section of the file says its user is, whatever the way it says it.
Own(s, pool) ==
  /\ pool.user = IF s.username # "" THEN <<s.username>> ELSE ReadSecretFile(s.usernameFile)
  /\ pool.password = IF s.passwordEnv # "" THEN Environ[s.passwordEnv]
                                            ELSE ReadSecretFile(s.passwordFile)

\* Every pool gives its sessions a statement timeout of a second to ten minutes
\* (zero would mean none) and has a bounded size.
Limited(r) ==
  \A p \in {r.read} \cup {r.insert[k] : k \in DOMAIN r.insert} :
    p.timeout \in 10 .. 6000 /\ p.conns \in 1 .. 64

\* The pools r of an entry e of the file: the one for reads has the entry's own
\* role and host, the one for inserts its section's, and the database's TLS.
Apart(e, r) ==
  /\ Own(e, r.read) /\ r.read.host = e.host
  /\ DOMAIN r.insert = DOMAIN e.insert
  /\ \A k \in DOMAIN e.insert :
       LET in == e.insert[k] w == r.insert[k] IN
       /\ Own(in, w) /\ ~w.readOnly /\ w.dsn = ""
       /\ w.host = IF in.host = "" THEN e.host ELSE in.host
       /\ w.port = IF in.port # 0 THEN in.port ELSE IF e.port # 0 THEN e.port ELSE 5432
       /\ <<w.dbname, w.sslmode, w.cert>> = <<r.read.dbname, r.read.sslmode, r.read.cert>>

\* A pool for inserts exists exactly where the file has an insert section. It
\* connects as that section's own role, to that section's host or else the
\* database's, over the database's TLS settings, and never by a DSN. The pool
\* for reads connects as the entry's role and alone is read-only by default.
\* Every pool, the DSN's included, is limited, and no two databases share a
\* name.
RolesApart ==
  \A i \in DOMAIN registry :
    LET r == registry[i] IN
    /\ Limited(r) /\ r.read.readOnly
    /\ \A j \in 1 .. i - 1 : registry[j].name # r.name
    /\ i > (IF setup.file = "read" THEN Len(setup.entries) ELSE 0) => r.insert = <<>>
    /\ r.read.dsn = "" => Apart(setup.entries[i], r)

\* Whatever step of the start fails, a storage that was opened is closed when
\* the process exits, and once only; while a server with OAuth serves, it is
\* open (the deferred calls of runServe, the error paths of NewAuth).
StorageReleased ==
  /\ TypeOK
  /\ at = "exited" => store.closed = store.opened
  /\ at = "serving" /\ mux = "gated" => store.opened = 1 /\ store.closed = 0

\* Either every request passes ValidateToken, or tool calls run as the local
\* caller, never neither and never both: a server with OAUTH_ENABLED serves
\* HTTP behind the gate only, and stdio serves without.
Gated ==
  at = "serving" => /\ (mux = "gated") # LocalCaller
                    /\ mux = "none" => setup.transport = "stdio"

\* The address checks of the provider and of the JWKS client are lifted only
\* where the operator's variable, or else its alias, says so, and then for the
\* Dex provider both are: one without the other refuses every caller.
GuardLifted ==
  LET asked == setup.private = "true" \/ (setup.private = "" /\ setup.alias = "true")
  IN /\ guard.provider \/ guard.jwks => asked
     /\ mux = "gated" => /\ guard.jwks = asked
                         /\ guard.provider = (asked /\ setup.provider = "dex")
=============================================================================
