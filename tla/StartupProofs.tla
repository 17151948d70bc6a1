--------------------------- MODULE StartupProofs ---------------------------
(***************************************************************************)
(* What Startup promises, for every setup, every state of the disk and the *)
(* environment, and any number of databases: which setups start, what the  *)
(* pools connect as, that OAuth's storage is released whatever fails, and  *)
(* that requests are gated where OAuth is on; and what SelfUpdate promises *)
(* for any number of runs and releases: only verified releases are         *)
(* installed, and what a run reports is true.                              *)
(***************************************************************************)
EXTENDS MCStartup, FiniteSetTheorems, TLAPS

\* The entries as Load has read them.
Raw == (IF setup.file = "read" THEN setup.entries ELSE <<>>)
         \o (IF setup.dsn = "" THEN <<>> ELSE <<DSNEntry(setup.dsn)>>)

\* The entries when n of them are validated and resolved.
Partly(n) == [i \in 1 .. Len(Raw) |-> IF i <= n THEN Resolve(Raw[i]) ELSE Raw[i]]

Transports == {"stdio", "sse", "streamable-http"}
FileOk == setup.file = "read" \/ (setup.file = "missing" /\ ~setup.named)
Distinct == \A i, j \in 1 .. Len(Raw) : Raw[i].name = Raw[j].name => i = j

\* Where runServe stands: a step of NewAuth, or past the step named.
Early == {"transport", "env", "file", "entries", "registry"}
AuthSteps == {"private", "provider", "encryptor", "storage", "oauthconfig", "oauthserver"}
Live == Steps \cup {"serving"}

-----------------------------------------------------------------------------
(* The inductive invariant *)

\* The databases: nothing is loaded, or the first valid ones are resolved; the
\* registry is made of databases that are all resolved and accepted.
Progress ==
  \/ dbs = <<>> /\ valid = 0 /\ registry = <<>>
  \/ /\ valid \in 0 .. Len(Raw) /\ dbs = Partly(valid)
     /\ \E n \in 0 .. Len(Raw) : registry = [i \in 1 .. n |-> NewDatabase(dbs[i])]
     /\ registry # <<>> =>
          /\ valid = Len(Raw) /\ Distinct
          /\ \A i \in 1 .. Len(Raw) : Accepts(dbs[i])

\* What has been found to be right.
Passed ==
  /\ at \in Live \ {"transport"} => setup.transport \in Transports
  /\ at \in Live \ {"transport", "env"} => EnvBoolOk(setup.debug) /\ EnvBoolOk(setup.oauth)
  /\ at \in {"transport", "env", "file"} => dbs = <<>> /\ valid = 0 /\ registry = <<>>
  /\ at \in Live \ {"transport", "env", "file"} => FileOk /\ dbs = Partly(valid) /\ valid \in 0 .. Len(Raw)
  /\ at = "entries" => registry = <<>> /\ \A i \in 1 .. valid : Accepts(dbs[i])
  /\ at \in Live \ {"transport", "env", "file", "entries"} =>
       /\ valid = Len(Raw) /\ Distinct
       /\ \A i \in 1 .. Len(Raw) : Accepts(dbs[i])
       /\ \A i \in 1 .. Len(registry) : PoolsOk(dbs[i])
  /\ at \in Live \ Early => Len(registry) = Len(Raw)
  /\ at \in AuthSteps => EnvBool(setup.oauth) /\ setup.transport # "stdio"
  /\ at = "mux" => setup.transport # "stdio"
  /\ at \in Live \ (Early \cup {"private"}) /\ setup.transport # "stdio" /\ EnvBool(setup.oauth) =>
       EnvBoolOk(PrivateFlag)

\* What was found to be wrong.
Refused ==
  /\ at \in Live => err = ""
  /\ err = "transport" => setup.transport \notin Transports
  /\ err = "env" => ~EnvBoolOk(setup.debug) \/ ~EnvBoolOk(setup.oauth)
  /\ err = "file" => ~FileOk
  /\ err = "entries" => FileOk /\ ((\E i \in 1 .. Len(Raw) : ~Accepts(Resolve(Raw[i]))) \/ ~Distinct)
  /\ err = "registry" => FileOk /\ \E i \in 1 .. Len(Raw) : ~PoolsOk(Resolve(Raw[i]))
  /\ err = "private" =>
       setup.transport # "stdio" /\ EnvBool(setup.oauth) /\ ~EnvBoolOk(PrivateFlag)
  /\ err # "mux"

\* The gate.
Gate ==
  /\ mux # "none" => at \in {"serving", "exited"}
  /\ mux = "gated" => EnvBool(setup.oauth)
  /\ at = "serving" =>
       IF setup.transport = "stdio" THEN mux = "none"
       ELSE mux = IF EnvBool(setup.oauth) THEN "gated" ELSE "open"

\* The storage of OAuth: [opened, closed].
Storage ==
  /\ store \in [opened: 0 .. 1, closed: 0 .. 1]
  /\ at \in Early \cup {"private", "provider", "encryptor", "storage"} =>
       store.opened = 0 /\ store.closed = 0
  /\ at \in {"oauthconfig", "oauthserver"} => store.opened = 1 /\ store.closed = 0
  /\ at = "mux" => store.closed = 0 /\ (store.opened = 1 <=> EnvBool(setup.oauth))
  /\ at = "serving" => store.closed = 0 /\ (store.opened = 1 <=> mux = "gated")
  /\ at \in {"unwind", "exited"} => store.closed = store.opened

\* The address checks: [provider, jwks].
Asked == EnvBool(PrivateFlag)
Lifted ==
  /\ guard \in [provider: BOOLEAN, jwks: BOOLEAN]
  /\ guard.provider \/ guard.jwks => Asked
  /\ at \in {"encryptor", "storage", "oauthconfig", "oauthserver"} =>
       guard.provider = (Asked /\ setup.provider = "dex")
  /\ at = "oauthserver" => guard.jwks = Asked
  /\ mux = "gated" \/ (at = "mux" /\ EnvBool(setup.oauth)) =>
       guard.jwks = Asked /\ guard.provider = (Asked /\ setup.provider = "dex")

IInv ==
  /\ setup \in Setups
  /\ at \in Live \cup {"unwind", "exited"} /\ err \in Steps \cup {""}
  /\ mux \in {"none", "open", "gated"}
  /\ Progress /\ Passed /\ Refused /\ Gate /\ Storage /\ Lifted

-----------------------------------------------------------------------------
(* What the validation makes of an entry *)

\* resolveCredentials looks at four fields only.
LEMMA CredentialsOf ==
  ASSUME NEW s, NEW t, s.username = t.username, s.usernameFile = t.usernameFile,
         s.passwordFile = t.passwordFile, s.passwordEnv = t.passwordEnv
  PROVE  ResolveUser(s) = ResolveUser(t) /\ ResolvePassword(s) = ResolvePassword(t)
BY DEF ResolveUser, ResolvePassword

\* The defaults of an entry: limits where they are left out and, without a
\* DSN, the port, the TLS mode and the credentials.
LEMMA DefaultsIs ==
  ASSUME NEW d \in Entries
  PROVE  LET e == Defaults(d) IN
         /\ e.name = d.name /\ e.dsn = d.dsn /\ e.insert = d.insert
         /\ e.allowedUsers = d.allowedUsers /\ e.allowedGroups = d.allowedGroups
         /\ e.host = d.host /\ e.dbname = d.dbname /\ e.cert = d.cert
         /\ e.username = d.username /\ e.usernameFile = d.usernameFile
         /\ e.passwordFile = d.passwordFile /\ e.passwordEnv = d.passwordEnv
         /\ e.maxRows = Or(d.maxRows, DefaultMaxRows)
         /\ e.statementTimeout = Or(d.statementTimeout, DefaultStatementTimeout)
         /\ e.maxConnections = Or(d.maxConnections, DefaultMaxConnections)
         /\ d.dsn # "" => e.port = d.port /\ e.sslmode = d.sslmode
         /\ d.dsn = "" => /\ e.port = Or(d.port, DefaultPort)
                          /\ e.sslmode = IF d.sslmode = "" THEN "require" ELSE d.sslmode
                          /\ e.user = ResolveUser(d) /\ e.password = ResolvePassword(d)
         /\ DOMAIN e = DOMAIN d
<1> DEFINE e1 == [d EXCEPT !.maxRows = Or(@, DefaultMaxRows),
                           !.statementTimeout = Or(@, DefaultStatementTimeout),
                           !.maxConnections = Or(@, DefaultMaxConnections)]
           e2 == [e1 EXCEPT !.port = Or(@, DefaultPort),
                            !.sslmode = IF @ = "" THEN "require" ELSE @]
           e3 == WithCredentials(e2)
<1>1. Defaults(d) = IF e1.dsn # "" THEN e1 ELSE e3  BY DEF Defaults
<1>2. \A v, w \in Int : Or(v, w) \in Int  BY DEF Or
<1>3. /\ DefaultMaxRows \in Int /\ DefaultStatementTimeout \in Int
      /\ DefaultMaxConnections \in Int /\ DefaultPort \in Int
  BY DEF DefaultMaxRows, DefaultStatementTimeout, DefaultMaxConnections, DefaultPort
<1>4. /\ e1 \in Entries /\ DOMAIN e1 = DOMAIN d
      /\ e1.name = d.name /\ e1.dsn = d.dsn /\ e1.insert = d.insert
      /\ e1.allowedUsers = d.allowedUsers /\ e1.allowedGroups = d.allowedGroups
      /\ e1.host = d.host /\ e1.dbname = d.dbname /\ e1.cert = d.cert
      /\ e1.username = d.username /\ e1.usernameFile = d.usernameFile
      /\ e1.passwordFile = d.passwordFile /\ e1.passwordEnv = d.passwordEnv
      /\ e1.port = d.port /\ e1.sslmode = d.sslmode
      /\ e1.maxRows = Or(d.maxRows, DefaultMaxRows)
      /\ e1.statementTimeout = Or(d.statementTimeout, DefaultStatementTimeout)
      /\ e1.maxConnections = Or(d.maxConnections, DefaultMaxConnections)
  <2>1. d.maxRows \in Int /\ d.statementTimeout \in Int /\ d.maxConnections \in Int
    BY DEF Entries
  <2>2. PICK x \in Int, y \in Int, z \in Int :
          /\ x = Or(d.maxRows, DefaultMaxRows)
          /\ y = Or(d.statementTimeout, DefaultStatementTimeout)
          /\ z = Or(d.maxConnections, DefaultMaxConnections)
    BY <1>2, <1>3, <2>1
  <2>3. e1 = [d EXCEPT !.maxRows = x, !.statementTimeout = y, !.maxConnections = z]
    BY <2>2
  <2>4. QED  BY <2>2, <2>3 DEF Entries
<1> HIDE DEF e1
<1>5. /\ e2 \in Entries /\ DOMAIN e2 = DOMAIN d
      /\ e2.name = d.name /\ e2.dsn = d.dsn /\ e2.insert = d.insert
      /\ e2.allowedUsers = d.allowedUsers /\ e2.allowedGroups = d.allowedGroups
      /\ e2.host = d.host /\ e2.dbname = d.dbname /\ e2.cert = d.cert
      /\ e2.username = d.username /\ e2.usernameFile = d.usernameFile
      /\ e2.passwordFile = d.passwordFile /\ e2.passwordEnv = d.passwordEnv
      /\ e2.port = Or(d.port, DefaultPort)
      /\ e2.sslmode = IF d.sslmode = "" THEN "require" ELSE d.sslmode
      /\ e2.maxRows = Or(d.maxRows, DefaultMaxRows)
      /\ e2.statementTimeout = Or(d.statementTimeout, DefaultStatementTimeout)
      /\ e2.maxConnections = Or(d.maxConnections, DefaultMaxConnections)
  <2>1. d.port \in Int /\ d.sslmode \in Strings  BY DEF Entries
  <2>2. PICK x \in Int, y \in Strings :
          /\ x = Or(d.port, DefaultPort)
          /\ y = IF d.sslmode = "" THEN "require" ELSE d.sslmode
    <3>1. (IF d.sslmode = "" THEN "require" ELSE d.sslmode) \in Strings
      BY <2>1, StartupAssumption
    <3>2. Or(d.port, DefaultPort) \in Int  BY <1>2, <1>3, <2>1
    <3>3. QED  BY <3>1, <3>2
  <2>3. e2 = [e1 EXCEPT !.port = x, !.sslmode = y]
    <3>1. e1.port = d.port /\ e1.sslmode = d.sslmode  BY <1>4
    <3>2. QED  BY <2>2, <3>1
  <2>4. e1 \in Entries /\ DOMAIN e1 = DOMAIN d  BY <1>4
  <2>5. e2 \in Entries
    <3> DEFINE f == [e1 EXCEPT !.port = x]
    <3>1. f \in Entries  BY <2>4 DEF Entries
    <3>2. e2 = [f EXCEPT !.sslmode = y]  BY <2>3
    <3> HIDE DEF f, e2
    <3>3. QED  BY <3>1, <3>2 DEF Entries
  <2>6. DOMAIN e2 = DOMAIN d  BY <2>3, <2>4
  <2>7. /\ e2.name = e1.name /\ e2.dsn = e1.dsn /\ e2.insert = e1.insert
        /\ e2.allowedUsers = e1.allowedUsers /\ e2.allowedGroups = e1.allowedGroups
        /\ e2.host = e1.host /\ e2.dbname = e1.dbname /\ e2.cert = e1.cert
        /\ e2.username = e1.username /\ e2.usernameFile = e1.usernameFile
        /\ e2.passwordFile = e1.passwordFile /\ e2.passwordEnv = e1.passwordEnv
        /\ e2.port = x /\ e2.sslmode = y /\ e2.maxRows = e1.maxRows
        /\ e2.statementTimeout = e1.statementTimeout
        /\ e2.maxConnections = e1.maxConnections
    BY <2>4, <2>3 DEF Entries
  <2> HIDE DEF e2
  <2>8. QED  BY <1>4, <2>2, <2>5, <2>6, <2>7
<1> HIDE DEF e2
<1>6. ResolveUser(e2) = ResolveUser(d) /\ ResolvePassword(e2) = ResolvePassword(d)
  BY <1>5, CredentialsOf
<1>7. /\ DOMAIN e3 = DOMAIN e2
      /\ e3.name = e2.name /\ e3.dsn = e2.dsn /\ e3.insert = e2.insert
      /\ e3.allowedUsers = e2.allowedUsers /\ e3.allowedGroups = e2.allowedGroups
      /\ e3.host = e2.host /\ e3.dbname = e2.dbname /\ e3.cert = e2.cert
      /\ e3.username = e2.username /\ e3.usernameFile = e2.usernameFile
      /\ e3.passwordFile = e2.passwordFile /\ e3.passwordEnv = e2.passwordEnv
      /\ e3.port = e2.port /\ e3.sslmode = e2.sslmode
      /\ e3.maxRows = e2.maxRows /\ e3.statementTimeout = e2.statementTimeout
      /\ e3.maxConnections = e2.maxConnections
      /\ e3.user = ResolveUser(e2) /\ e3.password = ResolvePassword(e2)
  BY <1>5 DEF Entries, WithCredentials
<1> HIDE DEF e3
<1>8. QED
  <2>1. CASE d.dsn # ""
    <3>1. Defaults(d) = e1  BY <1>1, <1>4, <2>1
    <3>2. QED  BY <1>4, <2>1, <3>1
  <2>2. CASE d.dsn = ""
    <3>1. Defaults(d) = e3  BY <1>1, <1>4, <2>2
    <3>2. QED  BY <1>5, <1>6, <1>7, <2>2, <3>1
  <2>3. QED  BY <2>1, <2>2

LEMMA InsertDefaultsIs ==
  ASSUME NEW in \in InsertSections, NEW e
  PROVE  LET v == InsertDefaults(in, e) IN
         /\ v.host = (IF in.host = "" THEN e.host ELSE in.host)
         /\ v.port = Or(in.port, e.port) /\ v.tables = in.tables
         /\ v.user = ResolveUser(in) /\ v.password = ResolvePassword(in)
<1> DEFINE w == [in EXCEPT !.host = IF @ = "" THEN e.host ELSE @, !.port = Or(@, e.port)]
           v == WithCredentials(w)
<1>1. /\ DOMAIN w = DOMAIN in
      /\ w.host = (IF in.host = "" THEN e.host ELSE in.host)
      /\ w.port = Or(in.port, e.port) /\ w.tables = in.tables
      /\ w.username = in.username /\ w.usernameFile = in.usernameFile
      /\ w.passwordFile = in.passwordFile /\ w.passwordEnv = in.passwordEnv
  BY DEF InsertSections
<1> HIDE DEF w
<1>2. ResolveUser(w) = ResolveUser(in) /\ ResolvePassword(w) = ResolvePassword(in)
  BY <1>1, CredentialsOf
<1>3. DOMAIN in = {"host", "port", "username", "usernameFile", "passwordFile",
                   "passwordEnv", "tables", "user", "password"}
  BY DEF InsertSections
<1>4. /\ v.host = w.host /\ v.port = w.port /\ v.tables = w.tables
      /\ v.user = ResolveUser(w) /\ v.password = ResolvePassword(w)
  BY <1>1, <1>3 DEF WithCredentials
<1>5. InsertDefaults(in, e) = v  BY DEF InsertDefaults, w
<1> HIDE DEF v
<1>6. QED  BY <1>1, <1>2, <1>4, <1>5

\* An empty sequence, and a function that is one.
LEMMA EmptyTuple ==
  /\ \A S : <<>> \in Seq(S)
  /\ \A f : f = [i \in DOMAIN <<>> |-> f[i]] => f = <<>>
OBVIOUS

\* A resolved entry: its defaults, and the insert section with its own.
LEMMA ResolveIs ==
  ASSUME NEW d \in Entries
  PROVE  LET e == Resolve(d)
             port == IF d.dsn = "" THEN Or(d.port, DefaultPort) ELSE d.port IN
         /\ e.name = d.name /\ e.dsn = d.dsn
         /\ e.allowedUsers = d.allowedUsers /\ e.allowedGroups = d.allowedGroups
         /\ e.host = d.host /\ e.dbname = d.dbname /\ e.cert = d.cert
         /\ e.username = d.username /\ e.usernameFile = d.usernameFile
         /\ e.passwordFile = d.passwordFile /\ e.passwordEnv = d.passwordEnv
         /\ e.maxRows = Or(d.maxRows, DefaultMaxRows)
         /\ e.statementTimeout = Or(d.statementTimeout, DefaultStatementTimeout)
         /\ e.maxConnections = Or(d.maxConnections, DefaultMaxConnections)
         /\ e.port = port
         /\ d.dsn # "" => e.sslmode = d.sslmode
         /\ d.dsn = "" => /\ e.sslmode = IF d.sslmode = "" THEN "require" ELSE d.sslmode
                          /\ e.user = ResolveUser(d) /\ e.password = ResolvePassword(d)
         /\ e.insert = [i \in DOMAIN d.insert |-> e.insert[i]]
         /\ \A i \in DOMAIN d.insert :
              LET in == d.insert[i] v == e.insert[i] IN
              /\ v.host = (IF in.host = "" THEN d.host ELSE in.host)
              /\ v.port = Or(in.port, port) /\ v.tables = in.tables
              /\ v.user = ResolveUser(in) /\ v.password = ResolvePassword(in)
         /\ DOMAIN e = DOMAIN d
<1> DEFINE e == Defaults(d)
           ins == [i \in DOMAIN d.insert |-> InsertDefaults(d.insert[i], e)]
           r == [e EXCEPT !.insert = ins]
           port == IF d.dsn = "" THEN Or(d.port, DefaultPort) ELSE d.port
<1>1. /\ e.name = d.name /\ e.dsn = d.dsn /\ e.insert = d.insert
      /\ e.allowedUsers = d.allowedUsers /\ e.allowedGroups = d.allowedGroups
      /\ e.host = d.host /\ e.dbname = d.dbname /\ e.cert = d.cert
      /\ e.username = d.username /\ e.usernameFile = d.usernameFile
      /\ e.passwordFile = d.passwordFile /\ e.passwordEnv = d.passwordEnv
      /\ e.maxRows = Or(d.maxRows, DefaultMaxRows)
      /\ e.statementTimeout = Or(d.statementTimeout, DefaultStatementTimeout)
      /\ e.maxConnections = Or(d.maxConnections, DefaultMaxConnections)
      /\ d.dsn # "" => e.sslmode = d.sslmode
      /\ d.dsn = "" => /\ e.sslmode = IF d.sslmode = "" THEN "require" ELSE d.sslmode
                       /\ e.user = ResolveUser(d) /\ e.password = ResolvePassword(d)
      /\ DOMAIN e = DOMAIN d
  BY DefaultsIs
<1>2. e.port = port  BY DefaultsIs
<1>3. d.insert \in Seq(InsertSections)  BY DEF Entries
<1>4. Resolve(d) = r  BY <1>1 DEF Resolve
<1>5. DOMAIN d = {"name", "maxRows", "statementTimeout", "maxConnections", "allowedUsers",
                  "allowedGroups", "host", "port", "dbname", "sslmode", "cert", "username",
                  "usernameFile", "passwordFile", "passwordEnv", "insert", "dsn", "user",
                  "password"}
  BY DEF Entries
<1> HIDE DEF e, ins, port
<1>6. /\ r.name = e.name /\ r.dsn = e.dsn /\ r.insert = ins
      /\ r.allowedUsers = e.allowedUsers /\ r.allowedGroups = e.allowedGroups
      /\ r.host = e.host /\ r.dbname = e.dbname /\ r.cert = e.cert
      /\ r.username = e.username /\ r.usernameFile = e.usernameFile
      /\ r.passwordFile = e.passwordFile /\ r.passwordEnv = e.passwordEnv
      /\ r.maxRows = e.maxRows /\ r.statementTimeout = e.statementTimeout
      /\ r.maxConnections = e.maxConnections /\ r.port = e.port /\ r.sslmode = e.sslmode
      /\ r.user = e.user /\ r.password = e.password /\ DOMAIN r = DOMAIN e
  <2>1. DOMAIN e = DOMAIN d  BY <1>1
  <2>2. QED  BY <1>5, <2>1
<1> HIDE DEF r
<1>7. ASSUME NEW i \in DOMAIN d.insert
      PROVE  LET in == d.insert[i] v == ins[i] IN
             /\ v.host = (IF in.host = "" THEN d.host ELSE in.host)
             /\ v.port = Or(in.port, port) /\ v.tables = in.tables
             /\ v.user = ResolveUser(in) /\ v.password = ResolvePassword(in)
  <2>1. PICK in \in InsertSections : in = d.insert[i]  BY <1>3
  <2>2. ins[i] = InsertDefaults(in, e)  BY <2>1 DEF ins
  <2>3. e.host = d.host  BY <1>1
  <2>4. /\ ins[i].host = (IF in.host = "" THEN e.host ELSE in.host)
        /\ ins[i].port = Or(in.port, e.port) /\ ins[i].tables = in.tables
        /\ ins[i].user = ResolveUser(in) /\ ins[i].password = ResolvePassword(in)
    <3> DEFINE v == InsertDefaults(in, e)
    <3>1. /\ v.host = (IF in.host = "" THEN e.host ELSE in.host)
          /\ v.port = Or(in.port, e.port) /\ v.tables = in.tables
          /\ v.user = ResolveUser(in) /\ v.password = ResolvePassword(in)
      BY InsertDefaultsIs, Zenon
    <3> HIDE DEF v
    <3>2. ins[i] = v  BY <2>2 DEF v
    <3>3. QED  BY <3>1, <3>2
  <2>5. QED  BY <1>2, <2>1, <2>3, <2>4
<1>8. ins = [i \in DOMAIN d.insert |-> ins[i]]  BY DEF ins
<1>9. QED  BY <1>1, <1>2, <1>4, <1>6, <1>7, <1>8 DEF port

\* resolveCredentials succeeds exactly where a section names its user in one
\* way and its password in one way and both can be read.
LEMMA ResolvedIff ==
  ASSUME NEW s
  PROVE  /\ ResolveUser(s) # <<>> <=>
              OneOf(s.username, s.usernameFile) /\ Readable(s.usernameFile)
         /\ ResolvePassword(s) # <<>> <=>
              /\ OneOf(s.passwordFile, s.passwordEnv) /\ Readable(s.passwordFile)
              /\ s.passwordEnv # "" => Environ[s.passwordEnv] # <<>>
BY Zenon DEF ResolveUser, ResolvePassword, OneOf, Readable

\* A number that is left out gets a default, and the defaults are in range.
MaxPort == 65535
Ports == 1 .. MaxPort
PortOk(v) == InRange(v, 1, MaxPort)
NumbersOk(d) ==
  /\ InRange(d.maxRows, 1, 5000) /\ InRange(d.maxConnections, 1, 64)
  /\ InRange(d.statementTimeout, 10, 6000)

LEMMA DefaultInRange ==
  ASSUME NEW v \in Int
  PROVE  /\ Or(v, DefaultPort) \in Ports <=> PortOk(v)
         /\ \A w \in Ports : Or(v, w) \in Ports <=> PortOk(v)
<1>1. ASSUME NEW w \in Ports  PROVE  Or(v, w) \in Ports <=> PortOk(v)
  <2>1. PortOk(v) <=> v = 0 \/ v \in Ports  BY Zenon DEF PortOk, InRange, Ports
  <2>2. Or(v, w) = IF v = 0 THEN w ELSE v  BY Zenon DEF Or
  <2>3. QED  BY <2>1, <2>2, Zenon
<1>2. DefaultPort \in Ports  BY SMT DEF DefaultPort, Ports, MaxPort
<1>3. QED  BY <1>1, <1>2, Zenon

LEMMA LimitsIff ==
  ASSUME NEW d, NEW e, d.maxRows \in Int, d.maxConnections \in Int, d.statementTimeout \in Int,
         e.maxRows = Or(d.maxRows, DefaultMaxRows),
         e.maxConnections = Or(d.maxConnections, DefaultMaxConnections),
         e.statementTimeout = Or(d.statementTimeout, DefaultStatementTimeout)
  PROVE  LimitsOk(e) <=> NumbersOk(d)
<1>1. e.maxRows \in 1 .. MaxMaxRows <=> InRange(d.maxRows, 1, 5000)
  <2>1. PICK x \in Int, y \in {e.maxRows} : x = d.maxRows /\ y = e.maxRows  OBVIOUS
  <2>2. y = Or(x, DefaultMaxRows)  BY <2>1
  <2>3. y \in 1 .. MaxMaxRows <=> InRange(x, 1, 5000)
    BY <2>2, SMT DEF DefaultMaxRows, Or, InRange, MaxMaxRows
  <2>4. QED  BY <2>1, <2>3, SMT
<1>2. e.maxConnections \in 1 .. MaxMaxConnections <=> InRange(d.maxConnections, 1, 64)
  BY SMT DEF DefaultMaxConnections, Or, InRange, MaxMaxConnections
<1>3. e.statementTimeout >= 10 /\ e.statementTimeout <= MaxStatementTimeout <=>
        InRange(d.statementTimeout, 10, 6000)
  <2>1. PICK x \in Int, y \in {e.statementTimeout} : x = d.statementTimeout /\ y = e.statementTimeout  OBVIOUS
  <2>2. y = Or(x, DefaultStatementTimeout)  BY <2>1
  <2>3. y >= 10 /\ y <= MaxStatementTimeout <=> InRange(x, 10, 6000)
    BY <2>2, SMT DEF DefaultStatementTimeout, Or, InRange, MaxStatementTimeout
  <2>4. QED  BY <2>1, <2>3, SMT
<1>4. QED  BY <1>1, <1>2, <1>3, SMT DEF LimitsOk, NumbersOk

\* The definitions, with the ranges named.
LEMMA RangesNamed ==
  ASSUME NEW e
  PROVE  /\ Accepts(e) <=>
              /\ e.name \in ValidNames /\ LimitsOk(e)
              /\ Blank \cap (e.allowedUsers \cup e.allowedGroups) = {}
              /\ IF e.dsn # "" THEN ValidateDSNOnly(e)
                 ELSE /\ e.host # "" /\ e.port \in Ports /\ e.dbname # ""
                      /\ e.sslmode \in sslModes
                      /\ e.cert # "" => Disk[e.cert] # <<>>
                      /\ Resolved(e) /\ \A i \in DOMAIN e.insert : InsertOk(e.insert[i])
         /\ InsertOk(e) <=> /\ e.port \in Ports /\ e.tables # {} /\ e.tables \subseteq ValidTables
                            /\ Resolved(e)
         /\ SoundSection(e) <=>
              /\ OneOf(e.username, e.usernameFile) /\ Readable(e.usernameFile)
              /\ OneOf(e.passwordFile, e.passwordEnv) /\ Readable(e.passwordFile)
              /\ e.passwordEnv # "" => Environ[e.passwordEnv] # <<>>
              /\ PortOk(e.port)
         /\ SoundFields(e) <=>
              /\ e.name \in ValidNames /\ e.host # "" /\ e.dbname # ""
              /\ SoundSection(e) /\ \A i \in DOMAIN e.insert :
                   SoundSection(e.insert[i]) /\ e.insert[i].tables \in (SUBSET ValidTables) \ {{}}
              /\ NumbersOk(e)
              /\ e.sslmode \in sslModes \cup {""} /\ (e.cert = "" \/ Disk[e.cert] # <<>>)
              /\ \A a \in e.allowedUsers \cup e.allowedGroups : a \notin Blank
BY SMT DEF Accepts, InsertOk, SoundSection, SoundFields, NumbersOk, Ports, PortOk, MaxPort

\* The validation accepts an entry of the file exactly when it is what the
\* README asks for: neither the defaults nor the order in which values are
\* resolved and checked let anything else through.
LEMMA AcceptsIff ==
  ASSUME NEW d \in FileEntries
  PROVE  Accepts(Resolve(d)) <=> SoundFields(d)
<1>1. d \in Entries /\ d.dsn = ""  BY DEF FileEntries
<1>2. /\ d.maxRows \in Int /\ d.statementTimeout \in Int /\ d.maxConnections \in Int
      /\ d.port \in Int /\ d.insert \in Seq(InsertSections)
  BY <1>1 DEF Entries
<1> DEFINE e == Resolve(d)
           port == Or(d.port, DefaultPort)
<1>3. /\ e.name = d.name /\ e.dsn = ""
      /\ e.allowedUsers = d.allowedUsers /\ e.allowedGroups = d.allowedGroups
      /\ e.host = d.host /\ e.dbname = d.dbname /\ e.cert = d.cert
      /\ e.maxRows = Or(d.maxRows, DefaultMaxRows)
      /\ e.statementTimeout = Or(d.statementTimeout, DefaultStatementTimeout)
      /\ e.maxConnections = Or(d.maxConnections, DefaultMaxConnections)
      /\ e.port = port
      /\ e.sslmode = (IF d.sslmode = "" THEN "require" ELSE d.sslmode)
      /\ e.user = ResolveUser(d) /\ e.password = ResolvePassword(d)
  BY <1>1, ResolveIs
<1>4. /\ DOMAIN e.insert = DOMAIN d.insert
      /\ \A i \in DOMAIN d.insert :
           /\ e.insert[i].port = Or(d.insert[i].port, port)
           /\ e.insert[i].tables = d.insert[i].tables
           /\ e.insert[i].user = ResolveUser(d.insert[i])
           /\ e.insert[i].password = ResolvePassword(d.insert[i])
  BY <1>1, ResolveIs
<1> HIDE DEF e
<1>5. LimitsOk(e) <=> NumbersOk(d)  BY <1>2, <1>3, LimitsIff, Zenon
<1>6. e.port \in Ports <=> PortOk(d.port)  BY <1>2, <1>3, DefaultInRange, Zenon
<1>7. e.sslmode \in sslModes <=> d.sslmode \in sslModes \cup {""}
  BY <1>3, Zenon DEF sslModes
<1>8. (Blank \cap (e.allowedUsers \cup e.allowedGroups) = {}) <=>
        \A a \in d.allowedUsers \cup d.allowedGroups : a \notin Blank
  BY <1>3, Zenon
<1>9. Resolved(e) /\ e.port \in Ports <=> SoundSection(d)
  BY <1>3, <1>6, ResolvedIff, RangesNamed, Zenon DEF Resolved
<1>10. ASSUME e.port \in Ports, NEW i \in DOMAIN d.insert
       PROVE  InsertOk(e.insert[i]) <=>
                SoundSection(d.insert[i]) /\ d.insert[i].tables \in (SUBSET ValidTables) \ {{}}
  <2>1. d.insert[i] \in InsertSections  BY <1>2
  <2>2. d.insert[i].port \in Int  BY <2>1 DEF InsertSections
  <2>3. port \in Ports  BY <1>3, <1>10, Zenon
  <2>4. e.insert[i].port \in Ports <=> PortOk(d.insert[i].port)
    BY <1>4, <2>2, <2>3, DefaultInRange, Zenon
  <2>5. PICK x, y : x = d.insert[i] /\ y = e.insert[i]  OBVIOUS
  <2>6. /\ y.user = ResolveUser(x) /\ y.password = ResolvePassword(x) /\ y.tables = x.tables
        /\ y.port \in Ports <=> PortOk(x.port)
    BY <1>4, <2>4, <2>5, Zenon
  <2>7. Resolved(y) /\ y.port \in Ports <=> SoundSection(x)
    BY <2>6, ResolvedIff, RangesNamed, Zenon DEF Resolved
  <2>8. InsertOk(y) <=> SoundSection(x) /\ x.tables \in (SUBSET ValidTables) \ {{}}
    <3>1. InsertOk(y) <=> /\ y.port \in Ports /\ y.tables # {} /\ y.tables \subseteq ValidTables
                          /\ Resolved(y)
      BY RangesNamed, Zenon
    <3>2. y.tables = x.tables  BY <2>6
    <3>3. x.tables \in (SUBSET ValidTables) \ {{}} <=> y.tables # {} /\ y.tables \subseteq ValidTables
      BY <3>2, Zenon
    <3>4. QED  BY <2>7, <3>1, <3>3, Zenon
  <2>9. QED  BY <2>5, <2>8, Zenon
<1>11. Accepts(e) <=>
         /\ d.name \in ValidNames /\ LimitsOk(e)
         /\ \A a \in d.allowedUsers \cup d.allowedGroups : a \notin Blank
         /\ d.host # "" /\ d.dbname # ""
         /\ d.sslmode \in sslModes \cup {""} /\ (d.cert # "" => Disk[d.cert] # <<>>)
         /\ SoundSection(d) /\ \A i \in DOMAIN d.insert : InsertOk(e.insert[i])
  <2>1. DOMAIN e.insert = DOMAIN d.insert  BY <1>4, Zenon
  <2>2. e.name = d.name /\ e.dsn = "" /\ e.host = d.host /\ e.dbname = d.dbname /\ e.cert = d.cert
    BY <1>3, Zenon
  <2>3. QED  BY <1>7, <1>8, <1>9, <2>1, <2>2, RangesNamed, Zenon
<1>12. SoundSection(d) => e.port \in Ports  BY <1>9, Zenon
<1>13. (SoundSection(d) /\ \A i \in DOMAIN d.insert : InsertOk(e.insert[i])) <=>
         (SoundSection(d) /\ \A i \in DOMAIN d.insert :
            SoundSection(d.insert[i]) /\ d.insert[i].tables \in (SUBSET ValidTables) \ {{}})
  BY <1>10, <1>12, Zenon
<1>14. Accepts(e) <=> SoundFields(d)  BY <1>5, <1>11, <1>13, RangesNamed, Zenon
<1>15. QED  BY <1>14, Zenon DEF e

\* The entry that MCP_TIMESCALE_DSN makes is always accepted.
DSNs == Strings \ {""}

LEMMA AcceptsDSN ==
  ASSUME NEW dsn \in DSNs
  PROVE  /\ DSNEntry(dsn) \in Entries /\ DSNEntry(dsn).name = DSNDatabaseName
         /\ DSNEntry(dsn).dsn = dsn /\ DSNEntry(dsn).insert = <<>>
         /\ Accepts(Resolve(DSNEntry(dsn)))
<1> DEFINE d == DSNEntry(dsn)
           e == Resolve(d)
<1>1. /\ d.name = DSNDatabaseName /\ d.dsn = dsn /\ d.insert = <<>>
      /\ d.maxRows = 0 /\ d.statementTimeout = 0 /\ d.maxConnections = 0 /\ d.port = 0
      /\ d.allowedUsers = {} /\ d.allowedGroups = {}
      /\ d.host = "" /\ d.dbname = "" /\ d.sslmode = "" /\ d.cert = "" /\ d.username = ""
      /\ d.usernameFile = "" /\ d.passwordFile = "" /\ d.passwordEnv = ""
  BY DEF DSNEntry
<1>2. d \in Entries
  <2>1. <<>> \in Seq(InsertSections)  BY EmptyTuple
  <2>2. "" \in Strings /\ DSNDatabaseName \in Strings  BY StartupAssumption
  <2>3. PICK n \in Strings, z \in Strings, s \in Seq(InsertSections), c \in {<<>>},
             o \in SUBSET Strings, k \in Int :
          n = DSNDatabaseName /\ z = "" /\ s = <<>> /\ c = <<>> /\ o = {} /\ k = 0
    <3>1. {} \in SUBSET Strings /\ 0 \in Int  BY SMT
    <3>2. QED  BY <2>1, <2>2, <3>1, Zenon
  <2>4. d = [name |-> n, maxRows |-> k, statementTimeout |-> k, maxConnections |-> k,
             allowedUsers |-> o, allowedGroups |-> o, host |-> z, port |-> k, dbname |-> z,
             sslmode |-> z, cert |-> z, username |-> z, usernameFile |-> z,
             passwordFile |-> z, passwordEnv |-> z, insert |-> s, dsn |-> dsn, user |-> c,
             password |-> c]
    BY <2>3 DEF DSNEntry
  <2> HIDE DEF d
  <2>5. dsn \in Strings  BY Zenon DEF DSNs
  <2>6. QED  BY <2>4, <2>5 DEF Entries
<1> HIDE DEF d
<1>3. /\ e.name = d.name /\ e.dsn = d.dsn
      /\ e.allowedUsers = d.allowedUsers /\ e.allowedGroups = d.allowedGroups
      /\ e.host = d.host /\ e.dbname = d.dbname /\ e.cert = d.cert
      /\ e.username = d.username /\ e.usernameFile = d.usernameFile
      /\ e.passwordFile = d.passwordFile /\ e.passwordEnv = d.passwordEnv
      /\ e.maxRows = Or(d.maxRows, DefaultMaxRows)
      /\ e.statementTimeout = Or(d.statementTimeout, DefaultStatementTimeout)
      /\ e.maxConnections = Or(d.maxConnections, DefaultMaxConnections)
  BY <1>2, ResolveIs
<1>4. e.port = d.port /\ e.sslmode = d.sslmode
  <2>1. d.dsn # ""  BY <1>1, Zenon DEF DSNs
  <2>2. QED  BY <1>2, <2>1, ResolveIs, Zenon
<1>5. e.insert = [i \in DOMAIN d.insert |-> e.insert[i]]  BY <1>2, ResolveIs
<1> HIDE DEF e
<1>6. e.insert = <<>>
  <2>1. d.insert = <<>>  BY <1>1
  <2>2. QED  BY <1>5, <2>1, EmptyTuple, Zenon
<1>7. LimitsOk(e)
  <2>1. d.maxRows = 0 /\ d.maxConnections = 0 /\ d.statementTimeout = 0  BY <1>1, Zenon
  <2>2. NumbersOk(d)
    <3>1. \A low, high : InRange(0, low, high)  BY DEF InRange
    <3>2. QED  BY <2>1, <3>1, SMT DEF NumbersOk
  <2>3. d.maxRows \in Int /\ d.maxConnections \in Int /\ d.statementTimeout \in Int
    BY <2>1, SMT
  <2>4. QED  BY <1>3, <2>2, <2>3, LimitsIff, Zenon
<1>8. ValidateDSNOnly(e)
  <2>1. {e.host, e.dbname, e.username, e.usernameFile, e.passwordFile, e.passwordEnv,
         e.sslmode, e.cert} = {""}
    BY <1>1, <1>3, <1>4, Zenon
  <2>2. QED  BY <1>1, <1>4, <1>6, <2>1, Zenon DEF ValidateDSNOnly
<1>9. Accepts(e)
  <2>1. e.name \in ValidNames  BY <1>1, <1>3, StartupAssumption, Zenon
  <2>2. e.dsn # ""  BY <1>1, <1>3, Zenon DEF DSNs
  <2>3. Blank \cap (e.allowedUsers \cup e.allowedGroups) = {}  BY <1>1, <1>3, Zenon
  <2>4. QED  BY <1>7, <1>8, <2>1, <2>2, <2>3, RangesNamed, Zenon
<1>10. QED  BY <1>1, <1>2, <1>9 DEF d, e

-----------------------------------------------------------------------------
(* The entries Load has read *)

FileLen == IF setup.file = "read" THEN Len(setup.entries) ELSE 0

\* Facts about sequences.
LEMMA EmptySeqIs == \A S : <<>> \in Seq(S) /\ Len(<<>>) = 0
OBVIOUS

LEMMA OneSeqIs == ASSUME NEW S, NEW x \in S  PROVE  <<x>> \in Seq(S) /\ Len(<<x>>) = 1 /\ <<x>>[1] = x
OBVIOUS

LEMMA ConcatIs ==
  ASSUME NEW S, NEW a \in Seq(S), NEW b \in Seq(S)
  PROVE  /\ a \o b \in Seq(S) /\ Len(a \o b) = Len(a) + Len(b)
         /\ \A i \in 1 .. Len(a) : (a \o b)[i] = a[i]
         /\ \A i \in 1 .. Len(b) : (a \o b)[Len(a) + i] = b[i]
OBVIOUS

LEMMA RawIs ==
  ASSUME setup \in Setups
  PROVE  /\ FileLen \in Nat /\ Len(Raw) = FileLen + (IF setup.dsn = "" THEN 0 ELSE 1)
         /\ Raw \in Seq(Entries)
         /\ \A i \in 1 .. FileLen : Raw[i] = setup.entries[i] /\ Raw[i] \in FileEntries
         /\ setup.dsn # "" => setup.dsn \in DSNs /\ Raw[FileLen + 1] = DSNEntry(setup.dsn)
<1> DEFINE A == IF setup.file = "read" THEN setup.entries ELSE <<>>
           B == IF setup.dsn = "" THEN <<>> ELSE <<DSNEntry(setup.dsn)>>
<1>1. setup.entries \in Seq(FileEntries) /\ setup.dsn \in Strings  BY StartupAssumption, Zenon
<1>2. A \in Seq(FileEntries) /\ Len(A) = FileLen /\ FileLen \in Nat
  <2>1. CASE setup.file = "read"  BY <1>1, <2>1 DEF FileLen
  <2>2. CASE setup.file # "read"  BY <2>2 DEF FileLen
  <2>3. QED  BY <2>1, <2>2, Zenon
<1>3. FileEntries \subseteq Entries  BY DEF FileEntries
<1>4. A \in Seq(Entries)  BY <1>2, <1>3
<1>5. setup.dsn # "" => setup.dsn \in DSNs  BY <1>1, Zenon DEF DSNs
<1>6. /\ B \in Seq(Entries) /\ Len(B) = (IF setup.dsn = "" THEN 0 ELSE 1)
      /\ setup.dsn # "" => B[1] = DSNEntry(setup.dsn)
  <2>1. CASE setup.dsn = ""
    <3>1. PICK b : b = B /\ b = <<>>  BY <2>1, Zenon
    <3>2. b \in Seq(Entries) /\ Len(b) = 0  BY <3>1, EmptySeqIs
    <3> HIDE DEF B
    <3>3. QED  BY <2>1, <3>1, <3>2, Zenon
  <2>2. CASE setup.dsn # ""
    <3>1. PICK x \in Entries : x = DSNEntry(setup.dsn)  BY <1>5, <2>2, AcceptsDSN, Zenon
    <3>2. PICK b : b = B /\ b = <<x>>  BY <2>2, <3>1, Zenon
    <3>3. b \in Seq(Entries) /\ Len(b) = 1 /\ b[1] = x  BY <3>2, OneSeqIs
    <3> HIDE DEF B
    <3>4. Len(B) = (IF setup.dsn = "" THEN 0 ELSE 1)  BY <2>2, <3>2, <3>3, Zenon
    <3>5. QED  BY <2>2, <3>1, <3>2, <3>3, <3>4, Zenon
  <2>3. QED  BY <2>1, <2>2, Zenon
<1>7. Raw = A \o B  BY DEF Raw
<1>8. \A i \in 1 .. FileLen : A[i] = setup.entries[i] /\ A[i] \in FileEntries
  BY <1>1, <1>2 DEF FileLen
<1> HIDE DEF A, B
<1>9. PICK n \in Nat, m \in 0 .. 1, a \in Seq(Entries), b \in Seq(Entries) :
        n = FileLen /\ m = Len(b) /\ a = A /\ b = B /\ m = IF setup.dsn = "" THEN 0 ELSE 1
  <2>1. (IF setup.dsn = "" THEN 0 ELSE 1) \in 0 .. 1  OBVIOUS
  <2>2. QED  BY <1>2, <1>4, <1>6, <2>1, Zenon
<1>10. /\ Raw \in Seq(Entries) /\ Len(Raw) = n + m
       /\ \A i \in 1 .. n : Raw[i] = A[i]
       /\ m = 1 => Raw[n + 1] = B[1]
  <2>1. a \in Seq(Entries) /\ b \in Seq(Entries) /\ Len(a) = n /\ Len(b) = m
    BY <1>2, <1>4, <1>6, <1>9, Zenon
  <2>2. PICK r : r = a \o b  OBVIOUS
  <2>3. /\ r \in Seq(Entries) /\ Len(r) = n + m
        /\ \A i \in 1 .. n : r[i] = a[i]
        /\ m = 1 => r[n + 1] = b[1]
    <3>1. /\ r \in Seq(Entries) /\ Len(r) = Len(a) + Len(b)
          /\ \A i \in 1 .. Len(a) : r[i] = a[i]
          /\ \A i \in 1 .. Len(b) : r[Len(a) + i] = b[i]
      <4>1. /\ a \o b \in Seq(Entries) /\ Len(a \o b) = Len(a) + Len(b)
            /\ \A i \in 1 .. Len(a) : (a \o b)[i] = a[i]
            /\ \A i \in 1 .. Len(b) : (a \o b)[Len(a) + i] = b[i]
        BY <2>1, ConcatIs
      <4>2. QED  BY <2>2, <4>1, Zenon
    <3>2. n \in Nat /\ m \in 0 .. 1 /\ Len(a) = n /\ Len(b) = m  BY <2>1
    <3>3. m = 1 => 1 \in 1 .. Len(b)  BY <3>2
    <3>4. m = 1 => r[n + 1] = b[1]  BY <3>1, <3>2, <3>3
    <3>5. QED  BY <3>1, <3>2, <3>4
  <2>4. QED  BY <1>7, <1>9, <2>2, <2>3, Zenon
<1>13. QED
  <2>1. setup.dsn # "" => m = 1  BY <1>9, Zenon
  <2>2. QED  BY <1>5, <1>6, <1>8, <1>9, <1>10, <2>1, Zenon

\* Every entry can be resolved, keeps its name, and is refused only for what
\* the file says of it.
LEMMA RawEntries ==
  ASSUME setup \in Setups
  PROVE  /\ Len(Raw) \in Nat
         /\ \A i \in 1 .. Len(Raw) :
              /\ Raw[i] \in Entries
              /\ Resolve(Raw[i]).name = Raw[i].name /\ Resolve(Raw[i]).dsn = Raw[i].dsn
<1>1. Raw \in Seq(Entries)  BY RawIs
<1>2. ASSUME NEW i \in 1 .. Len(Raw)
      PROVE  /\ Raw[i] \in Entries
             /\ Resolve(Raw[i]).name = Raw[i].name /\ Resolve(Raw[i]).dsn = Raw[i].dsn
  <2>1. Raw[i] \in Entries  BY <1>1
  <2>2. QED  BY <2>1, ResolveIs, Zenon
<1>3. Len(Raw) \in Nat  BY <1>1
<1>4. QED  BY <1>2, <1>3, Zenon

\* An entry is one of the file's, or the DSN's, which is the last one.
LEMMA RawSorted ==
  ASSUME setup \in Setups, NEW i \in 1 .. Len(Raw)
  PROVE  \/ i <= FileLen /\ i \in 1 .. FileLen /\ Raw[i] = setup.entries[i] /\ Raw[i] \in FileEntries
         \/ /\ i > FileLen /\ setup.dsn \in DSNs /\ Raw[i] = DSNEntry(setup.dsn)
            /\ Raw[i].insert = <<>> /\ Raw[i].dsn # "" /\ Raw[i].dsn = setup.dsn
<1>1. PICK n \in Nat, l \in Nat : n = FileLen /\ l = Len(Raw)
  <2>1. FileLen \in Nat /\ Len(Raw) \in Nat  BY RawIs, RawEntries, Zenon
  <2>2. QED  BY <2>1, Zenon
<1>2. (setup.dsn = "" => l = n) /\ (setup.dsn # "" => l = n + 1)
  <2>1. Len(Raw) = FileLen + (IF setup.dsn = "" THEN 0 ELSE 1)  BY RawIs, Zenon
  <2>2. PICK m : m = IF setup.dsn = "" THEN 0 ELSE 1  OBVIOUS
  <2>3. l = n + m  BY <1>1, <2>1, <2>2, Zenon
  <2>4. (setup.dsn = "" => m = 0) /\ (setup.dsn # "" => m = 1)  BY <2>2, Zenon
  <2>5. n + 0 = n  OBVIOUS
  <2>6. QED  BY <2>3, <2>4, <2>5, Zenon
<1>3. i \in 1 .. l  BY <1>1, Zenon
<1>4. CASE i <= n
  <2>1. i \in 1 .. n  BY <1>3, <1>4
  <2>2. i \in 1 .. FileLen /\ i <= FileLen  BY <1>1, <1>4, <2>1, Zenon
  <2>3. Raw[i] = setup.entries[i] /\ Raw[i] \in FileEntries  BY <2>2, RawIs, Zenon
  <2>4. QED  BY <2>2, <2>3, Zenon
<1>5. CASE i > n
  <2>1. l # n  BY <1>3, <1>5
  <2>2. setup.dsn # "" /\ l = n + 1  BY <1>2, <2>1, Zenon
  <2>3. l = n + 1  BY <2>2, Zenon
  <2>4. i = n + 1  BY <1>3, <1>5, <2>3
  <2>5. i > FileLen /\ i = FileLen + 1  BY <1>1, <1>5, <2>4, Zenon
  <2>6. setup.dsn \in DSNs /\ Raw[i] = DSNEntry(setup.dsn)  BY <2>2, <2>5, RawIs, Zenon
  <2>7. Raw[i].insert = <<>> /\ Raw[i].dsn = setup.dsn  BY <2>6, AcceptsDSN, Zenon
  <2>8. QED  BY <2>2, <2>5, <2>6, <2>7, Zenon
<1>6. i <= n \/ i > n  BY <1>3
<1>7. QED  BY <1>4, <1>5, <1>6, Zenon

\* The entries keep their number and their names while they are resolved.
LEMMA PartlyIs ==
  ASSUME setup \in Setups, NEW n
  PROVE  /\ Len(Partly(n)) = Len(Raw) /\ DOMAIN Partly(n) = 1 .. Len(Raw)
         /\ \A i \in 1 .. Len(Raw) :
              Partly(n)[i].name = Raw[i].name /\ Partly(n)[i].dsn = Raw[i].dsn
<1>1. Len(Raw) \in Nat  BY RawEntries
<1>2. Len(Partly(n)) = Len(Raw) /\ DOMAIN Partly(n) = 1 .. Len(Raw)  BY <1>1 DEF Partly
<1>3. ASSUME NEW i \in 1 .. Len(Raw)
      PROVE  Partly(n)[i].name = Raw[i].name /\ Partly(n)[i].dsn = Raw[i].dsn
  <2>1. Partly(n)[i] = IF i <= n THEN Resolve(Raw[i]) ELSE Raw[i]  BY DEF Partly
  <2>2. Resolve(Raw[i]).name = Raw[i].name /\ Resolve(Raw[i]).dsn = Raw[i].dsn  BY RawEntries
  <2>3. QED  BY <2>1, <2>2, Zenon
<1>4. QED  BY <1>2, <1>3, Zenon

\* The setup is read only.
SetupSame ==
  /\ Raw' = Raw /\ \A n : Partly(n)' = Partly(n)
  /\ (FileOk' <=> FileOk) /\ (Distinct' <=> Distinct) /\ (Asked' <=> Asked)
  /\ PrivateFlag' = PrivateFlag

LEMMA SetupKept == ASSUME UNCHANGED setup  PROVE  SetupSame
<1>1. Raw' = Raw  BY DEF Raw
<1>2. \A n : Partly(n)' = Partly(n)  BY <1>1 DEF Partly
<1>3. Distinct' <=> Distinct  BY <1>1 DEF Distinct
<1>4. PrivateFlag' = PrivateFlag  BY DEF PrivateFlag
<1>5. (FileOk' <=> FileOk) /\ (Asked' <=> Asked)  BY <1>4 DEF FileOk, Asked, EnvBool
<1>6. QED  BY <1>1, <1>2, <1>3, <1>4, <1>5, Zenon DEF SetupSame

-----------------------------------------------------------------------------
(* The invariant, step by step *)

LEMMA InitInv == Init => IInv
<1> SUFFICES ASSUME Init PROVE IInv  OBVIOUS
<1>1. Progress  BY DEF Init, Progress
<1>2. Passed /\ Refused /\ Gate
  BY DEF Init, Passed, Refused, Gate, Live, Steps, Early, AuthSteps
<1>3. Storage
  <2>1. store \in [opened: 0 .. 1, closed: 0 .. 1] /\ store.opened = 0 /\ store.closed = 0
    <3>1. store = [opened |-> 0, closed |-> 0]  BY DEF Init
    <3>2. QED  BY <3>1
  <2>2. QED  BY <2>1 DEF Init, Storage
<1>4. Lifted  BY DEF Init, Lifted
<1>5. QED  BY <1>1, <1>2, <1>3, <1>4 DEF Init, IInv, Live, Steps

\* A step that leaves the databases alone keeps what is known of them.
LEMMA ProgressKept ==
  ASSUME Progress, UNCHANGED <<setup, dbs, valid, registry>>
  PROVE  Progress'
<1>1. Raw' = Raw /\ (\A n : Partly(n)' = Partly(n)) /\ (Distinct' <=> Distinct)
  BY SetupKept DEF SetupSame
<1>2. QED  BY <1>1 DEF Progress

LEMMA ValidateTransportInv == ASSUME IInv, ValidateTransport  PROVE  IInv'
<1> USE DEF IInv, ValidateTransport, Step
<1>1. Progress'  BY ProgressKept
<1>2. SetupSame  BY SetupKept DEF SetupSame
<1>3. Passed'  BY <1>2 DEF SetupSame, Passed, Live, Steps, Early, AuthSteps, Transports
<1>4. Refused'  BY <1>2 DEF SetupSame, Refused, Live, Steps, Transports
<1>5. Gate'  BY <1>2 DEF SetupSame, Gate
<1>6. Storage'  BY DEF Storage, Early
<1>7. Lifted'  BY <1>2 DEF SetupSame, Lifted, Asked, EnvBool
<1>8. QED  BY <1>1, <1>3, <1>4, <1>5, <1>6, <1>7 DEF Live, Steps

LEMMA LoadConfigInv == ASSUME IInv, LoadConfig  PROVE  IInv'
<1> USE DEF IInv, LoadConfig, Step
<1>1. Progress'  BY ProgressKept
<1>2. SetupSame  BY SetupKept DEF SetupSame
<1>3. Passed'  BY <1>2 DEF SetupSame, Passed, Live, Steps, Early, AuthSteps
<1>4. Refused'  BY <1>2 DEF SetupSame, Refused, Live, Steps
<1>5. Gate'  BY <1>2 DEF SetupSame, Gate
<1>6. Storage'  BY DEF Storage, Early
<1>7. Lifted'  BY <1>2 DEF SetupSame, Lifted, Asked, EnvBool
<1>8. QED  BY <1>1, <1>3, <1>4, <1>5, <1>6, <1>7 DEF Live, Steps

LEMMA ChooseTransportInv == ASSUME IInv, ChooseTransport  PROVE  IInv'
<1>1. /\ at = "registry" /\ err' = "" /\ Len(registry) = Len(dbs)
      /\ UNCHANGED <<setup, dbs, valid, registry, store, guard, mux>>
  BY Zenon DEF ChooseTransport, Step
<1>2. at' = IF setup.transport = "stdio" THEN "serving"
            ELSE IF EnvBool(setup.oauth) THEN "private" ELSE "mux"
  BY Zenon DEF ChooseTransport, Step
<1>3. Progress'  BY <1>1, ProgressKept DEF IInv
<1>4. SetupSame  BY <1>1, SetupKept
<1>5. Len(registry) = Len(Raw)
  <2>1. dbs = Partly(valid)  BY <1>1 DEF IInv, Passed, Live, Steps
  <2>2. QED  BY <1>1, <2>1, PartlyIs DEF IInv
<1>6. Passed'
  BY <1>1, <1>2, <1>4, <1>5 DEF IInv, SetupSame, Passed, Live, Steps, Early, AuthSteps
<1>7. Refused'  BY <1>1, <1>2, <1>4 DEF IInv, SetupSame, Refused, Live, Steps
<1>8. Gate'
  <2>1. mux = "none"  BY <1>1 DEF IInv, Gate
  <2>2. QED  BY <1>1, <1>2, <2>1 DEF Gate
<1>9. Storage'
  <2>1. mux = "none" /\ store.opened = 0 /\ store.closed = 0
    BY <1>1 DEF IInv, Gate, Storage, Early
  <2>2. /\ at' \in {"serving", "private", "mux"}
        /\ at' = "mux" => ~EnvBool(setup.oauth)
    BY <1>2, Zenon
  <2>3. /\ setup' = setup /\ store' = store /\ mux' = mux
        /\ store \in [opened: 0 .. 1, closed: 0 .. 1]
    BY <1>1 DEF IInv, Storage
  <2>4. at' = "mux" => ~EnvBool(setup'.oauth)  BY <2>2, <2>3, Zenon
  <2>5. store'.opened = 0 /\ store'.closed = 0 /\ mux' = "none"
    BY <2>1, <2>3
  <2>6. QED  BY <2>2, <2>3, <2>4, <2>5 DEF Storage
<1>10. Lifted'
  <2>1. mux = "none"  BY <1>1 DEF IInv, Gate
  <2>2. QED  BY <1>1, <1>2, <1>4, <2>1 DEF IInv, SetupSame, Lifted, Asked, EnvBool
<1>11. QED  BY <1>1, <1>2, <1>3, <1>6, <1>7, <1>8, <1>9, <1>10 DEF IInv, Live, Steps

LEMMA AllowPrivateURLsFromEnvInv == ASSUME IInv, AllowPrivateURLsFromEnv  PROVE  IInv'
<1> USE DEF IInv, AllowPrivateURLsFromEnv, Step
<1>1. Progress'  BY ProgressKept
<1>2. SetupSame  BY SetupKept DEF SetupSame
<1>3. Passed'  BY <1>2 DEF SetupSame, Passed, Live, Steps, Early, AuthSteps
<1>4. Refused'  BY <1>2 DEF SetupSame, Refused, Passed, AuthSteps, Live, Steps
<1>5. Gate'  BY <1>2 DEF SetupSame, Gate
<1>6. Storage'  BY DEF Storage, Early
<1>7. Lifted'  BY <1>2 DEF SetupSame, Lifted, Asked, EnvBool
<1>8. QED  BY <1>1, <1>3, <1>4, <1>5, <1>6, <1>7 DEF Live, Steps

LEMMA NewEncryptorInv == ASSUME IInv, NewEncryptor  PROVE  IInv'
<1> USE DEF IInv, NewEncryptor, Step
<1>1. Progress'  BY ProgressKept
<1>2. SetupSame  BY SetupKept DEF SetupSame
<1>3. Passed'  BY <1>2 DEF SetupSame, Passed, Live, Steps, Early, AuthSteps
<1>4. Refused'  BY <1>2 DEF SetupSame, Refused, Live, Steps
<1>5. Gate'  BY <1>2 DEF SetupSame, Gate
<1>6. Storage'  BY DEF Storage, Early
<1>7. Lifted'  BY <1>2 DEF SetupSame, Lifted, Asked, EnvBool
<1>8. QED  BY <1>1, <1>3, <1>4, <1>5, <1>6, <1>7 DEF Live, Steps

LEMMA LoadInv == ASSUME IInv, Load  PROVE  IInv'
<1>1. /\ at = "file" /\ at' = (IF FileOk THEN "entries" ELSE "unwind")
      /\ err' = (IF FileOk THEN "" ELSE "file")
      /\ UNCHANGED <<setup, valid, registry, store, guard, mux>>
  BY Zenon DEF Load, Step, FileOk
<1>2. SetupSame  BY <1>1, SetupKept
<1>3. dbs = <<>> /\ valid = 0 /\ registry = <<>>  BY <1>1 DEF IInv, Passed
<1>4. dbs' = Raw \/ (dbs' = <<>> /\ ~FileOk)  BY Zenon DEF Load, Raw, FileOk
<1>5. dbs' = Partly(0) \/ (dbs' = <<>> /\ ~FileOk)
  <2>1. Raw \in Seq(Entries)  BY RawIs DEF IInv
  <2>2. Partly(0) = Raw  BY <2>1 DEF Partly
  <2>3. QED  BY <1>4, <2>2
<1>6. Len(Raw) \in Nat  BY RawEntries DEF IInv
<1>7. Progress'
  <2>1. CASE dbs' = <<>>  BY <1>1, <1>3, <2>1 DEF Progress
  <2>2. CASE dbs' = Partly(0)
    <3>1. registry' = <<>>  BY <1>1, <1>3
    <3>2. <<>> = [i \in 1 .. 0 |-> NewDatabase(dbs'[i])]  OBVIOUS
    <3>3. \E n \in 0 .. Len(Raw') : registry' = [i \in 1 .. n |-> NewDatabase(dbs'[i])]
      <4>1. 0 \in 0 .. Len(Raw')  BY <1>2, <1>6 DEF SetupSame
      <4>2. registry' = [i \in 1 .. 0 |-> NewDatabase(dbs'[i])]  BY <3>1, <3>2, Zenon
      <4>3. QED  BY <4>1, <4>2, Zenon
    <3>4. valid' = 0 /\ valid' \in 0 .. Len(Raw') /\ dbs' = Partly(valid)'
      <4>1. valid' = 0 /\ Raw' = Raw /\ Partly(0)' = Partly(0)  BY <1>1, <1>2, <1>3 DEF SetupSame
      <4>2. QED  BY <1>6, <2>2, <4>1
    <3>5. QED  BY <3>1, <3>3, <3>4, Zenon DEF Progress
  <2>3. QED  BY <1>5, <2>1, <2>2
<1>8. Passed'
  <2>1. valid' = 0 /\ registry' = <<>> /\ valid' \in 0 .. Len(Raw')
    <3>1. valid' = valid /\ registry' = registry  BY <1>1, Zenon
    <3>2. Raw' = Raw  BY <1>2 DEF SetupSame
    <3>3. QED  BY <1>3, <1>6, <3>1, <3>2
  <2>2. FileOk => dbs' = Partly(valid)'
    <3>1. Partly(0)' = Partly(0)  BY <1>2 DEF SetupSame
    <3>2. QED  BY <1>5, <2>1, <3>1
  <2>3. CASE ~FileOk
    <3>1. at' = "unwind"  BY <1>1, <2>3
    <3>2. QED  BY <3>1 DEF Passed, Live, Steps, Early, AuthSteps
  <2>4. CASE FileOk
    <3>1. at' = "entries" /\ setup' = setup /\ FileOk'  BY <1>1, <1>2, <2>4 DEF SetupSame
    <3>2. \A i \in 1 .. valid' : Accepts(dbs'[i])  BY <2>1
    <3>3. setup.transport \in Transports /\ EnvBoolOk(setup.debug) /\ EnvBoolOk(setup.oauth)
      BY <1>1 DEF IInv, Passed, Live, Steps
    <3>4. dbs' = Partly(valid)'  BY <2>2, <2>4
    <3>5. QED  BY <2>1, <3>1, <3>2, <3>3, <3>4 DEF Passed, Live, Steps, Early, AuthSteps
  <2>5. QED  BY <2>3, <2>4
<1>9. Refused'  BY <1>1, <1>2 DEF IInv, SetupSame, Refused, Live, Steps
<1>10. Gate' /\ mux = "none"  BY <1>1 DEF IInv, Gate
<1>11. Storage'  BY <1>1 DEF IInv, Storage, Early
<1>12. Lifted'  BY <1>1, <1>2, <1>10 DEF IInv, SetupSame, Lifted, Asked, EnvBool
<1>13. QED
  BY <1>1, <1>7, <1>8, <1>9, <1>10, <1>11, <1>12 DEF IInv, Live, Steps

\* An entry is validated in place: one more of them is resolved.
LEMMA PartlyNext ==
  ASSUME setup \in Setups, valid \in 0 .. Len(Raw), valid # Len(Raw), dbs = Partly(valid)
  PROVE  /\ dbs[valid + 1] = Raw[valid + 1]
         /\ [dbs EXCEPT ![valid + 1] = Resolve(Raw[valid + 1])] = Partly(valid + 1)
         /\ valid + 1 \in 1 .. Len(Raw)
<1>1. Len(Raw) \in Nat  BY RawEntries
<1>2. valid + 1 \in 1 .. Len(Raw)  BY <1>1
<1>3. dbs[valid + 1] = Raw[valid + 1]  BY <1>2 DEF Partly
<1>4. PICK x : x = Resolve(Raw[valid + 1])  OBVIOUS
<1>5. ASSUME NEW i \in 1 .. Len(Raw)
      PROVE  [dbs EXCEPT ![valid + 1] = x][i] = Partly(valid + 1)[i]
  <2>1. CASE i = valid + 1  BY <1>2, <1>4, <2>1 DEF Partly
  <2>2. CASE i # valid + 1
    <3>1. i <= valid + 1 <=> i <= valid  BY <2>2, <1>1
    <3>2. QED  BY <2>2, <3>1 DEF Partly
  <2>3. QED  BY <2>1, <2>2
<1>6. DOMAIN [dbs EXCEPT ![valid + 1] = x] = 1 .. Len(Raw)  BY DEF Partly
<1>7. [dbs EXCEPT ![valid + 1] = x] = Partly(valid + 1)  BY <1>5, <1>6 DEF Partly
<1>8. QED  BY <1>2, <1>3, <1>4, <1>7

LEMMA ValidateNextInv == ASSUME IInv, ValidateNext  PROVE  IInv'
<1> DEFINE e == Resolve(dbs[valid + 1])
           ok == Accepts(e)
<1>1. /\ valid < Len(dbs) /\ at = "entries" /\ at' = (IF ok THEN "entries" ELSE "unwind")
      /\ err' = (IF ok THEN "" ELSE "entries")
      /\ dbs' = [dbs EXCEPT ![valid + 1] = e] /\ valid' = valid + 1
      /\ UNCHANGED <<setup, registry, store, guard, mux>>
  BY Zenon DEF ValidateNext, Step
<1>2. SetupSame  BY <1>1, SetupKept
<1>3. /\ FileOk /\ dbs = Partly(valid) /\ valid \in 0 .. Len(Raw) /\ registry = <<>>
      /\ \A i \in 1 .. valid : Accepts(dbs[i])
  BY <1>1 DEF IInv, Passed, Live, Steps
<1>4. setup \in Setups /\ Len(Raw) \in Nat  BY RawEntries DEF IInv
<1>5. valid # Len(Raw)
  <2>1. Len(dbs) = Len(Raw)  BY <1>3, <1>4, PartlyIs, Zenon
  <2>2. valid < Len(dbs) /\ valid \in 0 .. Len(Raw)  BY <1>1, <1>3, Zenon
  <2>3. QED  BY <1>4, <2>1, <2>2
<1>6. /\ dbs[valid + 1] = Raw[valid + 1] /\ valid + 1 \in 1 .. Len(Raw)
      /\ [dbs EXCEPT ![valid + 1] = Resolve(Raw[valid + 1])] = Partly(valid + 1)
  BY <1>3, <1>4, <1>5, PartlyNext, Zenon
<1>7. e = Resolve(Raw[valid + 1])  BY <1>6, Zenon
<1> HIDE DEF e
<1>8. /\ dbs' = Partly(valid + 1) /\ dbs' = Partly(valid)' /\ Raw' = Raw
      /\ valid' \in 0 .. Len(Raw') /\ registry' = <<>> /\ FileOk'
  <2>1. dbs' = Partly(valid + 1)  BY <1>1, <1>6, <1>7, Zenon
  <2>2. Raw' = Raw /\ FileOk' /\ registry' = <<>>  BY <1>1, <1>2, <1>3, Zenon DEF SetupSame
  <2>3. valid' = valid + 1 /\ valid' \in 0 .. Len(Raw')
    <3>1. valid' = valid + 1 /\ Len(Raw') = Len(Raw)  BY <1>1, <2>2, Zenon
    <3>2. valid + 1 \in 1 .. Len(Raw)  BY <1>6, Zenon
    <3>3. QED  BY <1>4, <3>1, <3>2
  <2>4. Partly(valid)' = Partly(valid + 1)  BY <2>2, <2>3 DEF Partly
  <2>5. QED  BY <2>1, <2>2, <2>3, <2>4
<1>9. Progress'
  <2>1. 0 \in 0 .. Len(Raw')  BY <1>4, <1>8
  <2>2. <<>> = [i \in 1 .. 0 |-> NewDatabase(dbs'[i])]  OBVIOUS
  <2>3. QED  BY <1>8, <2>1, <2>2, Zenon DEF Progress
<1>10. Passed'
  <2>1. CASE ~ok
    <3>1. at' = "unwind"  BY <1>1, <2>1, Zenon
    <3>2. QED  BY <3>1 DEF Passed, Live, Steps, Early, AuthSteps
  <2>2. CASE ok
    <3>1. at' = "entries" /\ setup' = setup  BY <1>1, <2>2, Zenon
    <3>2. ASSUME NEW i \in 1 .. valid'  PROVE  Accepts(dbs'[i])
      <4>1. i \in 1 .. valid + 1  BY <1>1
      <4>2. dbs'[i] = Resolve(Raw[i]) /\ i \in 1 .. Len(Raw)  BY <1>3, <1>4, <1>6, <1>8, <4>1 DEF Partly
      <4>3. CASE i = valid + 1  BY <1>7, <2>2, <4>2, <4>3, Zenon
      <4>4. CASE i # valid + 1
        <5>1. i \in 1 .. valid  BY <1>3, <1>4, <4>1, <4>4
        <5>2. dbs[i] = Resolve(Raw[i])  BY <1>3, <4>2, <5>1 DEF Partly
        <5>3. QED  BY <1>3, <4>2, <5>1, <5>2, Zenon
      <4>5. QED  BY <4>3, <4>4
    <3>3. setup.transport \in Transports /\ EnvBoolOk(setup.debug) /\ EnvBoolOk(setup.oauth)
      BY <1>1 DEF IInv, Passed, Live, Steps
    <3>4. QED  BY <1>8, <3>1, <3>2, <3>3 DEF Passed, Live, Steps, Early, AuthSteps
  <2>3. QED  BY <2>1, <2>2
<1>11. Refused'
  <2>1. ~ok => \E i \in 1 .. Len(Raw) : ~Accepts(Resolve(Raw[i]))  BY <1>6, <1>7, Zenon
  <2>2. QED  BY <1>1, <1>2, <1>8, <2>1 DEF IInv, SetupSame, Refused, Live, Steps
<1>12. Gate' /\ mux = "none"  BY <1>1 DEF IInv, Gate
<1>13. Storage'  BY <1>1 DEF IInv, Storage, Early
<1>14. Lifted'  BY <1>1, <1>2, <1>12 DEF IInv, SetupSame, Lifted, Asked, EnvBool
<1>15. QED
  BY <1>1, <1>9, <1>10, <1>11, <1>12, <1>13, <1>14 DEF IInv, Live, Steps

LEMMA CheckNamesInv == ASSUME IInv, CheckNames  PROVE  IInv'
<1>1. /\ valid = Len(dbs) /\ at = "entries"
      /\ UNCHANGED <<setup, dbs, valid, registry, store, guard, mux>>
  BY Zenon DEF CheckNames, Step
<1>2. SetupSame  BY <1>1, SetupKept
<1>3. /\ FileOk /\ dbs = Partly(valid) /\ valid \in 0 .. Len(Raw) /\ registry = <<>>
      /\ \A i \in 1 .. valid : Accepts(dbs[i])
  BY <1>1 DEF IInv, Passed, Live, Steps
<1>4. setup \in Setups /\ Len(Raw) \in Nat  BY RawEntries DEF IInv
<1>5. valid = Len(Raw)  BY <1>1, <1>3, <1>4, PartlyIs
<1>6. (\A i, j \in DOMAIN dbs : dbs[i].name = dbs[j].name => i = j) <=> Distinct
  <2>1. DOMAIN dbs = 1 .. Len(Raw) /\ \A i \in 1 .. Len(Raw) : dbs[i].name = Raw[i].name
    BY <1>3, <1>4, PartlyIs, Zenon
  <2>2. QED  BY <2>1, Zenon DEF Distinct
<1>7. /\ at' = IF Distinct THEN "registry" ELSE "unwind"
      /\ err' = IF Distinct THEN "" ELSE "entries"
  BY <1>6, Zenon DEF CheckNames, Step
<1>8. Progress'  BY <1>1, ProgressKept DEF IInv
<1>9. Passed'
  <2>1. CASE ~Distinct
    <3>1. at' = "unwind"  BY <1>7, <2>1
    <3>2. QED  BY <3>1 DEF Passed, Live, Steps, Early, AuthSteps
  <2>2. CASE Distinct
    <3>1. at' = "registry" /\ setup' = setup  BY <1>1, <1>7, <2>2, Zenon
    <3>2. /\ FileOk' /\ Distinct' /\ Raw' = Raw /\ dbs' = Partly(valid)'
          /\ valid' = Len(Raw') /\ valid' \in 0 .. Len(Raw') /\ registry' = <<>>
          /\ \A i \in 1 .. Len(Raw') : Accepts(dbs'[i])
      <4>1. FileOk' /\ Distinct' /\ Raw' = Raw /\ Partly(valid)' = Partly(valid)
        BY <1>1, <1>2, <1>3, <2>2 DEF SetupSame, Partly
      <4>2. QED  BY <1>1, <1>3, <1>4, <1>5, <4>1
    <3>3. setup.transport \in Transports /\ EnvBoolOk(setup.debug) /\ EnvBoolOk(setup.oauth)
      BY <1>1 DEF IInv, Passed, Live, Steps
    <3>4. \A i \in 1 .. Len(registry') : PoolsOk(dbs'[i])  BY <3>2
    <3>5. QED  BY <3>1, <3>2, <3>3, <3>4 DEF Passed, Live, Steps, Early, AuthSteps
  <2>3. QED  BY <2>1, <2>2
<1>10. Refused'  BY <1>1, <1>2, <1>3, <1>7 DEF IInv, SetupSame, Refused, Live, Steps
<1>11. Gate' /\ mux = "none"  BY <1>1, <1>7 DEF IInv, Gate
<1>12. Storage'  BY <1>1, <1>7 DEF IInv, Storage, Early
<1>13. Lifted'  BY <1>1, <1>2, <1>7, <1>11 DEF IInv, SetupSame, Lifted, Asked, EnvBool
<1>14. QED
  BY <1>1, <1>7, <1>8, <1>9, <1>10, <1>11, <1>12, <1>13 DEF IInv, Live, Steps

\* A step of NewRegistry fails only on what cannot be parsed: the names differ
\* already.
LEMMA BuildNextInv == ASSUME IInv, BuildNext  PROVE  IInv'
<1> DEFINE k == Len(registry) + 1
           ok == PoolsOk(dbs[k]) /\ \A i \in DOMAIN registry : registry[i].name # dbs[k].name
<1>1. /\ Len(registry) < Len(dbs) /\ at = "registry"
      /\ at' = (IF ok THEN "registry" ELSE "unwind") /\ err' = (IF ok THEN "" ELSE "registry")
      /\ registry' = (IF ok THEN Append(registry, NewDatabase(dbs[k])) ELSE registry)
      /\ UNCHANGED <<setup, dbs, valid, store, guard, mux>>
  BY Zenon DEF BuildNext, Step
<1>2. SetupSame  BY <1>1, SetupKept
<1>3. /\ FileOk /\ dbs = Partly(valid) /\ valid = Len(Raw) /\ Distinct
      /\ \A i \in 1 .. Len(Raw) : Accepts(dbs[i])
      /\ \A i \in 1 .. Len(registry) : PoolsOk(dbs[i])
  BY <1>1 DEF IInv, Passed, Live, Steps
<1>4. setup \in Setups /\ Len(Raw) \in Nat  BY RawEntries DEF IInv
<1>5. /\ Len(dbs) = Len(Raw)
      /\ \A i \in 1 .. Len(Raw) : dbs[i].name = Raw[i].name /\ dbs[i].dsn = Raw[i].dsn
  BY <1>3, <1>4, PartlyIs, Zenon
<1>6. PICK n \in 0 .. Len(Raw) : registry = [i \in 1 .. n |-> NewDatabase(dbs[i])]
  <2>1. CASE registry = <<>>
    <3>1. 0 \in 0 .. Len(Raw)  BY <1>4
    <3>2. <<>> = [i \in 1 .. 0 |-> NewDatabase(dbs[i])]  OBVIOUS
    <3>3. QED  BY <2>1, <3>1, <3>2, Zenon
  <2>2. CASE registry # <<>>  BY <2>2, Zenon DEF IInv, Progress
  <2>3. QED  BY <2>1, <2>2
<1>7. Len(registry) = n /\ k = n + 1 /\ k \in 1 .. Len(Raw) /\ DOMAIN registry = 1 .. n
  <2>1. Len(registry) = n /\ DOMAIN registry = 1 .. n  BY <1>4, <1>6
  <2>2. n < Len(Raw)  BY <1>1, <1>5, <2>1
  <2>3. QED  BY <1>4, <1>6, <2>1, <2>2
<1> HIDE DEF k
<1>8. \A i \in DOMAIN registry : registry[i].name # dbs[k].name
  <2> SUFFICES ASSUME NEW i \in 1 .. n, registry[i].name = dbs[k].name  PROVE FALSE
    BY <1>7, Zenon
  <2>1. registry[i] = NewDatabase(dbs[i])  BY <1>6
  <2>2. NewDatabase(dbs[i]).name = dbs[i].name  BY DEF NewDatabase
  <2>3. i \in 1 .. Len(Raw) /\ i # k  BY <1>4, <1>6, <1>7
  <2>4. Raw[i].name = Raw[k].name  BY <1>5, <1>7, <2>1, <2>2, <2>3, Zenon
  <2>5. QED  BY <1>3, <1>7, <2>3, <2>4, Zenon DEF Distinct
<1>9. ok <=> PoolsOk(dbs[k])  BY <1>8, Zenon
<1>10. dbs[k] = Resolve(Raw[k])
  <2>1. k <= valid  BY <1>3, <1>4, <1>7
  <2>2. QED  BY <1>3, <1>7, <2>1 DEF Partly
<1> HIDE DEF ok
<1>11. Raw' = Raw /\ FileOk' /\ Distinct' /\ dbs' = Partly(valid)'
  <2>1. Raw' = Raw /\ FileOk' /\ Distinct' /\ valid' = valid /\ dbs' = dbs
    BY <1>1, <1>2, <1>3, Zenon DEF SetupSame
  <2>2. Partly(valid)' = Partly(valid)  BY <2>1 DEF Partly
  <2>3. QED  BY <1>3, <2>1, <2>2
<1>12. ok => registry' = [i \in 1 .. n + 1 |-> NewDatabase(dbs[i])]
  <2> SUFFICES ASSUME ok  PROVE  registry' = [i \in 1 .. n + 1 |-> NewDatabase(dbs[i])]
    OBVIOUS
  <2> DEFINE D(i) == NewDatabase(dbs[i])
  <2>1. registry' = Append(registry, D(n + 1))  BY <1>1, <1>7, Zenon
  <2>2. registry = [i \in 1 .. n |-> D(i)] /\ n \in Nat  BY <1>4, <1>6
  <2> HIDE DEF D
  <2>3. Append([i \in 1 .. n |-> D(i)], D(n + 1)) = [i \in 1 .. n + 1 |-> D(i)]  BY <2>2
  <2>4. registry' = [i \in 1 .. n + 1 |-> D(i)]  BY <2>1, <2>2, <2>3, Zenon
  <2>5. QED  BY <2>4 DEF D
<1>13. Progress'
  <2>1. PICK m \in 0 .. Len(Raw) : registry' = [i \in 1 .. m |-> NewDatabase(dbs[i])]
    <3>1. CASE ok
      <4>1. n + 1 \in 0 .. Len(Raw)  BY <1>4, <1>7
      <4>2. QED  BY <1>12, <3>1, <4>1, Zenon
    <3>2. CASE ~ok  BY <1>1, <1>6, <3>2, Zenon
    <3>3. QED  BY <3>1, <3>2
  <2>2. dbs' = dbs /\ valid' = valid /\ Raw' = Raw  BY <1>1, <1>11, Zenon
  <2>3. valid' \in 0 .. Len(Raw') /\ valid' = Len(Raw')  BY <1>3, <1>4, <2>2
  <2>4. QED  BY <1>3, <1>11, <2>1, <2>2, <2>3, Zenon DEF Progress
<1>14. Passed'
  <2>1. CASE ~ok
    <3>1. at' = "unwind"  BY <1>1, <2>1, Zenon
    <3>2. QED  BY <3>1 DEF Passed, Live, Steps, Early, AuthSteps
  <2>2. CASE ok
    <3>1. at' = "registry" /\ setup' = setup  BY <1>1, <2>2, Zenon
    <3>2. ASSUME NEW i \in 1 .. Len(registry')  PROVE  PoolsOk(dbs'[i])
      <4>1. Len(registry') = n + 1  BY <1>4, <1>12, <2>2
      <4>2. CASE i = n + 1  BY <1>1, <1>7, <1>9, <2>2, <4>2, Zenon
      <4>3. CASE i # n + 1
        <5>1. i \in 1 .. Len(registry)  BY <1>4, <1>7, <4>1, <4>3
        <5>2. QED  BY <1>1, <1>3, <5>1, Zenon
      <4>4. QED  BY <4>2, <4>3
    <3>3. valid' = Len(Raw') /\ valid' \in 0 .. Len(Raw')
      <4>1. valid' = valid /\ Raw' = Raw  BY <1>1, <1>11, Zenon
      <4>2. QED  BY <1>3, <1>4, <4>1
    <3>4. \A i \in 1 .. Len(Raw') : Accepts(dbs'[i])  BY <1>1, <1>3, <1>11, Zenon
    <3>5. setup.transport \in Transports /\ EnvBoolOk(setup.debug) /\ EnvBoolOk(setup.oauth)
      BY <1>1 DEF IInv, Passed, Live, Steps
    <3>6. QED
      BY <1>11, <3>1, <3>2, <3>3, <3>4, <3>5 DEF Passed, Live, Steps, Early, AuthSteps
  <2>3. QED  BY <2>1, <2>2
<1>15. Refused'
  <2>1. ~ok => \E i \in 1 .. Len(Raw) : ~PoolsOk(Resolve(Raw[i]))
    BY <1>7, <1>9, <1>10, Zenon
  <2>2. QED  BY <1>1, <1>2, <1>11, <2>1 DEF IInv, SetupSame, Refused, Live, Steps
<1>16. Gate' /\ mux = "none"  BY <1>1 DEF IInv, Gate
<1>17. Storage'  BY <1>1 DEF IInv, Storage, Early
<1>18. Lifted'  BY <1>1, <1>2, <1>16 DEF IInv, SetupSame, Lifted, Asked, EnvBool
<1>19. QED
  BY <1>1, <1>13, <1>14, <1>15, <1>16, <1>17, <1>18 DEF IInv, Live, Steps

LEMMA NewProviderInv == ASSUME IInv, NewProvider  PROVE  IInv'
<1> DEFINE here == EnvBool(PrivateFlag) /\ setup.provider = "dex"
<1>1. PICK built \in BOOLEAN :
        /\ at = "provider" /\ UNCHANGED <<setup, dbs, valid, registry, store, mux>>
        /\ at' = (IF built /\ (here => DexConfigOk) THEN "encryptor" ELSE "unwind")
        /\ err' = (IF built /\ (here => DexConfigOk) THEN "" ELSE "provider")
        /\ guard' = [guard EXCEPT !.provider = here /\ DexConfigOk /\ built]
  BY Zenon DEF NewProvider, Step
<1>2. SetupSame  BY <1>1, SetupKept
<1>3. Progress'  BY <1>1, ProgressKept DEF IInv
<1>4. at' \in {"encryptor", "unwind"} /\ (at' = "encryptor" => err' = "") /\ err' \in {"", "provider"}
  BY <1>1, Zenon
<1>5. Passed'
  BY <1>1, <1>2, <1>4 DEF IInv, SetupSame, Passed, Live, Steps, Early, AuthSteps
<1>6. Refused'  BY <1>1, <1>2, <1>4 DEF IInv, SetupSame, Refused, Live, Steps
<1>7. Gate' /\ mux = "none" /\ mux' = "none"  BY <1>1, <1>4 DEF IInv, Gate
<1>8. Storage'  BY <1>1, <1>4 DEF IInv, Storage, Early
<1>9. Lifted'
  <2>1. PICK p \in BOOLEAN : p <=> here /\ DexConfigOk /\ built  OBVIOUS
  <2>2. p = (here /\ DexConfigOk /\ built)  BY <2>1, Zenon
  <2>3. guard' = [guard EXCEPT !.provider = p] /\ guard \in [provider: BOOLEAN, jwks: BOOLEAN]
    <3>1. guard' = [guard EXCEPT !.provider = p]  BY <1>1, <2>2, Zenon
    <3>2. QED  BY <3>1 DEF IInv, Lifted
  <2>4. /\ guard' \in [provider: BOOLEAN, jwks: BOOLEAN]
        /\ guard'.provider = p /\ guard'.jwks = guard.jwks
    BY <2>3
  <2>5. guard.jwks => Asked  BY DEF IInv, Lifted
  <2>6. p => Asked  BY <2>1, Zenon DEF Asked
  <2>7. at' = "encryptor" => p = (Asked /\ setup.provider = "dex")
    <3>1. at' = "encryptor" => built /\ (here => DexConfigOk)  BY <1>1, Zenon
    <3>2. QED  BY <2>1, <3>1, Zenon DEF Asked
  <2>8. Asked' = Asked /\ setup' = setup  BY <1>1, <1>2 DEF SetupSame, Asked, EnvBool
  <2>9. QED  BY <1>4, <1>7, <2>4, <2>5, <2>6, <2>7, <2>8 DEF Lifted
<1>10. QED
  BY <1>1, <1>3, <1>4, <1>5, <1>6, <1>7, <1>8, <1>9 DEF IInv, Live, Steps

LEMMA OpenStorageInv == ASSUME IInv, OpenStorage  PROVE  IInv'
<1>1. PICK opened \in BOOLEAN :
        /\ at = "storage" /\ UNCHANGED <<setup, dbs, valid, registry, guard, mux>>
        /\ at' = (IF opened THEN "oauthconfig" ELSE "unwind")
        /\ err' = (IF opened THEN "" ELSE "storage")
        /\ store' = IF opened THEN [store EXCEPT !.opened = @ + 1] ELSE store
  BY Zenon DEF OpenStorage, Step
<1>2. SetupSame  BY <1>1, SetupKept
<1>3. Progress'  BY <1>1, ProgressKept DEF IInv
<1>4. at' \in {"oauthconfig", "unwind"} /\ (at' = "oauthconfig" => err' = "") /\ err' \in {"", "storage"}
  BY <1>1, Zenon
<1>5. Passed'
  BY <1>1, <1>2, <1>4 DEF IInv, SetupSame, Passed, Live, Steps, Early, AuthSteps
<1>6. Refused'  BY <1>1, <1>2, <1>4 DEF IInv, SetupSame, Refused, Live, Steps
<1>7. Gate' /\ mux = "none" /\ mux' = "none"  BY <1>1, <1>4 DEF IInv, Gate
<1>8. Storage'
  <2>1. store \in [opened: 0 .. 1, closed: 0 .. 1] /\ store.opened = 0 /\ store.closed = 0
    BY <1>1 DEF IInv, Storage
  <2>2. CASE opened
    <3>1. /\ store' \in [opened: 0 .. 1, closed: 0 .. 1]
          /\ store'.opened = 1 /\ store'.closed = 0 /\ at' = "oauthconfig"
      <4>1. store' = [store EXCEPT !.opened = @ + 1] /\ at' = "oauthconfig"  BY <1>1, <2>2, Zenon
      <4>2. QED  BY <2>1, <4>1
    <3>2. QED  BY <3>1 DEF Storage, Early
  <2>3. CASE ~opened
    <3>1. store' = store /\ at' = "unwind"  BY <1>1, <2>3
    <3>2. QED  BY <2>1, <3>1 DEF Storage, Early
  <2>4. QED  BY <2>2, <2>3
<1>9. Lifted'  BY <1>1, <1>2, <1>4, <1>7 DEF IInv, SetupSame, Lifted, Asked, EnvBool
<1>10. QED
  BY <1>1, <1>3, <1>4, <1>5, <1>6, <1>7, <1>8, <1>9 DEF IInv, Live, Steps

LEMMA OAuthConfigInv == ASSUME IInv, OAuthConfig  PROVE  IInv'
<1>1. PICK ok \in BOOLEAN :
        /\ at = "oauthconfig" /\ UNCHANGED <<setup, dbs, valid, registry, mux>>
        /\ at' = (IF ok THEN "oauthserver" ELSE "unwind")
        /\ err' = (IF ok THEN "" ELSE "oauthconfig")
        /\ store' = (IF ok THEN store ELSE [store EXCEPT !.closed = @ + 1])
        /\ guard' = [guard EXCEPT !.jwks = ok /\ EnvBool(PrivateFlag)]
  BY Zenon DEF OAuthConfig, Step, Release, CloseStore
<1>2. SetupSame  BY <1>1, SetupKept
<1>3. Progress'  BY <1>1, ProgressKept DEF IInv
<1>4. at' \in {"oauthserver", "unwind"} /\ (at' = "oauthserver" => err' = "") /\ err' \in {"", "oauthconfig"}
  BY <1>1, Zenon
<1>5. Passed'
  BY <1>1, <1>2, <1>4 DEF IInv, SetupSame, Passed, Live, Steps, Early, AuthSteps
<1>6. Refused'  BY <1>1, <1>2, <1>4 DEF IInv, SetupSame, Refused, Live, Steps
<1>7. Gate' /\ mux = "none" /\ mux' = "none"  BY <1>1, <1>4 DEF IInv, Gate
<1>8. Storage'
  <2>1. store \in [opened: 0 .. 1, closed: 0 .. 1] /\ store.opened = 1 /\ store.closed = 0
    BY <1>1 DEF IInv, Storage
  <2>2. CASE ~ok
    <3>1. /\ store' \in [opened: 0 .. 1, closed: 0 .. 1]
          /\ store'.opened = 1 /\ store'.closed = 1 /\ at' = "unwind"
      <4>1. store' = [store EXCEPT !.closed = @ + 1] /\ at' = "unwind"  BY <1>1, <2>2, Zenon
      <4>2. QED  BY <2>1, <4>1
    <3>2. QED  BY <3>1 DEF Storage, Early
  <2>3. CASE ok
    <3>1. store' = store /\ at' = "oauthserver"  BY <1>1, <2>3
    <3>2. QED  BY <2>1, <3>1 DEF Storage, Early
  <2>4. QED  BY <2>2, <2>3
<1>9. Lifted'
  <2>1. PICK p \in BOOLEAN : p <=> ok /\ EnvBool(PrivateFlag)  OBVIOUS
  <2>2. p = (ok /\ EnvBool(PrivateFlag))  BY <2>1, Zenon
  <2>3. guard' = [guard EXCEPT !.jwks = p] /\ guard \in [provider: BOOLEAN, jwks: BOOLEAN]
    <3>1. guard' = [guard EXCEPT !.jwks = p]  BY <1>1, <2>2, Zenon
    <3>2. QED  BY <3>1 DEF IInv, Lifted
  <2>4. /\ guard' \in [provider: BOOLEAN, jwks: BOOLEAN]
        /\ guard'.jwks = p /\ guard'.provider = guard.provider
    BY <2>3
  <2>5. /\ guard.provider => Asked
        /\ guard.provider = (Asked /\ setup.provider = "dex")
    BY <1>1 DEF IInv, Lifted
  <2>6. (p => Asked) /\ (at' = "oauthserver" => p = Asked)
    <3>1. at' = "oauthserver" => ok  BY <1>1, Zenon
    <3>2. Asked \in BOOLEAN  BY DEF Asked, EnvBool
    <3>3. Asked <=> EnvBool(PrivateFlag)  BY DEF Asked
    <3>4. QED  BY <2>1, <3>1, <3>2, <3>3, Zenon
  <2>7. Asked' = Asked /\ setup' = setup  BY <1>1, <1>2 DEF SetupSame, Asked, EnvBool
  <2>8. QED  BY <1>4, <1>7, <2>4, <2>5, <2>6, <2>7 DEF Lifted
<1>10. QED
  BY <1>1, <1>3, <1>4, <1>5, <1>6, <1>7, <1>8, <1>9 DEF IInv, Live, Steps

LEMMA NewServerInv == ASSUME IInv, NewServer  PROVE  IInv'
<1>1. PICK ok \in BOOLEAN :
        /\ at = "oauthserver" /\ UNCHANGED <<setup, dbs, valid, registry, guard, mux>>
        /\ at' = (IF ok THEN "mux" ELSE "unwind")
        /\ err' = (IF ok THEN "" ELSE "oauthserver")
        /\ store' = (IF ok THEN store ELSE [store EXCEPT !.closed = @ + 1])
  BY Zenon DEF NewServer, Step, Release, CloseStore
<1>2. SetupSame  BY <1>1, SetupKept
<1>3. Progress'  BY <1>1, ProgressKept DEF IInv
<1>4. at' \in {"mux", "unwind"} /\ (at' = "mux" => err' = "") /\ err' \in {"", "oauthserver"}
  BY <1>1, Zenon
<1>5. Passed'
  BY <1>1, <1>2, <1>4 DEF IInv, SetupSame, Passed, Live, Steps, Early, AuthSteps
<1>6. Refused'  BY <1>1, <1>2, <1>4 DEF IInv, SetupSame, Refused, Live, Steps
<1>7. Gate' /\ mux = "none" /\ mux' = "none"  BY <1>1, <1>4 DEF IInv, Gate
<1>8. Storage'
  <2>1. /\ store \in [opened: 0 .. 1, closed: 0 .. 1] /\ store.opened = 1 /\ store.closed = 0
        /\ EnvBool(setup.oauth)
    BY <1>1 DEF IInv, Storage, Passed, AuthSteps
  <2>2. CASE ~ok
    <3>1. /\ store' \in [opened: 0 .. 1, closed: 0 .. 1]
          /\ store'.opened = 1 /\ store'.closed = 1 /\ at' = "unwind"
      <4>1. store' = [store EXCEPT !.closed = @ + 1] /\ at' = "unwind"  BY <1>1, <2>2, Zenon
      <4>2. QED  BY <2>1, <4>1
    <3>2. QED  BY <3>1 DEF Storage, Early
  <2>3. CASE ok
    <3>1. store' = store /\ at' = "mux" /\ EnvBool(setup'.oauth)  BY <1>1, <2>1, <2>3
    <3>2. QED  BY <2>1, <3>1 DEF Storage, Early
  <2>4. QED  BY <2>2, <2>3
<1>9. Lifted'  BY <1>1, <1>2, <1>4, <1>7 DEF IInv, SetupSame, Lifted, Asked, EnvBool
<1>10. QED
  BY <1>1, <1>3, <1>4, <1>5, <1>6, <1>7, <1>8, <1>9 DEF IInv, Live, Steps

LEMMA BuildMCPMuxInv == ASSUME IInv, BuildMCPMux  PROVE  IInv'
<1>1. /\ at = "mux" /\ at' = "serving" /\ err' = ""
      /\ UNCHANGED <<setup, dbs, valid, registry, store, guard>>
      /\ mux' = IF EnvBool(setup.oauth) THEN "gated" ELSE "open"
  BY Zenon DEF BuildMCPMux, Step
<1>2. SetupSame  BY <1>1, SetupKept
<1>3. Progress'  BY <1>1, ProgressKept DEF IInv
<1>4. mux' \in {"gated", "open"} /\ (mux' = "gated" <=> EnvBool(setup'.oauth))
  BY <1>1, Zenon
<1>5. Passed'
  BY <1>1, <1>2 DEF IInv, SetupSame, Passed, Live, Steps, Early, AuthSteps
<1>6. Refused'  BY <1>1, <1>2 DEF IInv, SetupSame, Refused, Live, Steps
<1>7. Gate'  BY <1>1, <1>4 DEF IInv, Gate, Passed
<1>8. Storage'  BY <1>1, <1>4 DEF IInv, Storage, Early
<1>9. Lifted'  BY <1>1, <1>2, <1>4 DEF IInv, SetupSame, Lifted, Asked, EnvBool
<1>10. QED
  BY <1>1, <1>3, <1>4, <1>5, <1>6, <1>7, <1>8, <1>9 DEF IInv, Live, Steps

\* Auth exists exactly where the storage is still open.
LEMMA UnwindInv == ASSUME IInv, Unwind  PROVE  IInv'
<1>1. /\ at \in {"unwind", "serving"} /\ at' = "exited"
      /\ UNCHANGED <<setup, err, dbs, valid, registry, guard, mux>>
      /\ store' = IF HasAuth THEN [store EXCEPT !.closed = @ + 1] ELSE store
  BY Zenon DEF Unwind, CloseStore
<1>2. SetupSame  BY <1>1, SetupKept
<1>3. Progress'  BY <1>1, ProgressKept DEF IInv
<1>4. Passed'  BY <1>1 DEF Passed, Live, Steps, Early, AuthSteps
<1>5. Refused'  BY <1>1, <1>2 DEF IInv, SetupSame, Refused, Live, Steps
<1>6. Gate'  BY <1>1 DEF IInv, Gate
<1>7. Storage'
  <2>1. store \in [opened: 0 .. 1, closed: 0 .. 1]  BY DEF IInv, Storage
  <2>2. CASE at = "unwind"
    <3>1. ~HasAuth /\ store.closed = store.opened
      BY <2>2 DEF IInv, Gate, HasAuth, Storage
    <3>2. store' = store  BY <1>1, <3>1
    <3>3. QED  BY <1>1, <2>1, <3>1, <3>2 DEF Storage, Early
  <2>3. CASE at = "serving"
    <3>1. HasAuth <=> mux = "gated"  BY <2>3 DEF IInv, Gate, HasAuth
    <3>2. store.closed = 0 /\ (store.opened = 1 <=> HasAuth)  BY <2>3, <3>1 DEF IInv, Storage
    <3>3. CASE HasAuth
      <4>1. store' \in [opened: 0 .. 1, closed: 0 .. 1] /\ store'.closed = store'.opened
        BY <1>1, <2>1, <3>2, <3>3
      <4>2. QED  BY <1>1, <4>1 DEF Storage, Early
    <3>4. CASE ~HasAuth
      <4>1. store' = store /\ store.closed = store.opened  BY <1>1, <2>1, <3>2, <3>4
      <4>2. QED  BY <1>1, <2>1, <4>1 DEF Storage, Early
    <3>5. QED  BY <3>3, <3>4
  <2>4. QED  BY <1>1, <2>2, <2>3
<1>8. Lifted'  BY <1>1, <1>2 DEF IInv, SetupSame, Lifted, Asked, EnvBool
<1>9. QED  BY <1>1, <1>3, <1>4, <1>5, <1>6, <1>7, <1>8 DEF IInv

LEMMA NextInv == ASSUME IInv, [Next]_vars  PROVE  IInv'
<1>1. CASE UNCHANGED vars
  <2>1. UNCHANGED <<setup, at, err, dbs, valid, registry, store, guard, mux>>  BY <1>1 DEF vars
  <2>2. SetupSame  BY <2>1, SetupKept
  <2>3. Progress'  BY <2>1, ProgressKept DEF IInv
  <2>4. Passed'
    <3>1. Partly(valid)' = Partly(valid)  BY <2>1, <2>2 DEF SetupSame, Partly
    <3>2. QED  BY <2>1, <2>2, <3>1 DEF IInv, SetupSame, Passed
  <2>5. Refused'  BY <2>1, <2>2 DEF IInv, SetupSame, Refused
  <2>6. Gate' /\ Storage'  BY <2>1 DEF IInv, Gate, Storage
  <2>7. Lifted'  BY <2>1, <2>2 DEF IInv, SetupSame, Lifted, Asked, EnvBool
  <2>8. QED  BY <2>1, <2>3, <2>4, <2>5, <2>6, <2>7 DEF IInv
<1>2. CASE Next
  BY <1>2, ValidateTransportInv, LoadConfigInv, LoadInv, ValidateNextInv, CheckNamesInv,
     BuildNextInv, ChooseTransportInv, AllowPrivateURLsFromEnvInv, NewProviderInv,
     NewEncryptorInv, OpenStorageInv, OAuthConfigInv, NewServerInv, BuildMCPMuxInv,
     UnwindInv, Zenon DEF Next
<1>3. QED  BY <1>1, <1>2

-----------------------------------------------------------------------------
(* The theorems *)

\* The start goes through states of IInv only.
THEOREM Invariant == Spec => []IInv
<1>1. Init => IInv  BY InitInv
<1>2. IInv /\ [Next]_vars => IInv'  BY NextInv
<1>3. QED  BY <1>1, <1>2, PTL DEF Spec

\* Whichever step of the start fails, the variables have their types, OAuth's
\* storage is closed when the process exits if it was opened, and it is open
\* while a gated server serves (runServe's deferred calls, NewAuth's errors).
THEOREM StorageAlwaysReleased == Spec => []StorageReleased
<1>1. IInv => StorageReleased
  <2> SUFFICES ASSUME IInv  PROVE  StorageReleased  OBVIOUS
  <2>1. setup \in Setups /\ Len(Raw) \in Nat  BY RawEntries DEF IInv
  <2>2. valid \in 0 .. Len(dbs) /\ Len(registry) \in 0 .. Len(dbs)
    <3>1. CASE dbs = <<>> /\ valid = 0 /\ registry = <<>>  BY <3>1
    <3>2. CASE ~(dbs = <<>> /\ valid = 0 /\ registry = <<>>)
      <4>1. PICK n \in 0 .. Len(Raw) : registry = [i \in 1 .. n |-> NewDatabase(dbs[i])]
        BY <3>2, Zenon DEF IInv, Progress
      <4>2. valid \in 0 .. Len(Raw) /\ dbs = Partly(valid)  BY <3>2, Zenon DEF IInv, Progress
      <4>3. Len(dbs) = Len(Raw)  BY <2>1, <4>2, PartlyIs, Zenon
      <4>4. n \in Nat /\ n <= Len(Raw)  BY <2>1
      <4>5. Len(registry) = n  BY <4>1, <4>4
      <4>6. QED  BY <2>1, <4>2, <4>3, <4>4, <4>5
    <3>3. QED  BY <3>1, <3>2
  <2>3. store \in [opened: 0 .. 1, closed: 0 .. 1]  BY DEF IInv, Storage
  <2>4. store.closed <= store.opened /\ (at = "exited" => store.closed = store.opened)
    <3>1. at \in Live => store.closed = 0
      BY DEF IInv, Storage, Live, Steps, Early
    <3>2. at \in {"unwind", "exited"} => store.closed = store.opened  BY DEF IInv, Storage
    <3>3. at \in Live \/ at \in {"unwind", "exited"}  BY DEF IInv
    <3>4. QED  BY <2>3, <3>1, <3>2, <3>3
  <2>5. store.opened \in 0 .. 1 /\ store.closed \in 0 .. store.opened  BY <2>3, <2>4
  <2>6. guard \in [provider: BOOLEAN, jwks: BOOLEAN]  BY DEF IInv, Lifted
  <2>7. TypeOK  BY <2>2, <2>5, <2>6 DEF IInv, TypeOK, Live, Steps
  <2>8. at = "serving" /\ mux = "gated" => store.opened = 1 /\ store.closed = 0
    BY DEF IInv, Storage
  <2>9. QED  BY <2>4, <2>7, <2>8 DEF StorageReleased
<1>2. QED  BY <1>1, Invariant, PTL

\* A server either has every request pass ValidateToken or runs tool calls as
\* the local caller, never both and never neither (gateWithAuth, localCaller).
THEOREM RequestsGated == Spec => []Gated
<1>1. IInv => Gated
  <2> SUFFICES ASSUME IInv, at = "serving"
      PROVE  ((mux = "gated") # LocalCaller) /\ (mux = "none" => setup.transport = "stdio")
    BY DEF Gated
  <2>1. CASE setup.transport = "stdio"
    <3>1. mux = "none"  BY <2>1 DEF IInv, Gate
    <3>2. QED  BY <2>1, <3>1 DEF LocalCaller
  <2>2. CASE setup.transport # "stdio"
    <3>1. mux = IF EnvBool(setup.oauth) THEN "gated" ELSE "open"  BY <2>2 DEF IInv, Gate
    <3>2. QED  BY <2>2, <3>1 DEF LocalCaller
  <2>3. QED  BY <2>1, <2>2
<1>2. QED  BY <1>1, Invariant, PTL

\* The address checks are lifted only where the operator's variable, or its
\* alias, asks for it, and where OAuth gates requests the provider's and the
\* JWKS client's are lifted together (allowPrivateURLsFromEnv, NewAuth).
THEOREM GuardLiftedTogether == Spec => []GuardLifted
<1>1. IInv => GuardLifted
  <2> SUFFICES ASSUME IInv  PROVE  GuardLifted  OBVIOUS
  <2> DEFINE asked == setup.private = "true" \/ (setup.private = "" /\ setup.alias = "true")
  <2>1. asked = Asked
    BY Zenon DEF Asked, EnvBool, PrivateFlag
  <2>2. /\ guard.provider \/ guard.jwks => Asked
        /\ mux = "gated" => guard.jwks = Asked /\ guard.provider = (Asked /\ setup.provider = "dex")
    BY DEF IInv, Lifted
  <2> HIDE DEF asked
  <2>3. /\ guard.provider \/ guard.jwks => asked
        /\ mux = "gated" => guard.jwks = asked /\ guard.provider = (asked /\ setup.provider = "dex")
    BY <2>1, <2>2, Zenon
  <2>4. QED  BY <2>3, Zenon DEF GuardLifted, asked
<1>2. QED  BY <1>1, Invariant, PTL

-----------------------------------------------------------------------------
(* What the pools of a database connect as *)

\* A section that resolves has the user and the password it names.
LEMMA OwnIs ==
  ASSUME NEW s, NEW pool, pool.user = ResolveUser(s), pool.password = ResolvePassword(s),
         ResolveUser(s) # <<>>, ResolvePassword(s) # <<>>
  PROVE  Own(s, pool)
BY Zenon DEF Own, ResolveUser, ResolvePassword

\* What the copy of an entry for its pool for inserts takes from where.
LEMMA CopyIs ==
  ASSUME NEW d \in Entries, NEW c, DOMAIN c = DOMAIN d, NEW in, NEW p, p = InsertCopy(c, in)
  PROVE  /\ p.dsn = c.dsn /\ p.host = in.host /\ p.port = in.port /\ p.dbname = c.dbname
         /\ p.sslmode = c.sslmode /\ p.cert = c.cert /\ p.user = in.user
         /\ p.password = in.password /\ p.maxConnections = c.maxConnections
         /\ p.statementTimeout = c.statementTimeout
<1>1. DOMAIN c = {"name", "maxRows", "statementTimeout", "maxConnections", "allowedUsers",
                  "allowedGroups", "host", "port", "dbname", "sslmode", "cert", "username",
                  "usernameFile", "passwordFile", "passwordEnv", "insert", "dsn", "user",
                  "password"}
  BY DEF Entries
<1>2. QED  BY <1>1 DEF InsertCopy

\* The ranges of Limited and the port of Apart, each behind a name.
Timeouts == 10 .. 6000
Sizes == 1 .. 64

LEMMA LimitedNamed ==
  ASSUME NEW r
  PROVE  Limited(r) <=> \A p \in {r.read} \cup {r.insert[k] : k \in DOMAIN r.insert} :
                          p.timeout \in Timeouts /\ p.conns \in Sizes
BY SMT DEF Limited, Timeouts, Sizes

LEMMA ApartNamed ==
  ASSUME NEW e, NEW r
  PROVE  Apart(e, r) <=>
           /\ Own(e, r.read) /\ r.read.host = e.host
           /\ DOMAIN r.insert = DOMAIN e.insert
           /\ \A k \in DOMAIN e.insert :
                LET in == e.insert[k] w == r.insert[k] IN
                /\ Own(in, w) /\ ~w.readOnly /\ w.dsn = ""
                /\ w.host = IF in.host = "" THEN e.host ELSE in.host
                /\ w.port = IF in.port # 0 THEN in.port
                            ELSE IF e.port # 0 THEN e.port ELSE DefaultPort
                /\ <<w.dbname, w.sslmode, w.cert>> = <<r.read.dbname, r.read.sslmode, r.read.cert>>
BY SMT DEF Apart, DefaultPort

\* An accepted entry is limited.
LEMMA AcceptedLimits ==
  ASSUME NEW d \in Entries, Accepts(Resolve(d))
  PROVE  Resolve(d).statementTimeout \in Timeouts /\ Resolve(d).maxConnections \in Sizes
<1>1. LimitsOk(Resolve(d))  BY RangesNamed, Zenon
<1>2. PICK e, t, m : e = Resolve(d) /\ t = e.statementTimeout /\ m = e.maxConnections  OBVIOUS
<1>3. t = Or(d.statementTimeout, DefaultStatementTimeout) /\ d.statementTimeout \in Int
  <2>1. d.statementTimeout \in Int  BY DEF Entries
  <2>2. QED  BY <1>2, <2>1, ResolveIs, Zenon
<1>4. t \in Int  BY <1>3 DEF Or, DefaultStatementTimeout
<1>5. t >= 10 /\ t <= 6000 /\ m \in 1 .. 64
  BY <1>1, <1>2, SMT DEF LimitsOk, MaxStatementTimeout, MaxMaxConnections
<1>6. t \in 10 .. 6000  BY <1>4, <1>5, SMT
<1>7. t \in Timeouts /\ m \in Sizes  BY <1>5, <1>6, SMT DEF Timeouts, Sizes
<1>8. QED  BY <1>2, <1>7, Zenon

\* An accepted entry without a DSN, and its insert sections, resolve.
LEMMA AcceptedSections ==
  ASSUME NEW d \in Entries, Accepts(Resolve(d)), d.dsn = ""
  PROVE  /\ ResolveUser(d) # <<>> /\ ResolvePassword(d) # <<>>
         /\ \A k \in DOMAIN d.insert :
              ResolveUser(d.insert[k]) # <<>> /\ ResolvePassword(d.insert[k]) # <<>>
<1>1. PICK e : e = Resolve(d)  OBVIOUS
<1>2. /\ e.dsn = "" /\ e.user = ResolveUser(d) /\ e.password = ResolvePassword(d)
      /\ DOMAIN e.insert = DOMAIN d.insert
      /\ \A k \in DOMAIN d.insert : /\ e.insert[k].user = ResolveUser(d.insert[k])
                                    /\ e.insert[k].password = ResolvePassword(d.insert[k])
  BY <1>1, ResolveIs
<1>3. Resolved(e) /\ \A k \in DOMAIN e.insert : InsertOk(e.insert[k])
  BY <1>1, <1>2, RangesNamed, Zenon
<1>4. \A k \in DOMAIN e.insert : Resolved(e.insert[k])  BY <1>3, RangesNamed, Zenon
<1>5. QED  BY <1>2, <1>3, <1>4, Zenon DEF Resolved

\* Both pools of a database that was accepted.
LEMMA RolesOf ==
  ASSUME NEW d \in Entries, Accepts(Resolve(d)), NEW r, r = NewDatabase(Resolve(d))
  PROVE  /\ r.name = d.name /\ r.read.readOnly /\ r.read.dsn = d.dsn /\ Limited(r)
         /\ r.insert = [k \in DOMAIN d.insert |-> r.insert[k]]
         /\ d.dsn = "" => Apart(d, r)
<1>1. PICK e : e = Resolve(d)  OBVIOUS
<1>2. /\ e.name = d.name /\ e.dsn = d.dsn /\ e.host = d.host /\ DOMAIN e = DOMAIN d
      /\ d.dsn = "" => e.user = ResolveUser(d) /\ e.password = ResolvePassword(d)
      /\ DOMAIN e.insert = DOMAIN d.insert
  BY <1>1, ResolveIs
<1>3. d.dsn = "" =>
        \A k \in DOMAIN d.insert :
          LET in == d.insert[k] v == e.insert[k] IN
          /\ v.host = (IF in.host = "" THEN d.host ELSE in.host)
          /\ v.port = Or(in.port, Or(d.port, DefaultPort))
          /\ v.user = ResolveUser(in) /\ v.password = ResolvePassword(in)
  BY <1>1, ResolveIs, Zenon
<1>4. e.statementTimeout \in Timeouts /\ e.maxConnections \in Sizes
  BY <1>1, AcceptedLimits
<1>5. /\ r.name = e.name /\ r.read = PoolConfig(e, TRUE)
      /\ r.insert = [k \in DOMAIN e.insert |-> PoolConfig(InsertCopy(e, e.insert[k]), FALSE)]
  BY <1>1 DEF NewDatabase
<1>6. PICK p : p = r.read  OBVIOUS
<1>7. /\ p.dsn = e.dsn /\ p.host = e.host /\ p.dbname = e.dbname /\ p.sslmode = e.sslmode
      /\ p.cert = e.cert /\ p.user = e.user /\ p.password = e.password
      /\ p.conns = e.maxConnections /\ p.timeout = e.statementTimeout /\ p.readOnly = TRUE
  <2>1. p = PoolConfig(e, TRUE)  BY <1>5, <1>6
  <2>2. QED  BY <2>1 DEF PoolConfig
<1>8. ASSUME NEW k \in DOMAIN d.insert, NEW w, w = r.insert[k]
      PROVE  /\ w.dsn = e.dsn /\ w.host = e.insert[k].host /\ w.port = e.insert[k].port
             /\ w.dbname = e.dbname /\ w.sslmode = e.sslmode /\ w.cert = e.cert
             /\ w.user = e.insert[k].user /\ w.password = e.insert[k].password
             /\ w.conns = e.maxConnections /\ w.timeout = e.statementTimeout
             /\ w.readOnly = FALSE
  <2>1. PICK c : c = InsertCopy(e, e.insert[k])  OBVIOUS
  <2>2. w = PoolConfig(c, FALSE)  BY <1>2, <1>5, <1>8, <2>1
  <2>3. /\ c.dsn = e.dsn /\ c.host = e.insert[k].host /\ c.port = e.insert[k].port
        /\ c.dbname = e.dbname /\ c.sslmode = e.sslmode /\ c.cert = e.cert
        /\ c.user = e.insert[k].user /\ c.password = e.insert[k].password
        /\ c.maxConnections = e.maxConnections /\ c.statementTimeout = e.statementTimeout
    <3>1. DOMAIN e = DOMAIN d  BY <1>2
    <3>2. QED  BY <2>1, <3>1, CopyIs
  <2>4. /\ w.dsn = c.dsn /\ w.host = c.host /\ w.port = c.port /\ w.dbname = c.dbname
        /\ w.sslmode = c.sslmode /\ w.cert = c.cert /\ w.user = c.user
        /\ w.password = c.password /\ w.conns = c.maxConnections
        /\ w.timeout = c.statementTimeout /\ w.readOnly = FALSE
    BY <2>2 DEF PoolConfig
  <2>5. QED  BY <2>3, <2>4, Zenon
<1>9. r.insert = [k \in DOMAIN d.insert |-> r.insert[k]]  BY <1>2, <1>5
<1>10. \A k \in DOMAIN d.insert :
         r.insert[k].timeout \in Timeouts /\ r.insert[k].conns \in Sizes
  <2> TAKE k \in DOMAIN d.insert
  <2>1. PICK w : w = r.insert[k]  OBVIOUS
  <2>2. w.conns = e.maxConnections /\ w.timeout = e.statementTimeout  BY <1>8, <2>1, Zenon
  <2>3. QED  BY <1>4, <2>1, <2>2
<1>11. ASSUME d.dsn = ""
       PROVE  Own(d, r.read) /\ r.read.host = d.host
  BY <1>2, <1>6, <1>7, <1>11, AcceptedSections, OwnIs, Zenon
<1>12. ASSUME d.dsn = "", NEW k \in DOMAIN d.insert
       PROVE  LET in == d.insert[k] w == r.insert[k] IN
              /\ Own(in, w) /\ ~w.readOnly /\ w.dsn = ""
              /\ w.host = (IF in.host = "" THEN d.host ELSE in.host)
              /\ w.port = Or(in.port, Or(d.port, DefaultPort))
              /\ <<w.dbname, w.sslmode, w.cert>> = <<r.read.dbname, r.read.sslmode, r.read.cert>>
  <2>1. PICK in, v, w : in = d.insert[k] /\ v = e.insert[k] /\ w = r.insert[k]  OBVIOUS
  <2>2. /\ w.dsn = e.dsn /\ w.host = v.host /\ w.port = v.port
        /\ w.dbname = e.dbname /\ w.sslmode = e.sslmode /\ w.cert = e.cert
        /\ w.user = v.user /\ w.password = v.password /\ w.readOnly = FALSE
    BY <1>8, <2>1, Zenon
  <2>3. /\ v.host = (IF in.host = "" THEN d.host ELSE in.host)
        /\ v.port = Or(in.port, Or(d.port, DefaultPort))
        /\ v.user = ResolveUser(in) /\ v.password = ResolvePassword(in)
    BY <1>3, <1>12, <2>1, Zenon
  <2>4. ResolveUser(in) # <<>> /\ ResolvePassword(in) # <<>>
    BY <1>12, <2>1, AcceptedSections, Zenon
  <2>5. Own(in, w)  BY <2>2, <2>3, <2>4, OwnIs, Zenon
  <2>6. <<w.dbname, w.sslmode, w.cert>> = <<p.dbname, p.sslmode, p.cert>>  BY <1>7, <2>2, Zenon
  <2>7. w.dsn = ""  BY <1>2, <1>12, <2>2, Zenon
  <2>8. QED  BY <1>6, <2>1, <2>2, <2>3, <2>5, <2>6, <2>7, Zenon
<1>13. r.name = d.name /\ r.read.readOnly /\ r.read.dsn = d.dsn
  BY <1>2, <1>5, <1>6, <1>7, Zenon
<1>14. r.read.timeout \in Timeouts /\ r.read.conns \in Sizes  BY <1>4, <1>6, <1>7
<1>15. DOMAIN r.insert = DOMAIN d.insert  BY <1>9
<1>16. Limited(r)
  <2>1. \A k \in DOMAIN r.insert : r.insert[k].timeout \in Timeouts /\ r.insert[k].conns \in Sizes
    BY <1>10, <1>15, Zenon
  <2>2. \A q \in {r.read} \cup {r.insert[k] : k \in DOMAIN r.insert} :
          q.timeout \in Timeouts /\ q.conns \in Sizes
    BY <1>14, <2>1, Zenon
  <2>3. QED  BY <2>2, LimitedNamed, Zenon
<1>17. d.dsn = "" => Apart(d, r)
  <2>1. \A v, w : Or(v, Or(w, DefaultPort)) = IF v # 0 THEN v ELSE IF w # 0 THEN w ELSE DefaultPort
    BY Zenon DEF Or
  <2>2. ASSUME d.dsn = "", NEW k \in DOMAIN d.insert, NEW in, in = d.insert[k],
               NEW w, w = r.insert[k]
        PROVE  /\ Own(in, w) /\ ~w.readOnly /\ w.dsn = ""
               /\ w.host = IF in.host = "" THEN d.host ELSE in.host
               /\ w.port = IF in.port # 0 THEN in.port
                           ELSE IF d.port # 0 THEN d.port ELSE DefaultPort
               /\ <<w.dbname, w.sslmode, w.cert>> = <<r.read.dbname, r.read.sslmode, r.read.cert>>
    <3>1. w.port = Or(in.port, Or(d.port, DefaultPort))  BY <1>12, <2>2, Zenon
    <3>2. w.port = IF in.port # 0 THEN in.port
                   ELSE IF d.port # 0 THEN d.port ELSE DefaultPort
      BY <2>1, <3>1, Zenon
    <3>3. /\ Own(in, w) /\ ~w.readOnly /\ w.dsn = ""
          /\ w.host = IF in.host = "" THEN d.host ELSE in.host
          /\ <<w.dbname, w.sslmode, w.cert>> = <<r.read.dbname, r.read.sslmode, r.read.cert>>
      BY <1>12, <2>2, Zenon
    <3>4. QED  BY <3>2, <3>3, Zenon
  <2>3. QED  BY <1>11, <1>15, <2>2, ApartNamed, Zenon
<1>18. QED  BY <1>9, <1>13, <1>16, <1>17, Zenon

\* Reads and inserts never connect as each other's role; every pool is bounded
\* in size and in time; no two databases share a name (NewRegistry, NewDatabase,
\* poolConfig and the validation before them).
THEOREM RolesKeptApart == Spec => []RolesApart
<1>1. ASSUME IInv, NEW i \in DOMAIN registry
      PROVE  LET r == registry[i] IN
             /\ Limited(r) /\ r.read.readOnly
             /\ \A j \in 1 .. i - 1 : registry[j].name # r.name
             /\ i > FileLen => r.insert = <<>>
             /\ r.read.dsn = "" => Apart(setup.entries[i], r)
  <2>1. setup \in Setups /\ Len(Raw) \in Nat  BY <1>1, RawEntries DEF IInv
  <2>2. registry # <<>>
    <3>1. DOMAIN <<>> = 1 .. 0  OBVIOUS
    <3>2. registry = <<>> => i \in 1 .. 0  BY <1>1, <3>1, Zenon
    <3>3. QED  BY <3>2
  <2>3. PICK n \in 0 .. Len(Raw) : registry = [j \in 1 .. n |-> NewDatabase(dbs[j])]
    BY <1>1, <2>2, Zenon DEF IInv, Progress
  <2>4. /\ valid = Len(Raw) /\ dbs = Partly(valid) /\ Distinct
        /\ \A j \in 1 .. Len(Raw) : Accepts(dbs[j])
    BY <1>1, <2>2, Zenon DEF IInv, Progress
  <2>5. n \in Nat /\ n <= Len(Raw) /\ DOMAIN registry = 1 .. n  BY <2>1, <2>3
  <2>6. ASSUME NEW j \in 1 .. n
        PROVE  /\ j \in 1 .. Len(Raw) /\ registry[j] = NewDatabase(Resolve(Raw[j]))
               /\ Accepts(Resolve(Raw[j])) /\ Raw[j] \in Entries /\ registry[j].name = Raw[j].name
    <3>1. j \in 1 .. Len(Raw) /\ j <= Len(Raw)  BY <2>1, <2>5
    <3>2. dbs[j] = Resolve(Raw[j])  BY <2>4, <3>1 DEF Partly
    <3>3. registry[j] = NewDatabase(dbs[j])  BY <2>3
    <3>4. NewDatabase(dbs[j]).name = dbs[j].name  BY DEF NewDatabase
    <3>5. Raw[j] \in Entries /\ Resolve(Raw[j]).name = Raw[j].name
      BY <2>1, <3>1, RawEntries, Zenon
    <3>6. QED  BY <2>4, <3>1, <3>2, <3>3, <3>4, <3>5, Zenon
  <2>7. i \in 1 .. n  BY <1>1, <2>5, Zenon
  <2>8. PICK d \in Entries, r \in {registry[i]} :
          d = Raw[i] /\ r = registry[i] /\ r = NewDatabase(Resolve(d)) /\ Accepts(Resolve(d))
    BY <2>6, <2>7, Zenon
  <2>9. /\ r.name = d.name /\ r.read.readOnly /\ r.read.dsn = d.dsn /\ Limited(r)
        /\ r.insert = [k \in DOMAIN d.insert |-> r.insert[k]]
        /\ d.dsn = "" => Apart(d, r)
    BY <2>8, RolesOf, Zenon
  <2>10. \A j \in 1 .. i - 1 : registry[j].name # r.name
    <3> SUFFICES ASSUME NEW j \in 1 .. i - 1, registry[j].name = r.name  PROVE FALSE
      BY Zenon
    <3>1. j \in 1 .. n /\ j # i  BY <2>5, <2>7
    <3>2. j \in 1 .. Len(Raw) /\ i \in 1 .. Len(Raw)  BY <2>6, <2>7, <3>1, Zenon
    <3>3. Raw[j].name = Raw[i].name  BY <2>6, <2>8, <2>9, <3>1, Zenon
    <3>4. QED  BY <2>4, <3>1, <3>2, <3>3, Zenon DEF Distinct
  <2>11. i \in 1 .. Len(Raw) /\ i \in Nat /\ FileLen \in Nat
    <3>1. i \in 1 .. Len(Raw)  BY <2>6, <2>7, Zenon
    <3>2. FileLen \in Nat  BY <2>1, RawIs, Zenon
    <3>3. QED  BY <2>1, <3>1, <3>2
  <2>12. (i <= FileLen /\ d = setup.entries[i]) \/ (i > FileLen /\ d.insert = <<>> /\ d.dsn # "")
    BY <2>1, <2>8, <2>11, RawSorted, Zenon
  <2>13. i > FileLen => r.insert = <<>>
    <3>1. i > FileLen => d.insert = <<>>
      <4>1. ~(i <= FileLen /\ i > FileLen)  BY <2>11
      <4>2. QED  BY <2>12, <4>1, Zenon
    <3>2. QED  BY <2>9, <3>1, EmptyTuple, Zenon
  <2>14. r.read.dsn = "" => Apart(setup.entries[i], r)  BY <2>9, <2>12, Zenon
  <2>15. QED  BY <2>8, <2>9, <2>10, <2>13, <2>14, Zenon
<1>2. IInv => RolesApart  BY <1>1, Zenon DEF RolesApart, FileLen
<1>3. QED  BY <1>2, Invariant, PTL

-----------------------------------------------------------------------------
(* Which setups start *)

\* As many names as there are entries means that they differ.
LEMMA CountedNames ==
  ASSUME NEW n \in Nat, NEW f, DOMAIN f = 1 .. n, f = [j \in 1 .. n |-> f[j]]
  PROVE  Cardinality({f[j] : j \in DOMAIN f}) = n <=>
           \A j, k \in 1 .. n : f[j] = f[k] => j = k
<1> DEFINE T == {f[j] : j \in 1 .. n}
<1>1. IsFiniteSet(1 .. n) /\ Cardinality(1 .. n) = n
  <2>1. /\ IsFiniteSet(1 .. n)
        /\ Cardinality(1 .. n) = IF 1 > n THEN 0 ELSE n - 1 + 1
    BY FS_Interval
  <2>2. QED  BY <2>1
<1>2. f \in Surjection(1 .. n, T)  BY DEF Surjection
<1> HIDE DEF T
<1>3. Cardinality(T) = Cardinality(1 .. n) <=> f \in Injection(1 .. n, T)
  <2>1. PICK D : D = 1 .. n /\ IsFiniteSet(D) /\ f \in Surjection(D, T)  BY <1>1, <1>2, Zenon
  <2>2. Cardinality(T) = Cardinality(D) <=> f \in Injection(D, T)  BY <2>1, FS_Surjection
  <2>3. QED  BY <2>1, <2>2, Zenon
<1>4. f \in Injection(1 .. n, T) <=> \A j, k \in 1 .. n : f[j] = f[k] => j = k
  <2>1. f \in [1 .. n -> T]  BY DEF T
  <2>2. QED  BY <2>1, Zenon DEF Injection, IsInjective
<1>5. T = {f[j] : j \in DOMAIN f}  BY DEF T
<1>6. QED  BY <1>1, <1>3, <1>4, <1>5, Zenon

\* The names the README speaks of are those of the entries Load has read.
LEMMA NamesAre ==
  ASSUME setup \in Setups
  PROVE  LET f == NamesOf(setup) IN
         /\ f \in Seq(Strings) /\ Len(f) = Len(Raw)
         /\ \A i \in 1 .. Len(Raw) : f[i] = Raw[i].name
<1> DEFINE A == IF setup.file = "read" THEN [i \in DOMAIN setup.entries |-> setup.entries[i].name]
                ELSE <<>>
           B == IF setup.dsn = "" THEN <<>> ELSE <<DSNDatabaseName>>
<1>1. setup.entries \in Seq(FileEntries)  BY StartupAssumption, Zenon
<1>2. A \in Seq(Strings) /\ Len(A) = FileLen /\ FileLen \in Nat
  <2>1. CASE setup.file = "read"
    <3>1. \A e \in FileEntries : e.name \in Strings  BY DEF FileEntries, Entries
    <3>2. PICK E : E = setup.entries /\ E \in Seq(FileEntries)  BY <1>1, Zenon
    <3>3. PICK a : a = [i \in DOMAIN E |-> E[i].name]  OBVIOUS
    <3>4. a \in Seq(Strings) /\ Len(a) = Len(E) /\ Len(E) \in Nat  BY <3>1, <3>2, <3>3
    <3>5. A = a /\ FileLen = Len(E)  BY <2>1, <3>2, <3>3, Zenon DEF FileLen
    <3> HIDE DEF A
    <3>6. QED  BY <3>4, <3>5, Zenon
  <2>2. CASE setup.file # "read"
    <3>1. A = <<>> /\ FileLen = 0  BY <2>2, Zenon DEF FileLen
    <3> HIDE DEF A
    <3>2. <<>> \in Seq(Strings) /\ Len(<<>>) = 0 /\ 0 \in Nat  OBVIOUS
    <3>3. QED  BY <3>1, <3>2, Zenon
  <2>3. QED  BY <2>1, <2>2, Zenon
<1>3. \A i \in 1 .. FileLen : A[i] = Raw[i].name
  <2>1. CASE setup.file = "read"
    <3>1. \A i \in DOMAIN setup.entries : A[i] = setup.entries[i].name  BY <2>1, Zenon
    <3>2. DOMAIN setup.entries = 1 .. Len(setup.entries)  BY <1>1
    <3>3. DOMAIN setup.entries = 1 .. FileLen  BY <2>1, <3>2, Zenon DEF FileLen
    <3> HIDE DEF A
    <3>4. QED  BY <3>1, <3>3, RawIs, Zenon
  <2>2. CASE setup.file # "read"
    <3>1. FileLen = 0  BY <2>2, Zenon DEF FileLen
    <3>2. \A i : i \notin 1 .. FileLen  BY <3>1
    <3>3. QED  BY <3>2, Zenon
  <2>3. QED  BY <2>1, <2>2, Zenon
<1>4. B \in Seq(Strings) /\ Len(B) = (IF setup.dsn = "" THEN 0 ELSE 1)
  <2>1. CASE setup.dsn = ""
    <3>1. PICK b : b = B /\ b = <<>>  BY <2>1, Zenon
    <3>2. b \in Seq(Strings) /\ Len(b) = 0  BY <3>1, EmptySeqIs
    <3> HIDE DEF B
    <3>3. QED  BY <2>1, <3>1, <3>2, Zenon
  <2>2. CASE setup.dsn # ""
    <3>1. PICK x \in Strings : x = DSNDatabaseName  BY StartupAssumption
    <3>2. PICK b : b = B /\ b = <<x>>  BY <2>2, <3>1, Zenon
    <3>3. b \in Seq(Strings) /\ Len(b) = 1  BY <3>2, OneSeqIs
    <3> HIDE DEF B
    <3>4. QED  BY <2>2, <3>2, <3>3, Zenon
  <2>3. QED  BY <2>1, <2>2, Zenon
<1>5. setup.dsn # "" => B[1] = DSNDatabaseName
  <2>1. CASE setup.dsn # ""
    <3>1. B = <<DSNDatabaseName>>  BY <2>1, Zenon
    <3> HIDE DEF B
    <3>2. \A x : <<x>>[1] = x  OBVIOUS
    <3>3. QED  BY <3>1, <3>2, Zenon
  <2>2. QED  BY <2>1, Zenon
<1>6. NamesOf(setup) = A \o B  BY Zenon DEF NamesOf, DSNDatabaseName
<1> HIDE DEF A, B
<1>7. PICK n \in Nat, m \in 0 .. 1, a \in Seq(Strings), b \in Seq(Strings), f \in {A \o B} :
        /\ n = FileLen /\ m = Len(b) /\ a = A /\ b = B /\ f = a \o b
        /\ m = IF setup.dsn = "" THEN 0 ELSE 1
  <2>1. (IF setup.dsn = "" THEN 0 ELSE 1) \in 0 .. 1  OBVIOUS
  <2>2. QED  BY <1>2, <1>4, <2>1, Zenon
<1>8. a \in Seq(Strings) /\ b \in Seq(Strings) /\ Len(a) = n /\ Len(b) = m
  BY <1>2, <1>4, <1>7, Zenon
<1>9. /\ f \in Seq(Strings) /\ Len(f) = n + m
      /\ \A i \in 1 .. n : f[i] = a[i]
      /\ m = 1 => f[n + 1] = b[1]
  <2>1. /\ a \o b \in Seq(Strings) /\ Len(a \o b) = Len(a) + Len(b)
        /\ \A i \in 1 .. Len(a) : (a \o b)[i] = a[i]
        /\ \A i \in 1 .. Len(b) : (a \o b)[Len(a) + i] = b[i]
    BY <1>8, ConcatIs
  <2>2. /\ f \in Seq(Strings) /\ Len(f) = n + m
        /\ \A i \in 1 .. n : f[i] = a[i]
        /\ \A i \in 1 .. m : f[n + i] = b[i]
    BY <1>7, <1>8, <2>1, Zenon
  <2>3. m = 1 => 1 \in 1 .. m  OBVIOUS
  <2>4. QED  BY <2>2, <2>3, Zenon
<1>10. Len(f) = Len(Raw)
  <2>1. Len(Raw) = FileLen + (IF setup.dsn = "" THEN 0 ELSE 1)  BY RawIs, Zenon
  <2>2. QED  BY <1>7, <1>9, <2>1, Zenon
<1>11. ASSUME NEW i \in 1 .. Len(Raw)  PROVE  f[i] = Raw[i].name
  <2>1. i \in 1 .. n + m  BY <1>9, <1>10, Zenon
  <2>2. CASE i <= n
    <3>1. i \in 1 .. n  BY <2>1, <2>2
    <3>2. QED  BY <1>3, <1>7, <1>9, <3>1, Zenon
  <2>3. CASE i > n
    <3>1. m = 1 /\ i = n + 1  BY <2>1, <2>3
    <3>2. setup.dsn # ""
      <4>1. 0 # 1  OBVIOUS
      <4>2. QED  BY <1>7, <3>1, <4>1, Zenon
    <3>3. f[i] = DSNDatabaseName  BY <1>5, <1>7, <1>9, <3>1, <3>2, Zenon
    <3>4. setup.dsn \in DSNs /\ Raw[i] = DSNEntry(setup.dsn)  BY <1>7, <3>1, <3>2, RawIs, Zenon
    <3>5. QED  BY <3>3, <3>4, AcceptsDSN, Zenon
  <2>4. i <= n \/ i > n  BY <2>1
  <2>5. QED  BY <2>2, <2>3, <2>4, Zenon
<1>12. QED  BY <1>6, <1>7, <1>9, <1>10, <1>11, Zenon

\* The pools of an entry of the file can be configured exactly when its hosts
\* and its certificates can be used: the host that an insert section leaves out
\* is the entry's own.
CertOk(d) == d.cert # "" => Disk[d.cert] # <<>> /\ Disk[d.cert][1].text \in Certificates

LEMMA TargetIff ==
  ASSUME NEW d \in FileEntries
  PROVE  PoolsOk(Resolve(d)) <=> SoundTarget(d)
<1>1. d \in Entries /\ d.dsn = ""  BY Zenon DEF FileEntries
<1>2. PICK e : e = Resolve(d)  OBVIOUS
<1>3. /\ e.dsn = "" /\ e.host = d.host /\ e.cert = d.cert /\ DOMAIN e = DOMAIN d
      /\ e.insert = [i \in DOMAIN d.insert |-> e.insert[i]]
      /\ \A i \in DOMAIN d.insert :
           e.insert[i].host = IF d.insert[i].host = "" THEN d.host ELSE d.insert[i].host
  BY <1>1, <1>2, ResolveIs, Zenon
<1>4. DOMAIN e.insert = DOMAIN d.insert  BY <1>3, Zenon
<1>5. PoolConfigOk(e) <=> d.host \notin BadHosts /\ CertOk(d)
  BY <1>3, Zenon DEF PoolConfigOk, CertOk
<1>6. ASSUME NEW i \in DOMAIN d.insert
      PROVE  PoolConfigOk(InsertCopy(e, e.insert[i])) <=>
               e.insert[i].host \notin BadHosts /\ CertOk(d)
  <2>1. PICK v : v = e.insert[i]  OBVIOUS
  <2>2. PICK p : p = InsertCopy(e, v)  OBVIOUS
  <2>3. p.dsn = e.dsn /\ p.host = v.host /\ p.cert = e.cert
    <3>1. d \in Entries /\ DOMAIN e = DOMAIN d  BY <1>1, <1>3, Zenon
    <3>2. QED  BY <2>2, <3>1, CopyIs
  <2>4. QED  BY <1>3, <2>1, <2>2, <2>3, Zenon DEF PoolConfigOk, CertOk
<1>7. SoundTarget(d) <=>
        d.host \notin BadHosts /\ CertOk(d) /\ \A i \in DOMAIN d.insert : d.insert[i].host \notin BadHosts
  BY Zenon DEF SoundTarget, CertOk
<1>8. "" \notin BadHosts  BY StartupAssumption, Zenon
<1>9. d.host \notin BadHosts =>
        \A i \in DOMAIN d.insert : e.insert[i].host \notin BadHosts <=> d.insert[i].host \notin BadHosts
  BY <1>3, <1>8, Zenon
<1>10. PoolsOk(e) <=> PoolConfigOk(e) /\ \A i \in DOMAIN d.insert : PoolConfigOk(InsertCopy(e, e.insert[i]))
  BY <1>4, Zenon DEF PoolsOk
<1>11. QED  BY <1>2, <1>5, <1>6, <1>7, <1>9, <1>10, Zenon

\* The pool of the DSN's entry can be configured when the DSN parses.
LEMMA TargetDSN ==
  ASSUME NEW dsn \in DSNs
  PROVE  PoolsOk(Resolve(DSNEntry(dsn))) <=> dsn # "malformed"
<1>1. PICK d : d = DSNEntry(dsn)  OBVIOUS
<1>2. d \in Entries /\ d.dsn = dsn /\ d.insert = <<>>  BY <1>1, AcceptsDSN, Zenon
<1>3. PICK e : e = Resolve(d)  OBVIOUS
<1>4. e.dsn = dsn /\ e.insert = [i \in DOMAIN d.insert |-> e.insert[i]]
  BY <1>2, <1>3, ResolveIs, Zenon
<1>5. e.insert = <<>>  BY <1>2, <1>4, EmptyTuple, Zenon
<1>6. DOMAIN e.insert = {}
  <2>1. DOMAIN <<>> = {}  OBVIOUS
  <2>2. QED  BY <1>5, <2>1, Zenon
<1>7. dsn # ""  BY Zenon DEF DSNs
<1>8. QED  BY <1>1, <1>3, <1>4, <1>6, <1>7, Zenon DEF PoolsOk, PoolConfigOk

\* What the README asks of a setup, as the checks of the start put it.
LEMMA SoundIff ==
  ASSUME setup \in Setups
  PROVE  Sound(setup) <=>
           /\ setup.transport \in Transports
           /\ EnvBoolOk(setup.debug) /\ EnvBoolOk(setup.oauth) /\ FileOk
           /\ \A i \in 1 .. Len(Raw) : Accepts(Resolve(Raw[i]))
           /\ Distinct
           /\ \A i \in 1 .. Len(Raw) : PoolsOk(Resolve(Raw[i]))
           /\ EnvBool(setup.oauth) /\ setup.transport # "stdio" => EnvBoolOk(PrivateFlag)
<1>1. ({setup.debug, setup.oauth} \subseteq {"", "true", "false"}) <=>
        EnvBoolOk(setup.debug) /\ EnvBoolOk(setup.oauth)
  BY Zenon DEF EnvBoolOk
<1>2. (setup.file \in {"read", "missing"} /\ (setup.file = "missing" => ~setup.named)) <=> FileOk
  BY Zenon DEF FileOk
<1>3. /\ (setup.file = "read" => \A i \in DOMAIN setup.entries : SoundFields(setup.entries[i])) <=>
           \A i \in 1 .. Len(Raw) : Accepts(Resolve(Raw[i]))
      /\ (setup.file = "read" => \A i \in DOMAIN setup.entries : SoundTarget(setup.entries[i]))
           /\ setup.dsn # "malformed" <=>
         \A i \in 1 .. Len(Raw) : PoolsOk(Resolve(Raw[i]))
  <2>1. setup.entries \in Seq(FileEntries)  BY StartupAssumption, Zenon
  <2>2. DOMAIN setup.entries = 1 .. Len(setup.entries)  BY <2>1
  <2>3. setup.file = "read" => DOMAIN setup.entries = 1 .. FileLen
    BY <2>2, Zenon DEF FileLen
  <2>4. setup.file # "read" => \A i : i \notin 1 .. FileLen
    <3>1. setup.file # "read" => FileLen = 0  BY Zenon DEF FileLen
    <3>2. \A i : i \notin 1 .. 0  OBVIOUS
    <3>3. QED  BY <3>1, <3>2, Zenon
  <2>5. \A i \in 1 .. FileLen : i \in 1 .. Len(Raw)
    <3>1. PICK n, l, m : n = FileLen /\ l = Len(Raw) /\ m = IF setup.dsn = "" THEN 0 ELSE 1
      OBVIOUS
    <3>2. n \in Nat /\ l = n + m  BY <3>1, RawIs, Zenon
    <3>3. m \in 0 .. 1
      <4>1. 0 \in 0 .. 1 /\ 1 \in 0 .. 1  OBVIOUS
      <4>2. QED  BY <3>1, <4>1, Zenon
    <3>4. \A i \in 1 .. n : i \in 1 .. l  BY <3>2, <3>3
    <3>5. QED  BY <3>1, <3>4, Zenon
  <2>6. ASSUME NEW i \in 1 .. FileLen
        PROVE  /\ Accepts(Resolve(Raw[i])) <=> SoundFields(setup.entries[i])
               /\ PoolsOk(Resolve(Raw[i])) <=> SoundTarget(setup.entries[i])
    BY RawIs, AcceptsIff, TargetIff, Zenon
  <2>7. ASSUME NEW i \in 1 .. Len(Raw), i \notin 1 .. FileLen
        PROVE  /\ setup.dsn \in DSNs /\ Accepts(Resolve(Raw[i]))
               /\ PoolsOk(Resolve(Raw[i])) <=> setup.dsn # "malformed"
    BY <2>7, RawSorted, AcceptsDSN, TargetDSN, Zenon
  <2>8. setup.dsn # "" => \E i \in 1 .. Len(Raw) : i \notin 1 .. FileLen
    <3>1. CASE setup.dsn # ""
      <4>1. PICK n, l, i : n = FileLen /\ l = Len(Raw) /\ i = FileLen + 1  OBVIOUS
      <4>2. n \in Nat /\ l = n + 1  BY <3>1, <4>1, RawIs, Zenon
      <4>3. i = n + 1  BY <4>1
      <4>4. i \in 1 .. l /\ i \notin 1 .. n  BY <4>2, <4>3
      <4>5. QED  BY <4>1, <4>4, Zenon
    <3>2. QED  BY <3>1, Zenon
  <2>9. (setup.file = "read" => \A i \in DOMAIN setup.entries : SoundFields(setup.entries[i])) <=>
          \A i \in 1 .. Len(Raw) : Accepts(Resolve(Raw[i]))
    BY <2>3, <2>4, <2>5, <2>6, <2>7, Zenon
  <2>10. (setup.file = "read" => \A i \in DOMAIN setup.entries : SoundTarget(setup.entries[i])) <=>
          \A i \in 1 .. FileLen : PoolsOk(Resolve(Raw[i]))
    BY <2>3, <2>4, <2>6, Zenon
  <2>11. setup.dsn # "malformed" <=>
           \A i \in 1 .. Len(Raw) : i \notin 1 .. FileLen => PoolsOk(Resolve(Raw[i]))
    <3>1. "malformed" # ""  OBVIOUS
    <3>2. QED  BY <2>7, <2>8, <3>1, Zenon
  <2>12. QED  BY <2>5, <2>9, <2>10, <2>11, Zenon
<1>4. Cardinality({NamesOf(setup)[i] : i \in DOMAIN NamesOf(setup)}) = Len(NamesOf(setup)) <=>
        Distinct
  <2>1. PICK n \in Nat, f \in Seq(Strings) : f = NamesOf(setup) /\ n = Len(Raw)
    BY RawEntries, NamesAre, Zenon
  <2>2. f \in Seq(Strings) /\ Len(f) = n /\ \A i \in 1 .. n : f[i] = Raw[i].name
    BY <2>1, NamesAre, Zenon
  <2>3. DOMAIN f = 1 .. n /\ f = [j \in 1 .. n |-> f[j]]  BY <2>2
  <2>4. Cardinality({f[j] : j \in DOMAIN f}) = n <=> \A j, k \in 1 .. n : f[j] = f[k] => j = k
    BY <2>3, CountedNames
  <2>5. (\A j, k \in 1 .. n : f[j] = f[k] => j = k) <=> Distinct
    <3>1. Distinct <=> \A j, k \in 1 .. n : Raw[j].name = Raw[k].name => j = k
      BY <2>1, Zenon DEF Distinct
    <3>2. \A j, k \in 1 .. n : f[j] = f[k] <=> Raw[j].name = Raw[k].name  BY <2>2, Zenon
    <3>3. QED  BY <3>1, <3>2, Zenon
  <2>6. Cardinality({f[j] : j \in DOMAIN f}) = Len(f) <=> Distinct  BY <2>2, <2>4, <2>5, Zenon
  <2>7. f = NamesOf(setup)  BY <2>1
  <2>8. QED  BY <2>6, <2>7, SMT
<1>5. (setup.file = "read" => \A i \in DOMAIN setup.entries : SoundEntry(setup.entries[i])) <=>
        /\ setup.file = "read" => \A i \in DOMAIN setup.entries : SoundFields(setup.entries[i])
        /\ setup.file = "read" => \A i \in DOMAIN setup.entries : SoundTarget(setup.entries[i])
  BY Zenon DEF SoundEntry
<1>6. (IF setup.private = "" THEN setup.alias \in {"", "true", "false"}
       ELSE setup.private \in {"true", "false"}) <=> EnvBoolOk(PrivateFlag)
  BY Zenon DEF EnvBoolOk, PrivateFlag
<1>7. QED  BY <1>1, <1>2, <1>3, <1>4, <1>5, <1>6, Zenon DEF Sound, Transports

\* A server that serves had nothing wrong in its setup, and one that refused to
\* start for anything but a failure of the OAuth library had: the loading, the
\* defaults, the order of the checks and the registry's own checks come to what
\* the README says a setup must be, with hosts and certificates the driver can
\* use, no more and no less.
THEOREM StartsExactlyWhenSound == Spec => []StartsIffSound
<1>1. ASSUME IInv, at = "serving"  PROVE  Sound(setup)
  <2>1. setup \in Setups  BY <1>1 DEF IInv
  <2>2. at \in Live \ {"transport", "env", "file", "entries"} /\ at \in Live \ Early
        /\ at \in Live \ (Early \cup {"private"}) /\ at \in Live \ {"transport", "env", "file"}
        /\ at \in Live \ {"transport", "env"} /\ at \in Live \ {"transport"}
    BY <1>1, Zenon DEF Live, Early, Steps
  <2>3. /\ setup.transport \in Transports /\ EnvBoolOk(setup.debug) /\ EnvBoolOk(setup.oauth)
        /\ FileOk /\ Distinct /\ dbs = Partly(Len(Raw)) /\ Len(registry) = Len(Raw)
        /\ \A i \in 1 .. Len(Raw) : Accepts(dbs[i]) /\ PoolsOk(dbs[i])
        /\ EnvBool(setup.oauth) /\ setup.transport # "stdio" => EnvBoolOk(PrivateFlag)
    BY <1>1, <2>2, Zenon DEF IInv, Passed
  <2>4. ASSUME NEW i \in 1 .. Len(Raw)
        PROVE  Accepts(Resolve(Raw[i])) /\ PoolsOk(Resolve(Raw[i]))
    <3>1. Len(Raw) \in Nat  BY <2>1, RawEntries
    <3>2. i <= Len(Raw)  BY <3>1
    <3>3. Partly(Len(Raw))[i] = Resolve(Raw[i])  BY <3>2 DEF Partly
    <3>4. QED  BY <2>3, <3>3, Zenon
  <2>5. QED  BY <2>1, <2>3, <2>4, SoundIff, Zenon
<1>2. ASSUME IInv, err \notin External \cup {""}  PROVE  ~Sound(setup)
  <2>1. setup \in Setups /\ Refused  BY <1>2 DEF IInv
  <2>2. err \in {"transport", "env", "file", "entries", "registry", "private"}
    <3>1. err \in Steps \cup {""} /\ err # "mux"  BY <1>2, Zenon DEF IInv, Refused
    <3>2. QED  BY <1>2, <3>1, Zenon DEF Steps, External
  <2>3. QED  BY <2>1, <2>2, SoundIff, Zenon DEF Refused
<1>3. IInv => StartsIffSound  BY <1>1, <1>2, Zenon DEF StartsIffSound
<1>4. QED  BY <1>3, Invariant, PTL

-----------------------------------------------------------------------------
(* The runs of self-update.  The inductive invariant says what a run knows  *)
(* at each of its steps: what it found is newer than itself and signed, and *)
(* what it holds is that or forged.                                         *)

RunState == [at: {"off", "started", "found", "downloaded", "over"}, current: U!Versions,
             latest: U!Versions, got: U!Versions \cup {U!Forged},
             said: {"nothing", "refused", "latest", "unchanged", "updated"}]

UpdateShape ==
  /\ exe \in U!Versions /\ published \in U!Versions \ {0}
  /\ bundled \subseteq U!Versions
  /\ run \in [Runs -> RunState]
  /\ installed \in [Runs -> SUBSET U!Versions]

\* What a run has found out, and what it has done so far.
UpdateProgress(r) ==
  /\ run[r].at \in {"found", "downloaded"} =>
       run[r].latest \in bundled /\ run[r].latest > run[r].current /\ run[r].current # 0
  /\ run[r].at = "downloaded" => run[r].got \in {run[r].latest, U!Forged}
  /\ run[r].at # "over" => installed[r] = {} /\ run[r].said = "nothing"
  /\ run[r].said = "updated" <=> installed[r] # {}
  /\ \A v \in installed[r] : v \in bundled /\ run[r].current # 0 /\ v > run[r].current

UpdateInv == UpdateShape /\ \A r \in Runs : UpdateProgress(r)

\* The start: no run has begun.
LEMMA UpdateStarts == U!Init => UpdateInv
<1> SUFFICES ASSUME U!Init PROVE UpdateInv
  OBVIOUS
<1>1. UpdateShape
  BY ReleasesAssumption DEF U!Init, UpdateShape, U!Idle, RunState, U!Versions, U!Forged
<1>2. \A r \in Runs : UpdateProgress(r)
  BY DEF U!Init, UpdateProgress, U!Idle
<1> QED
  BY <1>1, <1>2 DEF UpdateInv

\* A step of one run that changes neither the releases nor what other runs did.
LEMMA RunMoves ==
  ASSUME UpdateInv, NEW r \in Runs, NEW s \in RunState, U!Become(r, s),
         UNCHANGED <<exe, published, bundled, installed>>,
         /\ s.at \in {"found", "downloaded"} =>
              s.latest \in bundled /\ s.latest > s.current /\ s.current # 0
         /\ s.at = "downloaded" => s.got \in {s.latest, U!Forged}
         /\ s.at # "over" => installed[r] = {} /\ s.said = "nothing"
         /\ s.said = "updated" <=> installed[r] # {}
         /\ s.current = run[r].current \/ installed[r] = {}
  PROVE  UpdateInv'
<1>1. UpdateShape'
  BY DEF UpdateInv, UpdateShape, U!Become
<1>2. ASSUME NEW q \in Runs PROVE UpdateProgress(q)'
  <2>1. CASE q = r
    BY <2>1 DEF UpdateInv, UpdateShape, UpdateProgress, U!Become
  <2>2. CASE q # r
    BY <2>2 DEF UpdateInv, UpdateShape, UpdateProgress, U!Become
  <2> QED
    BY <2>1, <2>2
<1> QED
  BY <1>1, <1>2 DEF UpdateInv

\* Every step keeps the invariant.
LEMMA UpdateStep == UpdateInv /\ [U!Next]_U!vars => UpdateInv'
<1> SUFFICES ASSUME UpdateInv, [U!Next]_U!vars PROVE UpdateInv'
  OBVIOUS
<1> USE DEF U!Versions, U!Forged
<1>1. CASE U!Publish
  <2>1. UpdateShape'
    BY <1>1, ReleasesAssumption DEF UpdateInv, UpdateShape, U!Publish
  <2>2. bundled \subseteq bundled'
    BY <1>1 DEF U!Publish
  <2>3. ASSUME NEW q \in Runs PROVE UpdateProgress(q)'
    BY <1>1, <2>2 DEF UpdateInv, UpdateShape, UpdateProgress, U!Publish
  <2> QED
    BY <2>1, <2>3 DEF UpdateInv
<1>2. ASSUME NEW r \in Runs, U!Start(r) PROVE UpdateInv'
  <2> DEFINE s == [run[r] EXCEPT !.at = "started", !.current = exe]
  <2>1. s \in RunState /\ s.at = "started" /\ s.said = run[r].said
    BY DEF UpdateInv, UpdateShape, RunState
  <2>2. installed[r] = {} /\ run[r].said = "nothing"
    BY <1>2 DEF UpdateInv, UpdateProgress, U!Start
  <2> QED
    BY <1>2, <2>1, <2>2, RunMoves DEF U!Start
<1>3. ASSUME NEW r \in Runs, U!Refuse(r) \/ U!DetectFails(r) PROVE UpdateInv'
  <2> DEFINE s == [run[r] EXCEPT !.at = "over", !.said = "refused"]
  <2>1. s \in RunState /\ s.at = "over" /\ s.said = "refused" /\ s.current = run[r].current
    BY DEF UpdateInv, UpdateShape, RunState
  <2>2. installed[r] = {}
    BY <1>3 DEF UpdateInv, UpdateProgress, U!Refuse, U!DetectFails
  <2> QED
    BY <1>3, <2>1, <2>2, RunMoves DEF U!Refuse, U!DetectFails, U!Says
<1>4. ASSUME NEW r \in Runs, U!DetectLatest(r) PROVE UpdateInv'
  <2>2. installed[r] = {} /\ run[r].said = "nothing" /\ run[r].current # 0
    BY <1>4 DEF UpdateInv, UpdateProgress, U!DetectLatest
  <2>3. ASSUME NEW said \in {"refused", "latest"}, U!Says(r, said) PROVE UpdateInv'
    <3> DEFINE s == [run[r] EXCEPT !.at = "over", !.said = said]
    <3>1. s \in RunState /\ s.at = "over" /\ s.said = said
      BY DEF UpdateInv, UpdateShape, RunState
    <3> QED
      BY <1>4, <2>2, <2>3, <3>1, RunMoves DEF U!DetectLatest, U!Says
  <2>4. CASE /\ U!GreaterThan(published, run[r].current)
             /\ U!Become(r, [run[r] EXCEPT !.at = "found", !.latest = published])
    <3> DEFINE s == [run[r] EXCEPT !.at = "found", !.latest = published]
    <3>1. s \in RunState /\ s.at = "found" /\ s.said = "nothing"
          /\ s.latest = published /\ s.current = run[r].current
      BY <2>2 DEF UpdateInv, UpdateShape, RunState
    <3> QED
      BY <1>4, <2>2, <2>4, <3>1, RunMoves DEF U!DetectLatest, U!GreaterThan
  <2> QED
    BY <1>4, <2>3, <2>4 DEF U!DetectLatest
<1>5. ASSUME NEW r \in Runs, U!Download(r) PROVE UpdateInv'
  <2>2. /\ installed[r] = {} /\ run[r].said = "nothing" /\ run[r].current # 0
        /\ run[r].latest \in bundled /\ run[r].latest > run[r].current
    BY <1>5 DEF UpdateInv, UpdateProgress, U!Download
  <2>3. CASE U!Says(r, "unchanged")
    <3> DEFINE s == [run[r] EXCEPT !.at = "over", !.said = "unchanged"]
    <3>1. s \in RunState /\ s.at = "over" /\ s.said = "unchanged"
      BY DEF UpdateInv, UpdateShape, RunState
    <3> QED
      BY <1>5, <2>2, <2>3, <3>1, RunMoves DEF U!Download, U!Says
  <2>4. ASSUME NEW got \in {run[r].latest, U!Forged},
               U!Become(r, [run[r] EXCEPT !.at = "downloaded", !.got = got])
        PROVE  UpdateInv'
    <3> DEFINE s == [run[r] EXCEPT !.at = "downloaded", !.got = got]
    <3>1. s \in RunState /\ s.at = "downloaded" /\ s.said = "nothing" /\ s.got = got
          /\ s.latest = run[r].latest /\ s.current = run[r].current
      BY <2>2 DEF UpdateInv, UpdateShape, RunState
    <3> QED
      BY <1>5, <2>2, <2>4, <3>1, RunMoves DEF U!Download
  <2> QED
    BY <1>5, <2>3, <2>4 DEF U!Download
<1>6. ASSUME NEW r \in Runs, U!Rename(r) PROVE UpdateInv'
  <2>2. /\ installed[r] = {} /\ run[r].current # 0
        /\ run[r].latest \in bundled /\ run[r].latest > run[r].current
        /\ run[r].got \in {run[r].latest, U!Forged}
    BY <1>6 DEF UpdateInv, UpdateProgress, U!Rename
  <2>3. CASE U!Says(r, "unchanged") /\ UNCHANGED <<exe, installed>>
    <3> DEFINE s == [run[r] EXCEPT !.at = "over", !.said = "unchanged"]
    <3>1. s \in RunState /\ s.at = "over" /\ s.said = "unchanged"
      BY DEF UpdateInv, UpdateShape, RunState
    <3> QED
      BY <1>6, <2>2, <2>3, <3>1, RunMoves DEF U!Rename, U!Says
  <2>4. CASE /\ U!Verifies(r) /\ exe' = run[r].got
             /\ installed' = [installed EXCEPT ![r] = @ \cup {run[r].got}]
             /\ U!Says(r, "updated")
    <3>1. run[r].got = run[r].latest
      BY <2>2, <2>4 DEF U!Verifies
    <3>2. run[r] \in RunState
      BY DEF UpdateInv, UpdateShape
    <3>3. UpdateShape'
      <4>1. [run[r] EXCEPT !.at = "over", !.said = "updated"] \in RunState
        BY <3>2 DEF RunState
      <4>2. run' \in [Runs -> RunState]
        BY <2>4, <4>1 DEF UpdateInv, UpdateShape, U!Says, U!Become
      <4>3. run[r].got \in U!Versions
        BY <3>1, <3>2 DEF RunState
      <4>4. installed' \in [Runs -> SUBSET U!Versions] /\ exe' \in U!Versions
        BY <2>4, <4>3 DEF UpdateInv, UpdateShape
      <4> QED
        BY <1>6, <4>2, <4>4 DEF UpdateInv, UpdateShape, U!Rename
    <3>4. ASSUME NEW q \in Runs PROVE UpdateProgress(q)'
      <4>1. CASE q = r
        <5>1. installed'[q] = {run[r].latest}
          BY <2>2, <2>4, <3>1, <4>1 DEF UpdateInv, UpdateShape
        <5>2. /\ run'[q].at = "over" /\ run'[q].said = "updated"
              /\ run'[q].current = run[r].current
          BY <2>4, <3>2, <4>1 DEF UpdateInv, UpdateShape, U!Says, U!Become, RunState
        <5> QED
          BY <1>6, <2>2, <5>1, <5>2 DEF UpdateProgress, U!Rename
      <4>2. CASE q # r
        BY <1>6, <2>4, <4>2 DEF UpdateInv, UpdateShape, UpdateProgress, U!Rename, U!Says, U!Become
      <4> QED
        BY <4>1, <4>2
    <3> QED
      BY <3>3, <3>4 DEF UpdateInv
  <2> QED
    BY <1>6, <2>3, <2>4 DEF U!Rename
<1>7. ASSUME NEW r \in Runs, U!Killed(r) PROVE UpdateInv'
  <2> DEFINE s == [run[r] EXCEPT !.at = "over"]
  <2>1. s \in RunState /\ s.at = "over" /\ s.said = run[r].said
    BY DEF UpdateInv, UpdateShape, RunState
  <2>2. installed[r] = {} /\ run[r].said = "nothing"
    BY <1>7 DEF UpdateInv, UpdateProgress, U!Killed
  <2> QED
    BY <1>7, <2>1, <2>2, RunMoves DEF U!Killed
<1>8. CASE UNCHANGED U!vars
  BY <1>8 DEF U!vars, UpdateInv, UpdateShape, UpdateProgress
<1> QED
  BY <1>1, <1>2, <1>3, <1>4, <1>5, <1>6, <1>7, <1>8 DEF U!Next

\* Whatever runs of self-update do at once, fail at or are killed in, only a
\* release that verified against its bundle is renamed into place.
THEOREM InstallsVerified == U!Spec => []OnlyVerified
<1>1. UpdateInv => OnlyVerified
  BY DEF UpdateInv, UpdateShape, UpdateProgress, OnlyVerified, U!OnlyVerified
<1> QED
  BY UpdateStarts, UpdateStep, <1>1, PTL DEF U!Spec

\* What a run prints is true of what it did to the file.
THEOREM ReportsAreTrue == U!Spec => []ReportsTrue
<1>1. UpdateInv => ReportsTrue
  BY DEF UpdateInv, UpdateShape, UpdateProgress, ReportsTrue, U!ReportsTrue
<1> QED
  BY UpdateStarts, UpdateStep, <1>1, PTL DEF U!Spec
=============================================================================
