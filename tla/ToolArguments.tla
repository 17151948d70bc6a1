--------------------------- MODULE ToolArguments ---------------------------
(***************************************************************************)
(* The arguments of a tool call between the client and the database layer  *)
(* (internal/tools). They pass two gates that are written down twice: the  *)
(* input schema a tool declares, which the MCP server checks before it     *)
(* calls the handler (external; cmd/serve.go switches it on, a caller of   *)
(* the handlers may not), and the handler's own reads, one after another.  *)
(*                                                                         *)
(* A value is [json, s, n]: its JSON type, the string or the number.  Who  *)
(* may use which database is the subject of ToolCalls; padding of strings  *)
(* other than format is not represented.                                   *)
(***************************************************************************)
EXTENDS Integers, Sequences

CONSTANTS
  Requests,          \* [tool, args]: args gives every name of Names a value
  StatementTimeout,  \* of the database, in seconds
  MaxInt,            \* math.MaxInt32
  Database           \* the name of the one configured database, or of one of several

Names == {"database", "schema", "table", "hypertable", "sql", "row", "limit", "offset",
          "max_rows", "timeout_seconds", "format", "analyze", "newest_first",
          "include_views", "include_sizes", "bogus"}

Absent == [json |-> "absent", s |-> "", n |-> 0]
Missing(v) == v.json \in {"absent", "null"}
Blank == {"", " "} \* what strings.TrimSpace leaves nothing of

VARIABLES
  strict,   \* the server validates input schemas
  several,  \* more than one database is configured
  tool, args,
  at,       \* "server", "wrap", "read", "refused" or "answered"
  k,        \* the next read of the handler
  got,      \* what the handler has read: argument -> value
  why,      \* what refused: the argument read, "server" or "names"; "" before
  audited   \* the audit lines of the call

vars == <<strict, several, tool, args, at, k, got, why, audited>>

-----------------------------------------------------------------------------
(* The declared input schemas: name, type, required, minimum, maximum, and *)
(* the default or the values listed where there are any.                   *)

Opt(arg, type) == [arg |-> arg, type |-> type, required |-> FALSE, low |-> -MaxInt,
                   high |-> 2 * MaxInt, default |-> Absent, enum |-> {}]
Req(arg, type) == [Opt(arg, type) EXCEPT !.required = TRUE]
Number(arg, n, low, high) ==
  [Opt(arg, "integer") EXCEPT !.low = low, !.high = high,
                              !.default = [json |-> "integer", s |-> "", n |-> n]]
Bool(arg, s) == [Opt(arg, "boolean") EXCEPT !.default = [json |-> "boolean", s |-> s, n |-> 0]]

DefaultListLimit == 200
DefaultChunkLimit == 50
DefaultSampleLimit == 20
DefaultQueryRows == 100
MaxLimit == 1000

databaseArg == IF several THEN Req("database", "string") ELSE Opt("database", "string")
pageArgs == {Number("limit", DefaultListLimit, 1, MaxLimit),
             Number("offset", 0, 0, 2 * MaxInt), Opt("include_sizes", "boolean")}
TimeoutSchema == [Opt("timeout_seconds", "integer") EXCEPT !.low = 1]
FormatSchema == [Opt("format", "string") EXCEPT
                   !.enum = {"text", "json"}, !.default = [json |-> "string", s |-> "text", n |-> 0]]

Tools == {"list_databases", "plain", "list_tables", "describe_table", "list_hypertables",
          "list_chunks", "query", "explain", "sample_rows", "insert_row"}

\* A value out of JSON: one that is missing carries nothing.
IsValue(v) ==
  /\ v = [json |-> v.json, s |-> v.s, n |-> v.n] /\ v.n \in Int
  /\ Missing(v) => v.s = "" /\ v.n = 0

ASSUME ArgumentsAssumption ==
  /\ MaxInt \in Nat /\ MaxInt >= MaxLimit /\ StatementTimeout \in Nat
  /\ \A r \in Requests : /\ r.tool \in Tools /\ r.args = [a \in Names |-> r.args[a]]
                         /\ \A a \in Names : IsValue(r.args[a])

\* "plain" stands for the tools of listTool and get_database_info.
Schema(t) ==
  (IF t = "list_databases" THEN {} ELSE {databaseArg}) \cup
  CASE t = "list_tables"      -> {Opt("schema", "string"), Bool("include_views", "true")} \cup pageArgs
    [] t = "list_hypertables" -> {Opt("schema", "string")} \cup pageArgs
    [] t = "describe_table"   -> {Req("schema", "string"), Req("table", "string")}
    [] t = "list_chunks"      -> {Req("schema", "string"), Req("hypertable", "string"),
                                  Number("limit", DefaultChunkLimit, 1, MaxLimit),
                                  Bool("newest_first", "true")}
    [] t = "sample_rows"      -> {Req("schema", "string"), Req("table", "string"),
                                  Number("limit", DefaultSampleLimit, 1, 2 * MaxInt)}
    [] t = "query"            -> {Req("sql", "string"), TimeoutSchema,
                                  Number("max_rows", DefaultQueryRows, 1, 2 * MaxInt)}
    [] t = "explain"          -> {Req("sql", "string"), Bool("analyze", "false"), FormatSchema, TimeoutSchema}
    [] t = "insert_row"       -> {Req("table", "string"), Req("row", "object")}
    [] OTHER                  -> {}

\* JSON schema validation of one property, as the MCP server does it.
Conforms(d, v) ==
  IF v.json = "absent" THEN ~d.required
  ELSE /\ v.json = d.type
       /\ d.type = "integer" => v.n \in d.low .. d.high
       /\ d.enum # {} => v.s \in d.enum

-----------------------------------------------------------------------------
(* The handlers: what wrap lets through, and what they read, in the order  *)
(* in which they do.                                                       *)

Rd(arg, how) == [arg |-> arg, how |-> how, def |-> Absent, low |-> 0, high |-> 0]
Int_(arg, def, low, high) ==
  [arg |-> arg, how |-> "argInt", def |-> [json |-> "integer", s |-> "", n |-> def],
   low |-> low, high |-> high]
Bool_(arg, def) ==
  [Rd(arg, "argBool") EXCEPT !.def = [json |-> "boolean", s |-> def, n |-> 0]]

allowedArgs(t) ==
  (IF t = "list_databases" THEN {} ELSE {"database"}) \cup
  CASE t = "list_tables"      -> {"schema", "include_views", "limit", "offset", "include_sizes"}
    [] t = "list_hypertables" -> {"schema", "limit", "offset", "include_sizes"}
    [] t = "describe_table"   -> {"schema", "table"}
    [] t = "list_chunks"      -> {"schema", "hypertable", "limit", "newest_first"}
    [] t = "sample_rows"      -> {"schema", "table", "limit"}
    [] t = "query"            -> {"sql", "max_rows", "timeout_seconds"}
    [] t = "explain"          -> {"sql", "analyze", "format", "timeout_seconds"}
    [] t = "insert_row"       -> {"table", "row"}
    [] OTHER                  -> {}

\* Mutant of pageOptions: the limit of a page is not bounded above.
pageOptionsOpen == <<Int_("limit", DefaultListLimit, 1, MaxInt), Int_("offset", 0, 0, MaxInt),
                     Rd("include_sizes", "argBoolSet")>>

pageOptions == <<Int_("limit", DefaultListLimit, 1, MaxLimit), Int_("offset", 0, 0, MaxInt),
                 Rd("include_sizes", "argBoolSet")>>

sampleReads == <<Rd("schema", "requireString"), Rd("table", "requireString"),
                 Int_("limit", DefaultSampleLimit, 1, MaxInt)>>

Reads(t) ==
  (IF t = "list_databases" THEN <<>> ELSE <<Rd("database", "database")>>) \o
  CASE t = "list_tables"      -> pageOptions \o <<Rd("schema", "argString"), Bool_("include_views", "true")>>
    [] t = "list_hypertables" -> pageOptions \o <<Rd("schema", "argString")>>
    [] t = "describe_table"   -> <<Rd("schema", "requireString"), Rd("table", "requireString")>>
    [] t = "list_chunks"      -> <<Rd("schema", "requireString"), Rd("hypertable", "requireString"),
                                   Int_("limit", DefaultChunkLimit, 1, MaxLimit),
                                   Bool_("newest_first", "true")>>
    [] t = "sample_rows"      -> sampleReads
    [] t = "query"            -> <<Rd("sql", "requireString"),
                                   Int_("max_rows", DefaultQueryRows, 1, MaxInt),
                                   Rd("timeout_seconds", "timeoutArg")>>
    [] t = "explain"          -> <<Rd("sql", "requireString"), Bool_("analyze", "false"),
                                   Rd("format", "format"), Rd("timeout_seconds", "timeoutArg")>>
    [] t = "insert_row"       -> <<Rd("table", "requireString"), Rd("row", "row")>>
    [] OTHER                  -> <<>>

argInt(v) == v.json = "integer" /\ v.n \in -MaxInt .. MaxInt

\* strings.ToLower(strings.TrimSpace(format)), and text where that is empty.
Format(s) == CASE s \in Blank -> "text" [] s = " JSON" -> "json" [] OTHER -> s

Accepted(r, v) ==
  CASE r.how = "argString"     -> Missing(v) \/ v.json = "string"
    [] r.how = "requireString" -> v.json = "string" /\ v.s \notin Blank
    [] r.how = "argInt"        -> Missing(v) \/ (argInt(v) /\ v.n \in r.low .. r.high)
    [] r.how \in {"argBool", "argBoolSet"} -> Missing(v) \/ v.json = "boolean"
    [] r.how = "timeoutArg"    -> Missing(v) \/ (argInt(v) /\ v.n \in 0 .. StatementTimeout)
    [] r.how = "format"        -> Missing(v) \/ (v.json = "string" /\ Format(v.s) \in {"text", "json"})
    [] r.how = "row"           -> v.json = "object"
    [] r.how = "database"      -> IF Missing(v) THEN ~several
                                  ELSE v.json = "string" /\ (v.s = Database \/ (v.s = "" /\ ~several))

\* What the handler goes on with; Absent is its zero value or its default.
Value(r, v) ==
  CASE r.how = "format"     -> [json |-> "string", s |-> Format(v.s), n |-> 0]
    [] r.how = "timeoutArg" -> IF Missing(v) \/ v.n = 0 THEN Absent ELSE v
    [] r.how = "database"   -> [json |-> "string", s |-> Database, n |-> 0]
    [] r.how = "argString"  -> IF Missing(v) THEN Absent ELSE v
    [] OTHER                -> IF Missing(v) THEN r.def ELSE v

-----------------------------------------------------------------------------
(* A call *)

Init ==
  /\ strict \in BOOLEAN /\ several \in BOOLEAN
  /\ \E r \in Requests : tool = r.tool /\ args = r.args
  /\ at = "server" /\ k = 1 /\ got = [a \in Names |-> Absent]
  /\ why = "" /\ audited = 0

Sent == {a \in Names : args[a] # Absent}

Valid == /\ Sent \subseteq {d.arg : d \in Schema(tool)}
         /\ \A d \in Schema(tool) : Conforms(d, args[d.arg])

\* The MCP server: a request that breaks the schema never reaches wrap.
Validate ==
  /\ at = "server"
  /\ IF strict /\ ~Valid THEN at' = "refused" /\ why' = "server"
     ELSE at' = "wrap" /\ UNCHANGED why
  /\ UNCHANGED <<strict, several, tool, args, k, got, audited>>

\* A return of the handler goes through audit, whatever it returns.
Audit == audited' = audited + 1

checkArgs ==
  /\ at = "wrap"
  /\ IF Sent \subseteq allowedArgs(tool) THEN at' = "read" /\ UNCHANGED <<why, audited>>
     ELSE at' = "refused" /\ why' = "names" /\ Audit
  /\ UNCHANGED <<strict, several, tool, args, k, got>>

Read ==
  /\ at = "read" /\ k <= Len(Reads(tool))
  /\ LET r == Reads(tool)[k]
         v == args[r.arg]
     IN IF Accepted(r, v)
        THEN got' = [got EXCEPT ![r.arg] = Value(r, v)] /\ UNCHANGED <<at, why, audited>>
        ELSE at' = "refused" /\ why' = r.arg /\ Audit /\ UNCHANGED got
  /\ k' = k + 1
  /\ UNCHANGED <<strict, several, tool, args>>

\* Everything is read: the classifier, the body and the audit line follow.
Answer ==
  /\ at = "read" /\ k > Len(Reads(tool))
  /\ at' = "answered" /\ Audit
  /\ UNCHANGED <<strict, several, tool, args, k, got, why>>

Next == Validate \/ checkArgs \/ Read \/ Answer

Spec == Init /\ [][Next]_vars

-----------------------------------------------------------------------------
(* Properties *)

\* Also a handler that is called without the server's validation hands on only
\* what its declared schema describes ("this keeps the guarantee when handlers
\* are called directly"): no undeclared argument, the declared type and range,
\* and for an argument that was not sent the default the schema advertises.
HandlerSuffices ==
  at = "answered" =>
    /\ Sent \subseteq {d.arg : d \in Schema(tool)}
    /\ \A d \in Schema(tool) :
         /\ d.arg # "database" /\ got[d.arg] # Absent => Conforms(d, got[d.arg])
         /\ d.required => got[d.arg] # Absent
         /\ Missing(args[d.arg]) /\ d.arg # "database" => got[d.arg] = d.default

\* A client that keeps to the advertised schema is refused by the handler only
\* for what the schema does not say: a required string that is blank, a number
\* beyond 32 bits, a timeout above the database's, a database that is not one.
SchemaSuffices ==
  strict /\ at = "refused" /\ why # "server" =>
    \/ why \in {"schema", "table", "hypertable", "sql"} /\ args[why].s \in Blank
    \/ why \in {"limit", "offset", "max_rows", "timeout_seconds"} /\ args[why].n > MaxInt
    \/ why = "timeout_seconds" /\ args[why].n > StatementTimeout
    \/ why = "database" /\ args[why].s # Database

\* The two gates say the same in both directions, although every name, type,
\* bound and default is written down twice.
GatesAgree == HandlerSuffices /\ SchemaSuffices

\* Every call that is answered has its audit line ("records ... an error class
\* for every call").
EveryCallAudited == at \in {"refused", "answered"} => audited = 1
=============================================================================
