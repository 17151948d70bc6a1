------------------------ MODULE ToolArgumentsProofs ------------------------
(***************************************************************************)
(* What ToolArguments and Values promise. The schema a tool declares and   *)
(* the reads of its handler say the same, for every request, with and      *)
(* without the server's validation, for one database and for several. What *)
(* becomes of a value of a row shows it, nested however deep.              *)
(*                                                                         *)
(* Two things are needed. Of the tables: each declared property matches    *)
(* exactly one read (Paired), and of a property and a read that match,     *)
(* either accepts what the other does, but for what a schema cannot say    *)
(* (Agree). Of a call: before its k-th read the handler has found the      *)
(* first k-1 arguments in order, and a refusal has found one that is not   *)
(* (AInv). Of a value: what its type says at one level, if the level below *)
(* keeps what it holds (LevelKept); the levels are then an induction.      *)
(***************************************************************************)
EXTENDS MCSequentialParts, WellFoundedInduction, TLAPS

-----------------------------------------------------------------------------
(* The inductive invariant *)

\* What the handler has read and found in order, before its k-th read.
Settled(j) ==
  LET r == Reads(tool)[j] IN Accepted(r, args[r.arg]) /\ got[r.arg] = Value(r, args[r.arg])

\* What it has come to and found out of order.
Tripped(j) ==
  LET r == Reads(tool)[j] IN why = r.arg /\ ~Accepted(r, args[r.arg])

AInv ==
  /\ tool \in Tools /\ strict \in BOOLEAN /\ several \in BOOLEAN
  /\ \A a \in Names : IsValue(args[a])
  /\ got = [a \in Names |-> got[a]]
  /\ k \in Nat /\ k > 0
  /\ at \in {"server", "wrap", "read", "refused", "answered"}
  /\ at \in {"server", "wrap"} => k = 1
  /\ at # "refused" => why = ""
  /\ strict /\ at # "server" /\ why # "server" => Valid
  /\ at \in {"read", "answered"} =>
       /\ Sent \subseteq allowedArgs(tool)
       /\ \A j \in 1 .. Len(Reads(tool)) : j < k => Settled(j)
  /\ at = "answered" => k > Len(Reads(tool))
  /\ at = "refused" =>
       \/ why = "server"
       \/ why = "names" /\ ~(Sent \subseteq allowedArgs(tool))
       \/ \E j \in 1 .. Len(Reads(tool)) : Tripped(j)

-----------------------------------------------------------------------------
(* A declared property and a read of it *)

\* A declared property and the read of it by the handler that say the same.
Matches(d, r) ==
  \/ \E a \in {"schema", "table", "hypertable", "sql"} :
       d = Req(a, "string") /\ r = Rd(a, "requireString")
  \/ d = Opt("schema", "string") /\ r = Rd("schema", "argString")
  \/ \E a \in {"limit", "offset", "max_rows"}, n \in 0 .. MaxLimit, low \in 0 .. 1 :
       /\ n >= low
       /\ \/ d = Number(a, n, low, MaxLimit) /\ r = Int_(a, n, low, MaxLimit)
          \/ d = Number(a, n, low, 2 * MaxInt) /\ r = Int_(a, n, low, MaxInt)
  \/ \E a \in {"include_views", "newest_first", "analyze"}, s \in {"true", "false"} :
       d = Bool(a, s) /\ r = Bool_(a, s)
  \/ d = Opt("include_sizes", "boolean") /\ r = Rd("include_sizes", "argBoolSet")
  \/ d = TimeoutSchema /\ r = Rd("timeout_seconds", "timeoutArg")
  \/ d = FormatSchema /\ r = Rd("format", "format")
  \/ d = Req("row", "object") /\ r = Rd("row", "row")
  \/ d = databaseArg /\ r = Rd("database", "database")

\* What the handler goes on with conforms to what is declared.
Suffices(d, r) ==
  \A v : IsValue(v) /\ Accepted(r, v) =>
    /\ d.arg # "database" /\ Value(r, v) # Absent => Conforms(d, Value(r, v))
    /\ d.required => Value(r, v) # Absent
    /\ Missing(v) /\ d.arg # "database" => Value(r, v) = d.default

\* What the handler refuses of what conforms.
Excused(a, v) ==
  \/ a \in {"schema", "table", "hypertable", "sql"} /\ v.s \in Blank
  \/ a \in {"limit", "offset", "max_rows", "timeout_seconds"} /\ v.n > MaxInt
  \/ a = "timeout_seconds" /\ v.n > StatementTimeout
  \/ a = "database" /\ v.s # Database
Obeys(d, r) ==
  \A v : IsValue(v) /\ Conforms(d, v) /\ ~Accepted(r, v) => Excused(r.arg, v)

Agree(d, r) == d.arg = r.arg /\ r.arg \in Names /\ Suffices(d, r) /\ Obeys(d, r)

\* Whatever value arrives, the two agree on it.
LEMMA MatchesSuffice ==
  ASSUME NEW d, NEW r, Matches(d, r), several \in BOOLEAN
  PROVE  Agree(d, r)
<1>0. Absent.json = "absent"  BY DEF Absent
<1>1. ASSUME NEW a \in {"schema", "table", "hypertable", "sql"},
             d = Req(a, "string"), r = Rd(a, "requireString")
      PROVE  Agree(d, r)
  <2>1. /\ d.arg = a /\ d.type = "string" /\ d.required /\ d.enum = {} /\ d.default = Absent
        /\ r.arg = a /\ r.how = "requireString" /\ r.def = Absent
    BY <1>1 DEF Req, Opt, Rd
  <2>2. ASSUME NEW v  PROVE  /\ Accepted(r, v) <=> v.json = "string" /\ v.s \notin Blank
                             /\ Value(r, v) = IF Missing(v) THEN Absent ELSE v
    BY <2>1, Zenon DEF Accepted, Value
  <2>3. Suffices(d, r)  BY <1>0, <2>1, <2>2 DEF Suffices, Conforms, Missing
  <2>4. Obeys(d, r)  BY <2>1, <2>2 DEF Obeys, Conforms, Excused
  <2>5. QED  BY <2>1, <2>3, <2>4 DEF Agree, Names
<1>2. CASE d = Opt("schema", "string") /\ r = Rd("schema", "argString")
  <2>1. /\ d.arg = "schema" /\ d.type = "string" /\ ~d.required /\ d.enum = {} /\ d.default = Absent
        /\ r.arg = "schema" /\ r.how = "argString"
    BY <1>2 DEF Opt, Rd
  <2>2. ASSUME NEW v  PROVE  /\ Accepted(r, v) <=> Missing(v) \/ v.json = "string"
                             /\ Value(r, v) = IF Missing(v) THEN Absent ELSE v
    BY <2>1, Zenon DEF Accepted, Value
  <2>3. Suffices(d, r)  BY <2>1, <2>2 DEF Suffices, Conforms
  <2>4. Obeys(d, r)  BY <2>1, <2>2 DEF Obeys, Conforms, Missing
  <2>5. QED  BY <2>1, <2>3, <2>4 DEF Agree, Names
<1>3. ASSUME NEW a \in {"limit", "offset", "max_rows"}, NEW m \in 0 .. MaxLimit, NEW low \in 0 .. 1,
             m >= low,
             \/ d = Number(a, m, low, MaxLimit) /\ r = Int_(a, m, low, MaxLimit)
             \/ d = Number(a, m, low, 2 * MaxInt) /\ r = Int_(a, m, low, MaxInt)
      PROVE  Agree(d, r)
  <2>1. PICK dh \in Nat, rh \in Nat :
          /\ d = Number(a, m, low, dh) /\ r = Int_(a, m, low, rh) /\ m <= dh /\ rh <= dh
          /\ rh = dh \/ rh = MaxInt
    BY <1>3, ArgumentsAssumption DEF MaxLimit
  <2>2. PICK def : def = [json |-> "integer", s |-> "", n |-> m]  OBVIOUS
  <2>3. /\ d.arg = a /\ d.type = "integer" /\ ~d.required /\ d.enum = {} /\ d.default = def
        /\ d.low = low /\ d.high = dh
        /\ r.arg = a /\ r.how = "argInt" /\ r.low = low /\ r.high = rh /\ r.def = def
    BY <2>1, <2>2 DEF Number, Opt, Int_
  <2>4. def.json = "integer" /\ def.n = m /\ def # Absent  BY <2>2 DEF Absent
  <2>5. ASSUME NEW v  PROVE  /\ Accepted(r, v) <=> Missing(v) \/ (argInt(v) /\ v.n \in low .. rh)
                             /\ Value(r, v) = IF Missing(v) THEN def ELSE v
    BY <2>3, Zenon DEF Accepted, Value
  <2>6. Suffices(d, r)
    <3>1. ASSUME NEW v, IsValue(v), Accepted(r, v)
          PROVE  /\ Conforms(d, Value(r, v)) /\ (Missing(v) => Value(r, v) = d.default)
      <4>1. CASE Missing(v)
        <5>1. Value(r, v) = def  BY <2>5, <4>1
        <5>2. m \in low .. dh  BY <1>3, <2>1
        <5>3. QED  BY <2>3, <2>4, <5>1, <5>2 DEF Conforms
      <4>2. CASE ~Missing(v)
        <5>1. Value(r, v) = v /\ v.json = "integer" /\ v.n \in low .. rh
          BY <2>5, <3>1, <4>2 DEF argInt
        <5>2. v.n \in low .. dh  BY <2>1, <5>1
        <5>3. QED  BY <2>3, <4>2, <5>1, <5>2 DEF Conforms
      <4>3. QED  BY <4>1, <4>2
    <3>2. QED  BY <2>3, <3>1 DEF Suffices
  <2>7. Obeys(d, r)
    <3>1. ASSUME NEW v, IsValue(v), Conforms(d, v), ~Accepted(r, v)  PROVE  v.n > MaxInt
      <4>1. v.json = "integer" /\ v.n \in low .. dh  BY <2>3, <2>5, <3>1 DEF Conforms, Missing
      <4>2. ~(v.n \in -MaxInt .. MaxInt) \/ ~(v.n \in low .. rh)  BY <2>5, <3>1, <4>1 DEF argInt
      <4>3. QED  BY <2>1, <4>1, <4>2, ArgumentsAssumption DEF MaxLimit
    <3>2. QED  BY <2>3, <3>1 DEF Obeys, Excused
  <2>8. QED  BY <2>3, <2>6, <2>7 DEF Agree, Names
<1>4. ASSUME NEW a \in {"include_views", "newest_first", "analyze"}, NEW s \in {"true", "false"},
             d = Bool(a, s), r = Bool_(a, s)
      PROVE  Agree(d, r)
  <2>1. PICK def : def = [json |-> "boolean", s |-> s, n |-> 0]  OBVIOUS
  <2>2. /\ d.arg = a /\ d.type = "boolean" /\ ~d.required /\ d.enum = {} /\ d.default = def
        /\ r.arg = a /\ r.how = "argBool" /\ r.def = def
    BY <1>4, <2>1 DEF Bool, Opt, Bool_, Rd
  <2>3. def.json = "boolean"  BY <2>1
  <2>4. ASSUME NEW v  PROVE  /\ Accepted(r, v) <=> Missing(v) \/ v.json = "boolean"
                             /\ Value(r, v) = IF Missing(v) THEN def ELSE v
    BY <2>2, Zenon DEF Accepted, Value
  <2>5. Suffices(d, r)  BY <2>2, <2>3, <2>4 DEF Suffices, Conforms
  <2>6. Obeys(d, r)  BY <2>2, <2>4 DEF Obeys, Conforms, Missing
  <2>7. QED  BY <2>2, <2>5, <2>6 DEF Agree, Names
<1>5. CASE d = Opt("include_sizes", "boolean") /\ r = Rd("include_sizes", "argBoolSet")
  <2>1. /\ d.arg = "include_sizes" /\ d.type = "boolean" /\ ~d.required /\ d.enum = {}
        /\ d.default = Absent /\ r.arg = "include_sizes" /\ r.how = "argBoolSet" /\ r.def = Absent
    BY <1>5 DEF Opt, Rd
  <2>2. ASSUME NEW v  PROVE  /\ Accepted(r, v) <=> Missing(v) \/ v.json = "boolean"
                             /\ Value(r, v) = IF Missing(v) THEN Absent ELSE v
    BY <2>1, Zenon DEF Accepted, Value
  <2>3. Suffices(d, r)  BY <2>1, <2>2 DEF Suffices, Conforms
  <2>4. Obeys(d, r)  BY <2>1, <2>2 DEF Obeys, Conforms, Missing
  <2>5. QED  BY <2>1, <2>3, <2>4 DEF Agree, Names
<1>6. CASE d = TimeoutSchema /\ r = Rd("timeout_seconds", "timeoutArg")
  <2>1. /\ d.arg = "timeout_seconds" /\ d.type = "integer" /\ ~d.required /\ d.enum = {}
        /\ d.default = Absent /\ d.low = 1 /\ d.high = 2 * MaxInt
        /\ r.arg = "timeout_seconds" /\ r.how = "timeoutArg"
    BY <1>6 DEF TimeoutSchema, Opt, Rd
  <2>2. ASSUME NEW v
        PROVE  /\ Accepted(r, v) <=> Missing(v) \/ (argInt(v) /\ v.n \in 0 .. StatementTimeout)
               /\ Value(r, v) = IF Missing(v) \/ v.n = 0 THEN Absent ELSE v
    BY <2>1, Zenon DEF Accepted, Value
  <2>3. Suffices(d, r)
    <3>1. ASSUME NEW v, IsValue(v), Accepted(r, v)
          PROVE  /\ Value(r, v) # Absent => Conforms(d, Value(r, v))
                 /\ Missing(v) => Value(r, v) = d.default
      <4>1. CASE Missing(v) \/ v.n = 0  BY <2>1, <2>2, <4>1
      <4>2. CASE ~Missing(v) /\ v.n # 0
        <5>1. Value(r, v) = v /\ v.json = "integer" /\ v.n \in -MaxInt .. MaxInt /\ v.n \in 0 .. StatementTimeout
          BY <2>2, <3>1, <4>2 DEF argInt
        <5>2. v.n \in 1 .. 2 * MaxInt  BY <4>2, <5>1, ArgumentsAssumption
        <5>3. QED  BY <2>1, <4>2, <5>1, <5>2 DEF Conforms
      <4>3. QED  BY <4>1, <4>2
    <3>2. QED  BY <2>1, <3>1 DEF Suffices
  <2>4. Obeys(d, r)
    <3>1. ASSUME NEW v, IsValue(v), Conforms(d, v), ~Accepted(r, v)
          PROVE  v.n > MaxInt \/ v.n > StatementTimeout
      <4>1. v.json = "integer" /\ v.n \in 1 .. 2 * MaxInt  BY <2>1, <2>2, <3>1 DEF Conforms, Missing
      <4>2. ~(v.n \in -MaxInt .. MaxInt) \/ ~(v.n \in 0 .. StatementTimeout)
        BY <2>2, <3>1, <4>1 DEF argInt
      <4>3. QED  BY <4>1, <4>2, ArgumentsAssumption
    <3>2. QED  BY <2>1, <3>1 DEF Obeys, Excused
  <2>5. QED  BY <2>1, <2>3, <2>4 DEF Agree, Names
<1>7. CASE d = FormatSchema /\ r = Rd("format", "format")
  <2>1. PICK text : text = [json |-> "string", s |-> "text", n |-> 0]  OBVIOUS
  <2>2. /\ d.arg = "format" /\ d.type = "string" /\ ~d.required /\ d.enum = {"text", "json"}
        /\ d.default = text /\ r.arg = "format" /\ r.how = "format"
    BY <1>7, <2>1 DEF FormatSchema, Opt, Rd
  <2>3. ASSUME NEW v
        PROVE  /\ Accepted(r, v) <=> Missing(v) \/ (v.json = "string" /\ Format(v.s) \in {"text", "json"})
               /\ Value(r, v) = [json |-> "string", s |-> Format(v.s), n |-> 0]
    BY <2>2, Zenon DEF Accepted, Value
  <2>4. Format("") = "text" /\ Format("text") = "text" /\ Format("json") = "json"
    BY Zenon DEF Format, Blank
  <2>5. ASSUME NEW v, IsValue(v), Missing(v)  PROVE  Format(v.s) = "text"
    BY <2>4, <2>5, Zenon DEF IsValue
  <2>6. Suffices(d, r)
    <3>1. ASSUME NEW v, IsValue(v), Accepted(r, v)
          PROVE  /\ Conforms(d, Value(r, v)) /\ (Missing(v) => Value(r, v) = d.default)
      <4>1. Format(v.s) \in {"text", "json"}  BY <2>3, <2>5, <3>1
      <4>2. Conforms(d, Value(r, v))  BY <2>2, <2>3, <4>1 DEF Conforms
      <4>3. Missing(v) => Value(r, v) = d.default  BY <2>1, <2>2, <2>3, <2>5, <3>1
      <4>4. QED  BY <4>2, <4>3
    <3>2. QED  BY <2>2, <3>1 DEF Suffices
  <2>7. Obeys(d, r)
    <3>1. ASSUME NEW v, Conforms(d, v)  PROVE  Accepted(r, v)
      <4>1. CASE v.json = "absent"  BY <2>3, <4>1 DEF Missing
      <4>2. CASE v.json # "absent"
        <5>1. v.json = "string" /\ v.s \in {"text", "json"}  BY <2>2, <3>1, <4>2 DEF Conforms
        <5>2. Format(v.s) \in {"text", "json"}  BY <2>4, <5>1
        <5>3. QED  BY <2>3, <5>1, <5>2
      <4>3. QED  BY <4>1, <4>2
    <3>2. QED  BY <3>1 DEF Obeys
  <2>8. QED  BY <2>2, <2>6, <2>7 DEF Agree, Names
<1>8. CASE d = Req("row", "object") /\ r = Rd("row", "row")
  <2>1. /\ d.arg = "row" /\ d.type = "object" /\ d.required /\ d.enum = {}
        /\ d.default = Absent /\ r.arg = "row" /\ r.how = "row" /\ r.def = Absent
    BY <1>8 DEF Req, Opt, Rd
  <2>2. ASSUME NEW v  PROVE  /\ Accepted(r, v) <=> v.json = "object"
                             /\ Value(r, v) = IF Missing(v) THEN Absent ELSE v
    BY <2>1, Zenon DEF Accepted, Value
  <2>3. Suffices(d, r)  BY <1>0, <2>1, <2>2 DEF Suffices, Conforms, Missing
  <2>4. Obeys(d, r)  BY <2>1, <2>2 DEF Obeys, Conforms
  <2>5. QED  BY <2>1, <2>3, <2>4 DEF Agree, Names
<1>9. CASE d = databaseArg /\ r = Rd("database", "database")
  <2>1. /\ d.arg = "database" /\ d.type = "string" /\ d.required = several /\ d.enum = {}
        /\ r.arg = "database" /\ r.how = "database"
    BY <1>9 DEF databaseArg, Req, Opt, Rd
  <2>2. ASSUME NEW v
        PROVE  /\ Accepted(r, v) <=> IF Missing(v) THEN ~several
                                     ELSE v.json = "string" /\ (v.s = Database \/ (v.s = "" /\ ~several))
               /\ Value(r, v) = [json |-> "string", s |-> Database, n |-> 0]
    BY <2>1, Zenon DEF Accepted, Value
  <2>3. Suffices(d, r)
    <3>1. PICK q : q = [json |-> "string", s |-> Database, n |-> 0]  OBVIOUS
    <3>2. ASSUME NEW v  PROVE  Value(r, v) # Absent
      <4>1. Value(r, v) = q  BY <2>2, <3>1, Zenon
      <4>2. q.json = "string"  BY <3>1
      <4>3. QED  BY <1>0, <4>1, <4>2
    <3>3. QED  BY <2>1, <3>2 DEF Suffices
  <2>4. Obeys(d, r)
    <3>1. ASSUME NEW v, IsValue(v), Conforms(d, v), ~Accepted(r, v)  PROVE  v.s # Database
      <4>1. CASE v.json = "absent"
        <5>1. ~several  BY <2>1, <3>1, <4>1 DEF Conforms
        <5>2. QED  BY <2>2, <3>1, <4>1, <5>1 DEF Missing
      <4>2. CASE v.json # "absent"
        <5>1. v.json = "string" /\ ~Missing(v)  BY <2>1, <3>1, <4>2 DEF Conforms, Missing
        <5>2. QED  BY <2>2, <3>1, <5>1, Zenon
      <4>3. QED  BY <4>1, <4>2
    <3>2. QED  BY <2>1, <3>1 DEF Obeys, Excused
  <2>5. QED  BY <2>1, <2>3, <2>4 DEF Agree, Names
<1>10. QED  BY <1>1, <1>2, <1>3, <1>4, <1>5, <1>6, <1>7, <1>8, <1>9, Zenon DEF Matches

-----------------------------------------------------------------------------
(* The tables of the tools *)

\* A sequence with one element, or three, put before it.
LEMMA Joined ==
  ASSUME NEW X, NEW s \in Seq(X), NEW a \in X, NEW b \in X, NEW c \in X
  PROVE  /\ Len(<<a>> \o s) = Len(s) + 1 /\ (<<a>> \o s)[1] = a
         /\ \A j \in 2 .. Len(s) + 1 : (<<a>> \o s)[j] = s[j - 1]
         /\ Len(<<a, b, c>> \o s) = Len(s) + 3
         /\ (<<a, b, c>> \o s)[1] = a /\ (<<a, b, c>> \o s)[2] = b /\ (<<a, b, c>> \o s)[3] = c
         /\ \A j \in 4 .. Len(s) + 3 : (<<a, b, c>> \o s)[j] = s[j - 3]
         /\ <<a>> \o s \in Seq(X) /\ <<a, b, c>> \o s \in Seq(X)
OBVIOUS

\* The lists of reads, element by element.
LEMMA Tuples ==
  ASSUME NEW X, NEW a \in X, NEW b \in X, NEW c \in X, NEW d \in X, NEW e \in X, NEW f \in X
  PROVE  /\ Len(<<a>> \o <<>>) = 1 /\ (<<a>> \o <<>>)[1] = a
         /\ LET r == <<a>> \o <<b, c>> IN
              Len(r) = 3 /\ r[1] = a /\ r[2] = b /\ r[3] = c
         /\ LET r == <<a>> \o <<b, c, d>> IN
              Len(r) = 4 /\ r[1] = a /\ r[2] = b /\ r[3] = c /\ r[4] = d
         /\ LET r == <<a>> \o <<b, c, d, e>> IN
              Len(r) = 5 /\ r[1] = a /\ r[2] = b /\ r[3] = c /\ r[4] = d /\ r[5] = e
         /\ LET r == <<a>> \o (<<b, c, d>> \o <<e>>) IN
              Len(r) = 5 /\ r[1] = a /\ r[2] = b /\ r[3] = c /\ r[4] = d /\ r[5] = e
         /\ LET r == <<a>> \o (<<b, c, d>> \o <<e, f>>) IN
              Len(r) = 6 /\ r[1] = a /\ r[2] = b /\ r[3] = c /\ r[4] = d /\ r[5] = e /\ r[6] = f
<1>1. /\ <<>> \in Seq(X) /\ <<e>> \in Seq(X) /\ <<b, c>> \in Seq(X) /\ <<e, f>> \in Seq(X)
      /\ <<b, c, d>> \in Seq(X) /\ <<b, c, d, e>> \in Seq(X)
  OBVIOUS
<1>2. ASSUME NEW s \in Seq(X)
      PROVE  /\ Len(<<a>> \o s) = Len(s) + 1 /\ (<<a>> \o s)[1] = a
             /\ \A j \in 2 .. Len(s) + 1 : (<<a>> \o s)[j] = s[j - 1]
  BY Joined
<1>3. ASSUME NEW s \in Seq(X)
      PROVE  /\ Len(<<b, c, d>> \o s) = Len(s) + 3
             /\ (<<b, c, d>> \o s)[1] = b /\ (<<b, c, d>> \o s)[2] = c /\ (<<b, c, d>> \o s)[3] = d
             /\ \A j \in 4 .. Len(s) + 3 : (<<b, c, d>> \o s)[j] = s[j - 3]
             /\ <<b, c, d>> \o s \in Seq(X)
  BY Joined
<1>4. Len(<<a>> \o <<>>) = 1 /\ (<<a>> \o <<>>)[1] = a  BY <1>1, <1>2
<1>5. LET r == <<a>> \o <<b, c>> IN Len(r) = 3 /\ r[1] = a /\ r[2] = b /\ r[3] = c
  <2>1. PICK s \in Seq(X) : s = <<b, c>>  BY <1>1
  <2>2. Len(s) = 2 /\ s[1] = b /\ s[2] = c  BY <2>1
  <2>3. PICK r : r = <<a>> \o s  OBVIOUS
  <2>4. Len(r) = 3 /\ r[1] = a /\ r[2] = s[1] /\ r[3] = s[2]  BY <1>2, <2>2, <2>3
  <2>5. QED  BY <2>1, <2>2, <2>3, <2>4
<1>6. LET r == <<a>> \o <<b, c, d>> IN
        Len(r) = 4 /\ r[1] = a /\ r[2] = b /\ r[3] = c /\ r[4] = d
  <2>1. PICK s \in Seq(X) : s = <<b, c, d>>  BY <1>1
  <2>2. Len(s) = 3 /\ s[1] = b /\ s[2] = c /\ s[3] = d  BY <2>1
  <2>3. PICK r : r = <<a>> \o s  OBVIOUS
  <2>4. Len(r) = 4 /\ r[1] = a /\ r[2] = s[1] /\ r[3] = s[2] /\ r[4] = s[3]  BY <1>2, <2>2, <2>3
  <2>5. QED  BY <2>1, <2>2, <2>3, <2>4
<1>7. LET r == <<a>> \o <<b, c, d, e>> IN
        Len(r) = 5 /\ r[1] = a /\ r[2] = b /\ r[3] = c /\ r[4] = d /\ r[5] = e
  <2>1. PICK s \in Seq(X) : s = <<b, c, d, e>>  BY <1>1
  <2>2. Len(s) = 4 /\ s[1] = b /\ s[2] = c /\ s[3] = d /\ s[4] = e  BY <2>1
  <2>3. PICK r : r = <<a>> \o s  OBVIOUS
  <2>4. Len(r) = 5 /\ r[1] = a /\ r[2] = s[1] /\ r[3] = s[2] /\ r[4] = s[3] /\ r[5] = s[4]  BY <1>2, <2>2, <2>3
  <2>5. QED  BY <2>1, <2>2, <2>3, <2>4
<1>8. ASSUME NEW q \in Seq(X)
      PROVE  LET r == <<a>> \o (<<b, c, d>> \o q) IN
               /\ Len(r) = Len(q) + 4 /\ r[1] = a /\ r[2] = b /\ r[3] = c /\ r[4] = d
               /\ \A j \in 5 .. Len(q) + 4 : r[j] = q[j - 4]
  <2>1. PICK s \in Seq(X) : s = <<b, c, d>> \o q  BY <1>3
  <2>2. Len(s) = Len(q) + 3 /\ s[1] = b /\ s[2] = c /\ s[3] = d  BY <1>3, <2>1
  <2>3. ASSUME NEW j \in 4 .. Len(q) + 3  PROVE  s[j] = q[j - 3]  BY <1>3, <2>1
  <2>4. PICK r : r = <<a>> \o s  OBVIOUS
  <2>5. Len(r) = Len(q) + 4 /\ r[1] = a  BY <1>2, <2>2, <2>4
  <2>6. ASSUME NEW j \in 2 .. Len(q) + 4  PROVE  r[j] = s[j - 1]
    BY <1>2, <2>2, <2>4
  <2>7. r[2] = b /\ r[3] = c /\ r[4] = d
    <3>1. Len(q) \in Nat  OBVIOUS
    <3>2. r[2] = s[2 - 1] /\ r[3] = s[3 - 1] /\ r[4] = s[4 - 1]  BY <2>6, <3>1
    <3>3. QED  BY <2>2, <3>2
  <2>8. ASSUME NEW j \in 5 .. Len(q) + 4  PROVE  r[j] = q[j - 4]
    <3>1. Len(q) \in Nat  OBVIOUS
    <3>2. r[j] = s[j - 1] /\ s[j - 1] = q[(j - 1) - 3]  BY <2>3, <2>6, <3>1
    <3>3. QED  BY <3>1, <3>2
  <2>9. QED  BY <2>1, <2>4, <2>5, <2>7, <2>8
<1>9. /\ LET r == <<a>> \o (<<b, c, d>> \o <<e>>) IN
           Len(r) = 5 /\ r[1] = a /\ r[2] = b /\ r[3] = c /\ r[4] = d /\ r[5] = e
      /\ LET r == <<a>> \o (<<b, c, d>> \o <<e, f>>) IN
           Len(r) = 6 /\ r[1] = a /\ r[2] = b /\ r[3] = c /\ r[4] = d /\ r[5] = e /\ r[6] = f
  <2>1. ASSUME NEW q \in Seq(X), NEW r, r = <<a>> \o (<<b, c, d>> \o q)
        PROVE  /\ Len(r) = Len(q) + 4 /\ r[1] = a /\ r[2] = b /\ r[3] = c /\ r[4] = d
               /\ \A j \in 5 .. Len(q) + 4 : r[j] = q[j - 4]
    BY <1>8, <2>1
  <2>2. PICK q, r : q \in Seq(X) /\ q = <<e>> /\ r = <<a>> \o (<<b, c, d>> \o q)  BY <1>1
  <2>3. Len(q) = 1 /\ q[1] = e  BY <2>2
  <2>4. Len(r) = 5 /\ r[1] = a /\ r[2] = b /\ r[3] = c /\ r[4] = d /\ r[5] = q[5 - 4]
    BY <2>1, <2>2, <2>3
  <2>5. PICK z, u : z \in Seq(X) /\ z = <<e, f>> /\ u = <<a>> \o (<<b, c, d>> \o z)  BY <1>1
  <2>6. Len(z) = 2 /\ z[1] = e /\ z[2] = f  BY <2>5
  <2>7. Len(u) = 6 /\ u[1] = a /\ u[2] = b /\ u[3] = c /\ u[4] = d /\ u[5] = z[5 - 4] /\ u[6] = z[6 - 4]
    BY <2>1, <2>5, <2>6
  <2>8. QED  BY <2>2, <2>3, <2>4, <2>5, <2>6, <2>7
<1>10. QED  BY <1>4, <1>5, <1>6, <1>7, <1>9

\* The reads of each tool one by one: the handler of each reads its own list.
ReadsOf(t, r) ==
  /\ t = "list_databases" =>
       /\ Len(r) = 0
  /\ t = "plain" =>
       /\ Len(r) = 1 /\ r[1] = Rd("database", "database")
  /\ t = "list_tables" =>
       /\ Len(r) = 6 /\ r[1] = Rd("database", "database")
       /\ r[2] = Int_("limit", DefaultListLimit, 1, MaxLimit)
       /\ r[3] = Int_("offset", 0, 0, MaxInt) /\ r[4] = Rd("include_sizes", "argBoolSet")
       /\ r[5] = Rd("schema", "argString") /\ r[6] = Bool_("include_views", "true")
  /\ t = "list_hypertables" =>
       /\ Len(r) = 5 /\ r[1] = Rd("database", "database")
       /\ r[2] = Int_("limit", DefaultListLimit, 1, MaxLimit)
       /\ r[3] = Int_("offset", 0, 0, MaxInt) /\ r[4] = Rd("include_sizes", "argBoolSet")
       /\ r[5] = Rd("schema", "argString")
  /\ t = "describe_table" =>
       /\ Len(r) = 3 /\ r[1] = Rd("database", "database")
       /\ r[2] = Rd("schema", "requireString") /\ r[3] = Rd("table", "requireString")
  /\ t = "list_chunks" =>
       /\ Len(r) = 5 /\ r[1] = Rd("database", "database")
       /\ r[2] = Rd("schema", "requireString") /\ r[3] = Rd("hypertable", "requireString")
       /\ r[4] = Int_("limit", DefaultChunkLimit, 1, MaxLimit)
       /\ r[5] = Bool_("newest_first", "true")
  /\ t = "sample_rows" =>
       /\ Len(r) = 4 /\ r[1] = Rd("database", "database")
       /\ r[2] = Rd("schema", "requireString") /\ r[3] = Rd("table", "requireString")
       /\ r[4] = Int_("limit", DefaultSampleLimit, 1, MaxInt)
  /\ t = "query" =>
       /\ Len(r) = 4 /\ r[1] = Rd("database", "database")
       /\ r[2] = Rd("sql", "requireString")
       /\ r[3] = Int_("max_rows", DefaultQueryRows, 1, MaxInt)
       /\ r[4] = Rd("timeout_seconds", "timeoutArg")
  /\ t = "explain" =>
       /\ Len(r) = 5 /\ r[1] = Rd("database", "database")
       /\ r[2] = Rd("sql", "requireString") /\ r[3] = Bool_("analyze", "false")
       /\ r[4] = Rd("format", "format") /\ r[5] = Rd("timeout_seconds", "timeoutArg")
  /\ t = "insert_row" =>
       /\ Len(r) = 3 /\ r[1] = Rd("database", "database")
       /\ r[2] = Rd("table", "requireString") /\ r[3] = Rd("row", "row")

\* That is what Reads puts together.
LEMMA ReadsAre ==
  ASSUME NEW t \in Tools
  PROVE  ReadsOf(t, Reads(t))
<1>1. CASE t = "list_databases"
  <2>1. Reads(t) = <<>> \o <<>>  BY <1>1 DEF Reads
  <2>2. QED  BY <1>1, <2>1 DEF ReadsOf
<1>2. CASE t = "plain"
  <2>1. PICK a : a = Rd("database", "database")
    OBVIOUS
  <2>2. Reads(t) = <<a>> \o <<>>
    BY <1>2, <2>1, Zenon DEF Reads
  <2>3. PICK X : X = {a}  OBVIOUS
  <2>4. /\ Len(Reads(t)) = 1 /\ Reads(t)[1] = a
    BY <2>2, <2>3, Tuples
  <2>5. QED  BY <1>2, <2>1, <2>4, Zenon DEF ReadsOf
<1>3. CASE t = "list_tables"
  <2>1. PICK a, b, c, d, e, f : a = Rd("database", "database")
                                 /\ b = Int_("limit", DefaultListLimit, 1, MaxLimit)
                                 /\ c = Int_("offset", 0, 0, MaxInt)
                                 /\ d = Rd("include_sizes", "argBoolSet")
                                 /\ e = Rd("schema", "argString")
                                 /\ f = Bool_("include_views", "true")
    OBVIOUS
  <2>2. Reads(t) = <<a>> \o (<<b, c, d>> \o <<e, f>>)
    BY <1>3, <2>1, Zenon DEF Reads, pageOptions
  <2>3. PICK X : X = {a, b, c, d, e, f}  OBVIOUS
  <2>4. /\ Len(Reads(t)) = 6 /\ Reads(t)[1] = a /\ Reads(t)[2] = b /\ Reads(t)[3] = c
        /\ Reads(t)[4] = d /\ Reads(t)[5] = e /\ Reads(t)[6] = f
    BY <2>2, <2>3, Tuples
  <2>5. QED  BY <1>3, <2>1, <2>4, Zenon DEF ReadsOf
<1>4. CASE t = "list_hypertables"
  <2>1. PICK a, b, c, d, e : a = Rd("database", "database")
                              /\ b = Int_("limit", DefaultListLimit, 1, MaxLimit)
                              /\ c = Int_("offset", 0, 0, MaxInt)
                              /\ d = Rd("include_sizes", "argBoolSet")
                              /\ e = Rd("schema", "argString")
    OBVIOUS
  <2>2. Reads(t) = <<a>> \o (<<b, c, d>> \o <<e>>)
    BY <1>4, <2>1, Zenon DEF Reads, pageOptions
  <2>3. PICK X : X = {a, b, c, d, e}  OBVIOUS
  <2>4. /\ Len(Reads(t)) = 5 /\ Reads(t)[1] = a /\ Reads(t)[2] = b /\ Reads(t)[3] = c
        /\ Reads(t)[4] = d /\ Reads(t)[5] = e
    BY <2>2, <2>3, Tuples
  <2>5. QED  BY <1>4, <2>1, <2>4, Zenon DEF ReadsOf
<1>5. CASE t = "describe_table"
  <2>1. PICK a, b, c : a = Rd("database", "database")
                        /\ b = Rd("schema", "requireString")
                        /\ c = Rd("table", "requireString")
    OBVIOUS
  <2>2. Reads(t) = <<a>> \o <<b, c>>
    BY <1>5, <2>1, Zenon DEF Reads
  <2>3. PICK X : X = {a, b, c}  OBVIOUS
  <2>4. /\ Len(Reads(t)) = 3 /\ Reads(t)[1] = a /\ Reads(t)[2] = b /\ Reads(t)[3] = c
    BY <2>2, <2>3, Tuples
  <2>5. QED  BY <1>5, <2>1, <2>4, Zenon DEF ReadsOf
<1>6. CASE t = "list_chunks"
  <2>1. PICK a, b, c, d, e : a = Rd("database", "database")
                              /\ b = Rd("schema", "requireString")
                              /\ c = Rd("hypertable", "requireString")
                              /\ d = Int_("limit", DefaultChunkLimit, 1, MaxLimit)
                              /\ e = Bool_("newest_first", "true")
    OBVIOUS
  <2>2. Reads(t) = <<a>> \o <<b, c, d, e>>
    BY <1>6, <2>1, Zenon DEF Reads
  <2>3. PICK X : X = {a, b, c, d, e}  OBVIOUS
  <2>4. /\ Len(Reads(t)) = 5 /\ Reads(t)[1] = a /\ Reads(t)[2] = b /\ Reads(t)[3] = c
        /\ Reads(t)[4] = d /\ Reads(t)[5] = e
    BY <2>2, <2>3, Tuples
  <2>5. QED  BY <1>6, <2>1, <2>4, Zenon DEF ReadsOf
<1>7. CASE t = "sample_rows"
  <2>1. PICK a, b, c, d : a = Rd("database", "database")
                           /\ b = Rd("schema", "requireString")
                           /\ c = Rd("table", "requireString")
                           /\ d = Int_("limit", DefaultSampleLimit, 1, MaxInt)
    OBVIOUS
  <2>2. Reads(t) = <<a>> \o <<b, c, d>>
    BY <1>7, <2>1, Zenon DEF Reads, sampleReads
  <2>3. PICK X : X = {a, b, c, d}  OBVIOUS
  <2>4. /\ Len(Reads(t)) = 4 /\ Reads(t)[1] = a /\ Reads(t)[2] = b /\ Reads(t)[3] = c
        /\ Reads(t)[4] = d
    BY <2>2, <2>3, Tuples
  <2>5. QED  BY <1>7, <2>1, <2>4, Zenon DEF ReadsOf
<1>8. CASE t = "query"
  <2>1. PICK a, b, c, d : a = Rd("database", "database")
                           /\ b = Rd("sql", "requireString")
                           /\ c = Int_("max_rows", DefaultQueryRows, 1, MaxInt)
                           /\ d = Rd("timeout_seconds", "timeoutArg")
    OBVIOUS
  <2>2. Reads(t) = <<a>> \o <<b, c, d>>
    BY <1>8, <2>1, Zenon DEF Reads
  <2>3. PICK X : X = {a, b, c, d}  OBVIOUS
  <2>4. /\ Len(Reads(t)) = 4 /\ Reads(t)[1] = a /\ Reads(t)[2] = b /\ Reads(t)[3] = c
        /\ Reads(t)[4] = d
    BY <2>2, <2>3, Tuples
  <2>5. QED  BY <1>8, <2>1, <2>4, Zenon DEF ReadsOf
<1>9. CASE t = "explain"
  <2>1. PICK a, b, c, d, e : a = Rd("database", "database")
                              /\ b = Rd("sql", "requireString")
                              /\ c = Bool_("analyze", "false") /\ d = Rd("format", "format")
                              /\ e = Rd("timeout_seconds", "timeoutArg")
    OBVIOUS
  <2>2. Reads(t) = <<a>> \o <<b, c, d, e>>
    BY <1>9, <2>1, Zenon DEF Reads
  <2>3. PICK X : X = {a, b, c, d, e}  OBVIOUS
  <2>4. /\ Len(Reads(t)) = 5 /\ Reads(t)[1] = a /\ Reads(t)[2] = b /\ Reads(t)[3] = c
        /\ Reads(t)[4] = d /\ Reads(t)[5] = e
    BY <2>2, <2>3, Tuples
  <2>5. QED  BY <1>9, <2>1, <2>4, Zenon DEF ReadsOf
<1>10. CASE t = "insert_row"
  <2>1. PICK a, b, c : a = Rd("database", "database")
                        /\ b = Rd("table", "requireString") /\ c = Rd("row", "row")
    OBVIOUS
  <2>2. Reads(t) = <<a>> \o <<b, c>>
    BY <1>10, <2>1, Zenon DEF Reads
  <2>3. PICK X : X = {a, b, c}  OBVIOUS
  <2>4. /\ Len(Reads(t)) = 3 /\ Reads(t)[1] = a /\ Reads(t)[2] = b /\ Reads(t)[3] = c
    BY <2>2, <2>3, Tuples
  <2>5. QED  BY <1>10, <2>1, <2>4, Zenon DEF ReadsOf
<1>11. QED  BY <1>1, <1>2, <1>3, <1>4, <1>5, <1>6, <1>7, <1>8, <1>9, <1>10 DEF Tools

\* The arguments by name.
LEMMA ArgsAre ==
  ASSUME NEW a, NEW b, NEW m, NEW low, NEW high
  PROVE  /\ Opt(a, b).arg = a /\ Req(a, b).arg = a /\ Number(a, m, low, high).arg = a /\ Bool(a, b).arg = a
         /\ Rd(a, b).arg = a /\ Int_(a, m, low, high).arg = a /\ Bool_(a, b).arg = a
         /\ databaseArg.arg = "database" /\ TimeoutSchema.arg = "timeout_seconds" /\ FormatSchema.arg = "format"
<1>1. /\ Opt(a, b).arg = a /\ Req(a, b).arg = a /\ Number(a, m, low, high).arg = a /\ Bool(a, b).arg = a
  BY DEF Opt, Req, Number, Bool
<1>2. Rd(a, b).arg = a /\ Int_(a, m, low, high).arg = a /\ Bool_(a, b).arg = a
  BY DEF Rd, Int_, Bool_
<1>3. databaseArg.arg = "database"
  BY DEF databaseArg, Req, Opt
<1>4. TimeoutSchema.arg = "timeout_seconds" /\ FormatSchema.arg = "format"
  BY DEF TimeoutSchema, FormatSchema, Opt
<1>5. QED  BY <1>1, <1>2, <1>3, <1>4

\* What is declared and what is read, one pair for each argument of a tool.
LEMMA Pairs ==
  /\ Matches(databaseArg,
             Rd("database", "database"))
  /\ Matches(Number("limit", DefaultListLimit, 1, MaxLimit),
             Int_("limit", DefaultListLimit, 1, MaxLimit))
  /\ Matches(Number("offset", 0, 0, 2 * MaxInt),
             Int_("offset", 0, 0, MaxInt))
  /\ Matches(Opt("include_sizes", "boolean"),
             Rd("include_sizes", "argBoolSet"))
  /\ Matches(Opt("schema", "string"),
             Rd("schema", "argString"))
  /\ Matches(Bool("include_views", "true"),
             Bool_("include_views", "true"))
  /\ Matches(Req("schema", "string"),
             Rd("schema", "requireString"))
  /\ Matches(Req("table", "string"),
             Rd("table", "requireString"))
  /\ Matches(Req("hypertable", "string"),
             Rd("hypertable", "requireString"))
  /\ Matches(Number("limit", DefaultChunkLimit, 1, MaxLimit),
             Int_("limit", DefaultChunkLimit, 1, MaxLimit))
  /\ Matches(Bool("newest_first", "true"),
             Bool_("newest_first", "true"))
  /\ Matches(Number("limit", DefaultSampleLimit, 1, 2 * MaxInt),
             Int_("limit", DefaultSampleLimit, 1, MaxInt))
  /\ Matches(Req("sql", "string"),
             Rd("sql", "requireString"))
  /\ Matches(Number("max_rows", DefaultQueryRows, 1, 2 * MaxInt),
             Int_("max_rows", DefaultQueryRows, 1, MaxInt))
  /\ Matches(TimeoutSchema,
             Rd("timeout_seconds", "timeoutArg"))
  /\ Matches(Bool("analyze", "false"),
             Bool_("analyze", "false"))
  /\ Matches(FormatSchema,
             Rd("format", "format"))
  /\ Matches(Req("row", "object"),
             Rd("row", "row"))
<1>1. Matches(databaseArg,
             Rd("database", "database"))
  BY Zenon DEF Matches
<1>2. Matches(Number("limit", DefaultListLimit, 1, MaxLimit),
             Int_("limit", DefaultListLimit, 1, MaxLimit))
  <2>1. DefaultListLimit \in 0 .. MaxLimit /\ 1 \in 0 .. 1 /\ DefaultListLimit >= 1
    BY DEF MaxLimit, DefaultListLimit
  <2>2. "limit" \in {"limit", "offset", "max_rows"}  OBVIOUS
  <2>3. QED  BY <2>1, <2>2, Zenon DEF Matches
<1>3. Matches(Number("offset", 0, 0, 2 * MaxInt),
             Int_("offset", 0, 0, MaxInt))
  <2>1. 0 \in 0 .. MaxLimit /\ 0 \in 0 .. 1 /\ 0 >= 0
    BY DEF MaxLimit
  <2>2. "offset" \in {"limit", "offset", "max_rows"}  OBVIOUS
  <2>3. QED  BY <2>1, <2>2, Zenon DEF Matches
<1>4. Matches(Opt("include_sizes", "boolean"),
             Rd("include_sizes", "argBoolSet"))
  BY Zenon DEF Matches
<1>5. Matches(Opt("schema", "string"),
             Rd("schema", "argString"))
  BY Zenon DEF Matches
<1>6. Matches(Bool("include_views", "true"),
             Bool_("include_views", "true"))
  BY Zenon DEF Matches
<1>7. Matches(Req("schema", "string"),
             Rd("schema", "requireString"))
  BY Zenon DEF Matches
<1>8. Matches(Req("table", "string"),
             Rd("table", "requireString"))
  BY Zenon DEF Matches
<1>9. Matches(Req("hypertable", "string"),
             Rd("hypertable", "requireString"))
  BY Zenon DEF Matches
<1>10. Matches(Number("limit", DefaultChunkLimit, 1, MaxLimit),
             Int_("limit", DefaultChunkLimit, 1, MaxLimit))
  <2>1. DefaultChunkLimit \in 0 .. MaxLimit /\ 1 \in 0 .. 1 /\ DefaultChunkLimit >= 1
    BY DEF MaxLimit, DefaultChunkLimit
  <2>2. "limit" \in {"limit", "offset", "max_rows"}  OBVIOUS
  <2>3. QED  BY <2>1, <2>2, Zenon DEF Matches
<1>11. Matches(Bool("newest_first", "true"),
             Bool_("newest_first", "true"))
  BY Zenon DEF Matches
<1>12. Matches(Number("limit", DefaultSampleLimit, 1, 2 * MaxInt),
             Int_("limit", DefaultSampleLimit, 1, MaxInt))
  <2>1. DefaultSampleLimit \in 0 .. MaxLimit /\ 1 \in 0 .. 1 /\ DefaultSampleLimit >= 1
    BY DEF MaxLimit, DefaultSampleLimit
  <2>2. "limit" \in {"limit", "offset", "max_rows"}  OBVIOUS
  <2>3. QED  BY <2>1, <2>2, Zenon DEF Matches
<1>13. Matches(Req("sql", "string"),
             Rd("sql", "requireString"))
  BY Zenon DEF Matches
<1>14. Matches(Number("max_rows", DefaultQueryRows, 1, 2 * MaxInt),
             Int_("max_rows", DefaultQueryRows, 1, MaxInt))
  <2>1. DefaultQueryRows \in 0 .. MaxLimit /\ 1 \in 0 .. 1 /\ DefaultQueryRows >= 1
    BY DEF MaxLimit, DefaultQueryRows
  <2>2. "max_rows" \in {"limit", "offset", "max_rows"}  OBVIOUS
  <2>3. QED  BY <2>1, <2>2, Zenon DEF Matches
<1>15. Matches(TimeoutSchema,
             Rd("timeout_seconds", "timeoutArg"))
  BY Zenon DEF Matches
<1>16. Matches(Bool("analyze", "false"),
             Bool_("analyze", "false"))
  BY Zenon DEF Matches
<1>17. Matches(FormatSchema,
             Rd("format", "format"))
  BY Zenon DEF Matches
<1>18. Matches(Req("row", "object"),
             Rd("row", "row"))
  BY Zenon DEF Matches
<1>19. QED  BY <1>1, <1>2, <1>3, <1>4, <1>5, <1>6, <1>7, <1>8, <1>9, <1>10, <1>11, <1>12, <1>13, <1>14, <1>15, <1>16, <1>17, <1>18, Zenon

\* Declared and read are the same arguments, each of them once.
Paired(t) ==
  /\ Len(Reads(t)) \in Nat
  /\ \A j \in 1 .. Len(Reads(t)) : \E d \in Schema(t) : Matches(d, Reads(t)[j])
  /\ \A d \in Schema(t) : \E j \in 1 .. Len(Reads(t)) : Matches(d, Reads(t)[j])
  /\ \A j, m \in 1 .. Len(Reads(t)) : Reads(t)[j].arg = Reads(t)[m].arg => j = m
  /\ {d.arg : d \in Schema(t)} = allowedArgs(t)

\* The tables written down twice, in Schema and in Reads, pair up.
LEMMA AllPaired ==
  ASSUME NEW t \in Tools
  PROVE  Paired(t)
<1>0. ReadsOf(t, Reads(t))  BY ReadsAre
<1>1. CASE t = "list_databases"
  <2>1. Len(Reads(t)) = 0  BY <1>0, <1>1, Zenon DEF ReadsOf
  <2>2. Schema(t) = {} /\ allowedArgs(t) = {}  BY <1>1 DEF Schema, allowedArgs
  <2>3. QED  BY <2>1, <2>2 DEF Paired
<1>2. CASE t = "plain"
  <2>1. PICK d1, r1 :
          /\ d1 = databaseArg /\ r1 = Rd("database", "database")
    OBVIOUS
  <2>2. /\ Len(Reads(t)) = 1 /\ Reads(t)[1] = r1
    BY <1>0, <1>2, <2>1, Zenon DEF ReadsOf
  <2>3. Schema(t) = {d1}
    BY <1>2, <2>1, SMT DEF Schema
  <2>4. /\ d1.arg = "database" /\ r1.arg = "database"
    <3>1. d1.arg = "database"  BY <2>1, ArgsAre, Zenon
    <3>2. r1.arg = "database"  BY <2>1, ArgsAre, Zenon
    <3>3. QED  BY <3>1, <3>2, Zenon
  <2>5. /\ Matches(d1, r1)
    BY <2>1, Pairs, Zenon
  <2>6. allowedArgs(t) = {"database"}
    BY <1>2 DEF allowedArgs
  <2>7. {d.arg : d \in Schema(t)} = allowedArgs(t)  BY <2>3, <2>4, <2>6
  <2>8. ASSUME NEW j \in 1 .. Len(Reads(t))  PROVE  \E d \in Schema(t) : Matches(d, Reads(t)[j])
    BY <2>2, <2>3, <2>5
  <2>9. ASSUME NEW d \in Schema(t)  PROVE  \E j \in 1 .. Len(Reads(t)) : Matches(d, Reads(t)[j])
    BY <2>2, <2>3, <2>5
  <2>10. QED  BY <2>2, <2>4, <2>7, <2>8, <2>9 DEF Paired
<1>3. CASE t = "list_tables"
  <2>1. PICK d1, d2, d3, d4, d5, d6, r1, r2, r3, r4, r5, r6 :
          /\ d1 = databaseArg /\ d2 = Number("limit", DefaultListLimit, 1, MaxLimit)
          /\ d3 = Number("offset", 0, 0, 2 * MaxInt) /\ d4 = Opt("include_sizes", "boolean")
          /\ d5 = Opt("schema", "string") /\ d6 = Bool("include_views", "true")
          /\ r1 = Rd("database", "database")
          /\ r2 = Int_("limit", DefaultListLimit, 1, MaxLimit)
          /\ r3 = Int_("offset", 0, 0, MaxInt) /\ r4 = Rd("include_sizes", "argBoolSet")
          /\ r5 = Rd("schema", "argString") /\ r6 = Bool_("include_views", "true")
    OBVIOUS
  <2>2. /\ Len(Reads(t)) = 6 /\ Reads(t)[1] = r1 /\ Reads(t)[2] = r2 /\ Reads(t)[3] = r3
        /\ Reads(t)[4] = r4 /\ Reads(t)[5] = r5 /\ Reads(t)[6] = r6
    BY <1>0, <1>3, <2>1, Zenon DEF ReadsOf
  <2>3. Schema(t) = {d1, d2, d3, d4, d5, d6}
    BY <1>3, <2>1, SMT DEF Schema, pageArgs
  <2>4. /\ d1.arg = "database" /\ d2.arg = "limit" /\ d3.arg = "offset"
        /\ d4.arg = "include_sizes" /\ d5.arg = "schema" /\ d6.arg = "include_views"
        /\ r1.arg = "database" /\ r2.arg = "limit" /\ r3.arg = "offset"
        /\ r4.arg = "include_sizes" /\ r5.arg = "schema" /\ r6.arg = "include_views"
    <3>1. d1.arg = "database"  BY <2>1, ArgsAre, Zenon
    <3>2. d2.arg = "limit"
      <4>1. d2 = Number("limit", DefaultListLimit, 1, MaxLimit)  BY <2>1, Zenon
      <4>2. QED  BY <4>1, Zenon DEF Number, Opt
    <3>3. d3.arg = "offset"
      <4>1. d3 = Number("offset", 0, 0, 2 * MaxInt)  BY <2>1, Zenon
      <4>2. QED  BY <4>1, Zenon DEF Number, Opt
    <3>4. d4.arg = "include_sizes"  BY <2>1, ArgsAre, Zenon
    <3>5. d5.arg = "schema"  BY <2>1, ArgsAre, Zenon
    <3>6. d6.arg = "include_views"  BY <2>1, ArgsAre, Zenon
    <3>7. r1.arg = "database"  BY <2>1, ArgsAre, Zenon
    <3>8. r2.arg = "limit"
      <4>1. r2 = Int_("limit", DefaultListLimit, 1, MaxLimit)  BY <2>1, Zenon
      <4>2. QED  BY <4>1, Zenon DEF Int_
    <3>9. r3.arg = "offset"
      <4>1. r3 = Int_("offset", 0, 0, MaxInt)  BY <2>1, Zenon
      <4>2. QED  BY <4>1, Zenon DEF Int_
    <3>10. r4.arg = "include_sizes"  BY <2>1, ArgsAre, Zenon
    <3>11. r5.arg = "schema"  BY <2>1, ArgsAre, Zenon
    <3>12. r6.arg = "include_views"  BY <2>1, ArgsAre, Zenon
    <3>13. QED  BY <3>1, <3>2, <3>3, <3>4, <3>5, <3>6, <3>7, <3>8, <3>9, <3>10, <3>11, <3>12, Zenon
  <2>5. /\ Matches(d1, r1) /\ Matches(d2, r2) /\ Matches(d3, r3) /\ Matches(d4, r4)
        /\ Matches(d5, r5) /\ Matches(d6, r6)
    BY <2>1, Pairs, Zenon
  <2>6. allowedArgs(t) = {"database", "limit", "offset", "include_sizes", "schema", "include_views"}
    BY <1>3 DEF allowedArgs
  <2>7. {d.arg : d \in Schema(t)} = allowedArgs(t)  BY <2>3, <2>4, <2>6
  <2>8. ASSUME NEW j \in 1 .. Len(Reads(t))  PROVE  \E d \in Schema(t) : Matches(d, Reads(t)[j])
    BY <2>2, <2>3, <2>5
  <2>9. ASSUME NEW d \in Schema(t)  PROVE  \E j \in 1 .. Len(Reads(t)) : Matches(d, Reads(t)[j])
    BY <2>2, <2>3, <2>5
  <2>10. QED  BY <2>2, <2>4, <2>7, <2>8, <2>9 DEF Paired
<1>4. CASE t = "list_hypertables"
  <2>1. PICK d1, d2, d3, d4, d5, r1, r2, r3, r4, r5 :
          /\ d1 = databaseArg /\ d2 = Number("limit", DefaultListLimit, 1, MaxLimit)
          /\ d3 = Number("offset", 0, 0, 2 * MaxInt) /\ d4 = Opt("include_sizes", "boolean")
          /\ d5 = Opt("schema", "string") /\ r1 = Rd("database", "database")
          /\ r2 = Int_("limit", DefaultListLimit, 1, MaxLimit)
          /\ r3 = Int_("offset", 0, 0, MaxInt) /\ r4 = Rd("include_sizes", "argBoolSet")
          /\ r5 = Rd("schema", "argString")
    OBVIOUS
  <2>2. /\ Len(Reads(t)) = 5 /\ Reads(t)[1] = r1 /\ Reads(t)[2] = r2 /\ Reads(t)[3] = r3
        /\ Reads(t)[4] = r4 /\ Reads(t)[5] = r5
    BY <1>0, <1>4, <2>1, Zenon DEF ReadsOf
  <2>3. Schema(t) = {d1, d2, d3, d4, d5}
    BY <1>4, <2>1, SMT DEF Schema, pageArgs
  <2>4. /\ d1.arg = "database" /\ d2.arg = "limit" /\ d3.arg = "offset"
        /\ d4.arg = "include_sizes" /\ d5.arg = "schema" /\ r1.arg = "database"
        /\ r2.arg = "limit" /\ r3.arg = "offset" /\ r4.arg = "include_sizes"
        /\ r5.arg = "schema"
    <3>1. d1.arg = "database"  BY <2>1, ArgsAre, Zenon
    <3>2. d2.arg = "limit"
      <4>1. d2 = Number("limit", DefaultListLimit, 1, MaxLimit)  BY <2>1, Zenon
      <4>2. QED  BY <4>1, Zenon DEF Number, Opt
    <3>3. d3.arg = "offset"
      <4>1. d3 = Number("offset", 0, 0, 2 * MaxInt)  BY <2>1, Zenon
      <4>2. QED  BY <4>1, Zenon DEF Number, Opt
    <3>4. d4.arg = "include_sizes"  BY <2>1, ArgsAre, Zenon
    <3>5. d5.arg = "schema"  BY <2>1, ArgsAre, Zenon
    <3>6. r1.arg = "database"  BY <2>1, ArgsAre, Zenon
    <3>7. r2.arg = "limit"
      <4>1. r2 = Int_("limit", DefaultListLimit, 1, MaxLimit)  BY <2>1, Zenon
      <4>2. QED  BY <4>1, Zenon DEF Int_
    <3>8. r3.arg = "offset"
      <4>1. r3 = Int_("offset", 0, 0, MaxInt)  BY <2>1, Zenon
      <4>2. QED  BY <4>1, Zenon DEF Int_
    <3>9. r4.arg = "include_sizes"  BY <2>1, ArgsAre, Zenon
    <3>10. r5.arg = "schema"  BY <2>1, ArgsAre, Zenon
    <3>11. QED  BY <3>1, <3>2, <3>3, <3>4, <3>5, <3>6, <3>7, <3>8, <3>9, <3>10, Zenon
  <2>5. /\ Matches(d1, r1) /\ Matches(d2, r2) /\ Matches(d3, r3) /\ Matches(d4, r4)
        /\ Matches(d5, r5)
    BY <2>1, Pairs, Zenon
  <2>6. allowedArgs(t) = {"database", "limit", "offset", "include_sizes", "schema"}
    BY <1>4 DEF allowedArgs
  <2>7. {d.arg : d \in Schema(t)} = allowedArgs(t)  BY <2>3, <2>4, <2>6
  <2>8. ASSUME NEW j \in 1 .. Len(Reads(t))  PROVE  \E d \in Schema(t) : Matches(d, Reads(t)[j])
    BY <2>2, <2>3, <2>5
  <2>9. ASSUME NEW d \in Schema(t)  PROVE  \E j \in 1 .. Len(Reads(t)) : Matches(d, Reads(t)[j])
    BY <2>2, <2>3, <2>5
  <2>10. QED  BY <2>2, <2>4, <2>7, <2>8, <2>9 DEF Paired
<1>5. CASE t = "describe_table"
  <2>1. PICK d1, d2, d3, r1, r2, r3 :
          /\ d1 = databaseArg /\ d2 = Req("schema", "string") /\ d3 = Req("table", "string")
          /\ r1 = Rd("database", "database") /\ r2 = Rd("schema", "requireString")
          /\ r3 = Rd("table", "requireString")
    OBVIOUS
  <2>2. /\ Len(Reads(t)) = 3 /\ Reads(t)[1] = r1 /\ Reads(t)[2] = r2 /\ Reads(t)[3] = r3
    BY <1>0, <1>5, <2>1, Zenon DEF ReadsOf
  <2>3. Schema(t) = {d1, d2, d3}
    BY <1>5, <2>1, SMT DEF Schema
  <2>4. /\ d1.arg = "database" /\ d2.arg = "schema" /\ d3.arg = "table"
        /\ r1.arg = "database" /\ r2.arg = "schema" /\ r3.arg = "table"
    <3>1. d1.arg = "database"  BY <2>1, ArgsAre, Zenon
    <3>2. d2.arg = "schema"  BY <2>1, ArgsAre, Zenon
    <3>3. d3.arg = "table"  BY <2>1, ArgsAre, Zenon
    <3>4. r1.arg = "database"  BY <2>1, ArgsAre, Zenon
    <3>5. r2.arg = "schema"  BY <2>1, ArgsAre, Zenon
    <3>6. r3.arg = "table"  BY <2>1, ArgsAre, Zenon
    <3>7. QED  BY <3>1, <3>2, <3>3, <3>4, <3>5, <3>6, Zenon
  <2>5. /\ Matches(d1, r1) /\ Matches(d2, r2) /\ Matches(d3, r3)
    BY <2>1, Pairs, Zenon
  <2>6. allowedArgs(t) = {"database", "schema", "table"}
    BY <1>5 DEF allowedArgs
  <2>7. {d.arg : d \in Schema(t)} = allowedArgs(t)  BY <2>3, <2>4, <2>6
  <2>8. ASSUME NEW j \in 1 .. Len(Reads(t))  PROVE  \E d \in Schema(t) : Matches(d, Reads(t)[j])
    BY <2>2, <2>3, <2>5
  <2>9. ASSUME NEW d \in Schema(t)  PROVE  \E j \in 1 .. Len(Reads(t)) : Matches(d, Reads(t)[j])
    BY <2>2, <2>3, <2>5
  <2>10. QED  BY <2>2, <2>4, <2>7, <2>8, <2>9 DEF Paired
<1>6. CASE t = "list_chunks"
  <2>1. PICK d1, d2, d3, d4, d5, r1, r2, r3, r4, r5 :
          /\ d1 = databaseArg /\ d2 = Req("schema", "string")
          /\ d3 = Req("hypertable", "string")
          /\ d4 = Number("limit", DefaultChunkLimit, 1, MaxLimit)
          /\ d5 = Bool("newest_first", "true") /\ r1 = Rd("database", "database")
          /\ r2 = Rd("schema", "requireString") /\ r3 = Rd("hypertable", "requireString")
          /\ r4 = Int_("limit", DefaultChunkLimit, 1, MaxLimit)
          /\ r5 = Bool_("newest_first", "true")
    OBVIOUS
  <2>2. /\ Len(Reads(t)) = 5 /\ Reads(t)[1] = r1 /\ Reads(t)[2] = r2 /\ Reads(t)[3] = r3
        /\ Reads(t)[4] = r4 /\ Reads(t)[5] = r5
    BY <1>0, <1>6, <2>1, Zenon DEF ReadsOf
  <2>3. Schema(t) = {d1, d2, d3, d4, d5}
    BY <1>6, <2>1, SMT DEF Schema
  <2>4. /\ d1.arg = "database" /\ d2.arg = "schema" /\ d3.arg = "hypertable"
        /\ d4.arg = "limit" /\ d5.arg = "newest_first" /\ r1.arg = "database"
        /\ r2.arg = "schema" /\ r3.arg = "hypertable" /\ r4.arg = "limit"
        /\ r5.arg = "newest_first"
    <3>1. d1.arg = "database"  BY <2>1, ArgsAre, Zenon
    <3>2. d2.arg = "schema"  BY <2>1, ArgsAre, Zenon
    <3>3. d3.arg = "hypertable"  BY <2>1, ArgsAre, Zenon
    <3>4. d4.arg = "limit"
      <4>1. d4 = Number("limit", DefaultChunkLimit, 1, MaxLimit)  BY <2>1, Zenon
      <4>2. QED  BY <4>1, Zenon DEF Number, Opt
    <3>5. d5.arg = "newest_first"  BY <2>1, ArgsAre, Zenon
    <3>6. r1.arg = "database"  BY <2>1, ArgsAre, Zenon
    <3>7. r2.arg = "schema"  BY <2>1, ArgsAre, Zenon
    <3>8. r3.arg = "hypertable"  BY <2>1, ArgsAre, Zenon
    <3>9. r4.arg = "limit"
      <4>1. r4 = Int_("limit", DefaultChunkLimit, 1, MaxLimit)  BY <2>1, Zenon
      <4>2. QED  BY <4>1, Zenon DEF Int_
    <3>10. r5.arg = "newest_first"  BY <2>1, ArgsAre, Zenon
    <3>11. QED  BY <3>1, <3>2, <3>3, <3>4, <3>5, <3>6, <3>7, <3>8, <3>9, <3>10, Zenon
  <2>5. /\ Matches(d1, r1) /\ Matches(d2, r2) /\ Matches(d3, r3) /\ Matches(d4, r4)
        /\ Matches(d5, r5)
    BY <2>1, Pairs, Zenon
  <2>6. allowedArgs(t) = {"database", "schema", "hypertable", "limit", "newest_first"}
    BY <1>6 DEF allowedArgs
  <2>7. {d.arg : d \in Schema(t)} = allowedArgs(t)  BY <2>3, <2>4, <2>6
  <2>8. ASSUME NEW j \in 1 .. Len(Reads(t))  PROVE  \E d \in Schema(t) : Matches(d, Reads(t)[j])
    BY <2>2, <2>3, <2>5
  <2>9. ASSUME NEW d \in Schema(t)  PROVE  \E j \in 1 .. Len(Reads(t)) : Matches(d, Reads(t)[j])
    BY <2>2, <2>3, <2>5
  <2>10. QED  BY <2>2, <2>4, <2>7, <2>8, <2>9 DEF Paired
<1>7. CASE t = "sample_rows"
  <2>1. PICK d1, d2, d3, d4, r1, r2, r3, r4 :
          /\ d1 = databaseArg /\ d2 = Req("schema", "string") /\ d3 = Req("table", "string")
          /\ d4 = Number("limit", DefaultSampleLimit, 1, 2 * MaxInt)
          /\ r1 = Rd("database", "database") /\ r2 = Rd("schema", "requireString")
          /\ r3 = Rd("table", "requireString")
          /\ r4 = Int_("limit", DefaultSampleLimit, 1, MaxInt)
    OBVIOUS
  <2>2. /\ Len(Reads(t)) = 4 /\ Reads(t)[1] = r1 /\ Reads(t)[2] = r2 /\ Reads(t)[3] = r3
        /\ Reads(t)[4] = r4
    BY <1>0, <1>7, <2>1, Zenon DEF ReadsOf
  <2>3. Schema(t) = {d1, d2, d3, d4}
    BY <1>7, <2>1, SMT DEF Schema
  <2>4. /\ d1.arg = "database" /\ d2.arg = "schema" /\ d3.arg = "table" /\ d4.arg = "limit"
        /\ r1.arg = "database" /\ r2.arg = "schema" /\ r3.arg = "table" /\ r4.arg = "limit"
    <3>1. d1.arg = "database"  BY <2>1, ArgsAre, Zenon
    <3>2. d2.arg = "schema"  BY <2>1, ArgsAre, Zenon
    <3>3. d3.arg = "table"  BY <2>1, ArgsAre, Zenon
    <3>4. d4.arg = "limit"
      <4>1. d4 = Number("limit", DefaultSampleLimit, 1, 2 * MaxInt)  BY <2>1, Zenon
      <4>2. QED  BY <4>1, Zenon DEF Number, Opt
    <3>5. r1.arg = "database"  BY <2>1, ArgsAre, Zenon
    <3>6. r2.arg = "schema"  BY <2>1, ArgsAre, Zenon
    <3>7. r3.arg = "table"  BY <2>1, ArgsAre, Zenon
    <3>8. r4.arg = "limit"
      <4>1. r4 = Int_("limit", DefaultSampleLimit, 1, MaxInt)  BY <2>1, Zenon
      <4>2. QED  BY <4>1, Zenon DEF Int_
    <3>9. QED  BY <3>1, <3>2, <3>3, <3>4, <3>5, <3>6, <3>7, <3>8, Zenon
  <2>5. /\ Matches(d1, r1) /\ Matches(d2, r2) /\ Matches(d3, r3) /\ Matches(d4, r4)
    BY <2>1, Pairs, Zenon
  <2>6. allowedArgs(t) = {"database", "schema", "table", "limit"}
    BY <1>7 DEF allowedArgs
  <2>7. {d.arg : d \in Schema(t)} = allowedArgs(t)  BY <2>3, <2>4, <2>6
  <2>8. ASSUME NEW j \in 1 .. Len(Reads(t))  PROVE  \E d \in Schema(t) : Matches(d, Reads(t)[j])
    BY <2>2, <2>3, <2>5
  <2>9. ASSUME NEW d \in Schema(t)  PROVE  \E j \in 1 .. Len(Reads(t)) : Matches(d, Reads(t)[j])
    BY <2>2, <2>3, <2>5
  <2>10. QED  BY <2>2, <2>4, <2>7, <2>8, <2>9 DEF Paired
<1>8. CASE t = "query"
  <2>1. PICK d1, d2, d3, d4, r1, r2, r3, r4 :
          /\ d1 = databaseArg /\ d2 = Req("sql", "string")
          /\ d3 = Number("max_rows", DefaultQueryRows, 1, 2 * MaxInt) /\ d4 = TimeoutSchema
          /\ r1 = Rd("database", "database") /\ r2 = Rd("sql", "requireString")
          /\ r3 = Int_("max_rows", DefaultQueryRows, 1, MaxInt)
          /\ r4 = Rd("timeout_seconds", "timeoutArg")
    OBVIOUS
  <2>2. /\ Len(Reads(t)) = 4 /\ Reads(t)[1] = r1 /\ Reads(t)[2] = r2 /\ Reads(t)[3] = r3
        /\ Reads(t)[4] = r4
    BY <1>0, <1>8, <2>1, Zenon DEF ReadsOf
  <2>3. Schema(t) = {d1, d2, d3, d4}
    BY <1>8, <2>1, SMT DEF Schema
  <2>4. /\ d1.arg = "database" /\ d2.arg = "sql" /\ d3.arg = "max_rows"
        /\ d4.arg = "timeout_seconds" /\ r1.arg = "database" /\ r2.arg = "sql"
        /\ r3.arg = "max_rows" /\ r4.arg = "timeout_seconds"
    <3>1. d1.arg = "database"  BY <2>1, ArgsAre, Zenon
    <3>2. d2.arg = "sql"  BY <2>1, ArgsAre, Zenon
    <3>3. d3.arg = "max_rows"
      <4>1. d3 = Number("max_rows", DefaultQueryRows, 1, 2 * MaxInt)  BY <2>1, Zenon
      <4>2. QED  BY <4>1, Zenon DEF Number, Opt
    <3>4. d4.arg = "timeout_seconds"  BY <2>1, ArgsAre, Zenon
    <3>5. r1.arg = "database"  BY <2>1, ArgsAre, Zenon
    <3>6. r2.arg = "sql"  BY <2>1, ArgsAre, Zenon
    <3>7. r3.arg = "max_rows"
      <4>1. r3 = Int_("max_rows", DefaultQueryRows, 1, MaxInt)  BY <2>1, Zenon
      <4>2. QED  BY <4>1, Zenon DEF Int_
    <3>8. r4.arg = "timeout_seconds"  BY <2>1, ArgsAre, Zenon
    <3>9. QED  BY <3>1, <3>2, <3>3, <3>4, <3>5, <3>6, <3>7, <3>8, Zenon
  <2>5. /\ Matches(d1, r1) /\ Matches(d2, r2) /\ Matches(d3, r3) /\ Matches(d4, r4)
    BY <2>1, Pairs, Zenon
  <2>6. allowedArgs(t) = {"database", "sql", "max_rows", "timeout_seconds"}
    BY <1>8 DEF allowedArgs
  <2>7. {d.arg : d \in Schema(t)} = allowedArgs(t)  BY <2>3, <2>4, <2>6
  <2>8. ASSUME NEW j \in 1 .. Len(Reads(t))  PROVE  \E d \in Schema(t) : Matches(d, Reads(t)[j])
    BY <2>2, <2>3, <2>5
  <2>9. ASSUME NEW d \in Schema(t)  PROVE  \E j \in 1 .. Len(Reads(t)) : Matches(d, Reads(t)[j])
    BY <2>2, <2>3, <2>5
  <2>10. QED  BY <2>2, <2>4, <2>7, <2>8, <2>9 DEF Paired
<1>9. CASE t = "explain"
  <2>1. PICK d1, d2, d3, d4, d5, r1, r2, r3, r4, r5 :
          /\ d1 = databaseArg /\ d2 = Req("sql", "string") /\ d3 = Bool("analyze", "false")
          /\ d4 = FormatSchema /\ d5 = TimeoutSchema /\ r1 = Rd("database", "database")
          /\ r2 = Rd("sql", "requireString") /\ r3 = Bool_("analyze", "false")
          /\ r4 = Rd("format", "format") /\ r5 = Rd("timeout_seconds", "timeoutArg")
    OBVIOUS
  <2>2. /\ Len(Reads(t)) = 5 /\ Reads(t)[1] = r1 /\ Reads(t)[2] = r2 /\ Reads(t)[3] = r3
        /\ Reads(t)[4] = r4 /\ Reads(t)[5] = r5
    BY <1>0, <1>9, <2>1, Zenon DEF ReadsOf
  <2>3. Schema(t) = {d1, d2, d3, d4, d5}
    BY <1>9, <2>1, SMT DEF Schema
  <2>4. /\ d1.arg = "database" /\ d2.arg = "sql" /\ d3.arg = "analyze" /\ d4.arg = "format"
        /\ d5.arg = "timeout_seconds" /\ r1.arg = "database" /\ r2.arg = "sql"
        /\ r3.arg = "analyze" /\ r4.arg = "format" /\ r5.arg = "timeout_seconds"
    <3>1. d1.arg = "database"  BY <2>1, ArgsAre, Zenon
    <3>2. d2.arg = "sql"  BY <2>1, ArgsAre, Zenon
    <3>3. d3.arg = "analyze"  BY <2>1, ArgsAre, Zenon
    <3>4. d4.arg = "format"  BY <2>1, ArgsAre, Zenon
    <3>5. d5.arg = "timeout_seconds"  BY <2>1, ArgsAre, Zenon
    <3>6. r1.arg = "database"  BY <2>1, ArgsAre, Zenon
    <3>7. r2.arg = "sql"  BY <2>1, ArgsAre, Zenon
    <3>8. r3.arg = "analyze"  BY <2>1, ArgsAre, Zenon
    <3>9. r4.arg = "format"  BY <2>1, ArgsAre, Zenon
    <3>10. r5.arg = "timeout_seconds"  BY <2>1, ArgsAre, Zenon
    <3>11. QED  BY <3>1, <3>2, <3>3, <3>4, <3>5, <3>6, <3>7, <3>8, <3>9, <3>10, Zenon
  <2>5. /\ Matches(d1, r1) /\ Matches(d2, r2) /\ Matches(d3, r3) /\ Matches(d4, r4)
        /\ Matches(d5, r5)
    BY <2>1, Pairs, Zenon
  <2>6. allowedArgs(t) = {"database", "sql", "analyze", "format", "timeout_seconds"}
    BY <1>9 DEF allowedArgs
  <2>7. {d.arg : d \in Schema(t)} = allowedArgs(t)  BY <2>3, <2>4, <2>6
  <2>8. ASSUME NEW j \in 1 .. Len(Reads(t))  PROVE  \E d \in Schema(t) : Matches(d, Reads(t)[j])
    BY <2>2, <2>3, <2>5
  <2>9. ASSUME NEW d \in Schema(t)  PROVE  \E j \in 1 .. Len(Reads(t)) : Matches(d, Reads(t)[j])
    BY <2>2, <2>3, <2>5
  <2>10. QED  BY <2>2, <2>4, <2>7, <2>8, <2>9 DEF Paired
<1>10. CASE t = "insert_row"
  <2>1. PICK d1, d2, d3, r1, r2, r3 :
          /\ d1 = databaseArg /\ d2 = Req("table", "string") /\ d3 = Req("row", "object")
          /\ r1 = Rd("database", "database") /\ r2 = Rd("table", "requireString")
          /\ r3 = Rd("row", "row")
    OBVIOUS
  <2>2. /\ Len(Reads(t)) = 3 /\ Reads(t)[1] = r1 /\ Reads(t)[2] = r2 /\ Reads(t)[3] = r3
    BY <1>0, <1>10, <2>1, Zenon DEF ReadsOf
  <2>3. Schema(t) = {d1, d2, d3}
    BY <1>10, <2>1, SMT DEF Schema
  <2>4. /\ d1.arg = "database" /\ d2.arg = "table" /\ d3.arg = "row" /\ r1.arg = "database"
        /\ r2.arg = "table" /\ r3.arg = "row"
    <3>1. d1.arg = "database"  BY <2>1, ArgsAre, Zenon
    <3>2. d2.arg = "table"  BY <2>1, ArgsAre, Zenon
    <3>3. d3.arg = "row"  BY <2>1, ArgsAre, Zenon
    <3>4. r1.arg = "database"  BY <2>1, ArgsAre, Zenon
    <3>5. r2.arg = "table"  BY <2>1, ArgsAre, Zenon
    <3>6. r3.arg = "row"  BY <2>1, ArgsAre, Zenon
    <3>7. QED  BY <3>1, <3>2, <3>3, <3>4, <3>5, <3>6, Zenon
  <2>5. /\ Matches(d1, r1) /\ Matches(d2, r2) /\ Matches(d3, r3)
    BY <2>1, Pairs, Zenon
  <2>6. allowedArgs(t) = {"database", "table", "row"}
    BY <1>10 DEF allowedArgs
  <2>7. {d.arg : d \in Schema(t)} = allowedArgs(t)  BY <2>3, <2>4, <2>6
  <2>8. ASSUME NEW j \in 1 .. Len(Reads(t))  PROVE  \E d \in Schema(t) : Matches(d, Reads(t)[j])
    BY <2>2, <2>3, <2>5
  <2>9. ASSUME NEW d \in Schema(t)  PROVE  \E j \in 1 .. Len(Reads(t)) : Matches(d, Reads(t)[j])
    BY <2>2, <2>3, <2>5
  <2>10. QED  BY <2>2, <2>4, <2>7, <2>8, <2>9 DEF Paired
<1>11. QED  BY <1>1, <1>2, <1>3, <1>4, <1>5, <1>6, <1>7, <1>8, <1>9, <1>10 DEF Tools

-----------------------------------------------------------------------------
(* The invariant holds *)

\* At the start nothing is read.
LEMMA AInvInit == Init => AInv
<1> SUFFICES ASSUME Init  PROVE AInv
  OBVIOUS
<1>1. PICK r \in Requests : tool = r.tool /\ args = r.args  BY DEF Init
<1>2. tool \in Tools /\ \A a \in Names : IsValue(args[a])  BY <1>1, ArgumentsAssumption
<1>3. strict \in BOOLEAN /\ several \in BOOLEAN  BY DEF Init
<1>4. at = "server" /\ k = 1 /\ got = [a \in Names |-> Absent] /\ why = ""  BY DEF Init
<1>5. got = [a \in Names |-> got[a]]  BY <1>4, Zenon
<1>6. k \in Nat /\ k > 0
  <2>1. k = 1  BY DEF Init
  <2>2. QED  BY <2>1
<1>7. /\ at \in {"server", "wrap", "read", "refused", "answered"}
      /\ at \notin {"read", "answered", "refused"}
  BY <1>4
<1>8. QED  BY <1>2, <1>3, <1>4, <1>5, <1>6, <1>7, Zenon DEF AInv

\* What the gates say does not change while a call passes them.
LEMMA Frame ==
  ASSUME UNCHANGED <<strict, several, tool, args>>
  PROVE  /\ Valid' = Valid /\ Sent' = Sent
         /\ \A r, v : Accepted(r, v)' = Accepted(r, v)
<1>1. databaseArg' = databaseArg  BY DEF databaseArg
<1>2. Sent' = Sent  BY DEF Sent
<1>3. ASSUME NEW r, NEW v  PROVE  Accepted(r, v)' = Accepted(r, v)
  BY Zenon DEF Accepted
<1>4. Schema(tool)' = Schema(tool)  BY <1>1, Zenon DEF Schema
<1>5. Valid' = Valid  BY <1>2, <1>4, Zenon DEF Valid
<1>6. QED  BY <1>2, <1>3, <1>5

\* Every step keeps the invariant: a read settles its argument, and none before it.
LEMMA AInvNext == AInv /\ [Next]_vars => AInv'
<1> SUFFICES ASSUME AInv, [Next]_vars  PROVE AInv'
  OBVIOUS
<1>1. UNCHANGED <<strict, several, tool, args>>
  BY DEF Next, Validate, checkArgs, Read, Answer, vars
<1>2. /\ Valid' = Valid /\ Sent' = Sent
      /\ \A r, v : Accepted(r, v)' = Accepted(r, v)
  BY <1>1, Frame
<1>3. tool \in Tools /\ strict \in BOOLEAN /\ several \in BOOLEAN /\ \A a \in Names : IsValue(args[a])
  BY DEF AInv
<1>4. /\ tool' \in Tools /\ strict' \in BOOLEAN /\ several' \in BOOLEAN
      /\ \A a \in Names : IsValue(args'[a])
  BY <1>1, <1>3
<1>5. ASSUME NEW j, NEW r, r = Reads(tool)[j], NEW v, v = args[r.arg]
      PROVE  /\ Settled(j) <=> Accepted(r, v) /\ got[r.arg] = Value(r, v)
             /\ Settled(j)' <=> Accepted(r, v) /\ got'[r.arg] = Value(r, v)
  <2>1. Reads(tool') = Reads(tool) /\ v = args'[r.arg]  BY <1>1, <1>5
  <2>2. Settled(j) <=> Accepted(r, v) /\ got[r.arg] = Value(r, v)
    BY <1>5, Zenon DEF Settled
  <2>3. Settled(j)' <=> Accepted(r, v)' /\ got'[r.arg] = Value(r, v)
    BY <1>5, <2>1, Zenon DEF Settled, Accepted
  <2>4. Accepted(r, v)' <=> Accepted(r, v)  BY <1>2, Zenon
  <2>5. QED  BY <2>2, <2>3, <2>4, Zenon
<1>6. ASSUME NEW j, UNCHANGED got  PROVE  Settled(j)' <=> Settled(j)
  BY <1>5, <1>6, Zenon
<1>7. ASSUME NEW j, NEW r, r = Reads(tool)[j], NEW v, v = args[r.arg]
      PROVE  /\ Tripped(j) <=> why = r.arg /\ ~Accepted(r, v)
             /\ Tripped(j)' <=> why' = r.arg /\ ~Accepted(r, v)
  <2>1. Reads(tool') = Reads(tool) /\ v = args'[r.arg]  BY <1>1, <1>7
  <2>2. Tripped(j)' <=> why' = r.arg /\ ~Accepted(r, v)'
    BY <1>7, <2>1, Zenon DEF Tripped, Accepted
  <2>3. Tripped(j) <=> why = r.arg /\ ~Accepted(r, v)  BY <1>7, Zenon DEF Tripped
  <2>4. Accepted(r, v)' <=> Accepted(r, v)  BY <1>2, Zenon
  <2>5. QED  BY <2>2, <2>3, <2>4, Zenon
<1>8. PICK rs : rs = Reads(tool) /\ rs = Reads(tool') /\ Len(rs) \in Nat
  BY <1>1, <1>3, AllPaired DEF Paired
<1>0. PICK n \in Nat : n = Len(rs)  BY <1>8
<1>9. /\ got = [a \in Names |-> got[a]] /\ k \in Nat /\ k > 0
      /\ at \in {"server", "wrap", "read", "refused", "answered"}
      /\ at \in {"server", "wrap"} => k = 1
      /\ at # "refused" => why = ""
      /\ strict /\ at # "server" /\ why # "server" => Valid
      /\ at \in {"read", "answered"} =>
           /\ Sent \subseteq allowedArgs(tool)
           /\ \A j \in 1 .. n : j < k => Settled(j)
  BY <1>8, <1>0, Zenon DEF AInv
<1>10. ASSUME /\ got' = [a \in Names |-> got'[a]] /\ k' \in Nat /\ k' > 0
              /\ at' \in {"server", "wrap", "read", "refused", "answered"}
              /\ at' \in {"server", "wrap"} => k' = 1
              /\ at' # "refused" => why' = ""
              /\ strict /\ at' # "server" /\ why' # "server" => Valid
              /\ at' \in {"read", "answered"} =>
                   /\ Sent \subseteq allowedArgs(tool)
                   /\ \A j \in 1 .. n : j < k' => Settled(j)'
              /\ at' = "answered" => k' > n
              /\ at' = "refused" =>
                   \/ why' = "server"
                   \/ why' = "names" /\ ~(Sent \subseteq allowedArgs(tool))
                   \/ \E j \in 1 .. n : Tripped(j)'
       PROVE  AInv'
  BY <1>1, <1>2, <1>4, <1>8, <1>0, <1>10, Zenon DEF AInv
<1>11. CASE UNCHANGED vars
  <2>1. /\ got' = got /\ k' = k /\ at' = at /\ why' = why  BY <1>11 DEF vars
  <2>2. ASSUME NEW j  PROVE  (Settled(j)' <=> Settled(j)) /\ (Tripped(j)' <=> Tripped(j))
    BY <1>6, <1>7, <2>1, Zenon
  <2>3. /\ at = "answered" => k > n
        /\ at = "refused" =>
             \/ why = "server"
             \/ why = "names" /\ ~(Sent \subseteq allowedArgs(tool))
             \/ \E j \in 1 .. n : Tripped(j)
    BY <1>8, <1>0, Zenon DEF AInv
  <2>4. QED  BY <1>9, <1>10, <2>1, <2>2, <2>3, Zenon
<1>12. CASE Validate
  <2>1. at = "server" /\ got' = got /\ k' = k  BY <1>12 DEF Validate
  <2>2. \/ strict /\ ~Valid /\ at' = "refused" /\ why' = "server"
        \/ ~(strict /\ ~Valid) /\ at' = "wrap" /\ why' = why
    BY <1>12 DEF Validate
  <2>3. QED  BY <1>9, <1>10, <2>1, <2>2, Zenon
<1>13. CASE checkArgs
  <2>1. at = "wrap" /\ got' = got /\ k' = k  BY <1>13 DEF checkArgs
  <2>2. \/ Sent \subseteq allowedArgs(tool) /\ at' = "read" /\ why' = why
        \/ ~(Sent \subseteq allowedArgs(tool)) /\ at' = "refused" /\ why' = "names"
    BY <1>13 DEF checkArgs
  <2>3. ASSUME NEW j \in 1 .. n  PROVE  ~(j < k')
    <3>1. k' = 1  BY <1>9, <2>1, Zenon
    <3>2. QED  BY <3>1
  <2>4. "names" # "server"  OBVIOUS
  <2>5. why = "" /\ (strict => Valid)  BY <1>9, <2>1, Zenon
  <2>6. QED  BY <1>9, <1>10, <2>1, <2>2, <2>3, <2>5, Zenon
<1>14. CASE Read
  <2>1. at = "read" /\ k \in 1 .. n /\ k' = k + 1
    <3>1. at = "read" /\ k <= n /\ k' = k + 1  BY <1>0, <1>8, <1>14, Zenon DEF Read
    <3>2. k \in Nat /\ k > 0  BY <1>9, <3>1, Zenon
    <3>3. k \in 1 .. n  BY <3>1, <3>2
    <3>4. QED  BY <3>1, <3>2, <3>3
  <2>0. why = ""  BY <1>9, <2>1, Zenon
  <2>2. PICK r, v : r = rs[k] /\ v = args[r.arg]  OBVIOUS
  <2>3. \/ Accepted(r, v) /\ got' = [got EXCEPT ![r.arg] = Value(r, v)] /\ at' = at /\ why' = why
        \/ ~Accepted(r, v) /\ at' = "refused" /\ why' = r.arg /\ got' = got
    BY <1>8, <1>14, <2>2, Zenon DEF Read
  <2>4. /\ \A j, m \in 1 .. n : rs[j].arg = rs[m].arg => j = m
        /\ \E d \in Schema(tool) : Matches(d, r)
    BY <1>0, <1>3, <1>8, <2>1, <2>2, AllPaired, Zenon DEF Paired
  <2>5. r.arg \in Names  BY <1>3, <2>4, MatchesSuffice, Zenon DEF Agree
  <2>6. k' \in Nat /\ k' > 0  BY <2>1
  <2>7. CASE Accepted(r, v)
    <3>1. got' = [got EXCEPT ![r.arg] = Value(r, v)] /\ at' = "read" /\ why' = ""
      BY <2>0, <2>1, <2>3, <2>7, Zenon
    <3>2. got' = [a \in Names |-> got'[a]] /\ got'[r.arg] = Value(r, v)
      <4>1. got' = [got EXCEPT ![r.arg] = Value(r, v)] /\ got = [a \in Names |-> got[a]]
        BY <1>9, <3>1, Zenon
      <4>2. QED  BY <2>5, <4>1
    <3>3. ASSUME NEW j \in 1 .. n, j < k'  PROVE  Settled(j)'
      <4>1. CASE j = k
        <5>1. r = Reads(tool)[j]  BY <1>8, <2>2, <4>1
        <5>2. QED  BY <1>5, <2>2, <2>7, <3>2, <5>1, Zenon
      <4>2. CASE j # k
        <5>1. j < k /\ rs[j].arg # r.arg  BY <2>1, <2>2, <2>4, <3>3, <4>2
        <5>2. Settled(j)  BY <1>9, <2>1, <5>1, Zenon
        <5>3. PICK q, w : q = Reads(tool)[j] /\ w = args[q.arg]  OBVIOUS
        <5>4. got'[q.arg] = got[q.arg]
          <6>1. q = rs[j] /\ q.arg # r.arg  BY <1>8, <5>1, <5>3
          <6>2. \E d \in Schema(tool) : Matches(d, q)
            BY <1>0, <1>3, <1>8, <6>1, AllPaired, Zenon DEF Paired
          <6>3. q.arg \in Names  BY <1>3, <6>2, MatchesSuffice, Zenon DEF Agree
          <6>4. got' = [got EXCEPT ![r.arg] = Value(r, v)] /\ got = [a \in Names |-> got[a]]
            BY <1>9, <3>1, Zenon
          <6>5. QED  BY <6>1, <6>3, <6>4
        <5>5. QED  BY <1>5, <5>2, <5>3, <5>4, Zenon
      <4>3. QED  BY <4>1, <4>2
    <3>4. Sent \subseteq allowedArgs(tool) /\ (strict => Valid)  BY <1>9, <2>0, <2>1, Zenon
    <3>5. QED  BY <1>10, <2>6, <3>1, <3>2, <3>3, <3>4, Zenon
  <2>8. CASE ~Accepted(r, v)
    <3>1. at' = "refused" /\ why' = r.arg /\ got' = got  BY <2>3, <2>8, Zenon
    <3>2. PICK m \in 1 .. n : m = k  BY <2>1
    <3>7. Tripped(m)'
      <4>1. r = Reads(tool)[m]  BY <1>8, <2>2, <3>2
      <4>2. QED  BY <1>7, <2>2, <2>8, <3>1, <4>1, Zenon
    <3>3. strict => Valid  BY <1>9, <2>0, <2>1, Zenon
    <3>4. got' = [a \in Names |-> got'[a]]  BY <1>9, <3>1, Zenon
    <3>5. \E j \in 1 .. n : Tripped(j)'  BY <3>7
    <3>6. QED  BY <1>10, <2>6, <3>1, <3>3, <3>4, <3>5, Zenon
  <2>9. QED  BY <2>7, <2>8
<1>15. CASE Answer
  <2>1. at = "read" /\ at' = "answered" /\ got' = got /\ k' = k /\ why' = why /\ k > n
    BY <1>0, <1>8, <1>15, Zenon DEF Answer
  <2>2. QED  BY <1>6, <1>9, <1>10, <2>1, Zenon
<1>16. QED  BY <1>11, <1>12, <1>13, <1>14, <1>15 DEF Next

-----------------------------------------------------------------------------
(* The property *)

\* With everything read in order, what was read conforms; the argument that a
\* conforming request is refused for is excused.
LEMMA AInvSuffices == AInv => GatesAgree
<1> SUFFICES ASSUME AInv  PROVE GatesAgree
  OBVIOUS
<1>1. tool \in Tools /\ several \in BOOLEAN /\ \A a \in Names : IsValue(args[a])
  BY DEF AInv
<1>2. PICK rs : rs = Reads(tool)  OBVIOUS
<1>3. PICK n \in Nat : n = Len(rs)  BY <1>1, <1>2, AllPaired DEF Paired
<1>4. /\ \A j \in 1 .. n : \E d \in Schema(tool) : Matches(d, rs[j])
      /\ \A d \in Schema(tool) : \E j \in 1 .. n : Matches(d, rs[j])
      /\ {d.arg : d \in Schema(tool)} = allowedArgs(tool)
  BY <1>1, <1>2, <1>3, AllPaired, Zenon DEF Paired
<1>5. HandlerSuffices
  <2> SUFFICES ASSUME at = "answered"
               PROVE  /\ Sent \subseteq {d.arg : d \in Schema(tool)}
                      /\ \A d \in Schema(tool) :
                           /\ d.arg # "database" /\ got[d.arg] # Absent => Conforms(d, got[d.arg])
                           /\ d.required => got[d.arg] # Absent
                           /\ Missing(args[d.arg]) /\ d.arg # "database" => got[d.arg] = d.default
    BY Zenon DEF HandlerSuffices
  <2>1. Sent \subseteq {d.arg : d \in Schema(tool)}  BY <1>4, Zenon DEF AInv
  <2>2. ASSUME NEW d \in Schema(tool)
        PROVE  /\ d.arg # "database" /\ got[d.arg] # Absent => Conforms(d, got[d.arg])
               /\ d.required => got[d.arg] # Absent
               /\ Missing(args[d.arg]) /\ d.arg # "database" => got[d.arg] = d.default
    <3>1. PICK j \in 1 .. n : Matches(d, rs[j])  BY <1>4
    <3>2. PICK r : r = rs[j]  OBVIOUS
    <3>3. d.arg = r.arg /\ r.arg \in Names /\ Suffices(d, r)
      BY <1>1, <3>1, <3>2, MatchesSuffice, Zenon DEF Agree
    <3>4. Settled(j)
      <4>1. k > n /\ k \in Nat /\ \A i \in 1 .. n : i < k => Settled(i)
        BY <1>2, <1>3, Zenon DEF AInv
      <4>2. j < k  BY <4>1
      <4>3. QED  BY <4>1, <4>2
    <3>5. Accepted(r, args[r.arg]) /\ got[r.arg] = Value(r, args[r.arg])
      BY <1>2, <3>2, <3>4, Zenon DEF Settled
    <3>6. QED  BY <1>1, <3>3, <3>5, Zenon DEF Suffices
  <2>3. QED  BY <2>1, <2>2, Zenon
<1>6. SchemaSuffices
  <2> SUFFICES ASSUME strict, at = "refused", why # "server"
               PROVE  Excused(why, args[why])
    BY Zenon DEF SchemaSuffices, Excused
  <2>1. Valid  BY Zenon DEF AInv
  <2>2. Sent \subseteq allowedArgs(tool)  BY <1>4, <2>1, Zenon DEF Valid
  <2>3. PICK j \in 1 .. n : Tripped(j)  BY <1>2, <1>3, <2>2, Zenon DEF AInv
  <2>4. PICK d \in Schema(tool) : Matches(d, rs[j])  BY <1>4
  <2>5. PICK r : r = rs[j]  OBVIOUS
  <2>6. d.arg = r.arg /\ r.arg \in Names /\ Obeys(d, r)
    BY <1>1, <2>4, <2>5, MatchesSuffice, Zenon DEF Agree
  <2>7. why = r.arg /\ ~Accepted(r, args[r.arg])  BY <1>2, <2>3, <2>5, Zenon DEF Tripped
  <2>8. Conforms(d, args[d.arg])  BY <2>1, Zenon DEF Valid
  <2>9. QED  BY <1>1, <2>6, <2>7, <2>8, Zenon DEF Obeys
<1>7. QED  BY <1>5, <1>6 DEF GatesAgree

\* The two gates of a call say the same: what every handler goes on with
\* conforms to the schema its tool declares, with and without the server's
\* validation, and a request that conforms is refused only for what the schema
\* does not say, for every request of every tool.
THEOREM GatesSayTheSame == Spec => []GatesAgree
<1>1. Spec => []AInv  BY AInvInit, AInvNext, PTL DEF Spec
<1>2. QED  BY <1>1, AInvSuffices, PTL

-----------------------------------------------------------------------------
(* Values: the levels of nesting, by induction over sets *)

\* Induction, as a fact about sets: a set with 0 and the successors of its
\* members has every natural number.
LEMMA Induct ==
  ASSUME NEW S, 0 \in S, \A m \in Nat : m \in S => m + 1 \in S
  PROVE Nat \subseteq S
<1> DEFINE T == {x \in Nat : x \notin S}
           R == OpToRel(<, Nat)
<1>1. SUFFICES ASSUME T # {} PROVE FALSE
  OBVIOUS
<1>2. IsWellFoundedOn(R, Nat)  BY NatLessThanWellFounded, Zenon
<1>3. \A x, y \in Nat : x < y => <<x, y>> \in R  BY SMT DEF OpToRel
<1> HIDE DEF R
<1>4. PICK x \in T : \A y \in T : ~ (<<y, x>> \in R)
  <2>1. T \subseteq Nat  OBVIOUS
  <2> HIDE DEF T
  <2>2. QED  BY <1>1, <1>2, <2>1, WFMin, Zenon
<1>5. x # 0 /\ x - 1 \in Nat /\ x - 1 < x /\ (x - 1) + 1 = x  BY <1>4
<1>6. x - 1 \in T  BY <1>4, <1>5
<1>7. x \in Nat  BY <1>4
<1>8. QED  BY <1>3, <1>4, <1>5, <1>6, <1>7, Zenon

-----------------------------------------------------------------------------
(* The levels of nesting *)

\* One level of everything that is defined level by level, from the one below.
ValueOf(d, below) == E!Atom \cup IF d = 0 THEN {} ELSE E!Holding(below)
JsonOf(d, below) ==
  IF d = 0 THEN E!Flat
  ELSE below \cup [json : {"object", "array"}, is : E!Words, of : Seq(below)]
EncodeOf(d, below) ==
  [v \in E!Value[d] |->
     [typeName \in E!Words |-> E!encoding(IF d = 0 THEN <<>> ELSE below, v, typeName)]]
ShowsOf(d, below) ==
  [v \in E!Value[d] |->
     E!Showing(IF d = 0 THEN <<>> ELSE below, IF d = 0 THEN {} ELSE E!Json[d - 1], v)]
Level(d, below) ==
  [value |-> ValueOf(d, below.value), json |-> JsonOf(d, below.json),
   encode |-> EncodeOf(d, below.encode), shows |-> ShowsOf(d, below.shows)]
Below == [value |-> {}, json |-> {}, encode |-> <<>>, shows |-> <<>>]
Bottom == Level(0, Below)

\* A level has each of its parts.
LEMMA LevelParts ==
  ASSUME NEW d, NEW below
  PROVE  /\ Level(d, below).value = ValueOf(d, below.value)
         /\ Level(d, below).json = JsonOf(d, below.json)
         /\ Level(d, below).encode = EncodeOf(d, below.encode)
         /\ Level(d, below).shows = ShowsOf(d, below.shows)
BY DEF Level

\* Levels up to m exist.
LevelsTo(f, m) == f = [d \in 0 .. m |-> IF d = 0 THEN Bottom ELSE Level(d, f[d - 1])]
LEMMA LevelsExist == \E f : LevelsTo(f, Depth)
<1> DEFINE Some(m) == \E f : LevelsTo(f, m)
           S == {m \in Nat : Some(m)}
<1>1. 0 \in S
  <2>1. 0 .. 0 = {0}  OBVIOUS
  <2>2. LevelsTo([d \in 0 .. 0 |-> Bottom], 0)  BY <2>1 DEF LevelsTo
  <2>3. Some(0)  BY <2>2, Zenon
  <2> HIDE DEF Some
  <2>4. QED  BY <2>3
<1>2. ASSUME NEW m \in Nat, m \in S  PROVE m + 1 \in S
  <2>1. PICK f : LevelsTo(f, m)  BY <1>2
  <2> DEFINE g == [d \in 0 .. m + 1 |-> IF d <= m THEN f[d] ELSE Level(d, f[d - 1])]
  <2>2. \A d \in 0 .. m : g[d] = f[d]  OBVIOUS
  <2>3. ASSUME NEW d \in 0 .. m + 1
        PROVE  g[d] = IF d = 0 THEN Bottom ELSE Level(d, g[d - 1])
    <3>1. CASE d <= m
      <4>1. d \in 0 .. m /\ (d # 0 => d - 1 \in 0 .. m)  BY <3>1
      <4>2. g[d] = f[d] /\ (d # 0 => g[d - 1] = f[d - 1])  BY <2>2, <4>1
      <4>3. f[d] = IF d = 0 THEN Bottom ELSE Level(d, f[d - 1])  BY <2>1, <4>1 DEF LevelsTo
      <4> HIDE DEF g
      <4>4. QED  BY <4>2, <4>3
    <3>2. CASE ~(d <= m)
      <4>1. d # 0 /\ d - 1 \in 0 .. m  BY <3>2
      <4>2. g[d] = Level(d, f[d - 1])  BY <3>2
      <4>3. g[d - 1] = f[d - 1]  BY <2>2, <4>1
      <4> HIDE DEF g
      <4>4. QED  BY <4>1, <4>2, <4>3
    <3>3. QED  BY <3>1, <3>2
  <2>4. LevelsTo(g, m + 1)
    <3>1. g = [d \in 0 .. m + 1 |-> g[d]]  OBVIOUS
    <3> HIDE DEF g
    <3>2. QED  BY <2>3, <3>1, Zenon DEF LevelsTo
  <2> HIDE DEF g
  <2>5. Some(m + 1)  BY <2>4, Zenon
  <2> HIDE DEF Some
  <2>6. QED  BY <2>5
<1> HIDE DEF S
<1>3. Nat \subseteq S  BY <1>1, <1>2, Induct
<1>4. QED  BY <1>3, ValuesAssumption DEF S

\* What is defined level by level satisfies its equation.
LEMMA LevelsAre ==
  ASSUME NEW d \in 0 .. Depth
  PROVE  /\ E!Value[d] = E!Atom \cup IF d = 0 THEN {} ELSE E!Holding(E!Value[d - 1])
         /\ E!Json[d] =
              IF d = 0 THEN E!Flat
              ELSE E!Json[d - 1] \cup [json : {"object", "array"}, is : E!Words, of : Seq(E!Json[d - 1])]
         /\ E!encodeValue[d] =
              [v \in E!Value[d] |-> [typeName \in E!Words |->
                 E!encoding(IF d = 0 THEN <<>> ELSE E!encodeValue[d - 1], v, typeName)]]
         /\ E!Shows[d] =
              [v \in E!Value[d] |->
                 E!Showing(IF d = 0 THEN <<>> ELSE E!Shows[d - 1],
                           IF d = 0 THEN {} ELSE E!Json[d - 1], v)]
<1>1. PICK f : LevelsTo(f, Depth)  BY LevelsExist
<1> DEFINE Values(g) == g = [m \in 0 .. Depth |-> ValueOf(m, g[m - 1])]
           Jsons(g) == g = [m \in 0 .. Depth |-> JsonOf(m, g[m - 1])]
           Encodes(g) == g = [m \in 0 .. Depth |-> EncodeOf(m, g[m - 1])]
           Showings(g) == g = [m \in 0 .. Depth |-> ShowsOf(m, g[m - 1])]
<1>2. ASSUME NEW m \in 0 .. Depth
      PROVE  /\ m # 0 => m - 1 \in 0 .. Depth
             /\ f[m] = IF m = 0 THEN Bottom ELSE Level(m, f[m - 1])
  BY <1>1, ValuesAssumption DEF LevelsTo
<1>3. \E g : Values(g)
  <2> DEFINE g == [m \in 0 .. Depth |-> f[m].value]
  <2>1. ASSUME NEW m \in 0 .. Depth  PROVE g[m] = ValueOf(m, g[m - 1])
    <3>1. CASE m = 0
      <4>1. \A a, b : ValueOf(0, a) = ValueOf(0, b)  BY Zenon DEF ValueOf
      <4>2. g[m] = ValueOf(0, Below.value)  BY <1>2, <3>1, LevelParts DEF Bottom
      <4> HIDE DEF g
      <4>3. QED  BY <3>1, <4>1, <4>2
    <3>2. CASE m # 0
      <4>1. g[m - 1] = f[m - 1].value  BY <1>2, <3>2
      <4>2. g[m] = f[m].value  OBVIOUS
      <4>3. f[m].value = ValueOf(m, f[m - 1].value)  BY <1>2, <3>2, LevelParts
      <4>4. QED  BY <4>1, <4>2, <4>3
    <3>3. QED  BY <3>1, <3>2
  <2>2. g = [m \in 0 .. Depth |-> g[m]]  OBVIOUS
  <2> HIDE DEF g
  <2>3. Values(g)  BY <2>1, <2>2, Zenon
  <2>4. QED  BY <2>3, Zenon
<1>4. \E g : Jsons(g)
  <2> DEFINE g == [m \in 0 .. Depth |-> f[m].json]
  <2>1. ASSUME NEW m \in 0 .. Depth  PROVE g[m] = JsonOf(m, g[m - 1])
    <3>1. CASE m = 0
      <4>1. \A a, b : JsonOf(0, a) = JsonOf(0, b)  BY Zenon DEF JsonOf
      <4>2. g[m] = JsonOf(0, Below.json)  BY <1>2, <3>1, LevelParts DEF Bottom
      <4> HIDE DEF g
      <4>3. QED  BY <3>1, <4>1, <4>2
    <3>2. CASE m # 0
      <4>1. g[m - 1] = f[m - 1].json  BY <1>2, <3>2
      <4>2. g[m] = f[m].json  OBVIOUS
      <4>3. f[m].json = JsonOf(m, f[m - 1].json)  BY <1>2, <3>2, LevelParts
      <4>4. QED  BY <4>1, <4>2, <4>3
    <3>3. QED  BY <3>1, <3>2
  <2>2. g = [m \in 0 .. Depth |-> g[m]]  OBVIOUS
  <2> HIDE DEF g
  <2>3. Jsons(g)  BY <2>1, <2>2, Zenon
  <2>4. QED  BY <2>3, Zenon
<1>5. \E g : Encodes(g)
  <2> DEFINE g == [m \in 0 .. Depth |-> f[m].encode]
  <2>1. ASSUME NEW m \in 0 .. Depth  PROVE g[m] = EncodeOf(m, g[m - 1])
    <3>1. CASE m = 0
      <4>1. \A a, b : EncodeOf(0, a) = EncodeOf(0, b)  BY Zenon DEF EncodeOf
      <4>2. g[m] = EncodeOf(0, Below.encode)  BY <1>2, <3>1, LevelParts DEF Bottom
      <4> HIDE DEF g
      <4>3. QED  BY <3>1, <4>1, <4>2
    <3>2. CASE m # 0
      <4>1. g[m - 1] = f[m - 1].encode  BY <1>2, <3>2
      <4>2. g[m] = f[m].encode  OBVIOUS
      <4>3. f[m].encode = EncodeOf(m, f[m - 1].encode)  BY <1>2, <3>2, LevelParts
      <4>4. QED  BY <4>1, <4>2, <4>3
    <3>3. QED  BY <3>1, <3>2
  <2>2. g = [m \in 0 .. Depth |-> g[m]]  OBVIOUS
  <2> HIDE DEF g
  <2>3. Encodes(g)  BY <2>1, <2>2, Zenon
  <2>4. QED  BY <2>3, Zenon
<1>6. \E g : Showings(g)
  <2> DEFINE g == [m \in 0 .. Depth |-> f[m].shows]
  <2>1. ASSUME NEW m \in 0 .. Depth  PROVE g[m] = ShowsOf(m, g[m - 1])
    <3>1. CASE m = 0
      <4>1. \A a, b : ShowsOf(0, a) = ShowsOf(0, b)  BY Zenon DEF ShowsOf
      <4>2. g[m] = ShowsOf(0, Below.shows)  BY <1>2, <3>1, LevelParts DEF Bottom
      <4> HIDE DEF g
      <4>3. QED  BY <3>1, <4>1, <4>2
    <3>2. CASE m # 0
      <4>1. g[m - 1] = f[m - 1].shows  BY <1>2, <3>2
      <4>2. g[m] = f[m].shows  OBVIOUS
      <4>3. f[m].shows = ShowsOf(m, f[m - 1].shows)  BY <1>2, <3>2, LevelParts
      <4>4. QED  BY <4>1, <4>2, <4>3
    <3>3. QED  BY <3>1, <3>2
  <2>2. g = [m \in 0 .. Depth |-> g[m]]  OBVIOUS
  <2> HIDE DEF g
  <2>3. Showings(g)  BY <2>1, <2>2, Zenon
  <2>4. QED  BY <2>3, Zenon
<1>7. E!Value = CHOOSE g : Values(g)  BY Zenon DEF E!Value, ValueOf
<1>8. E!Json = CHOOSE g : Jsons(g)  BY Zenon DEF E!Json, JsonOf
<1>9. E!encodeValue = CHOOSE g : Encodes(g)  BY Zenon DEF E!encodeValue, EncodeOf
<1>10. E!Shows = CHOOSE g : Showings(g)  BY Zenon DEF E!Shows, ShowsOf
<1>11. /\ Values(CHOOSE g : Values(g)) /\ Jsons(CHOOSE g : Jsons(g))
       /\ Encodes(CHOOSE g : Encodes(g)) /\ Showings(CHOOSE g : Showings(g))
  <2> HIDE DEF Values, Jsons, Encodes, Showings
  <2>1. QED  BY <1>3, <1>4, <1>5, <1>6, Zenon
<1>12. Values(E!Value) /\ Jsons(E!Json) /\ Encodes(E!encodeValue) /\ Showings(E!Shows)
  <2> HIDE DEF Values, Jsons, Encodes, Showings
  <2>1. QED  BY <1>7, <1>8, <1>9, <1>10, <1>11, Zenon
<1>13. /\ E!Value[d] = ValueOf(d, E!Value[d - 1]) /\ E!Json[d] = JsonOf(d, E!Json[d - 1])
       /\ E!encodeValue[d] = EncodeOf(d, E!encodeValue[d - 1])
       /\ E!Shows[d] = ShowsOf(d, E!Shows[d - 1])
  BY <1>12
<1>14. QED  BY <1>13, Zenon DEF ValueOf, JsonOf, EncodeOf, ShowsOf

\* What a level says of one value.
LEMMA LevelsGive ==
  ASSUME NEW d \in 0 .. Depth, NEW v \in E!Value[d]
  PROVE  /\ E!Shows[d][v] = E!Showing(IF d = 0 THEN <<>> ELSE E!Shows[d - 1],
                                      IF d = 0 THEN {} ELSE E!Json[d - 1], v)
         /\ \A t \in E!Words : E!encodeValue[d][v][t]
                              = E!encoding(IF d = 0 THEN <<>> ELSE E!encodeValue[d - 1], v, t)
<1>1. E!encodeValue[d] =
        [w \in E!Value[d] |-> [typeName \in E!Words |->
           E!encoding(IF d = 0 THEN <<>> ELSE E!encodeValue[d - 1], w, typeName)]]
  BY LevelsAre, Zenon
<1>2. E!Shows[d] =
        [w \in E!Value[d] |->
           E!Showing(IF d = 0 THEN <<>> ELSE E!Shows[d - 1], IF d = 0 THEN {} ELSE E!Json[d - 1], w)]
  BY LevelsAre, Zenon
<1>3. E!Shows[d][v] = E!Showing(IF d = 0 THEN <<>> ELSE E!Shows[d - 1],
                                IF d = 0 THEN {} ELSE E!Json[d - 1], v)
  BY <1>2, Zenon
<1>4. E!encodeValue[d][v] = [typeName \in E!Words |->
        E!encoding(IF d = 0 THEN <<>> ELSE E!encodeValue[d - 1], v, typeName)]
  BY <1>1, Zenon
<1>5. \A t \in E!Words : E!encodeValue[d][v][t]
                      = E!encoding(IF d = 0 THEN <<>> ELSE E!encodeValue[d - 1], v, t)
  BY <1>4, Zenon
<1>6. QED  BY <1>3, <1>5

-----------------------------------------------------------------------------
(* What encodeValue returns *)

\* The driver values that hold none, by the case of encodeValue they fall in.
LEMMA AtomIs ==
  ASSUME NEW v \in E!Atom
  PROVE  /\ v.is \in E!Words /\ v.go \notin E!Maps \cup E!Lists \cup {"pointer"}
         /\ v.go = "numeric" => v.is \in {"nil", "text", "error"}
<1>1. CASE v \in [go : {"nil", "nil pointer", "time", "valuer", "bytes", "uuid", "netip",
                      "stringer", "float", "string", "bool", "int", "struct"}, is : E!Words, of : {<<>>}]
  BY <1>1 DEF E!Maps, E!Lists
<1>2. CASE v \in [go : {"numeric"}, is : {"nil", "text", "error"}, of : {<<>>}]
  BY <1>2 DEF E!Maps, E!Lists, E!Words
<1>3. QED  BY <1>1, <1>2 DEF E!Atom

\* A Valuer's text form is JSON, null exactly for NULL, and text for text and
\* for an error.
LEMMA ValuerTextIs ==
  ASSUME NEW is \in E!Words
  PROVE  /\ E!valuerText(is) \in E!Flat
         /\ E!valuerText(is).json = "null" <=> is = "nil"
         /\ is \in {"text", "error"} => E!valuerText(is).json = "string"
<1>1. CASE is = "nil"
  BY <1>1 DEF E!valuerText, E!Null, E!Leaf, E!Flat, E!Special, E!Words
<1>2. CASE is = "time"
  BY <1>2 DEF E!valuerText, E!encodeTime, E!NoType, E!Leaf, E!Flat, E!Special, E!Words
<1>3. CASE is \in E!Special \cup {"float"}
  BY <1>3 DEF E!valuerText, E!encodeFloat, E!Special, E!Leaf, E!Flat, E!Words
<1>4. CASE is = "bool"
  BY <1>4 DEF E!valuerText, E!Special, E!Leaf, E!Flat, E!Words
<1>5. CASE is \notin {"nil", "time", "bool", "float"} \cup E!Special
  BY <1>5 DEF E!valuerText, E!Special, E!Leaf, E!Flat, E!Words
<1>6. QED  BY <1>1, <1>2, <1>3, <1>4, <1>5

\* A value that holds none is written as one JSON value that shows it.
LEMMA AtomShown ==
  ASSUME NEW v \in E!Atom, NEW t \in E!Words, NEW inner, NEW shown, NEW parts
  PROVE  E!encoding(inner, v, t) \in E!Showing(shown, parts, v) /\ E!Showing(shown, parts, v) \subseteq E!Flat
<1>1. /\ v.is \in E!Words /\ v.go \notin E!Maps \cup E!Lists \cup {"pointer"}
      /\ v.go = "numeric" => v.is \in {"nil", "text", "error"}
  BY AtomIs
<1>2. PICK o : o = E!encoding(inner, v, t)  OBVIOUS
<1>3. /\ o \in E!Flat
      /\ o.json = "null" <=> E!IsNull(v)
      /\ v.go = "numeric" => o.json \in {"null", "string"}
  <2>1. CASE v.go \in {"nil", "nil pointer"}
    BY <1>2, <2>1 DEF E!encoding, E!Null, E!Leaf, E!Flat, E!IsNull, E!Plain, E!Maps, E!Lists, E!Words, E!Special
  <2>2. CASE v.go = "time"
    BY <1>2, <2>2 DEF E!encoding, E!encodeTime, E!Leaf, E!Flat, E!IsNull, E!Plain, E!Maps, E!Lists, E!Words, E!Special
  <2>3. CASE v.go \in {"numeric", "valuer"}
    <3>1. o = E!valuerText(v.is)  BY <1>2, <2>3 DEF E!encoding, E!Plain, E!Maps, E!Lists
    <3>2. /\ E!valuerText(v.is) \in E!Flat
          /\ E!valuerText(v.is).json = "null" <=> v.is = "nil"
          /\ v.is \in {"text", "error"} => E!valuerText(v.is).json = "string"
      BY <1>1, ValuerTextIs
    <3>3. QED  BY <1>1, <2>3, <3>1, <3>2 DEF E!IsNull
  <2>4. CASE v.go \in {"bytes", "uuid", "netip", "stringer"}
    BY <1>1, <1>2, <2>4 DEF E!encoding, E!Leaf, E!Flat, E!IsNull, E!Plain, E!Maps, E!Lists, E!Words, E!Special
  <2>5. CASE v.go = "float"
    <3>1. o = E!encodeFloat(v.is)  BY <1>2, <2>5 DEF E!encoding, E!Plain, E!Maps, E!Lists
    <3>2. QED  BY <1>1, <2>5, <3>1 DEF E!encodeFloat, E!Leaf, E!Flat, E!IsNull, E!Special, E!Words
  <2>6. CASE v.go \in E!Plain
    BY <1>1, <1>2, <2>6 DEF E!encoding, E!Plain, E!Leaf, E!Flat, E!IsNull, E!Maps, E!Lists, E!Words, E!Special
  <2>7. CASE v.go \notin {"nil", "nil pointer", "time", "numeric", "valuer", "bytes", "uuid",
                          "netip", "stringer", "float"} \cup E!Plain
    BY <1>1, <1>2, <2>7 DEF E!encoding, E!Leaf, E!Flat, E!IsNull, E!Plain, E!Maps, E!Lists, E!Words, E!Special
  <2>8. QED  BY <2>1, <2>2, <2>3, <2>4, <2>5, <2>6, <2>7
<1>4. E!Showing(shown, parts, v)
        = {x \in E!Flat : /\ x.json = "null" <=> E!IsNull(v)
                          /\ v.go = "numeric" => x.json \in {"null", "string"}}
  BY <1>1 DEF E!Showing, E!Maps, E!Lists
<1>5. QED  BY <1>2, <1>3, <1>4

\* A map or list is written entry by entry.
LEMMA ManyShown ==
  ASSUME NEW below, NEW v, v.go \in E!Maps \cup E!Lists, v.is \in E!Words, v.of \in Seq(below),
         NEW inner, NEW shown, NEW parts, NEW t,
         \A w \in below : shown[w] \subseteq parts /\ inner[w][E!NoType] \in shown[w]
  PROVE  /\ E!encoding(inner, v, t) \in E!Showing(shown, parts, v)
         /\ E!Showing(shown, parts, v) \subseteq [json : {"object", "array"}, is : E!Words, of : Seq(parts)]
<1>1. PICK s : s = [j \in DOMAIN v.of |-> inner[v.of[j]][E!NoType]]  OBVIOUS
<1>2. DOMAIN v.of = 1 .. Len(v.of) /\ Len(v.of) \in Nat  OBVIOUS
<1>3. ASSUME NEW j \in 1 .. Len(v.of)  PROVE s[j] \in parts /\ s[j] \in shown[v.of[j]]
  <2>1. v.of[j] \in below  BY <1>2
  <2>2. s[j] = inner[v.of[j]][E!NoType]  BY <1>1, <1>2
  <2>3. QED  BY <2>1, <2>2
<1>4. s \in Seq(parts) /\ Len(s) = Len(v.of)
  <2>1. s \in [1 .. Len(v.of) -> parts]  BY <1>1, <1>2, <1>3
  <2>2. QED  BY <1>2, <2>1
<1>5. PICK c : c = IF v.go \in E!Maps THEN "object" ELSE "array"  OBVIOUS
<1>6. E!encoding(inner, v, t) = [json |-> c, is |-> v.is, of |-> s]
  BY <1>1, <1>5 DEF E!encoding, E!Maps, E!Lists, E!Plain
<1>7. E!Showing(shown, parts, v)
        = {o \in [json : {"object", "array"}, is : E!Words, of : Seq(parts)] :
             /\ o.json = "object" <=> v.go \in E!Maps
             /\ Len(o.of) = Len(v.of) /\ \A j \in 1 .. Len(v.of) : o.of[j] \in shown[v.of[j]]}
  BY DEF E!Showing, E!Maps, E!Lists
<1>8. QED  BY <1>3, <1>4, <1>5, <1>6, <1>7

\* What a pointer points to is written in its place.
LEMMA PointerShown ==
  ASSUME NEW v, v.go = "pointer", NEW inner, NEW shown, NEW parts, NEW t
  PROVE  E!encoding(inner, v, t) = inner[v.of[1]][t] /\ E!Showing(shown, parts, v) = shown[v.of[1]]
BY DEF E!encoding, E!Showing, E!Maps, E!Lists, E!Plain

\* Values nested d deep are written as JSON nested d deep that shows them.
Kept(d) ==
  /\ E!Flat \subseteq E!Json[d]
  /\ \A v \in E!Value[d] : /\ E!Shows[d][v] \subseteq E!Json[d]
                           /\ \A t \in E!Words : E!encodeValue[d][v][t] \in E!Shows[d][v]

\* Every level is kept when the one below is.
LEMMA LevelKept ==
  ASSUME NEW d \in 0 .. Depth, d # 0 => Kept(d - 1)
  PROVE  Kept(d)
<1>1. PICK i, s, q : /\ i = IF d = 0 THEN <<>> ELSE E!encodeValue[d - 1]
                     /\ s = IF d = 0 THEN <<>> ELSE E!Shows[d - 1]
                     /\ q = IF d = 0 THEN {} ELSE E!Json[d - 1]
  OBVIOUS
<1>2. \A v \in E!Value[d] : /\ E!Shows[d][v] = E!Showing(s, q, v)
                            /\ \A t \in E!Words : E!encodeValue[d][v][t] = E!encoding(i, v, t)
  BY <1>1, LevelsGive
<1>3. /\ E!Value[d] = E!Atom \cup IF d = 0 THEN {} ELSE E!Holding(E!Value[d - 1])
      /\ E!Json[d] =
           IF d = 0 THEN E!Flat
           ELSE E!Json[d - 1] \cup [json : {"object", "array"}, is : E!Words, of : Seq(E!Json[d - 1])]
  BY LevelsAre, Zenon
<1>4. E!Flat \subseteq E!Json[d]
  BY <1>3 DEF Kept
<1>5. ASSUME NEW v \in E!Value[d]
      PROVE  /\ E!Showing(s, q, v) \subseteq E!Json[d]
             /\ \A t \in E!Words : E!encoding(i, v, t) \in E!Showing(s, q, v)
  <2>1. CASE v \in E!Atom
    <3>1. \A t \in E!Words : E!encoding(i, v, t) \in E!Showing(s, q, v) /\ E!Showing(s, q, v) \subseteq E!Flat
      BY <2>1, AtomShown
    <3>2. E!NoType \in E!Words  BY DEF E!NoType, E!Words
    <3>3. QED  BY <1>4, <3>1, <3>2
  <2>2. CASE v \notin E!Atom
    <3>1. d # 0 /\ v \in E!Holding(E!Value[d - 1])  BY <1>3, <2>2
    <3>2. PICK b : b = E!Value[d - 1]  OBVIOUS
    <3>3. i = E!encodeValue[d - 1] /\ s = E!Shows[d - 1] /\ q = E!Json[d - 1]  BY <1>1, <3>1
    <3>4. \A w \in b : /\ s[w] \subseteq q
                       /\ \A t \in E!Words : i[w][t] \in s[w]
      BY <3>1, <3>2, <3>3, Zenon DEF Kept
    <3>5. E!Json[d] = q \cup [json : {"object", "array"}, is : E!Words, of : Seq(q)]
      BY <1>3, <3>1, <3>3
    <3>6. CASE v \in [go : E!Maps \cup E!Lists, is : E!Words, of : Seq(b)]
      <4>1. v.go \in E!Maps \cup E!Lists /\ v.is \in E!Words /\ v.of \in Seq(b)  BY <3>6
      <4>2. E!NoType \in E!Words  BY DEF E!NoType, E!Words
      <4>3. \A w \in b : s[w] \subseteq q /\ i[w][E!NoType] \in s[w]  BY <3>4, <4>2
      <4>4. \A t : /\ E!encoding(i, v, t) \in E!Showing(s, q, v)
                   /\ E!Showing(s, q, v) \subseteq [json : {"object", "array"}, is : E!Words, of : Seq(q)]
        BY <4>1, <4>3, ManyShown
      <4>5. QED  BY <3>5, <4>4
    <3>7. CASE v \in [go : {"pointer"}, is : E!Words, of : [{1} -> b]]
      <4>1. v.go = "pointer" /\ v.of[1] \in b  BY <3>7
      <4>2. \A t : /\ E!encoding(i, v, t) = i[v.of[1]][t]
                   /\ E!Showing(s, q, v) = s[v.of[1]]
        BY <4>1, PointerShown
      <4>3. QED  BY <3>4, <3>5, <4>1, <4>2
    <3>8. QED  BY <3>1, <3>2, <3>6, <3>7 DEF E!Holding
  <2>3. QED  BY <2>1, <2>2
<1>6. QED  BY <1>2, <1>4, <1>5 DEF Kept

\* Every level is kept.
LEMMA AllKept == Kept(Depth)
<1> DEFINE S == {d \in Nat : d <= Depth => Kept(d)}
<1>1. 0 \in S
  <2>1. 0 \in 0 .. Depth  BY ValuesAssumption
  <2>2. Kept(0)  BY <2>1, LevelKept
  <2>3. QED  BY <2>2
<1>2. ASSUME NEW m \in Nat, m \in S  PROVE m + 1 \in S
  <2>1. SUFFICES ASSUME m + 1 <= Depth PROVE Kept(m + 1)  OBVIOUS
  <2>2. PICK d : d = m + 1  OBVIOUS
  <2>3. d \in 0 .. Depth /\ d - 1 = m /\ m <= Depth  BY <2>1, <2>2, ValuesAssumption
  <2>4. Kept(m)  BY <1>2, <2>3
  <2>5. Kept(d)  BY <2>3, <2>4, LevelKept
  <2>6. QED  BY <2>2, <2>5
<1> HIDE DEF S
<1>3. Nat \subseteq S  BY <1>1, <1>2, Induct
<1>4. QED  BY <1>3, ValuesAssumption DEF S

-----------------------------------------------------------------------------
(* The values of a row *)

\* A column that is done is what encodeValue returns for it.
Encoded ==
  /\ input \in Inputs
  /\ done => output = E!encodeValue[Depth][input.value][input.type]

\* Whatever a driver returns for a column, nested however deep, what reaches the
\* client is JSON and shows it.
THEOREM ValuesAreKept == E!Spec => []ValuesKept
<1>1. E!Init => Encoded  BY DEF E!Init, Encoded
<1>2. Encoded /\ [E!Next]_E!vars => Encoded'  BY DEF Encoded, E!Next, E!Encode, E!vars
<1>3. Encoded => ValuesKept
  <2>1. SUFFICES ASSUME Encoded, done PROVE ValuesKept  BY DEF ValuesKept, E!ValuesKept
  <2>2. PICK v, t : v = input.value /\ t = input.type  OBVIOUS
  <2>3. v \in E!Value[Depth] /\ t \in E!Words /\ output = E!encodeValue[Depth][v][t]
    BY <2>1, <2>2, ValuesAssumption DEF Encoded
  <2>4. output \in E!Shows[Depth][v]  BY <2>3, AllKept DEF Kept
  <2>5. v.go = "time" /\ t \in {"date", "timestamp"} => output.is = t
    <3>1. SUFFICES ASSUME v.go = "time", t \in {"date", "timestamp"} PROVE output.is = t  OBVIOUS
    <3>2. PICK i : i = IF Depth = 0 THEN <<>> ELSE E!encodeValue[Depth - 1]  OBVIOUS
    <3>3. Depth \in 0 .. Depth  BY ValuesAssumption
    <3>4. output = E!encoding(i, v, t)  BY <2>3, <3>2, <3>3, LevelsGive
    <3>5. output = E!encodeTime(t)  BY <3>1, <3>4 DEF E!encoding, E!Plain, E!Maps, E!Lists
    <3>6. QED  BY <3>1, <3>5 DEF E!encodeTime, E!Leaf
  <2>6. QED  BY <2>2, <2>4, <2>5 DEF ValuesKept, E!ValuesKept
<1>4. QED  BY <1>1, <1>2, <1>3, PTL DEF E!Spec
=============================================================================
