-------------------------- MODULE MCToolArguments --------------------------
(* Requests that are in order but for up to two arguments, which take every  *)
(* value at a boundary: handlers read their arguments independently.         *)
EXTENDS ToolArguments

V(json, s, n) == [json |-> json, s |-> s, n |-> n]
Strings == {V("string", s, 0) : s \in {"", " ", "x", "db"}}
Numbers == {V("integer", "", n) : n \in {-1, 0, 1, 30, 31, 1000, 1001, MaxInt, MaxInt + 1}}
Wrong == {Absent, V("null", "", 0), V("object", "", 0), V("fraction", "", 1)}
Bools == {V("boolean", b, 0) : b \in {"true", "false"}}
Formats == {V("string", s, 0) : s \in {"", "text", "json", " JSON", "yaml"}}

ValuesOf(a) ==
  Wrong \cup
  CASE a \in {"limit", "offset", "max_rows", "timeout_seconds"} -> Numbers \cup {V("string", "1", 0)}
    [] a \in {"analyze", "newest_first", "include_views", "include_sizes"} -> Bools \cup {V("string", "x", 0)}
    [] a = "format" -> Formats
    [] OTHER -> Strings

Good(a) == CASE a = "database" -> V("string", "db", 0)
             [] a = "row" -> V("object", "", 0)
             [] OTHER -> V("string", "x", 0)
Needed == {"database", "schema", "table", "hypertable", "sql", "row"}

MCRequests ==
  UNION {LET base == [a \in Names |-> IF a \in Needed \cap allowedArgs(t) THEN Good(a) ELSE Absent]
             names == allowedArgs(t) \cup {"bogus"}
         IN UNION {{[tool |-> t, args |-> [base EXCEPT ![a] = v, ![b] = w]] :
                      v \in ValuesOf(a), w \in ValuesOf(b)} : a \in names, b \in names}
         : t \in Tools}
=============================================================================
