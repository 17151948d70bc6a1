------------------------------- MODULE Values -------------------------------
(***************************************************************************)
(* What becomes of a column's value on its way into the JSON answer        *)
(* (internal/timescale/values.go). A driver value is [go, is, of]: its Go  *)
(* type, what distinguishes values of that type (for a driver.Valuer: what *)
(* its Value method returns), and the values it holds. What encodeValue    *)
(* returns is [json, is, of]; json "go" stands for a value encoding/json   *)
(* refuses.                                                                *)
(***************************************************************************)
EXTENDS Integers, Sequences

CONSTANTS
  Inputs, \* [value, type]: what the driver returns for a column of that type
  Depth,  \* of the nesting of values, the hops of pointers included
  Texts   \* values in words, and names of types no rule is about

VARIABLES input, output, done

vars == <<input, output, done>>

Plain == {"string", "bool", "int"}
Special == {"NaN", "Infinity", "-Infinity"}
Maps == {"map", "reflect map"}
Lists == {"list", "reflect slice"}

\* What distinguishes values of a type, and the names of the types of columns.
Words ==
  Texts \cup Special
    \cup {"nil", "text", "error", "time", "int64", "float", "bool", "date", "timestamp", "zoned", "none"}

\* What the driver may return: values that hold none, those that hold inner
\* ones, and all that are nested at most d deep. A numeric is NULL, text or an error.
Atom ==
  [go : {"nil", "nil pointer", "time", "valuer", "bytes", "uuid", "netip", "stringer", "float",
         "string", "bool", "int", "struct"}, is : Words, of : {<<>>}]
    \cup [go : {"numeric"}, is : {"nil", "text", "error"}, of : {<<>>}]
Holding(inner) ==
  [go : Maps \cup Lists, is : Words, of : Seq(inner)]
    \cup [go : {"pointer"}, is : Words, of : [{1} -> inner]]
Value[d \in 0 .. Depth] == Atom \cup IF d = 0 THEN {} ELSE Holding(Value[d - 1])

Leaf(json, is) == [json |-> json, is |-> is, of |-> <<>>]
Null == Leaf("null", "nil")

\* The type name of what is not a column of its own, in the code "".
NoType == "none"

\* A float JSON has no number for is told in words.
encodeFloat(is) == IF is \in Special THEN Leaf("string", is) ELSE Leaf("number", is)

\* Dates and timestamps without time zone are written without one.
encodeTime(typeName) ==
  Leaf("string", IF typeName \in {"date", "timestamp"} THEN typeName ELSE "zoned")

\* Mutant of valuerText: a NULL is printed like anything else.
valuerTextPrinted(is) ==
  CASE is \in Special \cup {"float"} -> encodeFloat(is)
    [] is = "bool"                   -> Leaf("bool", is)
    [] OTHER                         -> Leaf("string", is)

\* The text form of a driver.Valuer, by what Value() returned.
valuerText(is) ==
  CASE is = "nil"                    -> Null
    [] is = "time"                   -> encodeTime(NoType)
    [] is \in Special \cup {"float"} -> encodeFloat(is)
    [] is = "bool"                   -> Leaf("bool", is)
    [] OTHER                         -> Leaf("string", is) \* text, bytes, int64, error, others

\* The cases in the order of the code: the type switch, pointers, types with
\* a text form, then slices and maps of any other type by reflection. What v
\* holds is encoded by inner.
encoding(inner, v, typeName) ==
  LET elements == [j \in DOMAIN v.of |-> inner[v.of[j]][NoType]] IN
  CASE v.go \in {"nil", "nil pointer"}                    -> Null
    [] v.go = "time"                                      -> encodeTime(typeName)
    [] v.go \in {"numeric", "valuer"}                     -> valuerText(v.is)
    [] v.go \in {"bytes", "uuid", "netip", "stringer"}    -> Leaf("string", v.is)
    [] v.go = "float"                                     -> encodeFloat(v.is)
    [] v.go \in Plain                                     -> Leaf(v.go, v.is)
    [] v.go \in Maps                                      -> [json |-> "object", is |-> v.is, of |-> elements]
    [] v.go \in Lists                                     -> [json |-> "array", is |-> v.is, of |-> elements]
    [] v.go = "pointer"                                   -> inner[v.of[1]][typeName]
    [] OTHER                                              -> Leaf("string", v.is) \* fmt.Sprint

encodeValue[d \in 0 .. Depth] ==
  LET inner == IF d = 0 THEN <<>> ELSE encodeValue[d - 1]
  IN [v \in Value[d] |-> [typeName \in Words |-> encoding(inner, v, typeName)]]

Init == input \in Inputs /\ output = Null /\ done = FALSE

Encode ==
  /\ ~done /\ done' = TRUE
  /\ output' = encodeValue[Depth][input.value][input.type]
  /\ UNCHANGED input

Next == Encode

Spec == Init /\ [][Next]_vars

-----------------------------------------------------------------------------
(* Properties *)

\* What JSON can express, nested at most d deep: no number is Special.
Flat ==
  [json : {"null", "string", "bool", "int"}, is : Words, of : {<<>>}]
    \cup [json : {"number"}, is : Words \ Special, of : {<<>>}]
Json[d \in 0 .. Depth] ==
  IF d = 0 THEN Flat
  ELSE Json[d - 1] \cup [json : {"object", "array"}, is : Words, of : Seq(Json[d - 1])]

\* The JSON that shows v: every entry in its place, null exactly where the
\* database had NULL, decimals as text at any depth, so that none passes
\* through a float, and other values by one value. An entry of v is one of
\* parts, and inner says which.
IsNull(v) ==
  v.go \in {"nil", "nil pointer"} \/ (v.go \in {"numeric", "valuer"} /\ v.is = "nil")
Showing(inner, parts, v) ==
  CASE v.go \in Maps \cup Lists ->
         {o \in [json : {"object", "array"}, is : Words, of : Seq(parts)] :
            /\ o.json = "object" <=> v.go \in Maps
            /\ Len(o.of) = Len(v.of) /\ \A j \in 1 .. Len(v.of) : o.of[j] \in inner[v.of[j]]}
    [] v.go = "pointer" -> inner[v.of[1]]
    [] OTHER            -> {o \in Flat : /\ o.json = "null" <=> IsNull(v)
                                         /\ v.go = "numeric" => o.json \in {"null", "string"}}
Shows[d \in 0 .. Depth] ==
  LET inner == IF d = 0 THEN <<>> ELSE Shows[d - 1]
      parts == IF d = 0 THEN {} ELSE Json[d - 1]
  IN [v \in Value[d] |-> Showing(inner, parts, v)]

\* What reaches the client is JSON, whatever the driver returns, however
\* nested, behind pointers or out of a Valuer (one infinite float in one row
\* would otherwise lose the whole result), and it shows what the database
\* held. A time of a column type without time zone is written without one
\* (an element of an array is, whatever its type, with one).
ValuesKept ==
  done => /\ output \in Shows[Depth][input.value]
          /\ input.value.go = "time" /\ input.type \in {"date", "timestamp"} => output.is = input.type
=============================================================================
