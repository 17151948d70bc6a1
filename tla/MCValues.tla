------------------------------ MODULE MCValues ------------------------------
(* Every kind of value the driver returns, alone, in arrays and maps of up to *)
(* two, behind pointers, and all of these held by another value.              *)
EXTENDS Sequences

Special == {"NaN", "Infinity", "-Infinity"}
V(go, is) == [go |-> go, is |-> is, of |-> <<>>]
H(go, of) == [go |-> go, is |-> "", of |-> of]
Atoms ==
  {V("nil", ""), V("nil pointer", ""), V("time", ""), V("bytes", "b"), V("uuid", "u"),
   V("netip", "a"), V("stringer", "s"), V("string", "s"), V("bool", "b"), V("int", "1"),
   V("struct", "x")}
  \cup {V("float", f) : f \in Special \cup {"float"}}
  \cup {V("numeric", f) : f \in {"nil", "text", "error"}}
  \cup {V("valuer", f) : f \in Special \cup {"nil", "text", "time", "int64", "float", "bool", "error"}}
Kinds == {"list", "map", "reflect slice", "reflect map", "pointer"}
One(vs) == {H(go, <<v>>) : go \in Kinds, v \in vs}
Two == {H(go, <<v, w>>) : go \in {"list", "map"}, v \in Atoms, w \in Atoms}
MCInputs ==
  {[value |-> v, type |-> ""] : v \in Atoms \cup One(Atoms) \cup Two \cup One(One(Atoms)) \cup One(Two)}
    \cup {[value |-> V("time", ""), type |-> t] : t \in {"date", "timestamp", "timestamptz"}}
=============================================================================
