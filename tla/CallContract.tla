---------------------------- MODULE CallContract ----------------------------
(***************************************************************************)
(* What the tool calls of one database promise about its data, without     *)
(* pools, sessions, deadlines or paths: a read call writes nothing, an     *)
(* insert call writes its row at most once, and only before its fate is    *)
(* settled.  A failed insert call may be one whose fate is still open.     *)
(***************************************************************************)
EXTENDS Naturals

CONSTANTS Readers, Inserters

VARIABLES
  out,    \* what the call has reported: "none" until it has
  rows,   \* rows the call has durably written
  open    \* the insert calls whose row may still come to be written

cvars == <<out, rows, open>>

Calls == Readers \cup Inserters

Init ==
  /\ out = [c \in Calls |-> "none"]
  /\ rows = [c \in Calls |-> 0]
  /\ open = Inserters

\* The row is written, whether or not the call has already failed.
Write(c) ==
  /\ c \in open
  /\ rows' = [rows EXCEPT ![c] = 1]
  /\ open' = open \ {c}
  /\ UNCHANGED out

\* The row will never be written.
Settle(c) ==
  /\ c \in open
  /\ open' = open \ {c}
  /\ UNCHANGED <<out, rows>>

Refuse(c) ==
  /\ c \in open /\ out[c] = "none"
  /\ out' = [out EXCEPT ![c] = "refused"]
  /\ open' = open \ {c}
  /\ UNCHANGED rows

Succeed(c) ==
  /\ out[c] = "none"
  /\ c \in Readers \/ (c \notin open /\ rows[c] = 1)
  /\ out' = [out EXCEPT ![c] = "ok"]
  /\ UNCHANGED <<rows, open>>

Fail(c) ==
  /\ out[c] = "none"
  /\ out' = [out EXCEPT ![c] = "err"]
  /\ open' \in {open, open \ {c}}
  /\ UNCHANGED rows

Next == \E c \in Calls : Write(c) \/ Settle(c) \/ Refuse(c) \/ Succeed(c) \/ Fail(c)

Spec == Init /\ [][Next]_cvars
=============================================================================
