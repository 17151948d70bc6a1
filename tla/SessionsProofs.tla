--------------------------- MODULE SessionsProofs ---------------------------
(***************************************************************************)
(* Proofs about Sessions, for any sets of calls and connections and any    *)
(* pool size.                                                              *)
(***************************************************************************)
EXTENDS Sessions, TLAPS

-----------------------------------------------------------------------------
(* The inductive invariant *)

\* The session of k is as AfterConnect left it, outside a transaction.
Clean(k) ==
  LET d == Defaults(link[k].pool)
  IN  /\ srv[k].st = "idle" /\ srv[k].pend = 0
      /\ srv[k].sess = d /\ srv[k].keep = d /\ srv[k].cur = d

\* The settings that would survive a COMMIT on k: of a read call only when it
\* smuggled something, and a read call never commits.
KeepOk(k) ==
  \/ srv[k].keep = Defaults(link[k].pool)
  \/ Smuggle /\ link[k].by \in Readers

\* What a statement finds when the backend executes it on k for call c.
Pre(op, c, k) ==
  LET s == srv[k]
      d == Defaults(link[k].pool)
  IN  /\ s.sess = d
      /\ op = "begin" => Clean(k)
      /\ op = "undo" => s.st \in {"tx", "failed"}
      /\ op \in {"attr", "limit", "body", "commit"} => s.st = "tx"
      /\ op \in {"attr", "limit"} => s.cur.tmo = "session"
      /\ op \in {"attr", "limit", "body"} => KeepOk(k) /\ s.pend = 0
      /\ op = "limit" => call[c].want
      /\ op = "commit" => /\ c \in Inserters /\ s.keep = d /\ s.pend = 1
                          /\ rows[c] = 0
      /\ op \in {"limit", "body", "commit"} =>
           s.cur.app \in {c} \cup (IF Smuggle THEN {Forged} ELSE {})
      /\ op = "body" =>
           s.cur.tmo \in {IF call[c].want THEN "call" ELSE "session"}
                           \cup (IF Smuggle THEN {"none"} ELSE {})

\* A call and the connection it holds belong together.
CallOwner(c) ==
  LET k == call[c].conn
  IN  /\ call[c].pc \in Ops <=> k # NoConn
      /\ k # NoConn => /\ link[k].cli = "held" /\ link[k].by = c
                       /\ link[k].pool = PoolOf(c)
      /\ call[c].sent => k # NoConn
      /\ call[c].pc = "commit" => c \in Inserters
      /\ call[c].pc = "undo" => call[c].out \in {"ok", "err"}
      /\ call[c].pc \notin {"undo", "done"} => call[c].out = "none"
      /\ c \in Inserters => ~call[c].want
      /\ c \in Inserters /\ call[c].pc = "undo" => call[c].out = "err"

LinkOwner(k) ==
  LET c == link[k].by
  IN  /\ c \notin Calls => link[k].cli = "none" /\ link[k].net = "down"
      /\ c \in Calls => link[k].pool = PoolOf(c)
      /\ link[k].cli = "held" => call[c].conn = k
      /\ link[k].cli # "held" => link[k].ans = "none"

\* A call is the last user of one connection at most.
LastUser(c, k) ==
  link[k].by = c => /\ call[c].pc # "start" /\ call[c].out # "refused"
                    /\ call[c].pc = "acquire" => link[k].cli = "new"

OneConn ==
  \A j, k \in Conns : link[j].by \in Calls /\ link[j].by = link[k].by => j = k

\* The backend of k, whatever the client still knows of it.
Backend(k) ==
  LET s == srv[k]
      c == link[k].by
  IN  /\ s.st = "gone" => s = GoneBackend /\ link[k].net # "up"
      /\ s.st # "gone" => c \in Calls
      /\ c \in Readers => s.pend = 0 /\ s.stmt # "commit"
      /\ c \in Readers /\ InTx(k) => s.ro
      /\ link[k].cli = "new" =>
           /\ s.st \in {"gone", "idle"} /\ s.stmt = "none" /\ s.pend = 0
           /\ s.sess.app = Base /\ s.sess.tmo \in {"none", "session"}
           /\ s.sess.tmo = "none" => ~s.sess.idle
           /\ ~s.sess.idle => ~s.sess.ro
           /\ s.keep = s.sess /\ s.cur = s.sess
      /\ link[k].cli = "idle" /\ s.st # "gone" => Clean(k) /\ s.stmt = "none"
      /\ s.stmt # "none" => Pre(s.stmt, c, k)
      /\ link[k].cli = "none" /\ s.stmt # "none" => call[c].pc = "done"

\* The backend of the connection that call c holds and the statement c is at.
InStep(c) ==
  LET k == call[c].conn
      s == srv[k]
      a == link[k].ans
  IN  k # NoConn =>
        /\ s.stmt # "none" => call[c].sent /\ s.stmt = call[c].pc /\ a = "none"
        /\ a # "none" => call[c].sent
        /\ a = "none" /\ s.st # "gone" => Pre(call[c].pc, c, k)
        /\ a = "ok" /\ s.st # "gone" =>
             /\ call[c].pc \in {"commit", "undo"} => Clean(k)
             /\ \A f \in Follow(c) : Pre(f[1], c, k)
        /\ a = "err" /\ s.st # "gone" =>
             /\ call[c].pc = "commit" => Clean(k)
             /\ call[c].pc \in {"attr", "limit", "body"} => Pre("undo", c, k)
        /\ call[c].pc = "commit" /\ a = "ok" => rows[c] = 1
        /\ call[c].pc = "commit" /\ ~call[c].sent => rows[c] = 0

\* Rows and outcomes.
Counted(c) ==
  /\ rows[c] \in {0, 1}
  /\ c \in Readers => rows[c] = 0
  /\ rows[c] = 1 => call[c].pc \in {"commit", "done"}
  /\ call[c].out = "ok" /\ c \in Inserters => rows[c] = 1
  /\ call[c].out = "refused" => rows[c] = 0

\* What concerns one call and the connection it used last.
Local(c, k) ==
  /\ CallOwner(c) /\ LinkOwner(k) /\ LastUser(c, k)
  /\ Backend(k) /\ InStep(c) /\ Counted(c)

IInv ==
  /\ TypeOK
  /\ OneConn
  /\ \A c \in Calls : CallOwner(c) /\ InStep(c) /\ Counted(c)
  /\ \A k \in Conns : LinkOwner(k) /\ Backend(k)
  /\ \A c \in Calls, k \in Conns : LastUser(c, k)

-----------------------------------------------------------------------------
(* Types *)

LEMMA OpsFacts ==
  /\ "begin" \in Ops /\ "attr" \in Ops /\ "limit" \in Ops /\ "body" \in Ops
  /\ "commit" \in Ops /\ "undo" \in Ops
  /\ "start" \notin Ops /\ "acquire" \notin Ops /\ "done" \notin Ops
  /\ "none" \notin Ops
BY DEF Ops

LEMMA EditCall ==
  ASSUME NEW x \in CallState
  PROVE  /\ \A p \in Ops \cup {"start", "acquire", "done"} : [x EXCEPT !.pc = p] \in CallState
         /\ \A b \in BOOLEAN : [x EXCEPT !.sent = b] \in CallState
         /\ \A b \in BOOLEAN : [x EXCEPT !.late = b] \in CallState
         /\ \A b \in BOOLEAN : [x EXCEPT !.want = b] \in CallState
         /\ \A k \in Conns \cup {NoConn} : [x EXCEPT !.conn = k] \in CallState
         /\ \A o \in {"none", "ok", "err", "refused"} : [x EXCEPT !.out = o] \in CallState
BY DEF CallState

LEMMA EditLink ==
  ASSUME NEW x \in LinkState
  PROVE  /\ \A v \in {"none", "new", "idle", "held"} : [x EXCEPT !.cli = v] \in LinkState
         /\ \A v \in {"up", "hung", "down"} : [x EXCEPT !.net = v] \in LinkState
         /\ \A c \in Calls : [x EXCEPT !.by = c] \in LinkState
         /\ \A v \in {"none", "ok", "err"} : [x EXCEPT !.ans = v] \in LinkState
         /\ Dropped(x) \in LinkState
BY DEF LinkState, Dropped

LEMMA EditSettings ==
  ASSUME NEW s \in Settings
  PROVE  /\ \A a \in Calls \cup {Base, Forged} : [s EXCEPT !.app = a] \in Settings
         /\ \A t \in {"none", "session", "call"} : [s EXCEPT !.tmo = t] \in Settings
         /\ \A b \in BOOLEAN : [s EXCEPT !.idle = b] \in Settings
         /\ \A b \in BOOLEAN : [s EXCEPT !.ro = b] \in Settings
BY DEF Settings

LEMMA EditBackend ==
  ASSUME NEW s \in BackendState
  PROVE  /\ \A v \in {"gone", "idle", "tx", "failed"} : [s EXCEPT !.st = v] \in BackendState
         /\ \A v \in Ops \cup {"none"} : [s EXCEPT !.stmt = v] \in BackendState
         /\ \A b \in BOOLEAN : [s EXCEPT !.ro = b] \in BackendState
         /\ \A n \in Nat : [s EXCEPT !.pend = n] \in BackendState
         /\ \A g \in Settings : [s EXCEPT !.sess = g] \in BackendState
         /\ \A g \in Settings : [s EXCEPT !.keep = g] \in BackendState
         /\ \A g \in Settings : [s EXCEPT !.cur = g] \in BackendState
BY DEF BackendState

LEMMA GoneType == GoneBackend \in BackendState /\ Fresh \in Settings
BY CallsAssumption DEF GoneBackend, BackendState, Settings, Fresh

LEMMA ServerTypes ==
  ASSUME NEW s \in BackendState
  PROVE  /\ RolledBack(s) \in BackendState
         /\ Committed(s) \in BackendState
         /\ Limit(s) \in BackendState
         /\ Smuggled(s) \in BackendState
         /\ \A c \in Calls : Attribute(s, c) \in BackendState
<1>1. s.sess \in Settings /\ s.keep \in Settings /\ s.cur \in Settings
  BY DEF BackendState
<1>2. RolledBack(s) \in BackendState
  BY <1>1 DEF BackendState, RolledBack
<1>3. Committed(s) \in BackendState
  BY <1>1 DEF BackendState, Committed
<1>4. Limit(s) \in BackendState
  BY <1>1, EditSettings, EditBackend DEF Limit
<1>5. ASSUME NEW c \in Calls PROVE Attribute(s, c) \in BackendState
  BY <1>1, EditSettings, EditBackend DEF Attribute
<1>6. Smuggled(s) \in BackendState
  <2>1. [s.cur EXCEPT !.app = Forged, !.tmo = "none"] \in Settings
    BY <1>1, EditSettings
  <2>2. [s.keep EXCEPT !.app = Forged, !.tmo = "none"] \in Settings
    BY <1>1, EditSettings
  <2>3. Smuggled(s) = [s EXCEPT !.cur = [s.cur EXCEPT !.app = Forged, !.tmo = "none"],
                                !.keep = [s.keep EXCEPT !.app = Forged, !.tmo = "none"]]
    BY DEF Smuggled, BackendState, Settings
  <2> QED BY <2>1, <2>2, <2>3 DEF BackendState
<1> QED BY <1>2, <1>3, <1>4, <1>5, <1>6

LEMMA TypeInit == Init => TypeOK
<1> SUFFICES ASSUME Init PROVE TypeOK
  OBVIOUS
<1>1. IdleCall \in CallState
  BY DEF IdleCall, CallState
<1>2. [cli |-> "none", pool |-> "read", net |-> "down", by |-> NoCall, ans |-> "none"] \in LinkState
  BY DEF LinkState, Pools
<1> QED BY <1>1, <1>2, GoneType DEF Init, TypeOK

LEMMA FollowType ==
  ASSUME NEW c \in Calls, NEW f \in Follow(c)
  PROVE  f[1] \in Ops /\ f[2] \in {"none", "ok", "err"}
BY OpsFacts DEF Follow

LEMMA FinishType ==
  ASSUME TypeOK, NEW k \in Conns, NEW s \in BackendState, NEW a \in {"ok", "err"},
         Finish(k, s, a)
  PROVE  srv' \in [Conns -> BackendState] /\ link' \in [Conns -> LinkState]
<1>1. [s EXCEPT !.stmt = "none"] \in BackendState
  BY EditBackend
<1>2. srv' \in [Conns -> BackendState]
  BY <1>1 DEF TypeOK, Finish
<1>3. link' \in [Conns -> LinkState]
  <2>1. link[k] \in LinkState /\ link[k].ans \in {"none", "ok", "err"}
    BY DEF TypeOK, LinkState
  <2> QED BY <2>1, EditLink DEF TypeOK, Finish
<1> QED BY <1>2, <1>3

LEMMA ReturnType ==
  ASSUME TypeOK, NEW c \in Calls
  PROVE  /\ \A o \in {"ok", "err", "refused"} : Return(c, o) => call' \in [Calls -> CallState]
         /\ ReturnClosing(c) => call' \in [Calls -> CallState] /\ link' \in [Conns -> LinkState]
         /\ \A o \in {"ok", "err", "refused"} : ReturnReleasing(c, o) =>
               call' \in [Calls -> CallState] /\ link' \in [Conns -> LinkState]
         /\ \A p \in Ops, o \in {"none", "ok", "err", "refused"} : MoveOn(c, p, o) =>
               call' \in [Calls -> CallState] /\ link' \in [Conns -> LinkState]
<1>1. call[c] \in CallState /\ Outcome(c) \in {"ok", "err", "refused"}
  BY DEF TypeOK, Outcome, CallState
<1>2. ASSUME NEW o \in {"ok", "err", "refused"}, Return(c, o) PROVE call' \in [Calls -> CallState]
  <2>1. [call[c] EXCEPT !.pc = "done", !.sent = FALSE, !.conn = NoConn, !.out = o] \in CallState
    BY <1>1, EditCall
  <2>2. call' = [call EXCEPT ![c] = [call[c] EXCEPT !.pc = "done", !.sent = FALSE, !.conn = NoConn, !.out = o]]
    BY <1>2 DEF Return, TypeOK, CallState
  <2> QED BY <2>1, <2>2 DEF TypeOK
<1>3. ASSUME ReturnClosing(c) PROVE link' \in [Conns -> LinkState]
  BY <1>3, EditLink DEF ReturnClosing, TypeOK
<1>4. ASSUME NEW o \in {"ok", "err", "refused"}, ReturnReleasing(c, o) PROVE link' \in [Conns -> LinkState]
  BY <1>4, EditLink DEF ReturnReleasing, TypeOK
<1>5. ASSUME NEW p \in Ops, NEW o \in {"none", "ok", "err", "refused"}, MoveOn(c, p, o)
      PROVE  call' \in [Calls -> CallState] /\ link' \in [Conns -> LinkState]
  <2>1. [call[c] EXCEPT !.pc = p, !.sent = FALSE, !.out = o] \in CallState
    BY <1>1, EditCall
  <2>2. call' = [call EXCEPT ![c] = [call[c] EXCEPT !.pc = p, !.sent = FALSE, !.out = o]]
    BY <1>5 DEF MoveOn, TypeOK, CallState
  <2>3. link' \in [Conns -> LinkState]
    BY <1>5, EditLink DEF MoveOn, TypeOK
  <2> QED BY <2>1, <2>2, <2>3 DEF TypeOK
<1> QED BY <1>1, <1>2, <1>3, <1>4, <1>5 DEF ReturnClosing, ReturnReleasing

-----------------------------------------------------------------------------
(* Frames: a step concerns one call and one connection *)

\* What a statement finds depends only on the session, the connection's pool
\* and last user, and what its call asked for and committed.
LEMMA PreKeeps ==
  ASSUME NEW c, NEW k,
         srv'[k].st = srv[k].st, srv'[k].pend = srv[k].pend, srv'[k].sess = srv[k].sess,
         srv'[k].keep = srv[k].keep, srv'[k].cur = srv[k].cur,
         link'[k].pool = link[k].pool, link'[k].by = link[k].by,
         call'[c].want = call[c].want, rows'[c] = rows[c]
  PROVE  /\ Clean(k)' <=> Clean(k)
         /\ \A op : Pre(op, c, k)' <=> Pre(op, c, k)
<1>1. (Clean(k)' <=> Clean(k)) /\ (KeepOk(k)' <=> KeepOk(k))
  BY DEF Clean, KeepOk
<1>2. ASSUME NEW op PROVE Pre(op, c, k)' <=> Pre(op, c, k)
  BY <1>1 DEF Pre
<1> QED BY <1>1, <1>2

\* A step that moves neither a call nor the connection it holds.
LEMMA InStepKeeps ==
  ASSUME NEW c \in Calls, InStep(c),
         call'[c].pc = call[c].pc, call'[c].sent = call[c].sent,
         call'[c].want = call[c].want, call'[c].conn = call[c].conn, rows'[c] = rows[c],
         call[c].conn # NoConn =>
           /\ srv'[call[c].conn] = srv[call[c].conn]
           /\ link'[call[c].conn].pool = link[call[c].conn].pool
           /\ link'[call[c].conn].by = link[call[c].conn].by
           /\ link'[call[c].conn].ans = link[call[c].conn].ans
  PROVE  InStep(c)'
<1> SUFFICES ASSUME call[c].conn # NoConn PROVE InStep(c)'
  BY DEF InStep
<1> DEFINE k == call[c].conn
<1>1. /\ Clean(k)' <=> Clean(k)
      /\ \A op : Pre(op, c, k)' <=> Pre(op, c, k)
  <2>1. \A j : j = k => /\ Clean(j)' <=> Clean(j)
                       /\ \A op : Pre(op, c, j)' <=> Pre(op, c, j)
    BY PreKeeps
  <2>2. k' = k
    OBVIOUS
  <2> QED BY <2>1, <2>2
<1>2. Follow(c)' = Follow(c)
  BY DEF Follow
<1> QED BY <1>1, <1>2 DEF InStep

\* A step that touches neither a backend nor what the client knows of it.
LEMMA BackendKeeps ==
  ASSUME NEW k \in Conns, Backend(k), link'[k] = link[k], srv'[k] = srv[k],
         link[k].by \in Calls =>
           /\ call'[link[k].by].pc = call[link[k].by].pc
           /\ call'[link[k].by].want = call[link[k].by].want
           /\ rows'[link[k].by] = rows[link[k].by]
  PROVE  Backend(k)'
<1>1. Clean(k)' <=> Clean(k)
  BY DEF Clean
<1>2. InTx(k)' <=> InTx(k)
  BY DEF InTx
<1>3. CASE link[k].by \in Calls
  <2>1. PICK c \in Calls : c = link[k].by
    BY <1>3
  <2>2. \A op : Pre(op, c, k)' <=> Pre(op, c, k)
    BY <1>3, <2>1, PreKeeps
  <2> QED BY <1>1, <1>2, <1>3, <2>1, <2>2 DEF Backend
<1>4. CASE link[k].by \notin Calls
  <2>1. srv[k].stmt = "none"
    BY <1>4 DEF Backend, GoneBackend
  <2> QED BY <1>1, <1>2, <1>4, <2>1 DEF Backend
<1> QED BY <1>3, <1>4

LEMMA Frame ==
  ASSUME IInv, TypeOK', NEW c \in Calls, NEW k \in Conns,
         \A j \in Conns : j # k => link'[j] = link[j] /\ srv'[j] = srv[j],
         \A d \in Calls : d # c => call'[d] = call[d] /\ rows'[d] = rows[d],
         \A j \in Conns : j # k => link[j].by # c,
         \A d \in Calls : d # c => call[d].conn # k,
         link'[k].by = c,
         Local(c, k)'
  PROVE  IInv'
<1>1. OneConn'
  BY DEF IInv, OneConn
<1>2. ASSUME NEW d \in Calls PROVE CallOwner(d)'
  <2>1. CASE d = c
    BY <2>1 DEF Local
  <2>2. CASE d # c
    <3>1. call'[d] = call[d] /\ CallOwner(d) /\ call[d].conn \in Conns \cup {NoConn}
      BY <2>2 DEF IInv, TypeOK, CallState
    <3>2. call[d].conn # NoConn => link'[call[d].conn] = link[call[d].conn]
      BY <2>2, <3>1
    <3> QED BY <3>1, <3>2 DEF CallOwner
  <2> QED BY <2>1, <2>2
<1>3. ASSUME NEW d \in Calls PROVE InStep(d)'
  <2>1. CASE d = c
    BY <2>1 DEF Local
  <2>2. CASE d # c
    <3>1. call'[d] = call[d] /\ rows'[d] = rows[d] /\ InStep(d) /\ call[d].conn \in Conns \cup {NoConn}
      BY <2>2 DEF IInv, TypeOK, CallState
    <3>2. call[d].conn # NoConn => /\ link'[call[d].conn] = link[call[d].conn]
                                  /\ srv'[call[d].conn] = srv[call[d].conn]
      BY <2>2, <3>1
    <3> QED BY <3>1, <3>2, InStepKeeps
  <2> QED BY <2>1, <2>2
<1>4. ASSUME NEW d \in Calls PROVE Counted(d)'
  <2>1. CASE d = c
    BY <2>1 DEF Local
  <2>2. CASE d # c
    BY <2>2 DEF IInv, Counted
  <2> QED BY <2>1, <2>2
<1>5. ASSUME NEW j \in Conns PROVE LinkOwner(j)'
  <2>1. CASE j = k
    BY <2>1 DEF Local
  <2>2. CASE j # k
    <3>1. link'[j] = link[j] /\ LinkOwner(j) /\ link[j].by # c
      BY <2>2 DEF IInv
    <3>2. link[j].by \in Calls => call'[link[j].by] = call[link[j].by]
      BY <3>1
    <3> QED BY <3>1, <3>2 DEF LinkOwner
  <2> QED BY <2>1, <2>2
<1>6. ASSUME NEW j \in Conns PROVE Backend(j)'
  <2>1. CASE j = k
    BY <2>1 DEF Local
  <2>2. CASE j # k
    <3>1. link'[j] = link[j] /\ srv'[j] = srv[j] /\ Backend(j) /\ link[j].by # c
      BY <2>2 DEF IInv
    <3>2. link[j].by \in Calls => /\ call'[link[j].by] = call[link[j].by]
                                  /\ rows'[link[j].by] = rows[link[j].by]
      BY <3>1
    <3> QED BY <3>1, <3>2, BackendKeeps
  <2> QED BY <2>1, <2>2
<1>7. ASSUME NEW d \in Calls, NEW j \in Conns PROVE LastUser(d, j)'
  <2>1. CASE j = k
    BY <2>1 DEF Local, LastUser
  <2>2. CASE j # k
    <3>1. link'[j] = link[j] /\ LastUser(d, j) /\ link[j].by # c
      BY <2>2 DEF IInv
    <3> QED BY <3>1 DEF LastUser
  <2> QED BY <2>1, <2>2
<1> QED BY <1>1, <1>2, <1>3, <1>4, <1>5, <1>6, <1>7 DEF IInv

\* What the contract sees of a step: it concerns one call, c, and is one of
\* the contract's steps for c or none.
Sees(c) ==
  /\ \A d \in Calls : d # c => /\ call'[d].out = call[d].out /\ rows'[d] = rows[d]
                               /\ d \in Undecided' <=> d \in Undecided
  /\ \/ /\ call'[c].out = call[c].out /\ rows'[c] = rows[c]
        /\ c \in Undecided' => c \in Undecided
     \/ /\ call'[c].out = call[c].out /\ rows'[c] = 1
        /\ c \in Undecided /\ c \notin Undecided'
     \/ /\ call[c].out = "none" /\ call'[c].out = "refused" /\ rows'[c] = rows[c]
        /\ c \in Undecided /\ c \notin Undecided'
     \/ /\ call[c].out = "none" /\ call'[c].out = "ok" /\ rows'[c] = rows[c]
        /\ c \in Readers \/ (c \notin Undecided /\ rows[c] = 1)
        /\ c \in Undecided' <=> c \in Undecided
     \/ /\ call[c].out = "none" /\ call'[c].out = "err" /\ rows'[c] = rows[c]
        /\ c \in Undecided' => c \in Undecided

Seen == \E c \in Calls : Sees(c)

\* A step that concerns call c and connection k, seen from the contract: it
\* leaves the fate of c as it was or closes it, fails or succeeds c, or commits
\* its row.
LEMMA FrameSees ==
  ASSUME NEW c \in Calls, NEW k \in Conns,
         \A j \in Conns : j # k => link'[j] = link[j] /\ srv'[j] = srv[j],
         \A d \in Calls : d # c => call'[d] = call[d] /\ rows'[d] = rows[d],
         \A j \in Conns : j # k => link[j].by # c,
         link'[k].by = c,
         link[k].by # c => srv[k].stmt # "commit",
         \/ /\ call'[c].out = call[c].out /\ rows'[c] = rows[c]
            /\ call'[c].pc \notin {"undo", "done"} => call[c].pc \notin {"undo", "done"}
            /\ srv'[k].stmt = "commit" =>
                 call[c].pc \notin {"undo", "done"} \/ (link[k].by = c /\ srv[k].stmt = "commit")
         \/ /\ call[c].out = "none" /\ call'[c].out = "err" /\ rows'[c] = rows[c]
            /\ call[c].pc \notin {"undo", "done"}
         \/ /\ call[c].out = "none" /\ call'[c].out = "ok" /\ rows'[c] = rows[c]
            /\ c \in Readers \/ rows[c] = 1
         \/ /\ call'[c].out = call[c].out /\ rows[c] = 0 /\ rows'[c] = 1
            /\ c \in Inserters /\ link[k].by = c /\ srv[k].stmt = "commit"
  PROVE  Seen
<1> DEFINE Way(d) == \E j \in Conns : link[j].by = d /\ srv[j].stmt = "commit"
<1>1. \A d \in Inserters :
        d \in Undecided <=> rows[d] = 0 /\ (call[d].pc \notin {"undo", "done"} \/ Way(d))
  BY DEF Undecided
<1>2. \A d \in Inserters :
        d \in Undecided' <=> rows'[d] = 0 /\ (call'[d].pc \notin {"undo", "done"} \/ Way(d)')
  BY DEF Undecided
<1>3. Undecided \subseteq Inserters /\ Undecided' \subseteq Inserters /\ Inserters \subseteq Calls
  BY DEF Undecided, Calls
<1>4. ASSUME NEW d \in Calls, d # c PROVE Way(d)' <=> Way(d)
  BY <1>4
<1>5. Way(c)' <=> srv'[k].stmt = "commit"
  OBVIOUS
<1>6. Way(c) <=> link[k].by = c /\ srv[k].stmt = "commit"
  OBVIOUS
<1> HIDE DEF Way
<1>7. ASSUME NEW d \in Calls, d # c
      PROVE  /\ call'[d].out = call[d].out /\ rows'[d] = rows[d]
             /\ d \in Undecided' <=> d \in Undecided
  BY <1>1, <1>2, <1>3, <1>4, <1>7
<1>8. c \in Readers => c \notin Undecided /\ c \notin Undecided'
  BY <1>3, CallsAssumption
<1>9. Sees(c)
  BY <1>1, <1>2, <1>3, <1>5, <1>6, <1>7, <1>8 DEF Sees
<1> QED BY <1>9 DEF Seen

\* What the invariant says of a connection and the call that used it last.
LEMMA Pair ==
  ASSUME IInv, NEW k \in Conns, NEW c \in Calls, link[k].by = c
  PROVE  /\ Local(c, k)
         /\ call[c] \in CallState /\ link[k] \in LinkState /\ srv[k] \in BackendState
         /\ rows[c] \in Nat
         /\ \A j \in Conns : j # k => link[j].by # c
         /\ \A d \in Calls : d # c => call[d].conn # k
         /\ call[c].conn # NoConn => call[c].conn = k
<1>1. Local(c, k)
  BY DEF IInv, Local
<1>2. /\ call[c] \in CallState /\ link[k] \in LinkState /\ srv[k] \in BackendState
      /\ rows[c] \in Nat
  BY DEF IInv, TypeOK
<1>3. \A j \in Conns : j # k => link[j].by # c
  BY DEF IInv, OneConn
<1>4. \A d \in Calls : d # c => call[d].conn # k
  BY CallsAssumption DEF IInv, CallOwner
<1>5. call[c].conn # NoConn => call[c].conn = k
  BY <1>2, <1>3 DEF IInv, CallOwner, CallState
<1> QED BY <1>1, <1>2, <1>3, <1>4, <1>5

LEMMA Holder ==
  ASSUME IInv, NEW c \in Calls, call[c].conn # NoConn
  PROVE  /\ call[c].conn \in Conns
         /\ link[call[c].conn].by = c /\ link[call[c].conn].cli = "held"
         /\ call[c].pc \in Ops
BY DEF IInv, CallOwner, TypeOK, CallState

LEMMA ReturnClosingInv ==
  ASSUME IInv, NEW c \in Calls, call[c].conn # NoConn, ReturnClosing(c),
         UNCHANGED <<srv, rows>>
  PROVE  IInv' /\ Seen
<1> PICK k \in Conns : k = call[c].conn
  BY Holder
<1>1. k = call[c].conn /\ link[k].by = c /\ link[k].cli = "held" /\ call[c].pc \in Ops
  BY Holder
<1>2. /\ Local(c, k) /\ call[c] \in CallState /\ link[k] \in LinkState
      /\ \A j \in Conns : j # k => link[j].by # c
      /\ \A d \in Calls : d # c => call[d].conn # k
  BY <1>1, Pair
<1>3. TypeOK'
  BY ReturnType DEF IInv, TypeOK
<1>4. /\ call'[c].pc = "done" /\ call'[c].sent = FALSE /\ call'[c].conn = NoConn
      /\ call'[c].want = call[c].want
      /\ call'[c].out = IF call[c].out = "none" THEN "err" ELSE call[c].out
      /\ \A d \in Calls : d # c => call'[d] = call[d]
  BY <1>2 DEF ReturnClosing, Return, Outcome, IInv, TypeOK, CallState
<1>5. /\ link'[k].cli = "none" /\ link'[k].ans = "none" /\ link'[k].by = c
      /\ link'[k].pool = link[k].pool /\ link'[k].net # "up"
      /\ \A j \in Conns : j # k => link'[j] = link[j]
  BY <1>1, <1>2 DEF ReturnClosing, Dropped, IInv, TypeOK, LinkState
<1>6. CallOwner(c)' /\ LinkOwner(k)' /\ LastUser(c, k)'
  BY <1>1, <1>2, <1>4, <1>5, OpsFacts DEF Local, CallOwner, LinkOwner, LastUser
<1>7. Backend(k)'
  <2>1. \A op : Pre(op, c, k)' <=> Pre(op, c, k)
    BY <1>1, <1>4, <1>5, PreKeeps
  <2>2. Backend(k) /\ (InTx(k)' <=> InTx(k))
    BY <1>2 DEF Local, InTx
  <2> QED BY <1>1, <1>4, <1>5, <2>1, <2>2 DEF Backend
<1>8. InStep(c)'
  BY <1>4 DEF InStep
<1>9. Counted(c)'
  BY <1>1, <1>2, <1>4, CallsAssumption DEF Local, CallOwner, Counted, Ops
<1>10. IInv'
  BY <1>1, <1>2, <1>3, <1>4, <1>5, <1>6, <1>7, <1>8, <1>9, Frame DEF Local
<1>11. Seen
  <2>1. call[c].pc # "undo" => call[c].out = "none"
    BY <1>1, <1>2, OpsFacts DEF Local, CallOwner
  <2>2. call[c].pc = "undo" => call[c].out # "none"
    BY <1>2 DEF Local, CallOwner
  <2> QED BY <1>1, <1>2, <1>4, <1>5, <2>1, <2>2, OpsFacts, FrameSees
<1> QED BY <1>10, <1>11

LEMMA ReturnReleasingInv ==
  ASSUME IInv, NEW c \in Calls, call[c].conn # NoConn, NEW o \in {"ok", "err"},
         ReturnReleasing(c, o), UNCHANGED <<srv, rows>>,
         srv[call[c].conn].st # "gone" => Clean(call[c].conn) /\ srv[call[c].conn].stmt = "none",
         c \in Inserters /\ o = "ok" => rows[c] = 1,
         call[c].pc = "undo" => o = call[c].out
  PROVE  IInv' /\ Seen
<1> PICK k \in Conns : k = call[c].conn
  BY Holder
<1>1. k = call[c].conn /\ link[k].by = c /\ link[k].cli = "held" /\ call[c].pc \in Ops
  BY Holder
<1>2. /\ Local(c, k) /\ call[c] \in CallState /\ link[k] \in LinkState
      /\ \A j \in Conns : j # k => link[j].by # c
      /\ \A d \in Calls : d # c => call[d].conn # k
  BY <1>1, Pair
<1>3. TypeOK'
  BY ReturnType DEF IInv, TypeOK
<1>4. /\ call'[c].pc = "done" /\ call'[c].sent = FALSE /\ call'[c].conn = NoConn
      /\ call'[c].want = call[c].want /\ call'[c].out = o
      /\ \A d \in Calls : d # c => call'[d] = call[d]
  BY <1>2 DEF ReturnReleasing, Return, IInv, TypeOK, CallState
<1>5. /\ link'[k].cli = "idle" /\ link'[k].ans = "none" /\ link'[k].by = c
      /\ link'[k].pool = link[k].pool /\ link'[k].net = link[k].net
      /\ \A j \in Conns : j # k => link'[j] = link[j]
  BY <1>1, <1>2 DEF ReturnReleasing, IInv, TypeOK, LinkState
<1>0. srv[k].st # "gone" => Clean(k) /\ srv[k].stmt = "none"
  OBVIOUS
<1>6. CallOwner(c)' /\ LinkOwner(k)' /\ LastUser(c, k)'
  BY <1>1, <1>2, <1>4, <1>5, OpsFacts DEF Local, CallOwner, LinkOwner, LastUser
<1>7. Backend(k)'
  <2>1. Clean(k)' <=> Clean(k)
    BY <1>1, <1>4, <1>5, PreKeeps
  <2>2. Backend(k) /\ (InTx(k)' <=> InTx(k))
    BY <1>2 DEF Local, InTx
  <2>3. srv[k].stmt = "none"
    <3>1. srv[k].st = "gone" => srv[k] = GoneBackend
      BY <2>2 DEF Backend
    <3> QED BY <1>0, <3>1 DEF GoneBackend
  <2>4. (srv[k].st # "gone" => Clean(k))'
    BY <1>0, <2>1
  <2> QED BY <1>1, <1>5, <2>2, <2>3, <2>4 DEF Backend
<1>8. InStep(c)'
  BY <1>4 DEF InStep
<1>9. Counted(c)'
  BY <1>1, <1>2, <1>4, CallsAssumption DEF Local, CallOwner, Counted, Ops
<1>10. IInv'
  BY <1>1, <1>2, <1>3, <1>4, <1>5, <1>6, <1>7, <1>8, <1>9, Frame DEF Local
<1>11. Seen
  <2>1. call[c].pc # "undo" => call[c].out = "none"
    BY <1>1, <1>2, OpsFacts DEF Local, CallOwner
  <2>2. o = "ok" => c \in Readers \/ rows[c] = 1
    BY DEF Calls
  <2> QED BY <1>1, <1>2, <1>4, <1>5, <2>1, <2>2, OpsFacts, FrameSees
<1> QED BY <1>10, <1>11

LEMMA MoveOnInv ==
  ASSUME IInv, NEW c \in Calls, call[c].conn # NoConn, NEW p \in Ops,
         NEW o \in {"none", "ok", "err"}, MoveOn(c, p, o), UNCHANGED <<srv, rows>>,
         srv[call[c].conn].stmt = "none",
         srv[call[c].conn].st # "gone" => Pre(p, c, call[c].conn),
         p = "commit" => c \in Inserters,
         p = "undo" => o # "none" /\ (c \in Inserters => o = "err"),
         p # "undo" => o = "none",
         rows[c] = 0, call[c].pc # "undo"
  PROVE  IInv' /\ Seen
<1> PICK k \in Conns : k = call[c].conn
  BY Holder
<1>1. k = call[c].conn /\ link[k].by = c /\ link[k].cli = "held" /\ call[c].pc \in Ops
  BY Holder
<1>2. /\ Local(c, k) /\ call[c] \in CallState /\ link[k] \in LinkState
      /\ \A j \in Conns : j # k => link[j].by # c
      /\ \A d \in Calls : d # c => call[d].conn # k
  BY <1>1, Pair
<1>3. TypeOK'
  BY ReturnType DEF IInv, TypeOK
<1>4. /\ call'[c].pc = p /\ call'[c].sent = FALSE /\ call'[c].conn = k
      /\ call'[c].want = call[c].want /\ call'[c].out = o
      /\ \A d \in Calls : d # c => call'[d] = call[d]
  BY <1>2 DEF MoveOn, IInv, TypeOK, CallState
<1>5. /\ link'[k].cli = "held" /\ link'[k].ans = "none" /\ link'[k].by = c
      /\ link'[k].pool = link[k].pool /\ link'[k].net = link[k].net
      /\ \A j \in Conns : j # k => link'[j] = link[j]
  BY <1>1, <1>2 DEF MoveOn, IInv, TypeOK, LinkState
<1>0. srv[k].stmt = "none" /\ (srv[k].st # "gone" => Pre(p, c, k)) /\ k # NoConn
  OBVIOUS
<1>6. CallOwner(c)' /\ LinkOwner(k)' /\ LastUser(c, k)'
  BY <1>0, <1>1, <1>2, <1>4, <1>5, OpsFacts DEF Local, CallOwner, LinkOwner, LastUser
<1>7. Backend(k)'
  <2>1. Backend(k) /\ (InTx(k)' <=> InTx(k))
    BY <1>2 DEF Local, InTx
  <2> QED BY <1>0, <1>1, <1>4, <1>5, <2>1 DEF Backend
<1>8. InStep(c)'
  <2>1. \A op : Pre(op, c, k)' <=> Pre(op, c, k)
    BY <1>1, <1>4, <1>5, PreKeeps
  <2> QED BY <1>0, <1>1, <1>4, <1>5, <2>1 DEF InStep
<1>9. Counted(c)'
  BY <1>2, <1>4, CallsAssumption DEF Local, Counted
<1>10. IInv'
  BY <1>1, <1>2, <1>3, <1>4, <1>5, <1>6, <1>7, <1>8, <1>9, Frame DEF Local
<1>11. Seen
  <2>1. call[c].out = "none" /\ call[c].pc \notin {"undo", "done"}
    BY <1>1, <1>2, OpsFacts DEF Local, CallOwner
  <2>2. o = "ok" => c \in Readers
    BY DEF Calls
  <2>3. o = "none" => p \notin {"undo", "done"}
    BY OpsFacts
  <2> QED BY <1>1, <1>2, <1>4, <1>5, <2>1, <2>2, <2>3, FrameSees
<1> QED BY <1>10, <1>11

-----------------------------------------------------------------------------
(* The steps of a call that holds a connection *)

LEMMA SendInv == ASSUME IInv, NEW c \in Calls, Send(c) PROVE IInv' /\ Seen
<1>0. call[c].conn # NoConn
  BY DEF Send, IInv, CallOwner
<1> PICK k \in Conns : k = call[c].conn
  BY <1>0, Holder
<1>1. k = call[c].conn /\ link[k].by = c /\ link[k].cli = "held" /\ call[c].pc \in Ops
  BY <1>0, Holder
<1>2. /\ Local(c, k) /\ call[c] \in CallState /\ link[k] \in LinkState /\ srv[k] \in BackendState
      /\ \A j \in Conns : j # k => link[j].by # c
      /\ \A d \in Calls : d # c => call[d].conn # k
  BY <1>1, Pair
<1>3. /\ call'[c].pc = call[c].pc /\ call'[c].sent = TRUE /\ call'[c].conn = k
      /\ call'[c].want = call[c].want /\ call'[c].out = call[c].out
      /\ \A d \in Calls : d # c => call'[d] = call[d]
  BY <1>1, <1>2 DEF Send, IInv, TypeOK, CallState
<1>4. /\ srv'[k] = IF link[k].net = "up" THEN [srv[k] EXCEPT !.stmt = call[c].pc] ELSE srv[k]
      /\ \A j \in Conns : j # k => srv'[j] = srv[j]
  BY <1>1, <1>2 DEF Send, IInv, TypeOK
<1>5. TypeOK'
  <2>1. [call[c] EXCEPT !.sent = TRUE] \in CallState
    BY <1>2, EditCall
  <2>2. [srv[k] EXCEPT !.stmt = call[c].pc] \in BackendState
    BY <1>1, <1>2, EditBackend
  <2> QED BY <1>1, <2>1, <2>2 DEF Send, IInv, TypeOK
<1>6. /\ link' = link /\ rows' = rows
      /\ link[k].ans = "none" /\ srv[k].stmt = "none" /\ ~call[c].sent
      /\ srv[k].st # "gone" => Pre(call[c].pc, c, k)
  BY <1>0, <1>1, <1>2 DEF Send, Local, InStep
<1>7. /\ srv'[k].st = srv[k].st /\ srv'[k].ro = srv[k].ro /\ srv'[k].pend = srv[k].pend
      /\ srv'[k].sess = srv[k].sess /\ srv'[k].keep = srv[k].keep /\ srv'[k].cur = srv[k].cur
      /\ srv'[k].stmt \in {"none", call[c].pc}
      /\ srv[k].st = "gone" => srv'[k] = srv[k]
  BY <1>1, <1>2, <1>4, <1>6 DEF Local, Backend, BackendState
<1>8. CallOwner(c)' /\ LinkOwner(k)' /\ LastUser(c, k)'
  BY <1>1, <1>2, <1>3, <1>6 DEF Local, CallOwner, LinkOwner, LastUser
<1>9. Backend(k)'
  <2>1. \A op : Pre(op, c, k)' <=> Pre(op, c, k)
    BY <1>3, <1>6, <1>7, PreKeeps
  <2>2. Backend(k) /\ CallOwner(c) /\ (InTx(k)' <=> InTx(k)) /\ c \in Calls
    BY <1>2, <1>7 DEF Local, InTx
  <2>3. srv[k].st = "gone" => srv[k].stmt = "none" /\ srv'[k].stmt = "none"
    BY <1>6, <1>7
  <2>4. c \in Readers => call[c].pc # "commit"
    BY <2>2, CallsAssumption DEF CallOwner
  <2>5. (srv[k].stmt # "none" => Pre(srv[k].stmt, c, k))'
    BY <1>6, <1>7, <2>1, <2>3
  <2> QED BY <1>1, <1>3, <1>6, <1>7, <2>2, <2>4, <2>5 DEF Backend
<1>10. InStep(c)'
  <2>1. \A op : Pre(op, c, k)' <=> Pre(op, c, k)
    BY <1>3, <1>6, <1>7, PreKeeps
  <2> QED BY <1>0, <1>1, <1>3, <1>6, <1>7, <2>1 DEF InStep
<1>11. Counted(c)'
  BY <1>2, <1>3, <1>6 DEF Local, Counted
<1>12. IInv'
  BY <1>1, <1>2, <1>3, <1>4, <1>5, <1>6, <1>8, <1>9, <1>10, <1>11, Frame DEF Local
<1>13. Seen
  <2>1. srv'[k].stmt = "commit" => call[c].pc = "commit"
    BY <1>7
  <2>2. \A j \in Conns : j # k => link'[j] = link[j] /\ srv'[j] = srv[j]
    BY <1>4, <1>6
  <2> QED BY <1>1, <1>2, <1>3, <1>6, <2>1, <2>2, FrameSees
<1> QED BY <1>12, <1>13

LEMMA ReceiveOkInv == ASSUME IInv, NEW c \in Calls, ReceiveOk(c) PROVE IInv' /\ Seen
<1>0. call[c].conn # NoConn /\ call[c].sent
  BY DEF ReceiveOk, Answered, IInv, CallOwner
<1> PICK k \in Conns : k = call[c].conn
  BY <1>0, Holder
<1>1. k = call[c].conn /\ link[k].by = c /\ link[k].cli = "held" /\ call[c].pc \in Ops
  BY <1>0, Holder
<1>2. CallOwner(c) /\ InStep(c) /\ Counted(c) /\ call[c] \in CallState
  BY DEF IInv, TypeOK
<1>3. link[k].ans = "ok" /\ srv[k].stmt = "none" /\ srv' = srv /\ rows' = rows
  BY <1>0, <1>1, <1>2 DEF ReceiveOk, InStep
<1>4. CASE call[c].pc \in {"commit", "undo"}
  <2> DEFINE o == IF call[c].pc = "commit" THEN "ok" ELSE call[c].out
  <2>1. ReturnReleasing(c, o)
    BY <1>4 DEF ReceiveOk
  <2>2. o \in {"ok", "err"} /\ (c \in Inserters /\ o = "ok" => rows[c] = 1)
    BY <1>0, <1>1, <1>2, <1>3, <1>4 DEF CallOwner, InStep
  <2>3. srv[k].st # "gone" => Clean(k)
    BY <1>0, <1>1, <1>2, <1>3, <1>4 DEF InStep
  <2> QED BY <1>0, <1>1, <1>3, <2>1, <2>2, <2>3, ReturnReleasingInv
<1>5. CASE call[c].pc \notin {"commit", "undo"}
  <2>1. PICK f \in Follow(c) : MoveOn(c, f[1], f[2])
    BY <1>5 DEF ReceiveOk
  <2>2. f[1] \in Ops /\ f[2] \in {"none", "ok", "err"}
    BY FollowType
  <2>3. srv[k].st # "gone" => Pre(f[1], c, k)
    BY <1>0, <1>1, <1>2, <1>3 DEF InStep
  <2>4. /\ f[1] = "commit" => c \in Inserters
        /\ f[1] = "undo" => f[2] # "none" /\ (c \in Inserters => f[2] = "err")
        /\ f[1] # "undo" => f[2] = "none"
    BY CallsAssumption DEF Follow
  <2>5. rows[c] = 0
    BY <1>1, <1>2, <1>5, OpsFacts DEF Counted
  <2> QED BY <1>0, <1>1, <1>3, <1>5, <2>1, <2>2, <2>3, <2>4, <2>5, MoveOnInv
<1> QED BY <1>4, <1>5

LEMMA ReceiveErrInv == ASSUME IInv, NEW c \in Calls, ReceiveErr(c) PROVE IInv' /\ Seen
<1>0. call[c].conn # NoConn /\ call[c].sent
  BY DEF ReceiveErr, Answered, IInv, CallOwner
<1> PICK k \in Conns : k = call[c].conn
  BY <1>0, Holder
<1>1. k = call[c].conn /\ link[k].by = c /\ link[k].cli = "held" /\ call[c].pc \in Ops
  BY <1>0, Holder
<1>2. CallOwner(c) /\ InStep(c) /\ Counted(c) /\ call[c] \in CallState
  BY DEF IInv, TypeOK
<1>3. link[k].ans = "err" /\ srv[k].stmt = "none" /\ srv' = srv /\ rows' = rows
  BY <1>0, <1>1, <1>2 DEF ReceiveErr, InStep
<1>4. CASE call[c].pc \in {"begin", "undo"}
  BY <1>0, <1>3, <1>4, ReturnClosingInv DEF ReceiveErr
<1>5. CASE call[c].pc = "commit"
  <2>1. ReturnReleasing(c, "err")
    BY <1>5 DEF ReceiveErr
  <2>2. srv[k].st # "gone" => Clean(k)
    BY <1>0, <1>1, <1>2, <1>3, <1>5 DEF InStep
  <2> QED BY <1>0, <1>1, <1>3, <1>5, <2>1, <2>2, ReturnReleasingInv
<1>6. CASE call[c].pc \in {"attr", "limit", "body"}
  <2>1. MoveOn(c, "undo", "err")
    BY <1>6 DEF ReceiveErr
  <2>2. srv[k].st # "gone" => Pre("undo", c, k)
    BY <1>0, <1>1, <1>2, <1>3, <1>6 DEF InStep
  <2>3. rows[c] = 0
    BY <1>2, <1>6 DEF Counted
  <2> QED BY <1>0, <1>1, <1>3, <1>6, <2>1, <2>2, <2>3, OpsFacts, MoveOnInv
<1> QED BY <1>1, <1>4, <1>5, <1>6 DEF Ops

LEMMA GiveUpInv ==
  ASSUME IInv, NEW c \in Calls, Abandon(c) \/ Lost(c) PROVE IInv' /\ Seen
<1>1. call[c].conn # NoConn
  BY DEF Abandon, Lost, IInv, CallOwner
<1> QED BY <1>1, ReturnClosingInv DEF Abandon, Lost

\* A step that changes nothing but where a call without a connection stands.
LEMMA CallOnly ==
  ASSUME IInv, NEW c \in Calls, call[c].pc \in {"start", "acquire"}, TypeOK',
         UNCHANGED <<link, srv, rows>>,
         \A d \in Calls : d # c => call'[d] = call[d],
         call'[c].pc \in {"acquire", "done"} /\ call'[c].conn = NoConn /\ ~call'[c].sent,
         call'[c].pc = "acquire" => call'[c].out = "none",
         call'[c].pc = "done" => call'[c].out \in {"err", "refused"},
         call'[c].out = "refused" => call[c].pc = "start" /\ c \in Inserters,
         call[c].pc = "acquire" => call'[c].want = call[c].want,
         c \in Inserters => ~call'[c].want
  PROVE  IInv' /\ Seen
<1>1. OneConn'
  BY DEF IInv, OneConn
<1>2. \A k \in Conns : LastUser(c, k)
  BY DEF IInv
<1>3. ASSUME NEW d \in Calls PROVE CallOwner(d)' /\ InStep(d)' /\ Counted(d)'
  <2>1. CASE d = c
    BY <2>1, OpsFacts DEF IInv, CallOwner, InStep, Counted
  <2>2. CASE d # c
    <3>1. call'[d] = call[d] /\ CallOwner(d) /\ InStep(d) /\ Counted(d)
      BY <2>2 DEF IInv
    <3>2. InStep(d)'
      BY <3>1, InStepKeeps
    <3> QED BY <3>1, <3>2 DEF CallOwner, Counted
  <2> QED BY <2>1, <2>2
<1>4. ASSUME NEW k \in Conns PROVE LinkOwner(k)' /\ Backend(k)' /\ \A d \in Calls : LastUser(d, k)'
  <2>1. LinkOwner(k) /\ Backend(k) /\ \A d \in Calls : LastUser(d, k)
    BY DEF IInv
  <2>2. CASE link[k].by = c
    <3>1. call[c].pc = "acquire" /\ link[k].cli = "new" /\ srv[k].stmt = "none"
      BY <2>1, <2>2 DEF LastUser, Backend
    <3> QED BY <2>1, <2>2, <3>1 DEF LinkOwner, Backend, LastUser, Clean, KeepOk, InTx
  <2>3. CASE link[k].by # c
    <3>1. \A d \in Calls : LastUser(d, k)'
      BY <2>1, <2>3 DEF LastUser
    <3>2. link[k].by \in Calls => call'[link[k].by] = call[link[k].by]
      BY <2>3
    <3>3. LinkOwner(k)'
      BY <2>1, <2>3, <3>2 DEF LinkOwner
    <3>4. Backend(k)'
      BY <2>1, <3>2, BackendKeeps
    <3> QED BY <3>1, <3>3, <3>4
  <2> QED BY <2>2, <2>3
<1>5. IInv'
  BY <1>1, <1>3, <1>4 DEF IInv
<1>6. Seen
  <2>1. /\ call[c].out = "none" /\ rows[c] = 0
        /\ call'[c].out \in {"none", "err", "refused"}
        /\ call'[c].out = "none" <=> call'[c].pc = "acquire"
    BY DEF IInv, TypeOK, CallOwner, Counted
  <2>2. \A d \in Calls : d # c => (d \in Undecided' <=> d \in Undecided)
    BY DEF Undecided
  <2>3. c \in Undecided' => c \in Undecided
    BY <2>1 DEF Undecided
  <2>4. call'[c].out = "refused" => c \in Undecided /\ c \notin Undecided'
    <3> SUFFICES ASSUME call'[c].out = "refused" PROVE c \in Undecided /\ c \notin Undecided'
      OBVIOUS
    <3>1. \A k \in Conns : link[k].by # c
      BY <1>2 DEF LastUser
    <3> QED BY <2>1, <3>1 DEF Undecided
  <2> QED BY <2>1, <2>2, <2>3, <2>4 DEF Seen, Sees
<1> QED BY <1>5, <1>6

LEMMA FailFastInv == ASSUME IInv, NEW c \in Calls, FailFast(c) PROVE IInv' /\ Seen
<1>1. CallOwner(c) /\ InStep(c) /\ Counted(c) /\ call[c] \in CallState
  BY DEF IInv, TypeOK
<1>2. CASE call[c].pc = "acquire"
  <2>1. Return(c, "err") /\ UNCHANGED <<link, srv, rows>>
    BY <1>2 DEF FailFast
  <2>2. TypeOK'
    BY <2>1, ReturnType DEF IInv, TypeOK
  <2>3. /\ call'[c].pc = "done" /\ call'[c].out = "err" /\ call'[c].sent = FALSE
        /\ call'[c].conn = NoConn /\ call'[c].want = call[c].want
        /\ \A d \in Calls : d # c => call'[d] = call[d]
    BY <1>1, <2>1 DEF Return, IInv, TypeOK, CallState
  <2> QED BY <1>1, <1>2, <2>1, <2>2, <2>3, CallOnly DEF CallOwner
<1>3. CASE call[c].pc \in {"begin", "commit", "undo"}
  <2>1. call[c].conn # NoConn
    BY <1>1, <1>3, OpsFacts DEF CallOwner
  <2> QED BY <1>3, <2>1, ReturnClosingInv DEF FailFast
<1>4. CASE call[c].pc \in {"attr", "limit", "body"}
  <2>1. call[c].conn # NoConn
    BY <1>1, <1>4, OpsFacts DEF CallOwner
  <2> PICK k \in Conns : k = call[c].conn
    BY <2>1, Holder
  <2>2. MoveOn(c, "undo", "err") /\ UNCHANGED <<srv, rows>> /\ ~call[c].sent
    BY <1>4 DEF FailFast
  <2>3. srv[k].stmt = "none" /\ (srv[k].st # "gone" => Pre(call[c].pc, c, k))
    BY <1>1, <2>1, <2>2 DEF InStep
  <2>4. srv[k].st # "gone" => Pre("undo", c, k)
    BY <1>4, <2>3 DEF Pre
  <2>5. rows[c] = 0
    BY <1>1, <1>4 DEF Counted
  <2> QED BY <1>4, <2>1, <2>2, <2>3, <2>4, <2>5, OpsFacts, MoveOnInv
<1> QED BY <1>1, <1>2, <1>3, <1>4 DEF FailFast, CallState, Ops

LEMMA ExpireInv == ASSUME IInv, NEW c \in Calls, Expire(c) PROVE IInv' /\ Seen
<1>1. CallOwner(c) /\ call[c] \in CallState
  BY DEF IInv, TypeOK
<1>2. /\ call'[c].pc = call[c].pc /\ call'[c].sent = call[c].sent
      /\ call'[c].conn = call[c].conn /\ call'[c].want = call[c].want
      /\ call'[c].out = call[c].out
      /\ \A d \in Calls : d # c => call'[d] = call[d]
      /\ UNCHANGED <<link, srv, rows>>
  BY <1>1 DEF Expire, IInv, TypeOK, CallState
<1>3. TypeOK'
  <2>1. [call[c] EXCEPT !.late = TRUE] \in CallState
    BY <1>1, EditCall
  <2> QED BY <2>1 DEF Expire, IInv, TypeOK
<1>4. \A d \in Calls : /\ call'[d].pc = call[d].pc /\ call'[d].sent = call[d].sent
                       /\ call'[d].conn = call[d].conn /\ call'[d].want = call[d].want
                       /\ call'[d].out = call[d].out
  BY <1>2
<1>5. ASSUME NEW d \in Calls PROVE CallOwner(d)' /\ InStep(d)' /\ Counted(d)'
  <2>1. CallOwner(d) /\ InStep(d) /\ Counted(d)
    BY DEF IInv
  <2>2. InStep(d)'
    BY <1>2, <1>4, <2>1, InStepKeeps
  <2>3. CallOwner(d)'
    BY <1>2, <1>4, <2>1 DEF CallOwner
  <2>4. Counted(d)'
    BY <1>2, <1>4, <2>1 DEF Counted
  <2> QED BY <2>2, <2>3, <2>4
<1>6. ASSUME NEW k \in Conns PROVE LinkOwner(k)' /\ Backend(k)' /\ \A d \in Calls : LastUser(d, k)'
  <2>1. LinkOwner(k) /\ Backend(k) /\ \A d \in Calls : LastUser(d, k)
    BY DEF IInv
  <2>2. srv[k].stmt # "none" \/ link[k].cli = "held" => link[k].by \in Calls
    BY <2>1 DEF Backend, LinkOwner, GoneBackend
  <2>3. LinkOwner(k)' /\ \A d \in Calls : LastUser(d, k)'
    BY <1>2, <1>4, <2>1, <2>2 DEF LinkOwner, LastUser
  <2>4. Backend(k)'
    BY <1>2, <1>4, <2>1, BackendKeeps
  <2> QED BY <2>3, <2>4
<1>7. OneConn'
  BY <1>2 DEF IInv, OneConn
<1>8. IInv'
  BY <1>3, <1>5, <1>6, <1>7 DEF IInv
<1>9. Seen
  <2>1. Undecided' = Undecided
    BY <1>2, <1>4 DEF Undecided, Calls
  <2> QED BY <1>2, <1>4, <2>1 DEF Seen, Sees
<1> QED BY <1>8, <1>9

LEMMA StartInv == ASSUME IInv, NEW c \in Calls, Start(c) \/ Refuse(c) PROVE IInv' /\ Seen
<1>1. CallOwner(c) /\ call[c] \in CallState
  BY DEF IInv, TypeOK
<1>2. CASE Start(c)
  <2>1. PICK w \in IF c \in Readers THEN BOOLEAN ELSE {FALSE} :
          call' = [call EXCEPT ![c].pc = "acquire", ![c].want = w]
    BY <1>2 DEF Start
  <2>2. w \in BOOLEAN /\ (c \in Inserters => w = FALSE)
    BY CallsAssumption
  <2>3. [call[c] EXCEPT !.pc = "acquire", !.want = w] \in CallState
    BY <1>1, <2>2, EditCall
  <2>4. call' = [call EXCEPT ![c] = [call[c] EXCEPT !.pc = "acquire", !.want = w]]
    BY <1>1, <2>1 DEF IInv, TypeOK, CallState
  <2>5. TypeOK'
    BY <1>2, <2>3, <2>4 DEF Start, IInv, TypeOK
  <2>6. /\ call'[c].pc = "acquire" /\ call'[c].sent = call[c].sent
        /\ call'[c].conn = call[c].conn /\ call'[c].want = w /\ call'[c].out = call[c].out
        /\ \A d \in Calls : d # c => call'[d] = call[d]
    BY <1>1, <2>4 DEF IInv, TypeOK, CallState
  <2> QED BY <1>1, <1>2, <2>2, <2>5, <2>6, OpsFacts, CallOnly DEF Start, CallOwner
<1>3. CASE Refuse(c)
  <2>1. [call[c] EXCEPT !.pc = "done", !.out = "refused"] \in CallState
    BY <1>1, EditCall
  <2>2. call' = [call EXCEPT ![c] = [call[c] EXCEPT !.pc = "done", !.out = "refused"]]
    BY <1>1, <1>3 DEF Refuse, IInv, TypeOK, CallState
  <2>3. TypeOK'
    BY <1>3, <2>1, <2>2 DEF Refuse, IInv, TypeOK
  <2>4. /\ call'[c].pc = "done" /\ call'[c].sent = call[c].sent
        /\ call'[c].conn = call[c].conn /\ call'[c].want = call[c].want
        /\ call'[c].out = "refused"
        /\ \A d \in Calls : d # c => call'[d] = call[d]
    BY <1>1, <2>2 DEF IInv, TypeOK, CallState
  <2> QED BY <1>1, <1>3, <2>3, <2>4, OpsFacts, CallOnly DEF Refuse, CallOwner
<1> QED BY <1>2, <1>3

-----------------------------------------------------------------------------
(* The steps of the pool *)

LEMMA ConnectInv == ASSUME IInv, NEW c \in Calls, NEW k \in Conns, Connect(c, k) PROVE IInv' /\ Seen
<1>1. /\ call[c].pc = "acquire" /\ call' = call /\ rows' = rows
      /\ ~ \E j \in Conns : link[j].cli = "new" /\ link[j].by = c
      /\ link[k].cli = "none" /\ srv[k].st = "gone"
  BY DEF Connect
<1>2. CallOwner(c) /\ InStep(c) /\ Counted(c) /\ call[c] \in CallState
  BY DEF IInv, TypeOK
<1>3. /\ link'[k] = [cli |-> "new", pool |-> PoolOf(c), net |-> "up", by |-> c, ans |-> "none"]
      /\ \A j \in Conns : j # k => link'[j] = link[j]
  BY DEF Connect, IInv, TypeOK
<1>4. /\ srv'[k] = [GoneBackend EXCEPT !.st = "idle"]
      /\ \A j \in Conns : j # k => srv'[j] = srv[j]
  BY DEF Connect, IInv, TypeOK
<1>5. \A j \in Conns : link[j].by # c
  BY <1>1 DEF IInv, LastUser
<1>6. \A d \in Calls : call[d].conn # k
  BY <1>1, CallsAssumption DEF IInv, CallOwner
<1>7. TypeOK'
  <2>1. link'[k] \in LinkState
    BY <1>3 DEF LinkState, PoolOf, Pools
  <2>2. srv'[k] \in BackendState
    BY <1>4, GoneType, EditBackend
  <2> QED BY <2>1, <2>2, <1>1, <1>3, <1>4 DEF Connect, IInv, TypeOK
<1>8. /\ srv'[k].st = "idle" /\ srv'[k].stmt = "none" /\ srv'[k].pend = 0
      /\ srv'[k].sess = Fresh /\ srv'[k].keep = Fresh /\ srv'[k].cur = Fresh
  BY <1>4 DEF GoneBackend
<1>9. CallOwner(c)' /\ LinkOwner(k)' /\ LastUser(c, k)'
  BY <1>1, <1>2, <1>3, OpsFacts DEF CallOwner, LinkOwner, LastUser
<1>10. Backend(k)'
  BY <1>3, <1>8 DEF Backend, InTx, Fresh
<1>11. InStep(c)' /\ Counted(c)'
  BY <1>1, <1>2, OpsFacts DEF InStep, Counted, CallOwner
<1>12. IInv'
  BY <1>1, <1>3, <1>4, <1>5, <1>6, <1>7, <1>9, <1>10, <1>11, Frame DEF Local
<1>13. Seen
  <2>1. srv[k].stmt # "commit"
    BY <1>1 DEF IInv, Backend, GoneBackend
  <2> QED BY <1>1, <1>3, <1>4, <1>5, <1>8, <2>1, FrameSees
<1> QED BY <1>12, <1>13

LEMMA EstablishedClean ==
  ASSUME IInv, NEW k \in Conns, link[k].cli = "new", Established(k)
  PROVE  Clean(k) /\ srv[k].stmt = "none"
<1>1. Backend(k) /\ srv[k].sess \in Settings /\ link[k].pool \in Pools
  BY DEF IInv, TypeOK, BackendState, LinkState
<1> DEFINE s == srv[k].sess
           p == link[k].pool
<1>2. s.tmo # "none"
  BY <1>1 DEF Established, AfterConnect, Settings
<1>3. s.idle
  BY <1>1, <1>2 DEF Established, AfterConnect, Settings
<1>4. s.ro = (p = "read")
  BY <1>1, <1>2, <1>3 DEF Established, AfterConnect, Settings
<1>5. s = Defaults(p)
  BY <1>1, <1>2, <1>3, <1>4 DEF Backend, Settings, Defaults
<1>6. srv[k].st = "idle"
  BY <1>1, <1>2 DEF Backend, GoneBackend, Fresh
<1> QED BY <1>1, <1>5, <1>6 DEF Backend, Clean

LEMMA HandOverInv == ASSUME IInv, NEW k \in Conns, HandOver(k) PROVE IInv' /\ Seen
<1>1. /\ link[k].cli = "new" /\ srv' = srv /\ rows' = rows
      /\ Clean(k) /\ srv[k].stmt = "none"
  BY EstablishedClean DEF HandOver
<1> PICK c \in Calls : c = link[k].by
  BY <1>1 DEF IInv, LinkOwner
<1>2. /\ Local(c, k) /\ call[c] \in CallState /\ link[k] \in LinkState
      /\ \A j \in Conns : j # k => link[j].by # c
      /\ \A d \in Calls : d # c => call[d].conn # k
      /\ call[c].conn = NoConn
  BY <1>1, Pair DEF Local, CallOwner
<1>3. CASE call[c].pc = "acquire"
  <2>1. /\ call'[c].pc = "begin" /\ call'[c].conn = k /\ call'[c].sent = call[c].sent
        /\ call'[c].want = call[c].want /\ call'[c].out = call[c].out
        /\ \A d \in Calls : d # c => call'[d] = call[d]
    BY <1>2, <1>3 DEF HandOver, IInv, TypeOK, CallState
  <2>2. /\ link'[k].cli = "held" /\ link'[k].by = c /\ link'[k].ans = link[k].ans
        /\ link'[k].pool = link[k].pool /\ link'[k].net = link[k].net
        /\ \A j \in Conns : j # k => link'[j] = link[j]
    BY <1>2, <1>3 DEF HandOver, IInv, TypeOK, LinkState
  <2>3. TypeOK'
    <3>1. [call[c] EXCEPT !.pc = "begin", !.conn = k] \in CallState
      BY <1>2, EditCall, OpsFacts
    <3>2. call' = [call EXCEPT ![c] = [call[c] EXCEPT !.pc = "begin", !.conn = k]]
      BY <1>2, <1>3 DEF HandOver, IInv, TypeOK, CallState
    <3>3. [link[k] EXCEPT !.cli = "held"] \in LinkState
      BY <1>2, EditLink
    <3> QED BY <1>3, <3>1, <3>2, <3>3 DEF HandOver, IInv, TypeOK
  <2>4. CallOwner(c)' /\ LinkOwner(k)' /\ LastUser(c, k)'
    BY <1>2, <1>3, <2>1, <2>2, OpsFacts, CallsAssumption DEF Local, CallOwner, LinkOwner, LastUser
  <2>5. Backend(k)'
    BY <1>1, <1>2, <2>1, <2>2 DEF Local, Backend, Clean, InTx
  <2>6. Clean(k)'
    BY <1>1, <2>2 DEF Clean
  <2>7. InStep(c)'
    BY <1>1, <1>2, <2>1, <2>2, <2>6 DEF Local, InStep, LinkOwner, CallOwner, Pre, Clean
  <2>8. Counted(c)'
    BY <1>1, <1>2, <1>3, <2>1 DEF Local, Counted
  <2>9. IInv'
    BY <1>1, <1>2, <2>1, <2>2, <2>3, <2>4, <2>5, <2>7, <2>8, Frame DEF Local
  <2>10. Seen
    BY <1>1, <1>2, <1>3, <2>1, <2>2, FrameSees
  <2> QED BY <2>9, <2>10
<1>4. CASE call[c].pc # "acquire"
  <2>1. call' = call
    BY <1>4 DEF HandOver
  <2>2. /\ link'[k].cli = "idle" /\ link'[k].by = c /\ link'[k].ans = link[k].ans
        /\ link'[k].pool = link[k].pool /\ link'[k].net = link[k].net
        /\ \A j \in Conns : j # k => link'[j] = link[j]
    BY <1>2, <1>4 DEF HandOver, IInv, TypeOK, LinkState
  <2>3. TypeOK'
    <3>1. [link[k] EXCEPT !.cli = "idle"] \in LinkState
      BY <1>2, EditLink
    <3> QED BY <1>4, <3>1 DEF HandOver, IInv, TypeOK
  <2>4. CallOwner(c)' /\ LinkOwner(k)' /\ LastUser(c, k)'
    BY <1>1, <1>2, <1>4, <2>1, <2>2 DEF Local, CallOwner, LinkOwner, LastUser
  <2>5. Clean(k)'
    BY <1>1, <2>2 DEF Clean
  <2>6. Backend(k)'
    BY <1>1, <1>2, <2>1, <2>2, <2>5 DEF Local, Backend, Clean, InTx
  <2>7. InStep(c)' /\ Counted(c)'
    BY <1>1, <1>2, <2>1 DEF Local, InStep, Counted
  <2>8. IInv'
    BY <1>1, <1>2, <2>1, <2>2, <2>3, <2>4, <2>6, <2>7, Frame DEF Local
  <2>9. Seen
    BY <1>1, <1>2, <2>1, <2>2, FrameSees
  <2> QED BY <2>8, <2>9
<1> QED BY <1>3, <1>4

LEMMA AfterConnectStepInv == ASSUME IInv, NEW k \in Conns, AfterConnectStep(k) PROVE IInv' /\ Seen
<1> DEFINE s == AfterConnect(srv[k].sess, link[k].pool)
<1>1. /\ link[k].cli = "new" /\ srv[k].st = "idle"
      /\ call' = call /\ link' = link /\ rows' = rows
  BY DEF AfterConnectStep
<1> PICK c \in Calls : c = link[k].by
  BY <1>1 DEF IInv, LinkOwner
<1>2. /\ Local(c, k) /\ link[k] \in LinkState /\ srv[k] \in BackendState
      /\ \A j \in Conns : j # k => link[j].by # c
      /\ \A d \in Calls : d # c => call[d].conn # k
      /\ call[c].conn = NoConn
  BY <1>1, Pair DEF Local, CallOwner
<1>3. /\ s \in Settings /\ s.app = Base /\ s.tmo = "session"
      /\ ~s.idle => ~s.ro
  <2>1. srv[k].sess \in Settings /\ Backend(k)
    BY <1>2 DEF BackendState, Local
  <2>2. CASE srv[k].sess.tmo = "none"
    BY <1>1, <2>1, <2>2 DEF AfterConnect, Settings, Backend
  <2>3. CASE srv[k].sess.tmo # "none" /\ ~srv[k].sess.idle
    BY <1>1, <2>1, <2>3 DEF AfterConnect, Settings, Backend
  <2>4. CASE srv[k].sess.tmo # "none" /\ srv[k].sess.idle
    <3>1. s = [srv[k].sess EXCEPT !.ro = (link[k].pool = "read")]
      BY <2>4 DEF AfterConnect
    <3> QED BY <1>1, <2>1, <2>4, <3>1 DEF Settings, Backend
  <2> QED BY <2>2, <2>3, <2>4
<1>4. /\ srv'[k] = [srv[k] EXCEPT !.sess = s, !.keep = s, !.cur = s]
      /\ \A j \in Conns : j # k => srv'[j] = srv[j]
  BY <1>2 DEF AfterConnectStep, IInv, TypeOK, BackendState
<1>5. /\ srv'[k].st = "idle" /\ srv'[k].stmt = srv[k].stmt /\ srv'[k].pend = srv[k].pend
      /\ srv'[k].sess = s /\ srv'[k].keep = s /\ srv'[k].cur = s
  BY <1>1, <1>2, <1>4 DEF BackendState
<1>6. TypeOK'
  <2>1. srv'[k] \in BackendState
    BY <1>2, <1>3, <1>4 DEF BackendState
  <2> QED BY <1>1, <1>4, <2>1 DEF AfterConnectStep, IInv, TypeOK
<1> HIDE DEF s
<1>7. CallOwner(c)' /\ LinkOwner(k)' /\ LastUser(c, k)' /\ Counted(c)' /\ InStep(c)'
  BY <1>1, <1>2 DEF Local, CallOwner, LinkOwner, LastUser, Counted, InStep
<1>8. Backend(k)'
  BY <1>1, <1>2, <1>3, <1>5 DEF Local, Backend, InTx
<1>9. IInv'
  BY <1>1, <1>2, <1>4, <1>6, <1>7, <1>8, Frame DEF Local
<1>10. Seen
  <2>1. srv'[k].stmt = srv[k].stmt /\ \A j \in Conns : j # k => srv'[j] = srv[j]
    BY <1>4, <1>5
  <2>2. link'[k].by = c /\ \A j \in Conns : j # k => link[j].by # c
    BY <1>1, <1>2
  <2> QED BY <1>1, <2>1, <2>2, FrameSees
<1> QED BY <1>9, <1>10

\* The pool drops a connection no call holds.
LEMMA DropInv ==
  ASSUME IInv, NEW k \in Conns, ConnectFail(k) \/ Recycle(k) PROVE IInv' /\ Seen
<1>1. link[k].cli \in {"new", "idle"} /\ srv' = srv /\ rows' = rows
  BY DEF ConnectFail, Recycle
<1> PICK c \in Calls : c = link[k].by
  BY <1>1 DEF IInv, LinkOwner
<1>2. /\ Local(c, k) /\ call[c] \in CallState /\ link[k] \in LinkState
      /\ \A j \in Conns : j # k => link[j].by # c
      /\ \A d \in Calls : d # c => call[d].conn # k
      /\ call[c].conn = NoConn
  BY <1>1, Pair DEF Local, CallOwner
<1>3. srv[k].stmt = "none"
  BY <1>1, <1>2 DEF Local, Backend, GoneBackend
<1>4. /\ link' = [link EXCEPT ![k] = Dropped(@)] /\ link' \in [Conns -> LinkState]
      /\ link'[k].cli = "none" /\ link'[k].ans = "none" /\ link'[k].by = c
      /\ link'[k].pool = link[k].pool /\ link'[k].net # "up"
      /\ \A j \in Conns : j # k => link'[j] = link[j]
  <2>1. link' = [link EXCEPT ![k] = Dropped(@)]
    BY DEF ConnectFail, Recycle
  <2>2. link' \in [Conns -> LinkState]
    BY <1>2, <2>1, EditLink DEF IInv, TypeOK
  <2>3. link'[k] = Dropped(link[k]) /\ \A j \in Conns : j # k => link'[j] = link[j]
    BY <2>1 DEF IInv, TypeOK
  <2> QED BY <1>2, <2>1, <2>2, <2>3 DEF Dropped, LinkState
<1>5. /\ call'[c].sent = call[c].sent /\ call'[c].conn = NoConn /\ call'[c].want = call[c].want
      /\ \/ call'[c].pc = call[c].pc /\ call'[c].out = call[c].out /\ call[c].pc # "acquire"
         \/ call'[c].pc = "done" /\ call'[c].out = "err" /\ call[c].pc = "acquire"
      /\ \A d \in Calls : d # c => call'[d] = call[d]
      /\ call' \in [Calls -> CallState]
  <2>1. CASE call' = call
    <3>1. call[c].pc # "acquire"
      <4>1. CASE ConnectFail(k)
        BY <1>2, <4>1, <2>1 DEF ConnectFail, IInv, TypeOK, CallState
      <4>2. CASE Recycle(k)
        BY <1>2, <4>2 DEF Recycle, Local, LastUser
      <4> QED BY <4>1, <4>2
    <3> QED BY <1>2, <2>1, <3>1 DEF IInv, TypeOK
  <2>2. CASE call' # call
    <3>1. call[c].pc = "acquire" /\ call' = [call EXCEPT ![c].pc = "done", ![c].out = "err"]
      BY <2>2 DEF ConnectFail, Recycle
    <3>2. [call[c] EXCEPT !.pc = "done", !.out = "err"] \in CallState
      BY <1>2, EditCall
    <3>3. call' = [call EXCEPT ![c] = [call[c] EXCEPT !.pc = "done", !.out = "err"]]
      BY <1>2, <3>1 DEF IInv, TypeOK, CallState
    <3>4. call' \in [Calls -> CallState] /\ \A d \in Calls : d # c => call'[d] = call[d]
      BY <3>2, <3>3 DEF IInv, TypeOK
    <3>5. call'[c] = [call[c] EXCEPT !.pc = "done", !.out = "err"]
      BY <3>3 DEF IInv, TypeOK
    <3>6. /\ call'[c].sent = call[c].sent /\ call'[c].conn = call[c].conn
          /\ call'[c].want = call[c].want /\ call'[c].pc = "done" /\ call'[c].out = "err"
      BY <1>2, <3>5 DEF CallState
    <3> QED BY <1>2, <3>1, <3>4, <3>6
  <2> QED BY <2>1, <2>2
<1>6. TypeOK'
  BY <1>1, <1>4, <1>5 DEF IInv, TypeOK
<1>7. CallOwner(c)' /\ LinkOwner(k)' /\ LastUser(c, k)'
  BY <1>1, <1>2, <1>4, <1>5, OpsFacts DEF Local, CallOwner, LinkOwner, LastUser
<1>8. Backend(k)'
  BY <1>1, <1>2, <1>3, <1>4 DEF Local, Backend, InTx
<1>9. InStep(c)' /\ Counted(c)'
  BY <1>1, <1>2, <1>5 DEF Local, InStep, Counted
<1>10. IInv'
  BY <1>1, <1>2, <1>4, <1>5, <1>6, <1>7, <1>8, <1>9, Frame DEF Local
<1>11. Seen
  <2>1. call[c].pc = "acquire" => call[c].out = "none"
    BY <1>2 DEF Local, CallOwner
  <2> QED BY <1>1, <1>2, <1>3, <1>4, <1>5, <2>1, FrameSees
<1> QED BY <1>10, <1>11

LEMMA AcquireIdleInv ==
  ASSUME IInv, NEW c \in Calls, NEW k \in Conns, AcquireIdle(c, k) PROVE IInv' /\ Seen
<1>1. /\ call[c].pc = "acquire" /\ srv' = srv /\ rows' = rows
      /\ ~ \E j \in Conns : link[j].cli = "new" /\ link[j].by = c
      /\ link[k].cli = "idle" /\ link[k].pool = PoolOf(c)
  BY DEF AcquireIdle, IdleIn, InPool
<1>2. /\ CallOwner(c) /\ InStep(c) /\ Counted(c) /\ call[c] \in CallState
      /\ LinkOwner(k) /\ Backend(k) /\ link[k] \in LinkState /\ srv[k] \in BackendState
  BY DEF IInv, TypeOK
<1>3. \A j \in Conns : link[j].by # c
  BY <1>1 DEF IInv, LastUser
<1>4. \A d \in Calls : call[d].conn # k
  BY <1>1, CallsAssumption DEF IInv, CallOwner
<1>5. /\ call'[c].pc = "begin" /\ call'[c].conn = k /\ call'[c].sent = call[c].sent
      /\ call'[c].want = call[c].want /\ call'[c].out = call[c].out
      /\ \A d \in Calls : d # c => call'[d] = call[d]
  BY <1>2 DEF AcquireIdle, IInv, TypeOK, CallState
<1>6. /\ link'[k].cli = "held" /\ link'[k].by = c /\ link'[k].ans = link[k].ans
      /\ link'[k].pool = link[k].pool /\ link'[k].net = link[k].net
      /\ \A j \in Conns : j # k => link'[j] = link[j]
  BY <1>2 DEF AcquireIdle, IInv, TypeOK, LinkState
<1>7. TypeOK'
  <2>1. [call[c] EXCEPT !.pc = "begin", !.conn = k] \in CallState
    BY <1>2, EditCall, OpsFacts
  <2>2. call' = [call EXCEPT ![c] = [call[c] EXCEPT !.pc = "begin", !.conn = k]]
    BY <1>2 DEF AcquireIdle, IInv, TypeOK, CallState
  <2>3. [link[k] EXCEPT !.cli = "held", !.by = c] \in LinkState
    BY <1>2, EditLink
  <2>4. link' = [link EXCEPT ![k] = [link[k] EXCEPT !.cli = "held", !.by = c]]
    BY <1>2 DEF AcquireIdle, IInv, TypeOK, LinkState
  <2> QED BY <1>1, <2>1, <2>2, <2>3, <2>4 DEF IInv, TypeOK
<1>8. CallOwner(c)' /\ LinkOwner(k)' /\ LastUser(c, k)'
  BY <1>1, <1>2, <1>5, <1>6, OpsFacts, CallsAssumption DEF CallOwner, LinkOwner, LastUser
<1>9. srv[k].stmt = "none" /\ (srv[k].st # "gone" => Clean(k) /\ Clean(k)')
  BY <1>1, <1>2, <1>6 DEF Backend, Clean, GoneBackend
<1>10. Backend(k)'
  BY <1>1, <1>2, <1>5, <1>6, <1>9 DEF Backend, Clean, InTx, GoneBackend
<1>11. InStep(c)'
  BY <1>1, <1>2, <1>5, <1>6, <1>9, CallsAssumption DEF InStep, LinkOwner, CallOwner, Pre, Clean
<1>12. Counted(c)'
  BY <1>1, <1>2, <1>5 DEF Counted
<1>13. IInv'
  BY <1>1, <1>3, <1>4, <1>5, <1>6, <1>7, <1>8, <1>10, <1>11, <1>12, Frame DEF Local
<1>14. Seen
  BY <1>1, <1>3, <1>5, <1>6, <1>9, FrameSees
<1> QED BY <1>13, <1>14

-----------------------------------------------------------------------------
(* The steps of the backend *)

LEMMA FinishFacts ==
  ASSUME IInv, NEW k \in Conns, NEW s \in BackendState, NEW a \in {"ok", "err"},
         Finish(k, s, a)
  PROVE  /\ srv'[k].st = s.st /\ srv'[k].ro = s.ro /\ srv'[k].pend = s.pend
         /\ srv'[k].sess = s.sess /\ srv'[k].keep = s.keep /\ srv'[k].cur = s.cur
         /\ srv'[k].stmt = "none"
         /\ \A j \in Conns : j # k => srv'[j] = srv[j] /\ link'[j] = link[j]
         /\ link'[k].cli = link[k].cli /\ link'[k].by = link[k].by
         /\ link'[k].pool = link[k].pool /\ link'[k].net = link[k].net
         /\ link'[k].ans = IF link[k].cli = "held" THEN a ELSE link[k].ans
         /\ srv' \in [Conns -> BackendState] /\ link' \in [Conns -> LinkState]
<1>1. srv[k] \in BackendState /\ link[k] \in LinkState /\ TypeOK
  BY DEF IInv, TypeOK
<1>2. srv'[k] = [s EXCEPT !.stmt = "none"] /\ \A j \in Conns : j # k => srv'[j] = srv[j]
  BY <1>1 DEF Finish, TypeOK
<1>3. link'[k] = [link[k] EXCEPT !.ans = IF link[k].cli = "held" THEN a ELSE link[k].ans]
  BY <1>1 DEF Finish, TypeOK
<1>4. \A j \in Conns : j # k => link'[j] = link[j]
  BY <1>1 DEF Finish, TypeOK
<1>5. srv' \in [Conns -> BackendState] /\ link' \in [Conns -> LinkState]
  BY <1>1, FinishType
<1>6. /\ srv'[k].st = s.st /\ srv'[k].ro = s.ro /\ srv'[k].pend = s.pend
      /\ srv'[k].sess = s.sess /\ srv'[k].keep = s.keep /\ srv'[k].cur = s.cur
      /\ srv'[k].stmt = "none"
  BY <1>2 DEF BackendState
<1>7. /\ link'[k].cli = link[k].cli /\ link'[k].by = link[k].by
      /\ link'[k].pool = link[k].pool /\ link'[k].net = link[k].net
      /\ link'[k].ans = IF link[k].cli = "held" THEN a ELSE link[k].ans
  BY <1>1, <1>3 DEF LinkState
<1> QED BY <1>2, <1>4, <1>5, <1>6, <1>7

\* A backend is executing a statement of its last user.
LEMMA Executing ==
  ASSUME IInv, NEW k \in Conns, Busy(k)
  PROVE  \E c \in Calls :
           /\ c = link[k].by /\ srv[k].st # "gone" /\ srv[k].stmt \in Ops
           /\ link[k].cli \in {"held", "none"} /\ link[k].net \in {"up", "hung", "down"}
           /\ Pre(srv[k].stmt, c, k)
           /\ link[k].cli = "held" => /\ call[c].conn = k /\ call[c].pc = srv[k].stmt
                                      /\ call[c].sent /\ link[k].ans = "none"
           /\ link[k].cli = "none" => call[c].pc = "done" /\ call[c].conn = NoConn
<1>1. /\ Backend(k) /\ LinkOwner(k) /\ srv[k] \in BackendState /\ link[k] \in LinkState
      /\ srv[k].stmt # "none"
  BY DEF IInv, TypeOK, Busy
<1>2. srv[k].st # "gone" /\ srv[k].stmt \in Ops
  BY <1>1 DEF Backend, GoneBackend, BackendState
<1> PICK c \in Calls : c = link[k].by
  BY <1>1, <1>2 DEF Backend
<1>3. link[k].cli \in {"held", "none"} /\ link[k].net \in {"up", "hung", "down"}
  BY <1>1, <1>2 DEF Backend, LinkState
<1>4. InStep(c) /\ CallOwner(c)
  BY DEF IInv
<1>5. Pre(srv[k].stmt, c, k)
  BY <1>1 DEF Backend
<1>6. link[k].cli = "held" => /\ call[c].conn = k /\ call[c].pc = srv[k].stmt
                              /\ call[c].sent /\ link[k].ans = "none"
  BY <1>1, <1>4, CallsAssumption DEF LinkOwner, InStep
<1>7. link[k].cli = "none" => call[c].pc = "done" /\ call[c].conn = NoConn
  BY <1>1, <1>4, OpsFacts DEF Backend, CallOwner
<1> QED BY <1>2, <1>3, <1>5, <1>6, <1>7

\* A statement has been executed: what has to hold of the state it leaves.
LEMMA FinishInv ==
  ASSUME IInv, NEW k \in Conns, NEW c \in Calls, c = link[k].by, Busy(k),
         NEW s \in BackendState, NEW a \in {"ok", "err"}, Finish(k, s, a), call' = call,
         s.st # "gone",
         c \in Readers => s.pend = 0 /\ (s.st \in {"tx", "failed"} => s.ro),
         rows' \in [Calls -> Nat], \A d \in Calls : d # c => rows'[d] = rows[d],
         Counted(c)',
         \/ rows'[c] = rows[c]
         \/ rows[c] = 0 /\ rows'[c] = 1 /\ c \in Inserters /\ srv[k].stmt = "commit",
         link[k].cli = "held" =>
           /\ a = "ok" => /\ call[c].pc \in {"commit", "undo"} => Clean(k)'
                          /\ \A f \in Follow(c) : Pre(f[1], c, k)'
           /\ a = "err" => /\ call[c].pc = "commit" => Clean(k)'
                           /\ call[c].pc \in {"attr", "limit", "body"} => Pre("undo", c, k)'
           /\ call[c].pc = "commit" /\ a = "ok" => rows'[c] = 1
  PROVE  IInv' /\ Seen
<1>1. /\ Local(c, k) /\ call[c] \in CallState
      /\ \A j \in Conns : j # k => link[j].by # c
      /\ \A d \in Calls : d # c => call[d].conn # k
  BY Pair
<1>2. /\ srv[k].st # "gone" /\ srv[k].stmt \in Ops
      /\ link[k].cli \in {"held", "none"}
      /\ link[k].cli = "held" => /\ call[c].conn = k /\ call[c].pc = srv[k].stmt
                                 /\ call[c].sent /\ link[k].ans = "none"
      /\ link[k].cli = "none" => call[c].pc = "done" /\ call[c].conn = NoConn
  BY Executing
<1>3. /\ srv'[k].st = s.st /\ srv'[k].ro = s.ro /\ srv'[k].pend = s.pend
      /\ srv'[k].stmt = "none"
      /\ \A j \in Conns : j # k => srv'[j] = srv[j] /\ link'[j] = link[j]
      /\ link'[k].cli = link[k].cli /\ link'[k].by = link[k].by
      /\ link'[k].pool = link[k].pool /\ link'[k].net = link[k].net
      /\ link'[k].ans = IF link[k].cli = "held" THEN a ELSE link[k].ans
      /\ srv' \in [Conns -> BackendState] /\ link' \in [Conns -> LinkState]
  BY FinishFacts
<1>4. TypeOK'
  BY <1>3 DEF IInv, TypeOK
<1>5. CallOwner(c)' /\ LinkOwner(k)' /\ LastUser(c, k)'
  BY <1>1, <1>2, <1>3 DEF Local, CallOwner, LinkOwner, LastUser
<1>6. Backend(k)'
  BY <1>1, <1>2, <1>3 DEF Local, Backend, InTx
<1>7. InStep(c)'
  <2>1. Follow(c)' = Follow(c)
    BY DEF Follow
  <2>2. CASE link[k].cli = "held"
    BY <1>2, <1>3, <2>1, <2>2 DEF InStep
  <2>3. CASE link[k].cli = "none"
    BY <1>2, <2>3 DEF InStep
  <2> QED BY <1>2, <2>2, <2>3
<1>8. IInv'
  BY <1>1, <1>3, <1>4, <1>5, <1>6, <1>7, Frame DEF Local
<1>9. Seen
  BY <1>1, <1>2, <1>3, FrameSees
<1> QED BY <1>8, <1>9

LEMMA ExecControlInv == ASSUME IInv, NEW k \in Conns, ExecControl(k) PROVE IInv' /\ Seen
<1>1. Busy(k)
  BY DEF ExecControl, Busy
<1> PICK c \in Calls :
           /\ c = link[k].by /\ srv[k].st # "gone" /\ srv[k].stmt \in Ops
           /\ link[k].cli \in {"held", "none"}
           /\ Pre(srv[k].stmt, c, k)
           /\ link[k].cli = "held" => call[c].conn = k /\ call[c].pc = srv[k].stmt
           /\ link[k].cli = "none" => call[c].pc = "done"
  BY <1>1, Executing
<1>2. /\ Local(c, k) /\ srv[k] \in BackendState /\ call' = call
      /\ srv[k].cur \in Settings
  BY Pair DEF ExecControl, BackendState
<1>3. CASE srv[k].stmt = "begin"
  <2> DEFINE s == [srv[k] EXCEPT !.st = "tx", !.ro = ReadOnlyMode(c)]
  <2>1. Finish(k, s, "ok") /\ rows' = rows
    BY <1>3 DEF ExecControl
  <2>2. /\ s \in BackendState /\ s.st = "tx" /\ (c \in Readers => s.ro) /\ s.pend = srv[k].pend
        /\ s.sess = srv[k].sess /\ s.keep = srv[k].keep /\ s.cur = srv[k].cur
    <3>1. ReadOnlyMode(c) \in BOOLEAN /\ (c \in Readers => ReadOnlyMode(c))
      BY DEF ReadOnlyMode
    <3> QED BY <1>2, <3>1 DEF BackendState
  <2> HIDE DEF s
  <2>3. /\ srv'[k].st = s.st /\ srv'[k].pend = s.pend /\ srv'[k].sess = s.sess
        /\ srv'[k].keep = s.keep /\ srv'[k].cur = s.cur
        /\ link'[k].pool = link[k].pool /\ link'[k].by = link[k].by
    BY <2>1, <2>2, FinishFacts
  <2>4. Pre("attr", c, k)'
    BY <1>3, <2>2, <2>3 DEF Pre, Clean, KeepOk, Defaults
  <2>5. link[k].cli = "held" => \A f \in Follow(c) : f[1] = "attr"
    BY <1>3 DEF Follow
  <2>6. Counted(c)'
    BY <1>2, <2>1 DEF Local, Counted
  <2>7. c \in Readers => s.pend = 0
    BY <1>2, <2>2 DEF Local, Backend
  <2> QED BY <1>1, <1>2, <1>3, <2>1, <2>2, <2>4, <2>5, <2>6, <2>7, FinishInv DEF IInv, TypeOK
<1>4. CASE srv[k].stmt = "attr"
  <2> DEFINE s == Attribute(srv[k], c)
  <2>1. Finish(k, s, "ok") /\ rows' = rows /\ srv[k].st = "tx"
    BY <1>4 DEF ExecControl
  <2>2. /\ s \in BackendState /\ s.st = srv[k].st /\ s.ro = srv[k].ro /\ s.pend = srv[k].pend
        /\ s.sess = srv[k].sess /\ s.keep = srv[k].keep
        /\ s.cur.app = c /\ s.cur.tmo = srv[k].cur.tmo
    <3>1. s \in BackendState
      BY <1>2, ServerTypes
    <3>2. /\ s.st = srv[k].st /\ s.ro = srv[k].ro /\ s.pend = srv[k].pend
          /\ s.sess = srv[k].sess /\ s.keep = srv[k].keep
          /\ s.cur = [srv[k].cur EXCEPT !.app = c]
      BY <1>2 DEF Attribute, BackendState
    <3> QED BY <1>2, <3>1, <3>2 DEF Settings
  <2> HIDE DEF s
  <2>3. /\ srv'[k].st = s.st /\ srv'[k].pend = s.pend /\ srv'[k].sess = s.sess
        /\ srv'[k].keep = s.keep /\ srv'[k].cur = s.cur
        /\ link'[k].pool = link[k].pool /\ link'[k].by = link[k].by
    BY <2>1, <2>2, FinishFacts
  <2>4. /\ call[c].want => Pre("limit", c, k)'
        /\ ~call[c].want => Pre("body", c, k)'
    BY <1>2, <1>4, <2>2, <2>3 DEF Pre, Clean, KeepOk
  <2>5. link[k].cli = "held" => \A f \in Follow(c) : f[1] = IF call[c].want THEN "limit" ELSE "body"
    BY <1>4 DEF Follow
  <2>6. Counted(c)'
    BY <1>2, <2>1 DEF Local, Counted
  <2>7. c \in Readers => s.pend = 0 /\ s.ro
    BY <1>2, <2>1, <2>2 DEF Local, Backend, InTx
  <2> QED BY <1>1, <1>2, <1>4, <2>1, <2>2, <2>4, <2>5, <2>6, <2>7, FinishInv DEF IInv, TypeOK
<1>5. CASE srv[k].stmt = "limit"
  <2> DEFINE s == Limit(srv[k])
  <2>1. Finish(k, s, "ok") /\ rows' = rows /\ srv[k].st = "tx"
    BY <1>5 DEF ExecControl
  <2>2. /\ s \in BackendState /\ s.st = srv[k].st /\ s.ro = srv[k].ro /\ s.pend = srv[k].pend
        /\ s.sess = srv[k].sess /\ s.keep = srv[k].keep
        /\ s.cur.app = srv[k].cur.app /\ s.cur.tmo = "call"
    BY <1>2, ServerTypes DEF Limit, BackendState, Settings
  <2> HIDE DEF s
  <2>3. /\ srv'[k].st = s.st /\ srv'[k].pend = s.pend /\ srv'[k].sess = s.sess
        /\ srv'[k].keep = s.keep /\ srv'[k].cur = s.cur
        /\ link'[k].pool = link[k].pool /\ link'[k].by = link[k].by
    BY <2>1, <2>2, FinishFacts
  <2>4. Pre("body", c, k)'
    BY <1>2, <1>5, <2>2, <2>3 DEF Pre, Clean, KeepOk
  <2>5. link[k].cli = "held" => \A f \in Follow(c) : f[1] = "body"
    BY <1>5 DEF Follow
  <2>6. Counted(c)'
    BY <1>2, <2>1 DEF Local, Counted
  <2>7. c \in Readers => s.pend = 0 /\ s.ro
    BY <1>2, <2>1, <2>2 DEF Local, Backend, InTx
  <2> QED BY <1>1, <1>2, <1>5, <2>1, <2>2, <2>4, <2>5, <2>6, <2>7, FinishInv DEF IInv, TypeOK
<1>6. CASE srv[k].stmt = "commit"
  <2> DEFINE s == Committed(srv[k])
  <2>1. Finish(k, s, "ok") /\ rows' = [rows EXCEPT ![c] = @ + srv[k].pend]
    BY <1>6 DEF ExecControl
  <2>2. /\ s \in BackendState /\ s.st = "idle" /\ s.pend = 0
        /\ s.sess = srv[k].keep /\ s.keep = srv[k].keep /\ s.cur = srv[k].keep
    BY <1>2, ServerTypes DEF Committed, BackendState
  <2> HIDE DEF s
  <2>3. /\ srv'[k].st = s.st /\ srv'[k].pend = s.pend /\ srv'[k].sess = s.sess
        /\ srv'[k].keep = s.keep /\ srv'[k].cur = s.cur
        /\ link'[k].pool = link[k].pool /\ link'[k].by = link[k].by
    BY <2>1, <2>2, FinishFacts
  <2>4. c \in Inserters /\ srv[k].pend = 1 /\ rows[c] = 0
    BY <1>6 DEF Pre
  <2>5. Clean(k)'
    BY <1>6, <2>2, <2>3 DEF Pre, Clean
  <2>6. /\ rows' \in [Calls -> Nat] /\ rows'[c] = 1
        /\ \A d \in Calls : d # c => rows'[d] = rows[d]
    BY <2>1, <2>4 DEF IInv, TypeOK
  <2>7. Counted(c)'
    BY <1>2, <1>6, <2>4, <2>6, CallsAssumption DEF Local, LastUser, Counted
  <2>8. Follow(c) = {} \/ link[k].cli # "held"
    BY <1>6 DEF Follow
  <2> QED BY <1>1, <1>2, <1>6, <2>1, <2>2, <2>4, <2>5, <2>6, <2>7, <2>8, FinishInv
<1>7. CASE srv[k].stmt = "undo"
  <2> DEFINE s == RolledBack(srv[k])
  <2>1. Finish(k, s, "ok") /\ rows' = rows
    BY <1>7 DEF ExecControl
  <2>2. /\ s \in BackendState /\ s.st = "idle" /\ s.pend = 0
        /\ s.sess = srv[k].sess /\ s.keep = srv[k].sess /\ s.cur = srv[k].sess
    BY <1>2, ServerTypes DEF RolledBack, BackendState
  <2> HIDE DEF s
  <2>3. /\ srv'[k].st = s.st /\ srv'[k].pend = s.pend /\ srv'[k].sess = s.sess
        /\ srv'[k].keep = s.keep /\ srv'[k].cur = s.cur
        /\ link'[k].pool = link[k].pool /\ link'[k].by = link[k].by
    BY <2>1, <2>2, FinishFacts
  <2>4. Clean(k)'
    BY <1>7, <2>2, <2>3 DEF Pre, Clean
  <2>5. Counted(c)'
    BY <1>2, <2>1 DEF Local, Counted
  <2>6. Follow(c) = {} \/ link[k].cli # "held"
    BY <1>7 DEF Follow
  <2> QED BY <1>1, <1>2, <1>7, <2>1, <2>2, <2>4, <2>5, <2>6, FinishInv DEF IInv, TypeOK
<1> QED BY <1>3, <1>4, <1>5, <1>6, <1>7 DEF ExecControl

LEMMA ExecBodyInv == ASSUME IInv, NEW k \in Conns, ExecBody(k) PROVE IInv' /\ Seen
<1>1. Busy(k) /\ srv[k].stmt = "body" /\ srv[k].st = "tx" /\ call' = call /\ rows' = rows
  BY DEF ExecBody, Busy
<1> PICK c \in Calls :
           /\ c = link[k].by /\ link[k].cli \in {"held", "none"}
           /\ Pre(srv[k].stmt, c, k)
           /\ link[k].cli = "held" => call[c].conn = k /\ call[c].pc = srv[k].stmt
  BY <1>1, Executing
<1>2. /\ Local(c, k) /\ srv[k] \in BackendState
      /\ srv[k].cur \in Settings /\ srv[k].keep \in Settings
  BY Pair DEF BackendState
<1>3. Counted(c)' /\ rows' \in [Calls -> Nat]
  BY <1>1, <1>2 DEF Local, Counted, IInv, TypeOK
<1>4. c \in Readers => srv[k].pend = 0 /\ srv[k].ro
  BY <1>1, <1>2 DEF Local, Backend, InTx
<1>5. CASE c \in Readers /\ Finish(k, srv[k], "ok")
  <2>1. /\ srv'[k].st = srv[k].st /\ srv'[k].pend = srv[k].pend /\ srv'[k].sess = srv[k].sess
        /\ srv'[k].keep = srv[k].keep /\ srv'[k].cur = srv[k].cur
        /\ link'[k].pool = link[k].pool /\ link'[k].by = link[k].by
    BY <1>2, <1>5, FinishFacts
  <2>2. Pre("body", c, k)' /\ Pre("undo", c, k)'
    BY <1>1, <2>1 DEF Pre, Clean, KeepOk
  <2>3. link[k].cli = "held" => \A f \in Follow(c) : f[1] \in {"body", "undo"}
    BY <1>1, <1>5, CallsAssumption DEF Follow
  <2> QED BY <1>1, <1>2, <1>3, <1>4, <1>5, <2>2, <2>3, FinishInv
<1>6. CASE c \in Readers /\ Smuggle /\ Finish(k, Smuggled(srv[k]), "ok")
  <2> DEFINE s == Smuggled(srv[k])
  <2>1. /\ s \in BackendState /\ s.st = srv[k].st /\ s.ro = srv[k].ro
        /\ s.pend = srv[k].pend /\ s.sess = srv[k].sess
        /\ s.cur.app = Forged /\ s.cur.tmo = "none"
    <3>1. s = [srv[k] EXCEPT !.cur = [srv[k].cur EXCEPT !.app = Forged, !.tmo = "none"],
                             !.keep = [srv[k].keep EXCEPT !.app = Forged, !.tmo = "none"]]
      BY <1>2 DEF Smuggled, BackendState, Settings
    <3>2. /\ s.st = srv[k].st /\ s.ro = srv[k].ro
          /\ s.pend = srv[k].pend /\ s.sess = srv[k].sess
          /\ s.cur = [srv[k].cur EXCEPT !.app = Forged, !.tmo = "none"]
      BY <1>2, <3>1 DEF BackendState
    <3> QED BY <1>2, <3>2, ServerTypes DEF Settings
  <2> HIDE DEF s
  <2>2. /\ srv'[k].st = s.st /\ srv'[k].pend = s.pend /\ srv'[k].sess = s.sess
        /\ srv'[k].cur = s.cur
        /\ link'[k].pool = link[k].pool /\ link'[k].by = link[k].by
    BY <1>6, <2>1, FinishFacts DEF s
  <2>3. Pre("body", c, k)' /\ Pre("undo", c, k)'
    BY <1>1, <1>4, <1>6, <2>1, <2>2 DEF Pre, KeepOk
  <2>4. link[k].cli = "held" => \A f \in Follow(c) : f[1] \in {"body", "undo"}
    BY <1>1, <1>6, CallsAssumption DEF Follow
  <2>5. Finish(k, s, "ok")
    BY <1>6 DEF s
  <2> QED BY <1>1, <1>2, <1>3, <1>4, <1>6, <2>1, <2>3, <2>4, <2>5, FinishInv
<1>7. CASE ~srv[k].ro /\ Finish(k, [srv[k] EXCEPT !.pend = @ + 1], "ok")
  <2> DEFINE s == [srv[k] EXCEPT !.pend = @ + 1]
  <2>1. c \in Inserters /\ c \notin Readers
    BY <1>4, <1>7 DEF Calls
  <2>2. srv[k].pend = 0
    BY <1>1 DEF Pre
  <2>3. /\ s \in BackendState /\ s.st = srv[k].st /\ s.pend = 1
        /\ s.sess = srv[k].sess /\ s.keep = srv[k].keep /\ s.cur = srv[k].cur
    BY <1>2, <2>2 DEF BackendState
  <2>4. Finish(k, s, "ok")
    BY <1>7
  <2> HIDE DEF s
  <2>5. /\ srv'[k].st = s.st /\ srv'[k].pend = s.pend /\ srv'[k].sess = s.sess
        /\ srv'[k].keep = s.keep /\ srv'[k].cur = s.cur
        /\ link'[k].pool = link[k].pool /\ link'[k].by = link[k].by
    BY <2>3, <2>4, FinishFacts
  <2>6. link[k].cli = "held" => rows[c] = 0
    BY <1>1, <1>2 DEF Local, Counted
  <2>7. link[k].cli = "held" => Pre("commit", c, k)'
    BY <1>1, <2>1, <2>3, <2>5, <2>6 DEF Pre, KeepOk
  <2>8. link[k].cli = "held" => \A f \in Follow(c) : f[1] = "commit"
    BY <1>1, <2>1 DEF Follow
  <2> QED BY <1>1, <1>2, <1>3, <2>1, <2>3, <2>4, <2>7, <2>8, FinishInv
<1> QED BY <1>5, <1>6, <1>7 DEF ExecBody

LEMMA ExecErrInv == ASSUME IInv, NEW k \in Conns, ExecErr(k) PROVE IInv' /\ Seen
<1>1. Busy(k) /\ srv[k].stmt # "undo" /\ call' = call /\ rows' = rows
  BY DEF ExecErr
<1> PICK c \in Calls :
           /\ c = link[k].by /\ srv[k].st # "gone" /\ srv[k].stmt \in Ops
           /\ link[k].cli \in {"held", "none"}
           /\ Pre(srv[k].stmt, c, k)
           /\ link[k].cli = "held" => call[c].conn = k /\ call[c].pc = srv[k].stmt
  BY <1>1, Executing
<1>2. Local(c, k) /\ srv[k] \in BackendState
  BY Pair
<1>3. Counted(c)' /\ rows' \in [Calls -> Nat]
  BY <1>1, <1>2 DEF Local, Counted, IInv, TypeOK
<1>4. c \in Readers => srv[k].pend = 0 /\ (srv[k].st \in {"tx", "failed"} => srv[k].ro)
  BY <1>2 DEF Local, Backend, InTx
<1>5. CASE srv[k].stmt = "begin"
  <2>1. Finish(k, srv[k], "err")
    BY <1>5 DEF ExecErr
  <2> QED BY <1>1, <1>2, <1>3, <1>4, <1>5, <2>1, FinishInv
<1>6. CASE srv[k].stmt = "commit"
  <2> DEFINE s == RolledBack(srv[k])
  <2>1. Finish(k, s, "err")
    BY <1>6 DEF ExecErr
  <2>2. /\ s \in BackendState /\ s.st = "idle" /\ s.pend = 0
        /\ s.sess = srv[k].sess /\ s.keep = srv[k].sess /\ s.cur = srv[k].sess
    BY <1>2, ServerTypes DEF RolledBack, BackendState
  <2> HIDE DEF s
  <2>3. /\ srv'[k].st = s.st /\ srv'[k].pend = s.pend /\ srv'[k].sess = s.sess
        /\ srv'[k].keep = s.keep /\ srv'[k].cur = s.cur
        /\ link'[k].pool = link[k].pool /\ link'[k].by = link[k].by
    BY <2>1, <2>2, FinishFacts
  <2>4. Clean(k)'
    BY <1>6, <2>2, <2>3 DEF Pre, Clean
  <2> QED BY <1>1, <1>2, <1>3, <1>6, <2>1, <2>2, <2>4, FinishInv
<1>7. CASE srv[k].stmt \in {"attr", "limit", "body"}
  <2> DEFINE s == [srv[k] EXCEPT !.st = "failed"]
  <2>1. Finish(k, s, "err")
    BY <1>7 DEF ExecErr
  <2>2. /\ s \in BackendState /\ s.st = "failed" /\ s.pend = srv[k].pend /\ s.ro = srv[k].ro
        /\ s.sess = srv[k].sess
    BY <1>2 DEF BackendState
  <2> HIDE DEF s
  <2>3. /\ srv'[k].st = s.st /\ srv'[k].sess = s.sess
        /\ link'[k].pool = link[k].pool
    BY <2>1, <2>2, FinishFacts
  <2>4. Pre("undo", c, k)' /\ srv[k].st = "tx"
    BY <1>7, <2>2, <2>3 DEF Pre
  <2> QED BY <1>1, <1>2, <1>3, <1>4, <1>7, <2>1, <2>2, <2>4, FinishInv
<1> QED BY <1>1, <1>5, <1>6, <1>7 DEF Ops

LEMMA DieInv == ASSUME IInv, NEW k \in Conns, srv[k].st # "gone", Die(k) PROVE IInv' /\ Seen
<1> PICK c \in Calls : c = link[k].by
  BY DEF IInv, Backend
<1>1. /\ Local(c, k) /\ link[k] \in LinkState
      /\ \A j \in Conns : j # k => link[j].by # c
      /\ \A d \in Calls : d # c => call[d].conn # k
      /\ call[c].conn # NoConn => call[c].conn = k
  BY Pair
<1>2. call' = call /\ rows' = rows
  BY DEF Die
<1>3. srv'[k] = GoneBackend /\ \A j \in Conns : j # k => srv'[j] = srv[j]
  BY DEF Die, IInv, TypeOK
<1>4. /\ link'[k].cli = link[k].cli /\ link'[k].by = link[k].by
      /\ link'[k].pool = link[k].pool /\ link'[k].ans = link[k].ans
      /\ link'[k].net = IF link[k].net = "up" THEN "down" ELSE link[k].net
      /\ \A j \in Conns : j # k => link'[j] = link[j]
  BY <1>1 DEF Die, IInv, TypeOK, LinkState
<1>5. TypeOK'
  <2>1. [link[k] EXCEPT !.net = IF @ = "up" THEN "down" ELSE @] \in LinkState
    BY <1>1 DEF LinkState
  <2> QED BY <1>2, <2>1, GoneType DEF Die, IInv, TypeOK
<1>6. CallOwner(c)' /\ LinkOwner(k)' /\ LastUser(c, k)'
  BY <1>1, <1>2, <1>4 DEF Local, CallOwner, LinkOwner, LastUser
<1>7. Backend(k)'
  <2>1. /\ srv'[k].st = "gone" /\ srv'[k].stmt = "none" /\ srv'[k].pend = 0 /\ ~InTx(k)'
        /\ srv'[k].sess = Fresh /\ srv'[k].keep = Fresh /\ srv'[k].cur = Fresh
        /\ Fresh.app = Base /\ Fresh.tmo = "none" /\ ~Fresh.idle /\ ~Fresh.ro
    BY <1>3 DEF InTx, GoneBackend, Fresh
  <2>2. Backend(k)
    BY <1>1 DEF Local
  <2> QED BY <1>3, <1>4, <2>1, <2>2 DEF Backend
<1>8. InStep(c)'
  <2>1. srv'[k].st = "gone" /\ srv'[k].stmt = "none" /\ InStep(c)
    BY <1>1, <1>3 DEF Local, GoneBackend
  <2>2. CASE call[c].conn = NoConn
    BY <1>2, <2>2 DEF InStep
  <2>3. CASE call[c].conn = k
    <3>1. link'[k].ans = link[k].ans /\ call'[c] = call[c] /\ rows'[c] = rows[c]
      BY <1>2, <1>4
    <3> QED BY <2>1, <2>3, <3>1 DEF InStep
  <2> QED BY <1>1, <2>2, <2>3
<1>9. Counted(c)'
  BY <1>1, <1>2 DEF Local, Counted
<1>10. IInv'
  BY <1>1, <1>2, <1>3, <1>4, <1>5, <1>6, <1>7, <1>8, <1>9, Frame DEF Local
<1>11. Seen
  <2>1. srv'[k].stmt = "none"
    BY <1>3 DEF GoneBackend
  <2> QED BY <1>1, <1>2, <1>3, <1>4, <2>1, FrameSees
<1> QED BY <1>10, <1>11

LEMMA PathInv == ASSUME IInv, NEW k \in Conns, PathNext(k) PROVE IInv' /\ Seen
<1>1. link[k].net \in {"up", "hung"} /\ call' = call /\ srv' = srv /\ rows' = rows
  BY DEF PathNext, Hang, Reset
<1> PICK c \in Calls : c = link[k].by
  BY <1>1 DEF IInv, LinkOwner
<1>2. /\ Local(c, k) /\ link[k] \in LinkState
      /\ \A j \in Conns : j # k => link[j].by # c
      /\ \A d \in Calls : d # c => call[d].conn # k
      /\ call[c].conn # NoConn => call[c].conn = k
  BY Pair
<1>3. PICK n \in {"hung", "down"} : link' = [link EXCEPT ![k].net = n]
  BY DEF PathNext, Hang, Reset
<1>4. /\ link'[k].cli = link[k].cli /\ link'[k].by = link[k].by
      /\ link'[k].pool = link[k].pool /\ link'[k].ans = link[k].ans /\ link'[k].net = n
      /\ \A j \in Conns : j # k => link'[j] = link[j]
  BY <1>2, <1>3 DEF IInv, TypeOK, LinkState
<1>5. TypeOK'
  <2>1. [link[k] EXCEPT !.net = n] \in LinkState
    BY <1>2, EditLink
  <2> QED BY <1>1, <1>3, <2>1 DEF IInv, TypeOK
<1>6. CallOwner(c)' /\ LinkOwner(k)' /\ LastUser(c, k)'
  BY <1>1, <1>2, <1>4 DEF Local, CallOwner, LinkOwner, LastUser
<1>7. Backend(k)'
  <2>1. /\ Clean(k)' <=> Clean(k)
        /\ \A op : Pre(op, c, k)' <=> Pre(op, c, k)
    BY <1>1, <1>4, PreKeeps
  <2>2. Backend(k) /\ (InTx(k)' <=> InTx(k)) /\ c = link[k].by
    BY <1>1, <1>2 DEF Local, InTx
  <2> QED BY <1>1, <1>4, <2>1, <2>2 DEF Backend
<1>8. InStep(c)'
  BY <1>1, <1>2, <1>4, InStepKeeps DEF Local
<1>9. Counted(c)'
  BY <1>1, <1>2 DEF Local, Counted
<1>10. IInv'
  BY <1>1, <1>2, <1>4, <1>5, <1>6, <1>7, <1>8, <1>9, Frame DEF Local
<1>11. Seen
  BY <1>1, <1>2, <1>4, FrameSees
<1> QED BY <1>10, <1>11

-----------------------------------------------------------------------------
(* The theorems *)

LEMMA InitInv == Init => IInv
<1> SUFFICES ASSUME Init PROVE IInv
  OBVIOUS
<1>1. TypeOK
  BY TypeInit
<1>2. /\ \A c \in Calls : /\ call[c].pc = "start" /\ call[c].sent = FALSE /\ call[c].want = FALSE
                          /\ call[c].conn = NoConn /\ call[c].out = "none" /\ rows[c] = 0
      /\ \A k \in Conns : /\ link[k].cli = "none" /\ link[k].by = NoCall /\ link[k].net = "down"
                          /\ link[k].ans = "none" /\ srv[k] = GoneBackend
  BY DEF Init, IdleCall
<1>3. \A c \in Calls : CallOwner(c) /\ InStep(c) /\ Counted(c)
  BY <1>2, OpsFacts DEF CallOwner, InStep, Counted
<1>4. ASSUME NEW k \in Conns PROVE LinkOwner(k) /\ Backend(k)
  <2>1. /\ link[k].cli = "none" /\ link[k].by = NoCall /\ link[k].net = "down"
        /\ link[k].ans = "none" /\ srv[k] = GoneBackend
    BY <1>2
  <2>2. NoCall \notin Calls /\ NoCall \notin Readers
    BY CallsAssumption DEF Calls
  <2> QED BY <2>1, <2>2 DEF LinkOwner, Backend, GoneBackend, InTx
<1>5. OneConn /\ \A c \in Calls, k \in Conns : LastUser(c, k)
  BY <1>2, CallsAssumption DEF OneConn, LastUser
<1> QED BY <1>1, <1>3, <1>4, <1>5 DEF IInv

LEMMA NextInv == IInv /\ [Next]_vars => IInv' /\ (Seen \/ UNCHANGED vars)
<1> SUFFICES ASSUME IInv, [Next]_vars PROVE IInv' /\ (Seen \/ UNCHANGED vars)
  OBVIOUS
<1>1. ASSUME NEW c \in Calls, CallNext(c) PROVE IInv' /\ Seen
  BY <1>1, StartInv, ExpireInv, SendInv, ReceiveOkInv, ReceiveErrInv, FailFastInv,
     GiveUpInv, ConnectInv, AcquireIdleInv DEF CallNext
<1>2. ASSUME NEW k \in Conns, PoolNext(k) PROVE IInv' /\ Seen
  BY <1>2, AfterConnectStepInv, HandOverInv, DropInv DEF PoolNext
<1>3. ASSUME NEW k \in Conns, BackendNext(k) PROVE IInv' /\ Seen
  <2>1. CASE IdleTxTimeout(k)
    BY <2>1, DieInv DEF IdleTxTimeout, InTx
  <2>2. CASE ~IdleTxTimeout(k)
    BY <1>3, <2>2, ExecControlInv, ExecBodyInv, ExecErrInv, DieInv
       DEF BackendNext, StatementTimeout, Disconnect, Terminate
  <2> QED BY <2>1, <2>2
<1>4. ASSUME NEW k \in Conns, PathNext(k) PROVE IInv' /\ Seen
  BY <1>4, PathInv
<1>5. CASE UNCHANGED vars
  <2>1. call' = call /\ link' = link /\ srv' = srv /\ rows' = rows
    BY <1>5 DEF vars
  <2>2. TypeOK' /\ OneConn'
    BY <2>1 DEF IInv, TypeOK, OneConn
  <2>3. ASSUME NEW c \in Calls PROVE CallOwner(c)' /\ Counted(c)'
    BY <2>1 DEF IInv, CallOwner, Counted
  <2>4. ASSUME NEW c \in Calls PROVE InStep(c)'
    BY <2>1, InStepKeeps DEF IInv
  <2>5. ASSUME NEW k \in Conns PROVE LinkOwner(k)'
    BY <2>1 DEF IInv, LinkOwner
  <2>6. ASSUME NEW k \in Conns PROVE Backend(k)'
    BY <2>1, BackendKeeps DEF IInv
  <2>7. ASSUME NEW c \in Calls, NEW k \in Conns PROVE LastUser(c, k)'
    BY <2>1 DEF IInv, LastUser
  <2> QED BY <2>2, <2>3, <2>4, <2>5, <2>6, <2>7, <1>5 DEF IInv
<1> QED BY <1>1, <1>2, <1>3, <1>4, <1>5 DEF Next, Quiet

\* The inductive invariant of the sessions.
THEOREM Invariance == Spec => []IInv
<1> QED BY InitInv, NextInv, PTL DEF Spec

\* Type correctness of the sessions, for any number of calls and connections.
THEOREM TypeCorrect == Spec => []TypeOK
<1>1. IInv => TypeOK
  BY DEF IInv
<1> QED BY <1>1, Invariance, PTL

\* A pooled connection carries nothing over from the calls that used it.
THEOREM PoolStaysClean == Spec => []PoolClean
<1>1. IInv => PoolClean
  <2> SUFFICES ASSUME IInv, NEW k \in Conns, link[k].cli = "idle", srv[k].st # "gone"
               PROVE  Clean(k) /\ ~Busy(k)
    BY DEF PoolClean, Clean
  <2> QED BY DEF IInv, Backend, Busy
<1> QED BY <1>1, Invariance, PTL

\* What runs for a caller runs under its application_name, in a transaction.
THEOREM StatementsAttributed == Spec => []Attributed
<1>1. IInv => Attributed
  BY DEF IInv, Backend, Attributed, Pre
<1> QED BY <1>1, Invariance, PTL

\* What runs for a caller runs under the time limit it is due.
THEOREM StatementsTimeLimited == Spec => []TimeLimited
<1>1. IInv => TimeLimited
  <2> SUFFICES ASSUME IInv, NEW c \in Calls, call[c].conn # NoConn, srv[call[c].conn].stmt = "body"
               PROVE  srv[call[c].conn].cur.tmo \in {IF call[c].want THEN "call" ELSE "session"}
                           \cup (IF Smuggle THEN {"none"} ELSE {})
    BY DEF TimeLimited
  <2>1. call[c].conn \in Conns /\ link[call[c].conn].by = c
    BY Holder
  <2> QED BY <2>1 DEF IInv, Backend, Pre
<1> QED BY <1>1, Invariance, PTL

\* Read calls never write.
THEOREM ReadOnlyCalls == Spec => []ReadersNeverWrite
<1>1. IInv => ReadersNeverWrite
  BY DEF IInv, Backend, Counted, ReadersNeverWrite, Calls
<1> QED BY <1>1, Invariance, PTL

\* What Insert reports and what the table holds agree.
THEOREM InsertsAccounted == Spec => []InsertOutcome
<1>1. IInv => InsertOutcome
  <2> SUFFICES ASSUME IInv, NEW c \in Inserters
               PROVE  /\ rows[c] <= 1
                      /\ call[c].out = "ok" => rows[c] = 1
                      /\ call[c].out = "refused" \/ call[c].pc \in {"attr", "body", "undo"} =>
                            /\ rows[c] = 0
                            /\ \A k \in Conns : link[k].by = c => srv[k].stmt # "commit"
    BY DEF InsertOutcome
  <2>1. c \in Calls /\ Counted(c) /\ InStep(c) /\ CallOwner(c) /\ call[c] \in CallState
    BY DEF Calls, IInv, TypeOK
  <2>2. ASSUME NEW k \in Conns, link[k].by = c, srv[k].stmt = "commit"
        PROVE  call[c].out # "refused" /\ call[c].pc \in {"commit", "done"}
    <3>1. Busy(k)
      BY <2>2 DEF Busy
    <3> QED BY <2>1, <2>2, <3>1, Executing DEF IInv, LastUser
  <2>3. rows[c] <= 1
    BY <2>1 DEF Counted
  <2> QED BY <2>1, <2>2, <2>3 DEF Counted
<1> QED BY <1>1, Invariance, PTL

-----------------------------------------------------------------------------
(* The sessions implement CallContract *)

\* A step that concerns one call is a step of the contract, or none.
LEMMA SeenStep ==
  ASSUME TypeOK, TypeOK', NEW c \in Calls, Sees(c)
  PROVE  [Contract!Next]_(Contract!cvars)
<1> DEFINE out == [d \in Calls |-> call[d].out]
<1>1. /\ rows \in [Calls -> Nat] /\ rows' \in [Calls -> Nat]
      /\ Undecided \subseteq Calls /\ Undecided' \subseteq Calls
  BY DEF TypeOK, Undecided, Calls
<1>2. Undecided' = Undecided \/ (c \in Undecided /\ Undecided' = Undecided \ {c})
  <2>1. c \in Undecided' => c \in Undecided
    BY DEF Sees
  <2>2. \A d \in Calls : d # c => (d \in Undecided' <=> d \in Undecided)
    BY DEF Sees
  <2> QED BY <1>1, <2>1, <2>2
<1>3. rows' = [rows EXCEPT ![c] = rows'[c]] /\ (rows'[c] = rows[c] => rows' = rows)
  BY <1>1 DEF Sees
<1>4. out' = [out EXCEPT ![c] = call'[c].out] /\ (call'[c].out = call[c].out => out' = out)
  BY DEF Sees
<1>5. out[c] = call[c].out
  OBVIOUS
<1> HIDE DEF out
<1>6. CASE call'[c].out = call[c].out /\ rows'[c] = rows[c]
  <2>1. CASE c \in Undecided' <=> c \in Undecided
    BY <1>2, <1>3, <1>4, <1>6, <2>1 DEF out, Contract!cvars
  <2>2. CASE c \in Undecided /\ c \notin Undecided'
    <3>1. Contract!Settle(c)
      BY <1>2, <1>3, <1>4, <1>6, <2>2 DEF out, Contract!Settle
    <3> QED BY <3>1 DEF Contract!Next, Contract!Calls, Calls
  <2> QED BY <1>2, <2>1, <2>2
<1>7. CASE /\ call'[c].out = call[c].out /\ rows'[c] = 1
           /\ c \in Undecided /\ c \notin Undecided'
  <2>1. Contract!Write(c)
    BY <1>2, <1>3, <1>4, <1>7 DEF out, Contract!Write
  <2> QED BY <2>1 DEF Contract!Next, Contract!Calls, Calls
<1>8. CASE /\ call[c].out = "none" /\ call'[c].out = "refused" /\ rows'[c] = rows[c]
           /\ c \in Undecided /\ c \notin Undecided'
  <2>1. Contract!Refuse(c)
    BY <1>2, <1>3, <1>4, <1>5, <1>8 DEF out, Contract!Refuse
  <2> QED BY <2>1 DEF Contract!Next, Contract!Calls, Calls
<1>9. CASE /\ call[c].out = "none" /\ call'[c].out = "ok" /\ rows'[c] = rows[c]
           /\ c \in Readers \/ (c \notin Undecided /\ rows[c] = 1)
           /\ c \in Undecided' <=> c \in Undecided
  <2>1. Contract!Succeed(c)
    BY <1>2, <1>3, <1>4, <1>5, <1>9 DEF out, Contract!Succeed
  <2> QED BY <2>1 DEF Contract!Next, Contract!Calls, Calls
<1>10. CASE /\ call[c].out = "none" /\ call'[c].out = "err" /\ rows'[c] = rows[c]
  <2>1. Contract!Fail(c)
    BY <1>2, <1>3, <1>4, <1>5, <1>10 DEF out, Contract!Fail
  <2> QED BY <2>1 DEF Contract!Next, Contract!Calls, Calls
<1> QED BY <1>6, <1>7, <1>8, <1>9, <1>10 DEF Sees

LEMMA InitContract == Init => Contract!Init
<1> SUFFICES ASSUME Init PROVE Contract!Init
  OBVIOUS
<1>1. [c \in Calls |-> call[c].out] = [c \in Contract!Calls |-> "none"]
  BY DEF Init, IdleCall, Contract!Calls, Calls
<1>2. rows = [c \in Contract!Calls |-> 0]
  BY DEF Init, Contract!Calls, Calls
<1>3. Undecided = Inserters
  BY DEF Init, IdleCall, Undecided, Calls
<1> QED BY <1>1, <1>2, <1>3 DEF Contract!Init

LEMMA NextContract == IInv /\ [Next]_vars => [Contract!Next]_(Contract!cvars)
<1> SUFFICES ASSUME IInv, [Next]_vars PROVE [Contract!Next]_(Contract!cvars)
  OBVIOUS
<1>1. IInv' /\ (Seen \/ UNCHANGED vars)
  BY NextInv
<1>2. CASE Seen
  <2>1. TypeOK /\ TypeOK'
    BY <1>1 DEF IInv
  <2> QED BY <1>2, <2>1, SeenStep DEF Seen
<1>3. CASE UNCHANGED vars
  BY <1>3 DEF vars, Contract!cvars, Undecided
<1> QED BY <1>1, <1>2, <1>3

\* The sessions implement CallContract, whatever is lost, cut or timed out on
\* the way: a read call writes nothing, an insert call at most one row, and
\* none once it was refused or has rolled back.
THEOREM ContractKept == Spec => ImplementsContract
<1> QED BY InitContract, NextContract, Invariance, PTL DEF Spec, ImplementsContract, Contract!Spec
====
