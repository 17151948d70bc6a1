-------------------------- MODULE ToolCallsProofs --------------------------
(***************************************************************************)
(* What ToolCalls promises, for any calls, servers, identities and         *)
(* allowlists: no database is touched for a caller who may not use it,     *)
(* every call that reaches wrap leaves one true audit line, and            *)
(* list_databases answers with every database the caller may use, each     *)
(* probed by its own goroutine.                                            *)
(***************************************************************************)
EXTENDS ToolCalls, TLAPS

Item == [db: Dbs, probed: Dbs \cup {NoDb}, class: BodyClasses]

Line == [who: Identities \cup {Local}, db: Dbs \cup {NoDb}, class: Classes]

CallState ==
  [pc: {"idle", "refused", "entered", "working", "listing", "probing", "answered"},
   who: Identities, req: Requests, db: Dbs \cup {NoDb}, items: Seq(Item),
   todo: SUBSET Nat, hidden: Nat, answer: {"none", "ok", "error"}]

-----------------------------------------------------------------------------
(* The inductive invariant *)

\* The configuration, which no step changes.
Configured ==
  /\ Order \in Seq(Dbs) /\ NoDb \notin Dbs
  /\ conf.local \in BOOLEAN /\ conf.db \in [Dbs -> Configs]

Who(c) == Caller(call[c].who)

\* A call that works on databases has a caller, and one that works on a single
\* database passed its allowlist.
Admits(c) ==
  /\ call[c].pc \in {"working", "listing", "probing"} => ~Empty(Who(c))
  /\ call[c].pc \in {"listing", "probing"} => call[c].req.tool = "list"
  /\ call[c].pc = "working" =>
       call[c].req.tool # "list" /\ call[c].db \in Dbs /\ Allows(call[c].db, Who(c))

\* The slots of list_databases: those of the databases visited so far that the
\* caller may use, and no other's.
Slots(c) ==
  /\ call[c].pc \in {"idle", "refused", "entered", "working"} => call[c].items = <<>> /\ call[c].hidden = 0
  /\ call[c].items # <<>> => ~Empty(Who(c))
  /\ \A i \in DOMAIN call[c].items :
       /\ Allows(call[c].items[i].db, Who(c))
       /\ call[c].items[i].probed \in {NoDb, call[c].items[i].db}
  /\ Visited(c) <= Len(Order)
  /\ \A j \in 1 .. Visited(c) : Allows(Order[j], Who(c)) =>
       \E i \in DOMAIN call[c].items : call[c].items[i].db = Order[j]

\* list_databases has answered, from its slots.
Listed(c) ==
  call[c].pc = "answered" /\ call[c].req.tool = "list" /\ log[c][1].class = ""

\* The goroutines: a slot without one has its probe.
Probes(c) ==
  /\ call[c].todo \subseteq DOMAIN call[c].items
  /\ call[c].pc # "probing" => call[c].todo = {}
  /\ call[c].pc = "probing" \/ Listed(c) =>
       /\ Visited(c) = Len(Order)
       /\ \A i \in DOMAIN call[c].items :
            i \notin call[c].todo => call[c].items[i].probed = call[c].items[i].db

\* The audit line.
Logged(c) ==
  /\ Len(log[c]) = IF call[c].pc = "answered" THEN 1 ELSE 0
  /\ call[c].answer # "none" => call[c].pc \in {"refused", "answered"}
  /\ call[c].pc = "refused" => ~Passes(call[c].req)
  /\ call[c].pc = "answered" =>
       /\ call[c].answer = "ok" => log[c][1].class = ""
       /\ log[c][1].class \in BodyClasses /\ call[c].req.tool # "list" => log[c][1].db \in Dbs
       /\ ~Empty(call[c].who) => log[c][1].who = call[c].who

CallInv(c) == Admits(c) /\ Slots(c) /\ Probes(c) /\ Logged(c)

IInv ==
  /\ Configured
  /\ call \in [Calls -> CallState] /\ log \in [Calls -> Seq(Line)]
  /\ \A c \in Calls : CallInv(c)

-----------------------------------------------------------------------------
(* The configuration, the allowlists and the calls apart from one *)

LEMMA FrameConf ==
  ASSUME conf' = conf
  PROVE  /\ Dbs' = Dbs /\ Order' = Order /\ Item' = Item /\ Line' = Line
         /\ Requests' = Requests /\ CallState' = CallState
         /\ Configured' <=> Configured
         /\ \A p : Caller(p)' = Caller(p)
         /\ \A d, p : Allows(d, p)' <=> Allows(d, p)
         /\ \A q : Passes(q)' <=> Passes(q)
<1>1. Dbs' = Dbs /\ Order' = Order  BY DEF Dbs, Order
<1>2. Item' = Item /\ Line' = Line /\ Requests' = Requests
  BY <1>1 DEF Item, Line, Requests
<1>3. CallState' = CallState  BY <1>1, <1>2 DEF CallState
<1>4. Configured' <=> Configured  BY <1>1 DEF Configured
<1>5. \A p : Caller(p)' = Caller(p)  BY DEF Caller, LocalCaller
<1>6. \A d, p : Allows(d, p)' <=> Allows(d, p)  BY DEF Allows
<1>7. \A q : Passes(q)' <=> Passes(q)
  <2>1. Insertable' <=> Insertable  BY <1>1 DEF Insertable
  <2>2. \A t : Registered(t)' <=> Registered(t)  BY <2>1 DEF Registered
  <2>3. \A q : Conforms(q)' <=> Conforms(q)  BY <1>1 DEF Conforms
  <2>4. QED  BY <2>2, <2>3 DEF Passes
<1>8. QED  BY <1>1, <1>2, <1>3, <1>4, <1>5, <1>6, <1>7

\* A step of a call that touches neither its caller nor its slots.
LEMMA SlotsKept ==
  ASSUME NEW c \in Calls, Slots(c), conf' = conf, call'[c].who = call[c].who,
         call'[c].items = call[c].items, call'[c].hidden = call[c].hidden,
         call'[c].pc \in {"idle", "refused", "entered", "working"} =>
           call[c].pc \in {"idle", "refused", "entered", "working"}
  PROVE  Slots(c)'
<1>1. Who(c)' = Who(c) /\ Visited(c)' = Visited(c)  BY FrameConf DEF Who, Visited
<1>2. Order' = Order /\ \A d, p : Allows(d, p)' <=> Allows(d, p)  BY FrameConf
<1>3. (call[c].items # <<>> => ~Empty(Who(c)))'  BY <1>1 DEF Slots
<1>4. (\A i \in DOMAIN call[c].items :
         /\ Allows(call[c].items[i].db, Who(c))
         /\ call[c].items[i].probed \in {NoDb, call[c].items[i].db})'
  BY <1>1, <1>2 DEF Slots
<1>5. (\A j \in 1 .. Visited(c) : Allows(Order[j], Who(c)) =>
         \E i \in DOMAIN call[c].items : call[c].items[i].db = Order[j])'
  BY <1>1, <1>2 DEF Slots
<1>6. (Visited(c) <= Len(Order))'  BY <1>1, <1>2 DEF Slots
<1>7. (call[c].pc \in {"idle", "refused", "entered", "working"} =>
         call[c].items = <<>> /\ call[c].hidden = 0)'
  BY DEF Slots
<1>8. QED  BY <1>3, <1>4, <1>5, <1>6, <1>7 DEF Slots

\* A step of a call that is neither answered before nor after it.
LEMMA LoggedKept ==
  ASSUME NEW c \in Calls, Logged(c), log'[c] = log[c], call'[c].answer = call[c].answer,
         call[c].pc \notin {"refused", "answered"}, call'[c].pc \notin {"refused", "answered"}
  PROVE  Logged(c)'
BY DEF Logged

\* A step of one call leaves the others alone.
LEMMA OneCall ==
  ASSUME IInv, NEW c \in Calls, conf' = conf,
         NEW new \in CallState, call' = [call EXCEPT ![c] = new],
         NEW lines \in Seq(Line), log' = [log EXCEPT ![c] = lines],
         CallInv(c)'
  PROVE  IInv'
<1>1. Configured' /\ call' \in [Calls -> CallState'] /\ log' \in [Calls -> Seq(Line')]
  BY FrameConf DEF IInv
<1>2. ASSUME NEW e \in Calls, e # c  PROVE CallInv(e)'
  <2>1. call'[e] = call[e] /\ log'[e] = log[e]  BY <1>2 DEF IInv
  <2>2. CallInv(e)  BY DEF IInv
  <2>3. Who(e)' = Who(e) /\ Visited(e)' = Visited(e)  BY <2>1, FrameConf DEF Who, Visited
  <2>4. Admits(e)'  BY <2>1, <2>2, <2>3, FrameConf DEF CallInv, Admits
  <2>5. Slots(e)'  BY <2>1, <2>2, SlotsKept DEF CallInv
  <2>6. Probes(e)'  BY <2>1, <2>2, <2>3, FrameConf DEF CallInv, Probes, Listed
  <2>7. Logged(e)'  BY <2>1, <2>2, FrameConf DEF CallInv, Logged
  <2>8. QED  BY <2>4, <2>5, <2>6, <2>7 DEF CallInv
<1>3. QED  BY <1>1, <1>2 DEF IInv

\* A caller is the identity of the request, or the local one.
LEMMA CallerIs ==
  ASSUME Configured, NEW p \in Identities
  PROVE  /\ Caller(p) \in Identities \cup {Local}
         /\ ~Empty(p) => Caller(p) = p
         /\ ~Empty(Caller(p)) /\ Empty(p) => LocalCaller /\ Caller(p) = Local
<1>1. NoIdentity \in Identities /\ Empty(NoIdentity)
  BY DEF NoIdentity, Identities, Empty
<1>2. QED  BY <1>1 DEF Caller

\* The two allowlists of a database, read as what they mean, let in exactly
\* the callers that config.Database.Allows lets in.
LEMMA AllowsEntitled ==
  ASSUME Configured, NEW d \in Dbs, NEW p \in Identities \cup {Local}
  PROVE  Allows(d, p) <=> Entitled(p, d)
<1> DEFINE u == conf.db[d].users
           g == conf.db[d].groups
<1>1. conf.db[d] \in Configs  BY DEF Configured
<1>2. "" \notin u
  BY <1>1, ToolsAssumption
<1>3. Allows(d, p) <=> \/ u = {} /\ g = {}
                       \/ p.email \in u
                       \/ \E x \in g : x \in p.groups
  BY <1>2 DEF Allows
<1> HIDE DEF u, g
<1> DEFINE entries == ({"user"} \X u) \cup ({"group"} \X g)
           names == ({"user"} \X {p.email}) \cup ({"group"} \X p.groups)
<1>4. entries = {} <=> u = {} /\ g = {}
  <2>1. \A x \in u : <<"user", x>> \in entries  OBVIOUS
  <2>2. \A x \in g : <<"group", x>> \in entries  OBVIOUS
  <2>3. u = {} /\ g = {} => entries = {}  OBVIOUS
  <2>4. QED  BY <2>1, <2>2, <2>3
<1>5. entries \cap names # {} <=> p.email \in u \/ \E x \in g : x \in p.groups
  <2>1. p.email \in u => <<"user", p.email>> \in entries \cap names  OBVIOUS
  <2>2. \A x \in g : x \in p.groups => <<"group", x>> \in entries \cap names  OBVIOUS
  <2>3. ASSUME NEW e \in entries \cap names
        PROVE  p.email \in u \/ \E x \in g : x \in p.groups
    <3>1. CASE e \in {"user"} \X u /\ e \in {"user"} \X {p.email}  BY <3>1
    <3>2. CASE e \in {"group"} \X g /\ e \in {"group"} \X p.groups  BY <3>2
    <3>3. "user" # "group"  OBVIOUS
    <3>4. ~(e \in {"user"} \X u /\ e \in {"group"} \X p.groups)  BY <3>3
    <3>5. ~(e \in {"group"} \X g /\ e \in {"user"} \X {p.email})  BY <3>3
    <3>6. QED  BY <3>1, <3>2, <3>4, <3>5
  <2>4. QED  BY <2>1, <2>2, <2>3
<1>6. Entitled(p, d) <=> (entries # {} => entries \cap names # {})
  BY DEF Entitled, u, g
<1>7. QED  BY <1>3, <1>4, <1>5, <1>6

-----------------------------------------------------------------------------
(* The invariant is inductive *)

LEMMA InitInv == Init => IInv
<1> SUFFICES ASSUME Init PROVE IInv  OBVIOUS
<1>1. Configured
  <2>1. PICK s \in Servers : \E f \in [Range(s.order) -> Configs] :
          conf = [order |-> s.order, local |-> s.local, strict |-> s.strict, db |-> f]
    BY DEF Init
  <2>2. PICK f \in [Range(s.order) -> Configs] :
          conf = [order |-> s.order, local |-> s.local, strict |-> s.strict, db |-> f]
    BY <2>1
  <2>3. Order = s.order /\ Dbs = Range(s.order) /\ conf.local = s.local /\ conf.db = f
    BY <2>2 DEF Order, Dbs
  <2>4. QED  BY <2>3, ToolsAssumption DEF Configured
<1> DEFINE req == [tool |-> "list", db |-> "", extra |-> FALSE, bad |-> "", refused |-> FALSE]
           new == [pc |-> "idle", who |-> NoIdentity, db |-> NoDb, items |-> <<>>, todo |-> {},
                   hidden |-> 0, answer |-> "none", req |-> req]
<1>2. req \in Requests  BY DEF Requests, Tools
<1>3. NoIdentity \in Identities  BY DEF NoIdentity, Identities
<1> HIDE DEF req
<1>4. new \in CallState  BY <1>2, <1>3 DEF CallState
<1>5. /\ new.pc = "idle" /\ new.items = <<>> /\ new.hidden = 0 /\ new.todo = {}
      /\ new.answer = "none"
  OBVIOUS
<1>6. call = [c \in Calls |-> new] /\ log = [c \in Calls |-> <<>>]  BY DEF Init, req
<1> HIDE DEF new
<1>7. call \in [Calls -> CallState] /\ log \in [Calls -> Seq(Line)]  BY <1>4, <1>6
<1>8. ASSUME NEW c \in Calls  PROVE CallInv(c)
  <2>1. call[c] = new /\ log[c] = <<>>  BY <1>6
  <2>2. Admits(c)  BY <1>5, <2>1 DEF Admits
  <2>3. Visited(c) = 0  BY <1>5, <2>1 DEF Visited
  <2>4. Slots(c)  BY <1>1, <1>5, <2>1, <2>3 DEF Slots, Configured
  <2>5. Probes(c)  BY <1>5, <2>1 DEF Probes, Listed
  <2>6. Logged(c)  BY <1>5, <2>1 DEF Logged
  <2>7. QED  BY <2>2, <2>4, <2>5, <2>6 DEF CallInv
<1>9. QED  BY <1>1, <1>7, <1>8 DEF IInv

LEMMA FirstLine ==
  ASSUME NEW c, log[c] \in Seq(Line), Len(log[c]) = 0, NEW line \in Line
  PROVE  /\ Append(log[c], line) \in Seq(Line)
         /\ Len(Append(log[c], line)) = 1 /\ Append(log[c], line)[1] = line
OBVIOUS

\* The end of every call: list_databases answers when its goroutines are done,
\* and a class that says a database was used comes with that database.
LEMMA AnswerInv ==
  ASSUME IInv, NEW c \in Calls, NEW class \in Classes, NEW db \in Dbs \cup {NoDb},
         Answer(c, class, db),
         call[c].pc \in {"entered", "working", "probing"},
         class \in BodyClasses /\ call[c].req.tool # "list" => db \in Dbs,
         call[c].req.tool = "list" /\ class = "" => call[c].pc = "probing",
         call[c].todo = {}
  PROVE  IInv'
<1>1. call[c] \in CallState /\ log[c] \in Seq(Line) /\ Configured  BY DEF IInv
<1>2. Who(c) \in Identities \cup {Local} /\ (~Empty(call[c].who) => Who(c) = call[c].who)
  BY <1>1, CallerIs DEF CallState, Who
<1>3. PICK line \in Line :
        /\ line = [who |-> Who(c), db |-> db, class |-> class]
        /\ line.who = Who(c) /\ line.db = db /\ line.class = class
  <2> DEFINE l == [who |-> Who(c), db |-> db, class |-> class]
  <2>1. l \in Line /\ l.who = Who(c) /\ l.db = db /\ l.class = class  BY <1>2 DEF Line
  <2>2. l = [who |-> Who(c), db |-> db, class |-> class]  OBVIOUS
  <2> HIDE DEF l
  <2>3. QED  BY <2>1, <2>2
<1> DEFINE lines == Append(log[c], line)
<1>4. conf' = conf /\ log' = [log EXCEPT ![c] = lines]
  BY <1>3 DEF Answer, Who
<1>5. PICK a \in {"ok", "error"} :
        /\ a = "ok" => class = ""
        /\ call' = [call EXCEPT ![c].pc = "answered", ![c].answer = a, ![c].db = db]
  BY DEF Answer
<1> DEFINE new == [call[c] EXCEPT !.pc = "answered", !.answer = a, !.db = db]
<1>6. /\ new \in CallState /\ new.pc = "answered" /\ new.answer = a
      /\ new.who = call[c].who /\ new.req = call[c].req /\ new.items = call[c].items
      /\ new.todo = {} /\ new.hidden = call[c].hidden
  BY <1>1 DEF CallState
<1>7. call' = [call EXCEPT ![c] = new]  BY <1>5
<1>8. Len(log[c]) = 0  BY DEF IInv, CallInv, Logged
<1>9. lines \in Seq(Line) /\ Len(lines) = 1 /\ lines[1] = line
  BY <1>1, <1>8, FirstLine
<1> HIDE DEF new, lines
<1>10. call'[c] = new /\ log'[c] = lines /\ Len(log'[c]) = 1 /\ log'[c][1] = line
  BY <1>4, <1>7, <1>9 DEF IInv
<1>11. CallInv(c)  BY DEF IInv
<1>12. Who(c)' = Who(c) /\ Visited(c)' = Visited(c)
  BY <1>4, <1>6, <1>10, FrameConf DEF Who, Visited
<1>13. Admits(c)'  BY <1>6, <1>10 DEF Admits
<1>14. Slots(c)'  BY <1>4, <1>6, <1>10, <1>11, SlotsKept DEF CallInv
<1>15. Probes(c)'
  <2>1. Listed(c)' => call[c].pc = "probing"
    BY <1>3, <1>6, <1>10 DEF Listed
  <2>2. QED  BY <1>4, <1>6, <1>10, <1>11, <1>12, <2>1, FrameConf DEF CallInv, Probes
<1>16. Logged(c)'
  BY <1>2, <1>3, <1>4, <1>5, <1>6, <1>10, FrameConf DEF Logged
<1>17. CallInv(c)'  BY <1>13, <1>14, <1>15, <1>16 DEF CallInv
<1>18. QED  BY <1>4, <1>6, <1>7, <1>9, <1>17, OneCall

LEMMA ArriveInv ==
  ASSUME IInv, NEW c \in Calls, Arrive(c)
  PROVE  IInv'
<1>1. call[c] \in CallState /\ call[c].pc = "idle" /\ conf' = conf /\ log' = log
  BY DEF IInv, Arrive
<1>2. PICK p \in Identities, r \in Requests :
        call' = [call EXCEPT ![c].pc = "entered", ![c].who = p, ![c].req = r]
  <2>1. NoIdentity \in Identities  BY DEF NoIdentity, Identities
  <2>2. QED  BY <2>1 DEF Arrive, Senders
<1> DEFINE new == [call[c] EXCEPT !.pc = "entered", !.who = p, !.req = r]
<1>3. /\ new \in CallState /\ new.pc = "entered" /\ new.items = call[c].items
      /\ new.todo = call[c].todo /\ new.hidden = call[c].hidden
      /\ new.answer = call[c].answer
  BY <1>1 DEF CallState
<1>4. call' = [call EXCEPT ![c] = new]  BY <1>2
<1> HIDE DEF new
<1>5. call'[c] = new /\ log'[c] = log[c]  BY <1>1, <1>4 DEF IInv
<1>6. CallInv(c) /\ Configured  BY DEF IInv
<1>7. call[c].items = <<>> /\ call[c].hidden = 0 /\ call[c].todo = {} /\ Len(log[c]) = 0
  BY <1>1, <1>6 DEF CallInv, Slots, Probes, Logged
<1>8. Visited(c)' = 0  BY <1>3, <1>5, <1>7 DEF Visited
<1>9. Admits(c)'  BY <1>3, <1>5 DEF Admits
<1>10. Slots(c)'
  BY <1>1, <1>3, <1>5, <1>6, <1>7, <1>8, FrameConf DEF Slots, Configured
<1>11. Probes(c)'  BY <1>3, <1>5, <1>7 DEF Probes, Listed
<1>12. Logged(c)'  BY LoggedKept, <1>1, <1>3, <1>5, <1>6 DEF CallInv
<1>13. log[c] \in Seq(Line) /\ log' = [log EXCEPT ![c] = log[c]]  BY <1>1 DEF IInv
<1>14. CallInv(c)'  BY <1>9, <1>10, <1>11, <1>12 DEF CallInv
<1>15. QED  BY <1>1, <1>3, <1>4, <1>13, <1>14, OneCall

\* A call that the server answers itself has touched nothing.
LEMMA RefuseInv ==
  ASSUME IInv, NEW c \in Calls, Refuse(c)
  PROVE  IInv'
<1>1. call[c] \in CallState /\ call[c].pc = "idle" /\ conf' = conf /\ log' = log
  BY DEF IInv, Refuse
<1>2. PICK p \in Identities, r \in Requests :
        /\ ~Passes(r)
        /\ call' = [call EXCEPT ![c].pc = "refused", ![c].answer = "error",
                                ![c].who = p, ![c].req = r]
  <2>1. NoIdentity \in Identities  BY DEF NoIdentity, Identities
  <2>2. QED  BY <2>1 DEF Refuse, Senders
<1> DEFINE new == [call[c] EXCEPT !.pc = "refused", !.answer = "error", !.who = p, !.req = r]
<1>3. /\ new \in CallState /\ new.pc = "refused" /\ new.items = call[c].items
      /\ new.todo = call[c].todo /\ new.hidden = call[c].hidden
      /\ new.req = r
  BY <1>1 DEF CallState
<1>4. call' = [call EXCEPT ![c] = new]  BY <1>2
<1> HIDE DEF new
<1>5. call'[c] = new /\ log'[c] = log[c]  BY <1>1, <1>4 DEF IInv
<1>6. CallInv(c) /\ Configured  BY DEF IInv
<1>7. call[c].items = <<>> /\ call[c].hidden = 0 /\ call[c].todo = {} /\ Len(log[c]) = 0
  BY <1>1, <1>6 DEF CallInv, Slots, Probes, Logged
<1>8. Visited(c)' = 0  BY <1>3, <1>5, <1>7 DEF Visited
<1>9. Admits(c)'  BY <1>3, <1>5 DEF Admits
<1>10. Slots(c)'
  BY <1>1, <1>3, <1>5, <1>6, <1>7, <1>8, FrameConf DEF Slots, Configured
<1>11. Probes(c)'  BY <1>3, <1>5, <1>7 DEF Probes, Listed
<1>12. Logged(c)'  BY <1>1, <1>2, <1>3, <1>5, <1>7, FrameConf DEF Logged
<1>13. log[c] \in Seq(Line) /\ log' = [log EXCEPT ![c] = log[c]]  BY <1>1 DEF IInv
<1>14. CallInv(c)'  BY <1>9, <1>10, <1>11, <1>12 DEF CallInv
<1>15. QED  BY <1>1, <1>3, <1>4, <1>13, <1>14, OneCall

LEMMA RejectInv ==
  ASSUME IInv, NEW c \in Calls, Reject(c)
  PROVE  IInv'
<1>1. PICK class \in {"no_caller", "bad_argument"} : Answer(c, class, NoDb)
  BY DEF Reject
<1>2. call[c].pc = "entered"  BY DEF Reject
<1>3. call[c].todo = {}  BY <1>2 DEF IInv, CallInv, Probes
<1>4. class \in Classes /\ class \notin BodyClasses /\ class # ""
  BY DEF Classes, BodyClasses
<1>5. QED  BY <1>1, <1>2, <1>3, <1>4, AnswerInv

\* What Deps.database and the handlers answer: a database is reached only
\* through its allowlist.
LEMMA Refusals ==
  ASSUME IInv, NEW r \in Requests, NEW p
  PROVE  /\ DatabaseRefusal(r, p) \in {"", "no_databases", "bad_argument", "forbidden"}
         /\ DatabaseRefusal(r, p) = "" => NamedDb(r) \in Dbs /\ Allows(NamedDb(r), p)
         /\ TextRefusal(r) \in {"", "bad_argument", "sql_rejected"}
<1>1. Len(Order) \in Nat  BY DEF IInv, Configured
<1>2. /\ DatabaseRefusal(r, p) \in {"", "no_databases", "bad_argument", "forbidden"}
      /\ DatabaseRefusal(r, p) = "" => NamedDb(r) \in Dbs /\ Allows(NamedDb(r), p)
  <2> DEFINE d == NamedDb(r)
  <2> HIDE DEF d
  <2>1. DatabaseRefusal(r, p) =
          CASE Len(Order) = 0 -> "no_databases"
            [] Len(Order) > 0 /\ d \notin Dbs -> "bad_argument"
            [] Len(Order) > 0 /\ d \in Dbs /\ ~Allows(d, p) -> "forbidden"
            [] OTHER -> ""
    BY DEF DatabaseRefusal, d
  <2>2. CASE Len(Order) = 0  BY <2>1, <2>2
  <2>3. CASE Len(Order) > 0 /\ d \notin Dbs  BY <2>1, <2>3
  <2>4. CASE Len(Order) > 0 /\ d \in Dbs /\ ~Allows(d, p)  BY <2>1, <2>4
  <2>5. CASE Len(Order) > 0 /\ d \in Dbs /\ Allows(d, p)  BY <2>1, <2>5 DEF d
  <2>6. Len(Order) = 0 \/ Len(Order) > 0  BY <1>1
  <2>7. QED  BY <2>2, <2>3, <2>4, <2>5, <2>6
<1>3. TextRefusal(r) \in {"", "bad_argument", "sql_rejected"}  BY DEF TextRefusal
<1>4. QED  BY <1>2, <1>3

LEMMA HandleInv ==
  ASSUME IInv, NEW c \in Calls, Handle(c)
  PROVE  IInv'
<1> DEFINE r == call[c].req
           no == DatabaseRefusal(r, Who(c))
<1>1. /\ call[c] \in CallState /\ r \in Requests /\ r.tool # "list"
      /\ call[c].pc = "entered" /\ ~Empty(Who(c))
  BY DEF IInv, Handle, Admitted, CallState, Who
<1>2. call[c].todo = {}  BY <1>1 DEF IInv, CallInv, Probes
<1>3. /\ no \in {"", "no_databases", "bad_argument", "forbidden"}
      /\ no = "" => NamedDb(r) \in Dbs /\ Allows(NamedDb(r), Who(c))
      /\ TextRefusal(r) \in {"", "bad_argument", "sql_rejected"}
  BY <1>1, Refusals
<1>4. \/ no # "" /\ Answer(c, no, NoDb)
      \/ no = "" /\ TextRefusal(r) # "" /\ Answer(c, TextRefusal(r), NamedDb(r))
      \/ /\ no = "" /\ TextRefusal(r) = ""
         /\ call' = [call EXCEPT ![c].pc = "working", ![c].db = NamedDb(r)]
         /\ UNCHANGED <<conf, log>>
  BY DEF Handle, Who
<1>5. {"no_databases", "bad_argument", "forbidden", "sql_rejected"} \subseteq Classes \ BodyClasses
  BY DEF Classes, BodyClasses
<1> HIDE DEF no
<1>6. CASE no # "" /\ Answer(c, no, NoDb)
  BY <1>1, <1>2, <1>3, <1>5, <1>6, AnswerInv
<1>7. CASE no = "" /\ TextRefusal(r) # "" /\ Answer(c, TextRefusal(r), NamedDb(r))
  BY <1>1, <1>2, <1>3, <1>5, <1>7, AnswerInv
<1>8. CASE /\ no = ""
           /\ call' = [call EXCEPT ![c].pc = "working", ![c].db = NamedDb(r)]
           /\ UNCHANGED <<conf, log>>
  <2>1. PICK d \in Dbs : d = NamedDb(r) /\ Allows(d, Who(c))  BY <1>3, <1>8
  <2> DEFINE new == [call[c] EXCEPT !.pc = "working", !.db = d]
  <2>2. /\ new \in CallState /\ new.pc = "working" /\ new.db = d
        /\ new.who = call[c].who /\ new.req = call[c].req /\ new.items = call[c].items
        /\ new.todo = call[c].todo /\ new.hidden = call[c].hidden
        /\ new.answer = call[c].answer
    BY <1>1 DEF CallState
  <2>3. call' = [call EXCEPT ![c] = new] /\ conf' = conf /\ log' = log  BY <1>8, <2>1
  <2> HIDE DEF new
  <2>4. call'[c] = new /\ log'[c] = log[c]  BY <2>3 DEF IInv
  <2>5. CallInv(c)  BY DEF IInv
  <2>6. Who(c)' = Who(c) /\ Visited(c)' = Visited(c)
    BY <2>2, <2>3, <2>4, FrameConf DEF Who, Visited
  <2>7. Admits(c)'  BY <1>1, <2>1, <2>2, <2>3, <2>4, <2>6, FrameConf DEF Admits
  <2>8. Slots(c)'
    BY <1>1, <2>2, <2>3, <2>4, <2>5, SlotsKept DEF CallInv
  <2>9. Probes(c)'  BY <1>1, <2>2, <2>4, <2>5 DEF CallInv, Probes, Listed
  <2>10. Logged(c)'  BY LoggedKept, <1>1, <2>2, <2>4, <2>5 DEF CallInv
  <2>11. log[c] \in Seq(Line) /\ log' = [log EXCEPT ![c] = log[c]]  BY <2>3 DEF IInv
  <2>12. CallInv(c)'  BY <2>7, <2>8, <2>9, <2>10 DEF CallInv
  <2>13. QED  BY <2>2, <2>3, <2>11, <2>12, OneCall
<1>9. QED  BY <1>4, <1>6, <1>7, <1>8

LEMMA FinishInv ==
  ASSUME IInv, NEW c \in Calls, Finish(c)
  PROVE  IInv'
<1>1. PICK class \in BodyClasses : Answer(c, class, call[c].db)  BY DEF Finish
<1>2. call[c].pc = "working"  BY DEF Finish
<1>3. call[c].db \in Dbs /\ call[c].req.tool # "list" /\ call[c].todo = {}
  BY <1>2 DEF IInv, CallInv, Admits, Probes
<1>4. class \in Classes  BY DEF Classes, BodyClasses
<1>5. QED  BY <1>1, <1>2, <1>3, <1>4, AnswerInv

LEMMA JoinInv ==
  ASSUME IInv, NEW c \in Calls, Join(c)
  PROVE  IInv'
<1>1. Answer(c, "", NoDb) /\ call[c].pc = "probing" /\ call[c].todo = {}
  BY DEF Join, Joined
<1>2. call[c].req.tool = "list"  BY <1>1 DEF IInv, CallInv, Admits
<1>3. "" \in Classes  BY DEF Classes
<1>4. QED  BY <1>1, <1>2, <1>3, AnswerInv

LEMMA ListInv ==
  ASSUME IInv, NEW c \in Calls, List(c)
  PROVE  IInv'
<1>1. /\ call[c] \in CallState /\ call[c].pc = "entered" /\ ~Empty(Who(c))
      /\ call[c].req.tool = "list" /\ conf' = conf /\ log' = log
      /\ call' = [call EXCEPT ![c].pc = "listing"]
  BY DEF IInv, List, Admitted, Who
<1> DEFINE new == [call[c] EXCEPT !.pc = "listing"]
<1>2. /\ new \in CallState /\ new.pc = "listing" /\ new.who = call[c].who
      /\ new.req = call[c].req /\ new.items = call[c].items
      /\ new.todo = call[c].todo /\ new.hidden = call[c].hidden
      /\ new.answer = call[c].answer
  BY <1>1 DEF CallState
<1>3. call' = [call EXCEPT ![c] = new]  BY <1>1
<1> HIDE DEF new
<1>4. call'[c] = new /\ log'[c] = log[c]  BY <1>1, <1>3 DEF IInv
<1>5. CallInv(c)  BY DEF IInv
<1>6. Who(c)' = Who(c) /\ Visited(c)' = Visited(c)
  BY <1>1, <1>2, <1>4, FrameConf DEF Who, Visited
<1>7. Admits(c)'  BY <1>1, <1>2, <1>4, <1>6 DEF Admits
<1>8. Slots(c)'
  BY <1>1, <1>2, <1>4, <1>5, SlotsKept DEF CallInv
<1>9. Probes(c)'  BY <1>1, <1>2, <1>4, <1>5 DEF CallInv, Probes, Listed
<1>10. Logged(c)'  BY LoggedKept, <1>1, <1>2, <1>4, <1>5 DEF CallInv
<1>11. log[c] \in Seq(Line) /\ log' = [log EXCEPT ![c] = log[c]]  BY <1>1 DEF IInv
<1>12. CallInv(c)'  BY <1>7, <1>8, <1>9, <1>10 DEF CallInv
<1>13. QED  BY <1>1, <1>2, <1>3, <1>11, <1>12, OneCall

\* The loop over the databases: one more is kept or counted.
LEMMA VisitInv ==
  ASSUME IInv, NEW c \in Calls, Visit(c)
  PROVE  IInv'
<1>1. /\ call[c] \in CallState /\ call[c].pc = "listing" /\ Visited(c) < Len(Order)
      /\ conf' = conf /\ log' = log /\ Configured /\ CallInv(c)
  BY DEF IInv, Visit
<1>2. call[c].items \in Seq(Item) /\ call[c].hidden \in Nat  BY <1>1 DEF CallState
<1>3. Visited(c) \in Nat /\ Len(Order) \in Nat /\ Visited(c) + 1 \in 1 .. Len(Order)
  BY <1>1, <1>2 DEF Visited, Configured
<1>4. PICK d \in Dbs : d = Order[Visited(c) + 1]  BY <1>1, <1>3 DEF Configured
<1> DEFINE Next1(items, n) ==
      /\ call' = [call EXCEPT ![c] = [call[c] EXCEPT !.items = items, !.hidden = n]]
      /\ Len(items) + n = Visited(c) + 1
      /\ \A i \in DOMAIN call[c].items : i \in DOMAIN items /\ items[i] = call[c].items[i]
      /\ \A i \in DOMAIN items : i \in DOMAIN call[c].items \/
           (items[i].db = d /\ items[i].probed = NoDb /\ Allows(d, Who(c)))
      /\ Allows(d, Who(c)) => \E i \in DOMAIN items : items[i].db = d
<1>5. PICK items \in Seq(Item), n \in Nat : Next1(items, n)
  <2>1. CASE Allows(d, Who(c))
    <3>1. PICK slot \in Item : slot = Slot(d) /\ slot.db = d /\ slot.probed = NoDb
      <4>1. Slot(d) \in Item /\ Slot(d).db = d /\ Slot(d).probed = NoDb
        BY DEF Slot, Item, BodyClasses
      <4>2. QED  BY <4>1
    <3> DEFINE items == Append(call[c].items, slot)
    <3>2. /\ items \in Seq(Item) /\ Len(items) = Len(call[c].items) + 1
          /\ DOMAIN items = 1 .. Len(call[c].items) + 1
          /\ \A i \in 1 .. Len(call[c].items) : items[i] = call[c].items[i]
          /\ items[Len(call[c].items) + 1] = slot
      BY <1>2
    <3>3. call' = [call EXCEPT ![c].items = items]
      BY <1>4, <2>1, <3>1 DEF Visit, Who
    <3>4. call' = [call EXCEPT ![c] = [call[c] EXCEPT !.items = items, !.hidden = call[c].hidden]]
      BY <1>1, <3>3 DEF CallState
    <3> HIDE DEF items
    <3>5. DOMAIN call[c].items = 1 .. Len(call[c].items) /\ Len(call[c].items) \in Nat
      BY <1>2
    <3>6. Len(items) + call[c].hidden = Visited(c) + 1
      <4>1. Len(items) = Len(call[c].items) + 1  BY <3>2
      <4>2. QED  BY <1>2, <3>5, <4>1 DEF Visited
    <3>7. \A i \in DOMAIN call[c].items : i \in DOMAIN items /\ items[i] = call[c].items[i]
      BY <3>2, <3>5
    <3>8. \A i \in DOMAIN items : i \in DOMAIN call[c].items \/
            (items[i].db = d /\ items[i].probed = NoDb)
      BY <3>1, <3>2, <3>5
    <3>9. Len(call[c].items) + 1 \in DOMAIN items  BY <3>2, <3>5
    <3>10. \E i \in DOMAIN items : items[i].db = d  BY <3>1, <3>2, <3>9
    <3>11. Next1(items, call[c].hidden)  BY <2>1, <3>4, <3>6, <3>7, <3>8, <3>10
    <3> HIDE DEF Next1
    <3>12. QED  BY <1>2, <3>2, <3>11
  <2>2. CASE ~Allows(d, Who(c))
    <3>1. call' = [call EXCEPT ![c].hidden = call[c].hidden + 1]
      BY <1>4, <2>2 DEF Visit, Who
    <3>2. call' = [call EXCEPT ![c] =
                     [call[c] EXCEPT !.items = call[c].items, !.hidden = call[c].hidden + 1]]
      BY <1>1, <3>1 DEF CallState
    <3>3. Len(call[c].items) + (call[c].hidden + 1) = Visited(c) + 1  BY <1>2 DEF Visited
    <3>4. Next1(call[c].items, call[c].hidden + 1)  BY <2>2, <3>2, <3>3
    <3>5. call[c].hidden + 1 \in Nat  BY <1>2
    <3> HIDE DEF Next1
    <3>6. QED  BY <1>2, <3>4, <3>5
  <2>3. QED  BY <2>1, <2>2
<1> DEFINE new == [call[c] EXCEPT !.items = items, !.hidden = n]
<1>6. /\ new \in CallState /\ new.pc = "listing" /\ new.who = call[c].who
      /\ new.req = call[c].req /\ new.items = items
      /\ new.todo = call[c].todo /\ new.hidden = n
      /\ new.answer = call[c].answer
  BY <1>1 DEF CallState
<1> HIDE DEF new
<1>7. call' = [call EXCEPT ![c] = new]  BY <1>5 DEF new
<1>8. call'[c] = new /\ log'[c] = log[c]  BY <1>1, <1>7 DEF IInv
<1>9. Who(c)' = Who(c) /\ Visited(c)' = Visited(c) + 1
  BY <1>1, <1>5, <1>6, <1>8, FrameConf DEF Who, Visited
<1>10. Admits(c)'  BY <1>1, <1>6, <1>8, <1>9 DEF CallInv, Admits
<1>11. Slots(c)'
  <2>1. ~Empty(Who(c))  BY <1>1 DEF CallInv, Admits
  <2>2. \A i \in DOMAIN items :
          Allows(items[i].db, Who(c)) /\ items[i].probed \in {NoDb, items[i].db}
    BY <1>1, <1>5 DEF CallInv, Slots
  <2>3. ASSUME NEW j \in 1 .. Visited(c) + 1, Allows(Order[j], Who(c))
        PROVE  \E i \in DOMAIN items : items[i].db = Order[j]
    <3>1. CASE j \in 1 .. Visited(c)  BY <1>1, <1>5, <2>3, <3>1 DEF CallInv, Slots
    <3>2. CASE j = Visited(c) + 1  BY <1>4, <1>5, <2>3, <3>2
    <3>3. QED  BY <1>3, <3>1, <3>2
  <2>4. /\ Order' = Order /\ Who(c)' = Who(c) /\ Visited(c)' = Visited(c) + 1
        /\ call'[c].items = items /\ call'[c].pc = "listing"
    BY <1>1, <1>6, <1>8, <1>9, FrameConf
  <2>5. \A e : Allows(e, Who(c))' <=> Allows(e, Who(c))  BY <1>1, <2>4, FrameConf
  <2>6. (call[c].items # <<>> => ~Empty(Who(c)))'  BY <2>1, <2>4 DEF Empty
  <2>7. (\A i \in DOMAIN call[c].items :
           /\ Allows(call[c].items[i].db, Who(c))
           /\ call[c].items[i].probed \in {NoDb, call[c].items[i].db})'
    BY <2>2, <2>4, <2>5
  <2>8. (Visited(c) <= Len(Order))'  BY <1>1, <1>3, <2>4
  <2>9. (\A j \in 1 .. Visited(c) : Allows(Order[j], Who(c)) =>
           \E i \in DOMAIN call[c].items : call[c].items[i].db = Order[j])'
    BY <2>3, <2>4, <2>5
  <2>10. QED  BY <2>4, <2>6, <2>7, <2>8, <2>9 DEF Slots
<1>12. Probes(c)'  BY <1>1, <1>6, <1>8 DEF CallInv, Probes, Listed
<1>13. Logged(c)'  BY LoggedKept, <1>1, <1>6, <1>8 DEF CallInv
<1>14. log[c] \in Seq(Line) /\ log' = [log EXCEPT ![c] = log[c]]  BY <1>1 DEF IInv
<1>15. CallInv(c)'  BY <1>10, <1>11, <1>12, <1>13 DEF CallInv
<1>16. QED  BY <1>1, <1>6, <1>7, <1>14, <1>15, OneCall

LEMMA SpawnInv ==
  ASSUME IInv, NEW c \in Calls, Spawn(c)
  PROVE  IInv'
<1>1. /\ call[c] \in CallState /\ call[c].pc = "listing" /\ Visited(c) = Len(Order)
      /\ conf' = conf /\ log' = log /\ CallInv(c)
      /\ call' = [call EXCEPT ![c].pc = "probing", ![c].todo = DOMAIN call[c].items]
  BY DEF IInv, Spawn
<1>2. call[c].items \in Seq(Item)  BY <1>1 DEF CallState
<1>3. PICK todo \in SUBSET Nat : todo = DOMAIN call[c].items  BY <1>2
<1> DEFINE new == [call[c] EXCEPT !.pc = "probing", !.todo = todo]
<1>4. /\ new \in CallState /\ new.pc = "probing" /\ new.who = call[c].who
      /\ new.req = call[c].req /\ new.items = call[c].items
      /\ new.todo = todo /\ new.hidden = call[c].hidden
      /\ new.answer = call[c].answer
  BY <1>1 DEF CallState
<1>5. call' = [call EXCEPT ![c] = new]  BY <1>1, <1>3
<1> HIDE DEF new
<1>6. call'[c] = new /\ log'[c] = log[c]  BY <1>1, <1>5 DEF IInv
<1>7. Who(c)' = Who(c) /\ Visited(c)' = Visited(c)
  BY <1>1, <1>4, <1>6, FrameConf DEF Who, Visited
<1>8. Admits(c)'  BY <1>1, <1>4, <1>6, <1>7 DEF CallInv, Admits
<1>9. Slots(c)'  BY <1>1, <1>4, <1>6, SlotsKept DEF CallInv
<1>10. Probes(c)'
  BY <1>1, <1>3, <1>4, <1>6, <1>7, FrameConf DEF Probes, Listed
<1>11. Logged(c)'  BY LoggedKept, <1>1, <1>4, <1>6 DEF CallInv
<1>12. log[c] \in Seq(Line) /\ log' = [log EXCEPT ![c] = log[c]]  BY <1>1 DEF IInv
<1>13. CallInv(c)'  BY <1>8, <1>9, <1>10, <1>11 DEF CallInv
<1>14. QED  BY <1>1, <1>4, <1>5, <1>12, <1>13, OneCall

\* The goroutine of a slot writes into that slot alone.
LEMMA ProbeInv ==
  ASSUME IInv, NEW c \in Calls, NEW k \in 1 .. Len(Order), Probe(c, k)
  PROVE  IInv'
<1>1. /\ call[c] \in CallState /\ call[c].pc = "probing" /\ k \in call[c].todo
      /\ conf' = conf /\ log' = log /\ CallInv(c)
  BY DEF IInv, Probe
<1>2. call[c].items \in Seq(Item)  BY <1>1 DEF CallState
<1>3. k \in DOMAIN call[c].items  BY <1>1 DEF CallInv, Probes
<1>4. PICK class \in BodyClasses :
        call' = [call EXCEPT ![c].todo = @ \ {k}, ![c].items[k] =
                   [@ EXCEPT !.probed = call[c].items[k].db, !.class = class]]
  BY DEF Probe, SlotOf
<1>5. PICK slot \in Item :
        /\ slot = [call[c].items[k] EXCEPT !.probed = call[c].items[k].db, !.class = class]
        /\ slot.db = call[c].items[k].db /\ slot.probed = slot.db
  <2>1. PICK x \in Item : x = call[c].items[k]  BY <1>2, <1>3
  <2> DEFINE y == [x EXCEPT !.probed = x.db, !.class = class]
  <2>2. y \in Item /\ y.db = x.db /\ y.probed = x.db  BY DEF Item
  <2>3. QED  BY <2>1, <2>2
<1> DEFINE items == [call[c].items EXCEPT ![k] = slot]
           new == [call[c] EXCEPT !.todo = call[c].todo \ {k}, !.items = items]
<1>6. /\ items \in Seq(Item) /\ DOMAIN items = DOMAIN call[c].items
      /\ Len(items) = Len(call[c].items)
      /\ \A i \in DOMAIN items : items[i] = IF i = k THEN slot ELSE call[c].items[i]
  BY <1>2, <1>3
<1>7. call' = [call EXCEPT ![c] = new]  BY <1>1, <1>4, <1>5 DEF CallState
<1> HIDE DEF items
<1>8. /\ new \in CallState /\ new.pc = "probing" /\ new.who = call[c].who
      /\ new.req = call[c].req /\ new.items = items
      /\ new.todo = call[c].todo \ {k} /\ new.hidden = call[c].hidden
      /\ new.answer = call[c].answer
  BY <1>1, <1>6 DEF CallState
<1> HIDE DEF new
<1>9. call'[c] = new /\ log'[c] = log[c]  BY <1>1, <1>7 DEF IInv
<1>10. Who(c)' = Who(c) /\ Visited(c)' = Visited(c)
  BY <1>1, <1>6, <1>8, <1>9, FrameConf DEF Who, Visited
<1>11. Admits(c)'  BY <1>1, <1>8, <1>9, <1>10 DEF CallInv, Admits
<1>12. Slots(c)'
  <2>1. ~Empty(Who(c))  BY <1>1 DEF CallInv, Admits
  <2>2. \A i \in DOMAIN items : items[i].db = call[c].items[i].db  BY <1>5, <1>6
  <2>3. \A i \in DOMAIN items :
          Allows(items[i].db, Who(c)) /\ items[i].probed \in {NoDb, items[i].db}
    BY <1>1, <1>5, <1>6, <2>2 DEF CallInv, Slots
  <2>4. \A j \in 1 .. Visited(c) : Allows(Order[j], Who(c)) =>
          \E i \in DOMAIN items : items[i].db = Order[j]
    BY <1>1, <1>6, <2>2 DEF CallInv, Slots
  <2>5. Visited(c) <= Len(Order)  BY <1>1 DEF CallInv, Slots
  <2>6. QED
    BY <1>1, <1>8, <1>9, <1>10, <2>1, <2>3, <2>4, <2>5, FrameConf DEF Slots
<1>13. Probes(c)'
  <2>1. call[c].todo \subseteq DOMAIN items  BY <1>1, <1>6 DEF CallInv, Probes
  <2>2. Visited(c) = Len(Order)  BY <1>1 DEF CallInv, Probes
  <2>3. \A i \in DOMAIN items : i \notin call[c].todo \ {k} => items[i].probed = items[i].db
    <3>1. \A i \in DOMAIN call[c].items :
            i \notin call[c].todo => call[c].items[i].probed = call[c].items[i].db
      BY <1>1 DEF CallInv, Probes
    <3>2. QED  BY <1>5, <1>6, <3>1
  <2>4. QED  BY <1>1, <1>8, <1>9, <1>10, <2>1, <2>2, <2>3, FrameConf DEF Probes
<1>14. Logged(c)'  BY LoggedKept, <1>1, <1>8, <1>9 DEF CallInv
<1>15. log[c] \in Seq(Line) /\ log' = [log EXCEPT ![c] = log[c]]  BY <1>1 DEF IInv
<1>16. CallInv(c)'  BY <1>11, <1>12, <1>13, <1>14 DEF CallInv
<1>17. QED  BY <1>1, <1>7, <1>8, <1>15, <1>16, OneCall

LEMMA StutterInv == IInv /\ UNCHANGED vars => IInv'
<1> SUFFICES ASSUME IInv, UNCHANGED vars PROVE IInv'  OBVIOUS
<1>1. conf' = conf /\ call' = call /\ log' = log  BY DEF vars
<1>2. Configured' /\ call' \in [Calls -> CallState'] /\ log' \in [Calls -> Seq(Line')]
  BY <1>1, FrameConf DEF IInv
<1>3. ASSUME NEW c \in Calls  PROVE CallInv(c)'
  <2>1. CallInv(c)  BY DEF IInv
  <2>2. Who(c)' = Who(c) /\ Visited(c)' = Visited(c)
    BY <1>1, FrameConf DEF Who, Visited
  <2>3. Admits(c)'  BY <1>1, <2>1, <2>2, FrameConf DEF CallInv, Admits
  <2>4. Slots(c)'  BY <1>1, <2>1, <2>2, FrameConf DEF CallInv, Slots
  <2>5. Probes(c)'  BY <1>1, <2>1, <2>2, FrameConf DEF CallInv, Probes, Listed
  <2>6. Logged(c)'  BY <1>1, <2>1, FrameConf DEF CallInv, Logged
  <2>7. QED  BY <2>3, <2>4, <2>5, <2>6 DEF CallInv
<1>4. QED  BY <1>2, <1>3 DEF IInv

LEMMA NextInv == IInv /\ [Next]_vars => IInv'
<1> SUFFICES ASSUME IInv, [Next]_vars PROVE IInv'  OBVIOUS
<1>1. ASSUME NEW c \in Calls, Refuse(c) \/ Arrive(c)  PROVE IInv'
  BY <1>1, RefuseInv, ArriveInv
<1>2. ASSUME NEW c \in Calls, Reject(c)  PROVE IInv'  BY <1>2, RejectInv
<1>3. ASSUME NEW c \in Calls, Handle(c)  PROVE IInv'  BY <1>3, HandleInv
<1>4. ASSUME NEW c \in Calls, Finish(c)  PROVE IInv'  BY <1>4, FinishInv
<1>5. ASSUME NEW c \in Calls, List(c)  PROVE IInv'  BY <1>5, ListInv
<1>6. ASSUME NEW c \in Calls, Visit(c)  PROVE IInv'  BY <1>6, VisitInv
<1>7. ASSUME NEW c \in Calls, Spawn(c)  PROVE IInv'  BY <1>7, SpawnInv
<1>8. ASSUME NEW c \in Calls, Join(c)  PROVE IInv'  BY <1>8, JoinInv
<1>9. ASSUME NEW c \in Calls, NEW i \in 1 .. Len(Order), Probe(c, i)  PROVE IInv'
  BY <1>9, ProbeInv
<1>10. CASE Quiet \/ UNCHANGED vars  BY <1>10, StutterInv DEF Quiet
<1>11. QED
  BY <1>1, <1>2, <1>3, <1>4, <1>5, <1>6, <1>7, <1>8, <1>9, <1>10 DEF Next

\* The invariant holds of every behaviour of the tool calls.
THEOREM Invariant == Spec => []IInv
BY InitInv, NextInv, PTL DEF Spec

-----------------------------------------------------------------------------
(* What the runs check *)

\* No database is worked on, probed or named for a caller without an identity
\* or outside its allowlist, whatever the arguments, the configuration and the
\* number of calls (caller, database, registerListDatabases).
THEOREM Entitlement == Spec => []OnlyEntitled
<1>1. IInv => OnlyEntitled
  <2> SUFFICES ASSUME IInv, NEW c \in Calls, NEW d \in Touched(c)
               PROVE  \/ ~Empty(call[c].who) /\ Entitled(call[c].who, d)
                      \/ LocalCaller /\ Empty(call[c].who) /\ Entitled(Local, d)
    BY DEF OnlyEntitled
  <2>1. call[c] \in CallState /\ CallInv(c) /\ Configured  BY DEF IInv
  <2>2. call[c].who \in Identities /\ call[c].items \in Seq(Item)
    BY <2>1 DEF CallState
  <2>3. d \in Dbs /\ Allows(d, Who(c)) /\ ~Empty(Who(c))
    <3>1. CASE call[c].pc = "working" /\ d = call[c].db
      BY <2>1, <3>1 DEF CallInv, Admits
    <3>2. CASE \E i \in DOMAIN call[c].items :
                 d # NoDb /\ d \in {call[c].items[i].db, call[c].items[i].probed}
      <4>1. PICK i \in DOMAIN call[c].items :
              d # NoDb /\ d \in {call[c].items[i].db, call[c].items[i].probed}
        BY <3>2
      <4>2. call[c].items[i] \in Item /\ call[c].items # <<>>  BY <2>2
      <4>3. call[c].items[i].db \in Dbs  BY <4>2 DEF Item
      <4>4. /\ Allows(call[c].items[i].db, Who(c)) /\ ~Empty(Who(c))
            /\ call[c].items[i].probed \in {NoDb, call[c].items[i].db}
        BY <2>1, <4>2 DEF CallInv, Slots
      <4>5. d = call[c].items[i].db  BY <4>1, <4>4
      <4>6. QED  BY <4>3, <4>4, <4>5
    <3>3. QED  BY <3>1, <3>2 DEF Touched
  <2>4. Entitled(Who(c), d)  BY <2>1, <2>2, <2>3, CallerIs, AllowsEntitled DEF Who
  <2>5. QED  BY <2>1, <2>2, <2>3, <2>4, CallerIs DEF Who
<1>2. QED  BY <1>1, Invariant, PTL

\* Every call that reaches wrap writes exactly one audit line, no later than its
\* answer, and the line names the caller, the outcome and the database; only a
\* call whose arguments break the declared schema, or whose tool is not there,
\* is answered without one (wrap; the validation that serve switches on).
THEOREM Audited == Spec => []AuditedOnce
<1>1. IInv => TypeOK
  <2> SUFFICES ASSUME IInv PROVE TypeOK  OBVIOUS
  <2>1. conf.db \in [Dbs -> Configs]  BY DEF IInv, Configured
  <2>2. ASSUME NEW c \in Calls
        PROVE  /\ call[c].pc \in {"idle", "refused", "entered", "working", "listing", "probing",
                                   "answered"}
               /\ call[c].who \in Identities \cup {Local}
               /\ call[c].req \in Requests
               /\ call[c].db \in Dbs \cup {NoDb}
               /\ call[c].items \in Seq([db: Dbs \cup {NoDb}, probed: Dbs \cup {NoDb},
                                         class: BodyClasses])
               /\ call[c].todo \subseteq DOMAIN call[c].items /\ call[c].hidden \in Nat
               /\ call[c].answer \in {"none", "ok", "error"}
               /\ log[c] \in Seq([who: Identities \cup {Local}, db: Dbs \cup {NoDb},
                                  class: Classes])
    <3>1. call[c] \in CallState /\ log[c] \in Seq(Line) /\ CallInv(c)  BY DEF IInv
    <3>2. /\ call[c].pc \in {"idle", "refused", "entered", "working", "listing", "probing",
                              "answered"}
          /\ call[c].who \in Identities /\ call[c].req \in Requests
          /\ call[c].db \in Dbs \cup {NoDb} /\ call[c].items \in Seq(Item)
          /\ call[c].hidden \in Nat /\ call[c].answer \in {"none", "ok", "error"}
      BY <3>1 DEF CallState
    <3>3. PICK I : I = [db: Dbs \cup {NoDb}, probed: Dbs \cup {NoDb}, class: BodyClasses]
      OBVIOUS
    <3>4. Item \subseteq I  BY <3>3 DEF Item
    <3>5. call[c].items \in Seq(I)  BY <3>2, <3>4
    <3>6. call[c].todo \subseteq DOMAIN call[c].items  BY <3>1 DEF CallInv, Probes
    <3>7. log[c] \in Seq([who: Identities \cup {Local}, db: Dbs \cup {NoDb}, class: Classes])
      BY <3>1 DEF Line
    <3>8. QED  BY <3>2, <3>3, <3>5, <3>6, <3>7
  <2>3. QED  BY <2>1, <2>2 DEF TypeOK
<1>2. IInv => AuditedOnce
  <2> SUFFICES ASSUME IInv PROVE AuditedOnce  OBVIOUS
  <2>1. ASSUME NEW c \in Calls, call[c].answer # "none", log[c] = <<>>
        PROVE  ~Registered(call[c].req.tool) \/ (conf.strict /\ ~Conforms(call[c].req))
    <3>1. Logged(c) /\ Len(log[c]) = 0  BY <2>1 DEF IInv, CallInv
    <3>2. Len(log[c]) = IF call[c].pc = "answered" THEN 1 ELSE 0  BY <3>1 DEF Logged
    <3>3. call[c].pc # "answered"  BY <3>1, <3>2
    <3>4. call[c].pc \in {"refused", "answered"}  BY <2>1, <3>1 DEF Logged
    <3>5. ~Passes(call[c].req)  BY <3>1, <3>3, <3>4 DEF Logged
    <3>6. QED  BY <3>5 DEF Passes
  <2>2. QED  BY <1>1, <2>1 DEF IInv, CallInv, Logged, AuditedOnce
<1>3. QED  BY <1>2, Invariant, PTL

\* list_databases answers with one entry per database the caller may use, each
\* with the result of probing that very database, and counts the others.
THEOREM Joins == Spec => []ProbesJoined
<1>1. IInv => ProbesJoined
  <2> SUFFICES ASSUME IInv, NEW c \in Calls, Listed(c)
               PROVE  /\ \A i \in DOMAIN call[c].items :
                           call[c].items[i].probed = call[c].items[i].db
                      /\ {call[c].items[i].db : i \in DOMAIN call[c].items}
                           = {d \in Dbs : Entitled(Caller(call[c].who), d)}
                      /\ Len(call[c].items) + call[c].hidden = Len(Order)
    BY DEF ProbesJoined, Listed
  <2>1. call[c] \in CallState /\ CallInv(c) /\ Configured  BY DEF IInv
  <2>2. call[c].who \in Identities /\ call[c].items \in Seq(Item)
    BY <2>1 DEF CallState
  <2>3. \A d \in Dbs : Entitled(Who(c), d) <=> Allows(d, Who(c))
    BY <2>1, <2>2, CallerIs, AllowsEntitled DEF Who
  <2>4. Visited(c) = Len(Order) /\ call[c].todo = {}
    BY <2>1 DEF CallInv, Probes, Listed
  <2>5. \A i \in DOMAIN call[c].items : call[c].items[i].probed = call[c].items[i].db
    BY <2>1, <2>4 DEF CallInv, Probes
  <2>6. ASSUME NEW i \in DOMAIN call[c].items
        PROVE  call[c].items[i].db \in Dbs /\ Allows(call[c].items[i].db, Who(c))
    <3>1. call[c].items[i] \in Item  BY <2>2
    <3>2. QED  BY <2>1, <3>1 DEF Item, CallInv, Slots
  <2>7. ASSUME NEW d \in Dbs, Allows(d, Who(c))
        PROVE  \E i \in DOMAIN call[c].items : call[c].items[i].db = d
    <3>1. PICK j \in DOMAIN Order : d = Order[j]  BY DEF Dbs, Range
    <3>2. DOMAIN Order = 1 .. Len(Order)  BY <2>1 DEF Configured
    <3>3. QED  BY <2>1, <2>4, <2>7, <3>1, <3>2 DEF CallInv, Slots
  <2>8. {call[c].items[i].db : i \in DOMAIN call[c].items}
          = {d \in Dbs : Entitled(Who(c), d)}
    BY <2>3, <2>6, <2>7
  <2>9. QED  BY <2>4, <2>5, <2>8 DEF Who, Visited
<1>2. QED  BY <1>1, Invariant, PTL
=============================================================================
