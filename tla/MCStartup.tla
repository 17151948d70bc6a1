----------------------------- MODULE MCStartup -----------------------------
(* The two commands of the binary that do something, side by side in one    *)
(* run: a behaviour is a start of the server, or runs of self-update, any   *)
(* of which may stand for any other.                                        *)
(*                                                                          *)
(* Setups one and two changes away from ones that start: a change gives one *)
(* field, of the setup, of an entry or of its insert section, another value *)
(* of its kind; the two changes of an entry are independent of each other.  *)
EXTENDS Startup, TLC

CONSTANTS Runs, Releases  \* SelfUpdate

ASSUME ReleasesAssumption == Releases \in Nat \ {0}

VARIABLES
  command,                                \* "serve" or "self-update"
  exe, published, bundled, run, installed \* SelfUpdate

U == INSTANCE SelfUpdate

Symmetry == Permutations(Runs)

MCDisk ==
  [p \in {"reader", "readerpw", "writer", "writerpw", "ca", "newlines", "newline", "gone"} |->
     CASE p = "gone" -> <<>>
       [] p = "newline" -> <<[text |-> "", eol |-> 1]>>
       [] p = "newlines" -> <<[text |-> "", eol |-> 2]>>
       [] OTHER -> <<[text |-> p, eol |-> 1]>>]
MCEnviron ==
  [v \in {"READER_PW", "WRITER_PW", "EMPTY", "UNSET"} |->
     CASE v = "UNSET" -> <<>> [] v = "EMPTY" -> <<"">> [] OTHER -> <<v>>]
MCStrings == STRING
MCNames == {"a", "b", "default"}
MCTables == {"public.t"}
MCCertificates == {"ca"}
MCBadHosts == {"bad host"}

\* r and the records one change of alt away from it.
Vary(r, alt) == {r} \cup UNION {{[r EXCEPT ![f] = v] : v \in alt[f]} : f \in DOMAIN alt}
VaryTwice(r, alt) == UNION {Vary(s, alt) : s \in Vary(r, alt)}

Credentials ==
  [username |-> {"", "bob"}, usernameFile |-> {"", "reader", "newlines", "gone"},
   passwordFile |-> {"", "readerpw", "newline", "gone"},
   passwordEnv |-> {"", "READER_PW", "EMPTY", "UNSET"}]

InsertBase ==
  [host |-> "", port |-> 0, username |-> "", usernameFile |-> "writer",
   passwordFile |-> "", passwordEnv |-> "WRITER_PW", tables |-> {"public.t"},
   user |-> <<>>, password |-> <<>>]
InsertAlt == Credentials @@
  [host |-> {"primary", "bad host"}, port |-> {-1, 1, 65536}, tables |-> {{}, {"t", "public.t"}}]
Inserts == VaryTwice(InsertBase, InsertAlt)

EntryBase(name) == [DSNEntry("") EXCEPT
  !.name = name, !.host = "replica", !.dbname = "db", !.username = "bob",
  !.passwordFile = "readerpw", !.insert = <<InsertBase>>]
EntryAlt == Credentials @@
  [name |-> {"", "Bad", "default", "b"}, host |-> {"", "bad host"}, dbname |-> {""},
   maxRows |-> {-1, 5000, 5001}, statementTimeout |-> {-10, 9, 10, 6000, 6001},
   maxConnections |-> {-1, 64, 65}, allowedUsers |-> {{"", "ann"}, {"ann"}},
   allowedGroups |-> {{" "}, {"ops"}}, port |-> {-1, 65535, 65536},
   sslmode |-> {"disable", "prefer"}, cert |-> {"ca", "reader", "gone"},
   insert |-> {<<>>} \cup {<<i>> : i \in Vary(InsertBase, InsertAlt)}]

Base ==
  [transport |-> "streamable-http", debug |-> "", oauth |-> "true", private |-> "true",
   alias |-> "", file |-> "read", named |-> TRUE, dsn |-> "given",
   entries |-> <<EntryBase("a"), EntryBase("b")>>, provider |-> "dex",
   dexIssuer |-> "dex", dexClient |-> "id", redirect |-> "", issuer |-> "self",
   dexSecret |-> "secret", dexSecretFile |-> ""]
Alt ==
  [transport |-> {"stdio", "sse", "http"}, debug |-> {"true", "yes"},
   oauth |-> {"", "false", "yes"}, private |-> {"", "false", "yes"},
   alias |-> {"true", "false", "yes"}, file |-> {"missing", "unreadable", "unparsable"},
   named |-> {FALSE}, dsn |-> {"", "malformed"},
   entries |-> {<<>>} \cup {<<e, EntryBase("b")>> : e \in Vary(EntryBase("a"), EntryAlt)},
   provider |-> {"google"}, dexIssuer |-> {""}, dexClient |-> {""}, redirect |-> {"url"},
   issuer |-> {""}, dexSecret |-> {""}, dexSecretFile |-> {"newline", "newlines", "gone", "readerpw"}]

MCSetups ==
  VaryTwice(Base, Alt)
    \cup {[Base EXCEPT !.entries = <<e>>, !.oauth = ""] : e \in VaryTwice(EntryBase("a"), EntryAlt)}
    \cup {[Base EXCEPT !.entries = <<[EntryBase("a") EXCEPT !.insert = <<i>>]>>, !.oauth = ""] : i \in Inserts}

uVars == <<exe, published, bundled, run, installed>>

\* The command that is off, with nothing to do.
ServeOff == Init /\ setup = Base
UpdateOff == U!Init /\ exe = 0 /\ bundled = {}

CommandsInit ==
  \/ command = "serve" /\ Init /\ UpdateOff
  \/ command = "self-update" /\ U!Init /\ ServeOff

CommandsNext ==
  \/ command = "serve" /\ Next /\ UNCHANGED <<command, uVars>>
  \/ command = "self-update" /\ U!Next /\ UNCHANGED <<command, vars>>

Commands == CommandsInit /\ [][CommandsNext]_<<command, vars, uVars>>

\* Only a release that verified against its bundle is installed (see
\* SelfUpdate).
OnlyVerified == U!OnlyVerified
\* What a run of self-update tells is true of its own doing (see SelfUpdate).
ReportsTrue == U!ReportsTrue
=============================================================================
