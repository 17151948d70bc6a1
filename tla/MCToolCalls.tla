---------------------------- MODULE MCToolCalls ----------------------------
(* Small servers: two databases behind OAuth, one with and one without it,  *)
(* and a server that has none; and the handlers of two databases and of one *)
(* called without the server's validation.                                  *)
EXTENDS ToolCalls

CONSTANTS d1, d2

MCServers ==
  {[order |-> <<d1, d2>>, local |-> FALSE, strict |-> b] : b \in BOOLEAN}
    \cup {[order |-> <<d1>>, local |-> b, strict |-> TRUE] : b \in BOOLEAN}
    \cup {[order |-> <<d1>>, local |-> TRUE, strict |-> FALSE],
          [order |-> <<>>, local |-> FALSE, strict |-> TRUE]}
MCEmails == {"ann"}
MCGroups == {"ops"}
MCConfigs ==
  {[users |-> {}, groups |-> {}, insert |-> TRUE],
   [users |-> {"ann"}, groups |-> {}, insert |-> FALSE],
   [users |-> {"local"}, groups |-> {"ops"}, insert |-> FALSE]}
=============================================================================
