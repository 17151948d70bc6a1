------------------------- MODULE MCSequentialParts -------------------------
(* The parts of a call that compute on data of their own, side by side in   *)
(* one run: the arguments of a call, the tokens of its query and the values *)
(* of its rows.  A behaviour is one of them on one of its inputs; the       *)
(* others are off, with nothing to do.                                      *)
EXTENDS MCToolArguments

CONSTANTS Inputs, Depth, Texts \* Values

VARIABLES
  sentence, rest, rules, p, depth, kind,   \* Classifier
  input, output, done                      \* Values

SentencesOf == INSTANCE MCClassifier
ValuesFor == INSTANCE MCValues

C == INSTANCE Classifier WITH Sentences <- SentencesOf!MCSentences,
       denyFunctions <- SentencesOf!MCFunctions, toks <- rest, at <- rules, k <- p
E == INSTANCE Values

MCInputs == ValuesFor!MCInputs
MCTexts == {"", "b", "u", "a", "s", "1", "x", "timestamptz"}

ASSUME ValuesAssumption ==
  Depth \in Nat /\ \A i \in Inputs : i.value \in E!Value[Depth] /\ i.type \in E!Words

ArgumentsOff ==
  /\ strict = TRUE /\ several = TRUE /\ tool = "plain" /\ args = [a \in Names |-> Absent]
  /\ at = "off" /\ k = 1 /\ got = args /\ why = "" /\ audited = 0
RulesOff ==
  /\ sentence = [toks |-> <<>>, reads |-> TRUE, odd |-> FALSE]
  /\ rest = <<>> /\ rules = "off" /\ p = 1 /\ depth = 0 /\ kind = ""
ValuesOff ==
  /\ input = [value |-> [go |-> "nil", is |-> "", of |-> <<>>], type |-> ""]
  /\ output = E!Null /\ done = TRUE

PartsInit ==
  \/ Init /\ RulesOff /\ ValuesOff
  \/ C!Init /\ ArgumentsOff /\ ValuesOff
  \/ E!Init /\ ArgumentsOff /\ RulesOff

cVars == <<sentence, rest, rules, p, depth, kind>>
eVars == <<input, output, done>>

PartsNext ==
  \/ Next /\ UNCHANGED <<cVars, eVars>>
  \/ C!Next /\ UNCHANGED <<vars, eVars>>
  \/ E!Next /\ UNCHANGED <<vars, cVars>>

Parts == PartsInit /\ [][PartsNext]_<<vars, cVars, eVars>>

\* Classify accepts exactly the texts that only read (see Classifier).
AcceptsReads == C!AcceptsReads
\* Every value can be written as JSON and keeps its shape (see Values).
ValuesKept == E!ValuesKept
=============================================================================
