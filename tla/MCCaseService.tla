---------------------------- MODULE MCCaseService ----------------------------
(***************************************************************************)
(* The instance of CaseService for TLC.  The merchant asks for approvals   *)
(* of the customer agent, the first hour of the three-hour day is quiet    *)
(* and the model favours the agent: the four dispositions of a policy all  *)
(* occur.                                                                  *)
(***************************************************************************)
EXTENDS CaseService, TLC

CONSTANTS o1, o2

MCOperators == {o1, o2}
MCCommands == o1 :> {"STOP", "PAY", "APPROVE"}
              @@ o2 :> {"RECOMMEND", "REJECT", "ESCALATE"}

Settings(quiet, killed, approvals, above) ==
    [quiet |-> quiet, killed |-> killed, approvals |-> approvals, above |-> above]

MCConfig == Settings(<<0, 1>>, FALSE, {"AGENT"}, None)

MCScores == {[c \in Candidates |-> IF c = favourite THEN 1 ELSE 0] :
                 favourite \in {"AGENT", "INVOICE_LINK"}}

MCConfigs == {Settings(quiet, setting[1], setting[2], setting[3]) :
    quiet \in {None, <<1, 2>>, <<2, 1>>},
    setting \in {<<FALSE, {}, None>>, <<TRUE, {}, None>>,
                 <<FALSE, {"OPEN_SURFACE", "WAIT", "STOP"}, 2>>,
                 <<FALSE, {}, 1>>}}

MCEvidences == [failed : {TRUE}, correlated : {TRUE},
                tokens : {{"RISK", "FUNDS"}, {"AUTHENTICATION", "MERCHANT"}, {"TRANSIENT"}}]
               \cup [failed : {TRUE}, correlated : {FALSE}, tokens : {{"FUNDS"}}]
=============================================================================
