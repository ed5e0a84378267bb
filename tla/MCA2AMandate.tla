---------------------------- MODULE MCA2AMandate ----------------------------
(***************************************************************************)
(* The instance of A2AMandate for TLC.  Two requests race at the agent,    *)
(* two attempts race to execute; a poll is attempted twice, again and      *)
(* again.                                                                  *)
(***************************************************************************)
EXTENDS A2AMandate
=============================================================================
