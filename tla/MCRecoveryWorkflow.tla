------------------------- MODULE MCRecoveryWorkflow -------------------------
(***************************************************************************)
(* Instances of RecoveryWorkflow for TLC.                                  *)
(***************************************************************************)
EXTENDS RecoveryWorkflow, TLC

AllKinds == SignalKinds
\* START_VOICE and ESCALATE_TO_HUMAN take the path of a payment surface.
MCActions == Actions \ {"START_VOICE", "ESCALATE_TO_HUMAN"}
\* A deadline already past at the start, and one that delays can overrun.
MCDeadlines == {0, 2}
MCDelayTargets == {1, 3}
\* Signal ids are only compared with each other.
SignalSymmetry == Permutations(SignalIds)
=============================================================================
