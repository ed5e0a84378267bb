--------------------------- MODULE CircuitBreaker ---------------------------
(***************************************************************************)
(* The process-local circuit breaker of one provider operation             *)
(* (reliability/circuit_breaker.py, held by reliability/registry.py), as   *)
(* functions of its state.  The clock enters as `elapsed': has             *)
(* recovery_timeout passed since the breaker opened?  The failure count is *)
(* kept up to the threshold, above which it is only reported.              *)
(*                                                                         *)
(* RecoversByTime is a faulty form of the definition that follows it.      *)
(***************************************************************************)
EXTENDS Naturals

CONSTANT FailureThreshold

ASSUME ThresholdAssumption == FailureThreshold \in Nat \ {0}

FailureKinds == {"RETRYABLE", "PERMANENT", "UNCERTAIN_SUBMISSION"}

Breakers == [state : {"CLOSED", "OPEN", "HALF_OPEN"}, failures : 0..FailureThreshold,
             probe : BOOLEAN, uncertain : BOOLEAN]

ClosedBreaker == [state |-> "CLOSED", failures |-> 0, probe |-> FALSE, uncertain |-> FALSE]

\* before_call: an open breaker turns half open once its time has passed,
\* unless what opened it was an uncertain submission.
RecoversByTime(b, elapsed) ==
    IF b.state = "OPEN" /\ elapsed
    THEN [b EXCEPT !.state = "HALF_OPEN", !.probe = FALSE] ELSE b
HalfOpened(b, elapsed) ==
    IF b.state = "OPEN" /\ ~b.uncertain /\ elapsed
    THEN [b EXCEPT !.state = "HALF_OPEN", !.probe = FALSE] ELSE b

\* before_call: does it allow the call?  Half open it allows one probe.
Allows(b) == b.state = "CLOSED" \/ (b.state = "HALF_OPEN" /\ ~b.probe)

BeforeCall(b, elapsed) ==
    LET h == HalfOpened(b, elapsed)
    IN  [h EXCEPT !.probe = h.probe \/ h.state = "HALF_OPEN"]

RecordSuccess(b) == ClosedBreaker

Counted(n) == IF n = FailureThreshold THEN n ELSE n + 1

\* A permanent rejection only releases the probe; an uncertain submission opens
\* the breaker at once; others when half open or at the threshold.
RecordFailure(b, kind) ==
    LET n == Counted(b.failures)
        opens == kind = "UNCERTAIN_SUBMISSION" \/ b.state = "HALF_OPEN" \/ n = FailureThreshold
    IN  IF kind = "PERMANENT" THEN [b EXCEPT !.probe = FALSE]
        ELSE [state |-> IF opens THEN "OPEN" ELSE b.state, failures |-> n, probe |-> FALSE,
              uncertain |-> b.uncertain \/ kind = "UNCERTAIN_SUBMISSION"]
=============================================================================
