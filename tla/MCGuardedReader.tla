-------------------------- MODULE MCGuardedReader --------------------------
(* GuardedReader on a small instance: a harmless text, a text with a harmful *)
(* finding, and two files that can take each other's place.                  *)
EXTENDS GuardedReader

MCOutputOf ==
  [c \in Contents |->
     [status |-> "ALLOWED", complete |-> TRUE, truncated |-> FALSE, failureKind |-> "none",
      findings |-> IF c = "harmful" THEN {"harmful"} ELSE {},
      score |-> IF c = "harmful" THEN 70 ELSE 0]]

\* The default thresholds.
MCThresholds == {[flag |-> 25, quarantine |-> 60, block |-> 80]}
=============================================================================
