---------------------------- MODULE MCSanitizer ----------------------------
(* Sanitizer on a small instance: two requests that compete for one slot.   *)
EXTENDS Sanitizer

Output(status, findings, score) ==
  [status |-> status, complete |-> TRUE, truncated |-> FALSE, failureKind |-> "none",
   findings |-> findings, score |-> score]

\* Nothing found, a hint that the thresholds allow, and an inspection that says it
\* is complete, and that it is not.
MCOutputs ==
  {Output("ALLOWED", {}, 0), Output("ALLOWED", {"hint"}, 10),
   Output("ALLOWED", {"unfinished"}, 10)}

\* The default thresholds.
MCThresholds == {[flag |-> 25, quarantine |-> 60, block |-> 80]}
=============================================================================
