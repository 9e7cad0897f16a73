---------------------------- MODULE ScanReports ----------------------------
(***************************************************************************)
(* What the service makes of the output of a scanner worker: validation of *)
(* the worker's report (scan_protocol.py), the status the policy gives it  *)
(* and its verdict (reports.py), and what the MCP reader asks of a report  *)
(* before it delivers a file (mcp_server.py).                              *)
(*                                                                         *)
(* A finding is abstracted to the kind the decisions tell apart:           *)
(*   "failure"     the analysis failed: category ANALYSIS_FAILURE          *)
(*   "corruption"  one that says that the document is broken               *)
(*   "unfinished"  rule SCAN_INCOMPLETE, but of another category           *)
(*   "damaged"     one that says that the document is broken               *)
(*   "harmful"     HIGH or CRITICAL, of a category that counts             *)
(*   "hint"        any other                                               *)
(* The service counts the first four as failures, the validation of what a *)
(* worker prints only the first two.                                       *)
(***************************************************************************)
EXTENDS Naturals

Statuses == {"ALLOWED", "FLAGGED", "QUARANTINED", "BLOCKED"}
FailedFindings == {"failure", "corruption"}
UnfinishedFindings == {"unfinished", "damaged"}
FindingKinds == FailedFindings \cup UnfinishedFindings \cup {"harmful", "hint"}
MaxScore == 100

\* What a scanner worker can print.
WorkerOutputs ==
  [status : Statuses, complete : BOOLEAN, truncated : BOOLEAN,
   failureKind : {"none", "MALFORMED", "other"},
   findings : SUBSET FindingKinds, score : 0..MaxScore]

\* Three increasing thresholds, as set_policy accepts them.
Policies ==
  {p \in [version : Nat \ {0}, flag : 0..MaxScore, quarantine : 0..MaxScore, block : 0..MaxScore] :
     p.flag < p.quarantine /\ p.quarantine < p.block}

\* An inspection that says it is incomplete must be blocked, one that says it is
\* complete must not have failed, and no finding means no risk.
Valid(w) ==
  /\ ~w.complete => w.status = "BLOCKED"
  /\ w.complete => ~w.truncated /\ w.failureKind = "none" /\ w.findings \cap FailedFindings = {}
  /\ w.complete /\ w.findings = {} => w.score = 0 /\ w.status = "ALLOWED"

\* What the service writes itself when the worker times out, breaks off, or
\* prints something that is not valid.
BrokenOff ==
  [status |-> "BLOCKED", complete |-> TRUE, truncated |-> TRUE, failureKind |-> "none",
   findings |-> {"unfinished"}, score |-> MaxScore]

Accepted(w) == IF Valid(w) THEN w ELSE BrokenOff

\* The rule SCAN_INCOMPLETE does not count.
IncompleteByCategory(w) == ~w.complete \/ w.truncated \/ w.findings \cap FailedFindings # {}

\* Whatever the worker says, and by more than Valid has asked.
Incomplete(w) ==
  ~w.complete \/ w.truncated \/ w.findings \cap (FailedFindings \cup UnfinishedFindings) # {}

Broken(w) == w.failureKind = "MALFORMED" \/ w.findings \cap {"corruption", "damaged"} # {}

ByScore(score, policy) ==
  IF score >= policy.block THEN "BLOCKED"
  ELSE IF score >= policy.quarantine THEN "QUARANTINED"
  ELSE IF score >= policy.flag THEN "FLAGGED"
  ELSE "ALLOWED"

\* The thresholds do not reach an incomplete inspection, which keeps its status.
PolicyStatus(w, policy) ==
  IF Incomplete(w) THEN w.status ELSE ByScore(w.score, policy)

\* classify_report, given the status the policy has set.
Verdict(w, status) ==
  IF Incomplete(w)
  THEN IF Broken(w) THEN "CORRUPTED" ELSE "UNSCANNABLE"
  ELSE IF "harmful" \in w.findings THEN "INFECTED"
  ELSE IF w.findings # {} \/ status # "ALLOWED" THEN "REVIEW_REQUIRED"
  ELSE "VALID"

\* Whatever is not VALID needs a review.
Reviewed(status, verdict) ==
  IF verdict # "VALID" /\ status = "ALLOWED" THEN "FLAGGED" ELSE status

\* The report Reports.scan makes of a worker's output under a policy.
Report(output, policy) ==
  LET w == Accepted(output)
      status == PolicyStatus(w, policy)
      verdict == Verdict(w, status)
  IN  [status |-> Reviewed(status, verdict), verdict |-> verdict,
       complete |-> ~Incomplete(w), findings |-> w.findings, score |-> w.score,
       policy |-> policy.version]

\* record_failure: nothing was scanned.
FailureReport(policy) ==
  [status |-> "BLOCKED", verdict |-> "UNSCANNABLE", complete |-> FALSE,
   findings |-> {"failure"}, score |-> MaxScore, policy |-> policy.version]

\* verified_summary of the MCP reader refuses any other report.
ReaderAccepts(report) ==
  report.verdict = "VALID" =>
    report.status = "ALLOWED" /\ report.complete /\ report.findings = {} /\ report.score = 0

\* A report is ALLOWED exactly when it is VALID, and incomplete exactly when its
\* verdict says so; a complete one has no finding of an analysis that failed or
\* broke off, and the MCP reader does not refuse a VALID one.  An incomplete one is
\* BLOCKED, unless a worker has contradicted itself by a finding that says so.
Consistent(report) ==
  /\ report.status = "ALLOWED" <=> report.verdict = "VALID"
  /\ report.complete <=> report.verdict \notin {"CORRUPTED", "UNSCANNABLE"}
  /\ report.complete => report.findings \cap (FailedFindings \cup UnfinishedFindings) = {}
  /\ ~report.complete /\ report.findings \cap UnfinishedFindings = {} => report.status = "BLOCKED"
  /\ ReaderAccepts(report)

\* The reader and the sanitizer deliver only on such a report.
Clean(report) ==
  report.verdict = "VALID" /\ report.status = "ALLOWED" /\ report.complete
=============================================================================
