-------------------------- MODULE SanitizerProofs --------------------------
(***************************************************************************)
(* Proofs about Sanitizer, for any requests, worker outputs, thresholds,   *)
(* number of workers and policies, and any failures and restarts.          *)
(* The inductive invariant follows a request: what its phase says of the   *)
(* rows and events written for it, of the report of its copy, and of the   *)
(* lock that keeps the policy still while a decision is recorded.          *)
(***************************************************************************)
EXTENDS Sanitizer, FiniteSetTheorems, TLAPS

OutputOf(r) == req[r].report["output"]

Recorded(r, kind) == Item(r, kind) \in saved \cap audit

\* Phases in which a request holds the lock of the store.
Recording == {"log", "insert", "rollback"}

RequestType ==
  [pc : Pcs, op : {"none", "scan", "copy"}, stage : Stages,
   work : WorkerOutputs, report : [Stages -> ReportType],
   allowed : BOOLEAN, refused : BOOLEAN,
   answer : {"none", "report", "denied", "delivered", "error"}]

\* The values the proofs depend on.
Typed ==
  /\ policy \in Policies
  /\ saved \subseteq Items
  /\ unsaved \subseteq Items
  /\ audit \subseteq Items
  /\ req \in [Requests -> RequestType]

\* The report of a copy: made once, from the work and the policy of that time.
Judged(r) ==
  /\ req[r].pc \in {"new", "unreadable", "transform"} => req[r].stage = "input"
  /\ req[r].stage = "input" \/ req[r].pc \in {"scan", "worker", "judge"}
       => OutputOf(r) = NoReport
  /\ OutputOf(r).policy <= policy.version
  /\ OutputOf(r).policy = policy.version => OutputOf(r) = Report(req[r].work, policy)

\* A copy is allowed on a clean report only, and recorded under its policy.
Allowed(r) ==
  req[r].allowed =>
    /\ ~req[r].refused
    /\ req[r].pc \in {"finish", "done"} \cup Recording
    /\ Clean(OutputOf(r)) /\ OutputOf(r).findings = {}
    /\ Recorded(r, "output")
    /\ req[r].pc \in Recording => OutputOf(r).policy = policy.version

\* The rows and events that exist for a request in each phase.
Progress(r) ==
  /\ req[r].pc = "audit" => Item(r, req[r].stage) \in saved
  /\ req[r].pc = "examine" => Recorded(r, req[r].stage)
  /\ (req[r].stage = "output" \/ req[r].pc \in {"transform", "finish"} \cup Recording)
       => Recorded(r, "input")
  /\ req[r].pc = "insert" => Item(r, "record") \in audit
  /\ Item(r, "record") \in unsaved => req[r].pc = "rollback"
  /\ Item(r, "record") \in saved \cup unsaved => Item(r, "record") \in audit

\* A refused transformation is recorded or has failed before its slot is released.
Refused(r) ==
  /\ req[r].refused => req[r].pc \in {"finish", "release", "done"} \cup Recording
  /\ req[r].pc = "release" => req[r].refused

\* What the answer of a request says is recorded.
Answered(r) ==
  /\ req[r].answer = "report" => Recorded(r, "input")
  /\ req[r].answer = "denied" => Recorded(r, "input") /\ Recorded(r, "record")
  /\ req[r].answer = "delivered" =>
       /\ Recorded(r, "input") /\ Recorded(r, "output") /\ Recorded(r, "record")
       /\ Clean(OutputOf(r)) /\ OutputOf(r).findings = {}

\* Every report made for a request is consistent.
Agrees(r) ==
  \A s \in Stages : req[r].report[s] # NoReport => Consistent(req[r].report[s])

\* Whoever records a decision holds the lock of the store.
HoldsLock(r) == req[r].pc \in Recording => lock = r

RequestInv(r) ==
  /\ HoldsLock(r)
  /\ Judged(r)
  /\ Allowed(r)
  /\ Refused(r)
  /\ Progress(r)
  /\ Answered(r)
  /\ Agrees(r)

SanInv == Typed /\ \A r \in Requests : RequestInv(r)
-----------------------------------------------------------------------------
\* Every report the service makes of any worker output, under any policy, says one
\* thing: ALLOWED exactly when VALID, incomplete exactly when the verdict says so,
\* and the MCP reader accepts every VALID one.  It is BLOCKED whenever the worker
\* broke off, printed something that is not valid, or said that it is incomplete.
\* The reports written when nothing was scanned are consistent too.
THEOREM ReportsAreConsistent ==
  ASSUME NEW w \in WorkerOutputs, NEW p \in Policies
  PROVE  /\ Consistent(Report(w, p)) /\ Consistent(FailureReport(p))
         /\ ~Valid(w) \/ ~w.complete => Report(w, p).status = "BLOCKED"
<1> DEFINE v == Accepted(w)
<1>1. v \in WorkerOutputs /\ (Valid(v) \/ v = BrokenOff)
  BY DEF Accepted, BrokenOff, WorkerOutputs, Statuses, FindingKinds, FailedFindings, UnfinishedFindings,
         MaxScore
<1>2. Incomplete(v) /\ v.findings \cap UnfinishedFindings = {} => v.status = "BLOCKED"
  BY <1>1 DEF Valid, Incomplete, BrokenOff, FailedFindings, UnfinishedFindings
<1>3. ~Incomplete(v) /\ v.findings = {} => v.score = 0
  BY <1>1 DEF Valid, Incomplete, BrokenOff
<1>4. ~Incomplete(v) => v.findings \cap (FailedFindings \cup UnfinishedFindings) = {}
  BY DEF Incomplete
<1> DEFINE status == PolicyStatus(v, p)
           verdict == Verdict(v, status)
<1>5. verdict = "VALID" => ~Incomplete(v) /\ v.findings = {} /\ status = "ALLOWED"
  BY DEF Verdict
<1>6. Incomplete(v) <=> verdict \in {"CORRUPTED", "UNSCANNABLE"}
  BY DEF Verdict
<1>7. Incomplete(v) => status = v.status
  BY DEF PolicyStatus
<1>8. Report(w, p) =
        [status |-> Reviewed(status, verdict), verdict |-> verdict,
         complete |-> ~Incomplete(v), findings |-> v.findings, score |-> v.score,
         policy |-> p.version]
  BY DEF Report
<1> DEFINE report == Report(w, p)
<1>9. /\ report.status = Reviewed(status, verdict) /\ report.verdict = verdict
      /\ report.complete = ~Incomplete(v) /\ report.findings = v.findings
      /\ report.score = v.score
  BY <1>8
<1>10. ~Valid(w) \/ ~w.complete => Incomplete(v) /\ v.status = "BLOCKED"
  BY DEF Valid, Incomplete, Accepted, BrokenOff
<1> HIDE DEF v, status, verdict, report
<1>11. ~Valid(w) \/ ~w.complete => report.status = "BLOCKED"
  BY <1>7, <1>9, <1>10 DEF Reviewed
<1>12. report.status = "ALLOWED" <=> report.verdict = "VALID"
  BY <1>5, <1>9 DEF Reviewed
<1>13. report.complete <=> report.verdict \notin {"CORRUPTED", "UNSCANNABLE"}
  BY <1>6, <1>9, Zenon
<1>14. report.complete => report.findings \cap (FailedFindings \cup UnfinishedFindings) = {}
  BY <1>4, <1>9, Zenon
<1>15. ~report.complete /\ report.findings \cap UnfinishedFindings = {} => report.status = "BLOCKED"
  BY <1>2, <1>7, <1>9 DEF Reviewed
<1>16. ReaderAccepts(report)
  BY <1>3, <1>5, <1>9, <1>12 DEF ReaderAccepts
<1>17. Consistent(FailureReport(p))
  BY DEF Consistent, FailureReport, ReaderAccepts, FailedFindings, UnfinishedFindings
<1>18. QED BY <1>12, <1>13, <1>14, <1>15, <1>16, <1>17, <1>11, Zenon DEF report, Consistent

\* Reports carry the version of the policy they were made under.
LEMMA ReportTyped ==
  ASSUME NEW w \in WorkerOutputs, NEW p \in Policies
  PROVE  /\ Report(w, p) \in ReportType /\ Report(w, p).policy = p.version
         /\ FailureReport(p) \in ReportType /\ FailureReport(p).policy = p.version
<1> DEFINE v == Accepted(w)
           status == PolicyStatus(v, p)
           verdict == Verdict(v, status)
<1>1. v \in WorkerOutputs
  BY DEF Accepted, BrokenOff, WorkerOutputs, Statuses, FindingKinds, FailedFindings, UnfinishedFindings,
         MaxScore
<1>2. p.version \in Nat
  BY DEF Policies
<1>3. status \in Statuses
  BY <1>1 DEF PolicyStatus, ByScore, WorkerOutputs, Statuses
<1>4. verdict \in {"VALID", "INFECTED", "CORRUPTED", "REVIEW_REQUIRED", "UNSCANNABLE"}
  BY DEF Verdict
<1>5. Reviewed(status, verdict) \in Statuses
  BY <1>3 DEF Reviewed, Statuses
<1>6. Report(w, p) =
        [status |-> Reviewed(status, verdict), verdict |-> verdict,
         complete |-> ~Incomplete(v), findings |-> v.findings, score |-> v.score,
         policy |-> p.version]
  BY DEF Report
<1>7. v.findings \in SUBSET FindingKinds /\ v.score \in 0..MaxScore /\ Incomplete(v) \in BOOLEAN
  BY <1>1 DEF WorkerOutputs, Incomplete
<1> HIDE DEF v, status, verdict
<1>8. Report(w, p) \in ReportType /\ Report(w, p).policy = p.version
  BY <1>2, <1>4, <1>5, <1>6, <1>7 DEF ReportType
<1>9. FailureReport(p) \in ReportType /\ FailureReport(p).policy = p.version
  BY <1>2 DEF FailureReport, ReportType, Statuses, FindingKinds, FailedFindings, MaxScore
<1>10. QED BY <1>8, <1>9

\* The worker output a request starts with, and its empty reports.
LEMMA NewTyped == NoReport \in ReportType /\ BrokenOff \in WorkerOutputs /\ New \in RequestType
<1>1. NoReport \in ReportType
  BY DEF NoReport, ReportType, MaxScore
<1>2. BrokenOff \in WorkerOutputs
  BY DEF BrokenOff, WorkerOutputs, Statuses, FindingKinds, FailedFindings, UnfinishedFindings,
         MaxScore
<1>3. QED BY <1>1, <1>2 DEF New, RequestType, Pcs, Stages

\* The policies that occur are policies.
LEMMA PolicyTyped ==
  ASSUME NEW v \in Nat \ {0}, NEW t \in Thresholds
  PROVE  PolicyOf(v, t) \in Policies /\ PolicyOf(v, t).version = v
BY RequestsAssumption DEF PolicyOf, Policies

\* Nothing has been made, recorded or answered at the start.
LEMMA SanInvInit == Init => SanInv
<1> SUFFICES ASSUME Init PROVE SanInv
  OBVIOUS
<1>1. Typed
  BY NewTyped, PolicyTyped DEF Init, Typed
<1>2. ASSUME NEW r \in Requests PROVE RequestInv(r)
  <2>1. req[r] = New /\ saved = {} /\ unsaved = {}
    BY DEF Init
  <2>2. policy.version = 1
    BY PolicyTyped DEF Init
  <2>3. New.report["output"] = NoReport
    BY DEF New, Stages
  <2>4. QED
    BY <2>1, <2>2, <2>3
       DEF RequestInv, HoldsLock, Judged, Allowed, Refused, Progress, Answered, Agrees, OutputOf, New,
           Recording, NoReport
<1>3. QED BY <1>1, <1>2 DEF SanInv

\* What a request has is not disturbed by the steps of others.
LEMMA OthersKept ==
  ASSUME SanInv, NEW q \in Requests,
         req'[q] = req[q], policy' = policy,
         saved \subseteq saved', audit \subseteq audit',
         Item(q, "record") \in saved' => Item(q, "record") \in saved \cup unsaved,
         Item(q, "record") \in unsaved' => Item(q, "record") \in unsaved,
         lock' = lock \/ lock # q
  PROVE  RequestInv(q)'
BY DEF SanInv, RequestInv, HoldsLock, Judged, Allowed, Refused, Progress, Answered, Agrees, OutputOf, Recorded

\* Replacing one request keeps the type of all.
LEMMA OneRequest ==
  ASSUME Typed, NEW r \in Requests, NEW q \in RequestType, req' = [req EXCEPT ![r] = q]
  PROVE  req' \in [Requests -> RequestType]
BY DEF Typed

\* What a request becomes in its steps.
LEMMA RequestUpdates ==
  \A q \in RequestType, pc \in Pcs :
    /\ [q EXCEPT !.pc = pc] \in RequestType
    /\ \A op \in {"scan", "copy"} : [q EXCEPT !.op = op, !.pc = pc] \in RequestType
    /\ \A w \in WorkerOutputs : [q EXCEPT !.pc = pc, !.work = w] \in RequestType
    /\ \A s \in Stages : [q EXCEPT !.pc = pc, !.stage = s] \in RequestType
    /\ \A reports \in [Stages -> ReportType] : [q EXCEPT !.pc = pc, !.report = reports] \in RequestType
    /\ \A b \in BOOLEAN : [q EXCEPT !.pc = pc, !.allowed = b] \in RequestType
    /\ \A a \in {"report", "denied", "delivered", "error"} :
         [q EXCEPT !.pc = pc, !.answer = a] \in RequestType
<1> TAKE q \in RequestType, pc \in Pcs
<1>1. [q EXCEPT !.pc = pc] \in RequestType
  BY DEF RequestType
<1>2. \A op \in {"scan", "copy"} : [q EXCEPT !.op = op, !.pc = pc] \in RequestType
  BY DEF RequestType
<1>3. \A w \in WorkerOutputs : [q EXCEPT !.pc = pc, !.work = w] \in RequestType
  BY DEF RequestType
<1>4. \A s \in Stages : [q EXCEPT !.pc = pc, !.stage = s] \in RequestType
  BY DEF RequestType
<1>5. \A reports \in [Stages -> ReportType] : [q EXCEPT !.pc = pc, !.report = reports] \in RequestType
  BY DEF RequestType
<1>6. \A b \in BOOLEAN : [q EXCEPT !.pc = pc, !.allowed = b] \in RequestType
  BY DEF RequestType
<1>7. \A a \in {"report", "denied", "delivered", "error"} :
        [q EXCEPT !.pc = pc, !.answer = a] \in RequestType
  BY DEF RequestType
<1>8. QED BY <1>1, <1>2, <1>3, <1>4, <1>5, <1>6, <1>7

\* A request stays well typed when only its phase, answer or decision changes.
LEMMA MovesTyped ==
  ASSUME Typed, NEW r \in Requests
  PROVE  /\ \A pc \in Pcs : Goto(r, pc) => req' \in [Requests -> RequestType]
         /\ \A a \in {"report", "denied", "delivered", "error"} :
              Answer(r, a) => req' \in [Requests -> RequestType]
         /\ Deny(r) => req' \in [Requests -> RequestType]
<1>0. req[r] \in RequestType /\ "done" \in Pcs /\ "finish" \in Pcs
  BY DEF Typed, Pcs
<1>1. ASSUME NEW pc \in Pcs, Goto(r, pc) PROVE req' \in [Requests -> RequestType]
  <2>1. [req[r] EXCEPT !.pc = pc] \in RequestType
    BY <1>0, RequestUpdates
  <2>2. QED BY <1>1, <2>1, OneRequest DEF Goto
<1>2. ASSUME NEW a \in {"report", "denied", "delivered", "error"}, Answer(r, a)
      PROVE  req' \in [Requests -> RequestType]
  <2> DEFINE pc == IF req[r].refused THEN "release" ELSE "done"
  <2>1. pc \in Pcs
    BY DEF Pcs
  <2>2. req' = [req EXCEPT ![r] = [req[r] EXCEPT !.pc = pc, !.answer = a]]
    BY <1>2 DEF Answer
  <2> HIDE DEF pc
  <2>3. [req[r] EXCEPT !.pc = pc, !.answer = a] \in RequestType
    BY <1>0, <2>1, RequestUpdates
  <2>4. QED BY <2>2, <2>3, OneRequest
<1>3. ASSUME Deny(r) PROVE req' \in [Requests -> RequestType]
  <2>1. [req[r] EXCEPT !.pc = "finish", !.allowed = FALSE] \in RequestType
    BY <1>0, RequestUpdates
  <2>2. req' = [req EXCEPT ![r] = [req[r] EXCEPT !.pc = "finish", !.allowed = FALSE]]
    BY <1>3 DEF Deny
  <2>3. QED BY <2>1, <2>2, OneRequest
<1>4. QED BY <1>1, <1>2, <1>3

\* Every row and event a step writes is one of a request.
LEMMA ItemsTyped ==
  ASSUME Typed, NEW r \in Requests, NEW kind \in Stages \cup {"record"}
  PROVE  /\ Commits(r, kind) => saved' \subseteq Items /\ unsaved' \subseteq Items
         /\ CommitFails(r, kind) => saved' \subseteq Items /\ unsaved' \subseteq Items
         /\ Logs(r, kind) => audit' \subseteq Items
         /\ LogFails(r, kind) => audit' \subseteq Items
BY DEF Typed, Commits, CommitFails, Logs, LogFails, Item, Items

\* Every step keeps the types.
LEMMA TypedStep == Typed /\ [Next]_vars => Typed'
<1> SUFFICES ASSUME Typed, [Next]_vars PROVE Typed'
  OBVIOUS
<1>1. ASSUME NEW r \in Requests, NEW op \in {"scan", "copy"}, NEW readable \in BOOLEAN,
             Submit(r, op, readable)
      PROVE  Typed'
  <2>1. req' \in [Requests -> RequestType]
    <3>0. req[r] \in RequestType /\ (IF readable THEN "scan" ELSE "unreadable") \in Pcs
      BY DEF Typed, Pcs
    <3>1. [req[r] EXCEPT !.op = op, !.pc = IF readable THEN "scan" ELSE "unreadable"] \in RequestType
      BY <3>0, RequestUpdates
    <3>2. req' = [req EXCEPT ![r] = [req[r] EXCEPT !.op = op,
                                       !.pc = IF readable THEN "scan" ELSE "unreadable"]]
      BY <1>1 DEF Submit
    <3>3. QED BY <3>1, <3>2, OneRequest
  <2>2. QED BY <1>1, <2>1 DEF Submit, Typed
<1>2. ASSUME NEW r \in Requests, Step(r) PROVE Typed'
  <2>0. /\ req[r] \in RequestType
        /\ req[r].stage \in Stages /\ req[r].report \in [Stages -> ReportType]
    BY DEF Typed, RequestType
  <2>1. CASE ScanBegins(r) \/ ScanBusy(r)
    BY <2>1, MovesTyped DEF ScanBegins, ScanBusy, Typed, Pcs
  <2>2. CASE WorkerEnds(r)
    <3>1. PICK w \in Outputs \cup {BrokenOff} :
            req' = [req EXCEPT ![r].pc = "judge", ![r].work = w]
      BY <2>2 DEF WorkerEnds
    <3>2. w \in WorkerOutputs
      BY NewTyped, RequestsAssumption
    <3>3. req' \in [Requests -> RequestType]
      <4>1. [req[r] EXCEPT !.pc = "judge", !.work = w] \in RequestType
        BY <2>0, <3>2, RequestUpdates DEF Pcs
      <4>2. req' = [req EXCEPT ![r] = [req[r] EXCEPT !.pc = "judge", !.work = w]]
        BY <3>1
      <4>3. QED BY <4>1, <4>2, OneRequest
    <3>4. QED BY <2>2, <3>3 DEF WorkerEnds, Typed
  <2>3. CASE Judge(r)
    <3>1. PICK report \in ReportType :
            req' = [req EXCEPT ![r].pc = "persist", ![r].report[req[r].stage] = report]
      BY <2>3, ReportTyped DEF Judge, Typed, RequestType
    <3>2. req' \in [Requests -> RequestType]
      <4> DEFINE reports == [req[r].report EXCEPT ![req[r].stage] = report]
      <4>1. reports \in [Stages -> ReportType]
        BY <2>0
      <4>2. req' = [req EXCEPT ![r] = [req[r] EXCEPT !.pc = "persist", !.report = reports]]
        BY <3>1
      <4> HIDE DEF reports
      <4>3. [req[r] EXCEPT !.pc = "persist", !.report = reports] \in RequestType
        BY <2>0, <4>1, RequestUpdates DEF Pcs
      <4>4. QED BY <4>2, <4>3, OneRequest
    <3>3. QED BY <2>3, <3>2 DEF Judge, Typed
  <2>4. CASE Persist(r)
    BY <2>0, <2>4, MovesTyped, ItemsTyped DEF Persist, Typed, Pcs
  <2>5. CASE AuditScan(r)
    BY <2>0, <2>5, MovesTyped, ItemsTyped DEF AuditScan, Typed, Pcs
  <2>6. CASE PolicyUnreadable(r) \/ RefuseInput(r) \/ Transform(r) \/ RefuseOutput(r)
    BY <2>6, MovesTyped DEF PolicyUnreadable, RefuseInput, Transform, RefuseOutput, Typed, Pcs
  <2>7. CASE TransformEnds(r)
    <3>1. ASSUME req' = [req EXCEPT ![r].pc = "scan", ![r].stage = "output"]
          PROVE  req' \in [Requests -> RequestType]
      <4>1. [req[r] EXCEPT !.pc = "scan", !.stage = "output"] \in RequestType
        BY <2>0, RequestUpdates DEF Pcs, Stages
      <4>2. req' = [req EXCEPT ![r] = [req[r] EXCEPT !.pc = "scan", !.stage = "output"]]
        BY <3>1
      <4>3. QED BY <4>1, <4>2, OneRequest
    <3>2. ASSUME req' = [req EXCEPT ![r].pc = "finish", ![r].refused = TRUE]
          PROVE  req' \in [Requests -> RequestType]
      <4>1. [req[r] EXCEPT !.pc = "finish", !.refused = TRUE] \in RequestType
        BY <2>0 DEF RequestType, Pcs
      <4>2. req' = [req EXCEPT ![r] = [req[r] EXCEPT !.pc = "finish", !.refused = TRUE]]
        BY <3>2
      <4>3. QED BY <4>1, <4>2, OneRequest
    <3>3. QED BY <2>7, <3>1, <3>2 DEF TransformEnds, Typed
  <2>8. CASE AllowOutput(r)
    <3>1. req' \in [Requests -> RequestType]
      <4>1. [req[r] EXCEPT !.pc = "finish", !.allowed = TRUE] \in RequestType
        BY <2>0, RequestUpdates DEF Pcs
      <4>2. req' = [req EXCEPT ![r] = [req[r] EXCEPT !.pc = "finish", !.allowed = TRUE]]
        BY <2>8 DEF AllowOutput
      <4>3. QED BY <4>1, <4>2, OneRequest
    <3>2. QED BY <2>8, <3>1 DEF AllowOutput, Typed
  <2>9. CASE FinishLocks(r)
    <3>1. req' \in [Requests -> RequestType]
      <4>1. [req[r] EXCEPT !.pc = "log",
               !.allowed = @ /\ req[r].report["output"].policy = policy.version] \in RequestType
        <5>1. (req[r].allowed /\ req[r].report["output"].policy = policy.version) \in BOOLEAN
          OBVIOUS
        <5>2. QED BY <2>0, <5>1, RequestUpdates DEF Pcs
      <4>2. req' = [req EXCEPT ![r] = [req[r] EXCEPT !.pc = "log",
                      !.allowed = @ /\ req[r].report["output"].policy = policy.version]]
        BY <2>9 DEF FinishLocks
      <4>3. QED BY <4>1, <4>2, OneRequest
    <3>2. QED BY <2>9, <3>1 DEF FinishLocks, Typed
  <2>10. CASE FinishLogs(r)
    BY <2>10, MovesTyped, ItemsTyped DEF FinishLogs, Typed, Pcs
  <2>11. CASE FinishInserts(r)
    BY <2>11, MovesTyped, ItemsTyped DEF FinishInserts, Decision, Typed, Pcs
  <2>12. CASE Rollback(r)
    BY <2>12, MovesTyped DEF Rollback, Typed
  <2>13. CASE Release(r)
    BY <2>13, MovesTyped DEF Release, Typed, Pcs
  <2>14. QED
    BY <1>2, <2>1, <2>2, <2>3, <2>4, <2>5, <2>6, <2>7, <2>8, <2>9, <2>10, <2>11, <2>12, <2>13 DEF Step
<1>3. ASSUME NEW t \in Thresholds, SetPolicy(t) PROVE Typed'
  <2>1. policy.version + 1 \in Nat \ {0}
    BY DEF Typed, Policies
  <2>2. QED BY <1>3, <2>1, PolicyTyped DEF SetPolicy, Typed
<1>4. CASE Restart
  <2>1. req' \in [Requests -> RequestType]
    <3>1. \A r \in Requests : [req[r] EXCEPT !.pc = "done", !.answer = "error"] \in RequestType
      BY RequestUpdates DEF Typed, Pcs
    <3>2. QED BY <1>4, <3>1 DEF Restart, Typed
  <2>2. QED BY <1>4, <2>1 DEF Restart, Typed
<1>5. CASE UNCHANGED vars
  BY <1>5 DEF vars, Typed
<1>6. QED
  BY <1>1, <1>2, <1>3, <1>4, <1>5 DEF Next

\* A request keeps its invariant in its own steps.
LEMMA OwnStep ==
  ASSUME SanInv, Typed', NEW r \in Requests, Step(r)
  PROVE  RequestInv(r)'
<1> USE DEF RequestInv, HoldsLock, Judged, Allowed, Refused, Progress, Answered, Agrees, OutputOf, Recorded, Recording
<1>0. RequestInv(r) /\ req[r] \in RequestType
  BY DEF SanInv, Typed
<1>1. \A a, b : Item(r, a) = Item(r, b) => a = b
  BY DEF Item
<1>2. req[r].stage \in Stages
  BY <1>0 DEF RequestType
<1>3. policy.version \in Nat \ {0} /\ policy \in Policies
  BY DEF SanInv, Typed, Policies
<1>10. CASE ScanBegins(r)
  BY <1>0, <1>1, <1>2, <1>3, <1>10 DEF ScanBegins, At, Goto, SanInv, Typed, RequestType
<1>11. CASE ScanBusy(r)
  BY <1>0, <1>1, <1>2, <1>3, <1>11 DEF ScanBusy, At, Deny, Answer, SanInv, Typed, RequestType
<1>12. CASE WorkerEnds(r)
  <2>1. /\ req[r].pc = "worker" /\ OutputOf(r) = NoReport
        /\ UNCHANGED <<policy, lock, saved, unsaved, audit>>
    BY <1>0, <1>12 DEF WorkerEnds, At
  <2>2. PICK w : req'[r] = [req[r] EXCEPT !.pc = "judge", !.work = w]
    BY <1>12 DEF WorkerEnds, SanInv, Typed
  <2>3. NoReport.policy # policy.version /\ ~Clean(NoReport)
    BY <1>3 DEF NoReport, Clean
  <2>4. QED BY <1>0, <2>1, <2>2, <2>3 DEF RequestType
<1>13. CASE Judge(r)
  <2> DEFINE report == IF req[r].pc = "judge" THEN Report(req[r].work, policy) ELSE FailureReport(policy)
  <2>1. req' = [req EXCEPT ![r].pc = "persist", ![r].report[req[r].stage] = report]
    BY <1>13 DEF Judge, At
  <2>2. Consistent(report) /\ report.policy = policy.version
    BY <1>0, <1>3, <2>1, ReportTyped, ReportsAreConsistent DEF RequestType
  <2> DEFINE reports == [req[r].report EXCEPT ![req[r].stage] = report]
  <2> HIDE DEF report
  <2>3. /\ req[r].pc \in {"judge", "unreadable"}
        /\ UNCHANGED <<policy, lock, slots, saved, unsaved, audit>>
    BY <1>13 DEF Judge, At
  <2>4. req'[r] = [req[r] EXCEPT !.pc = "persist", !.report = reports]
    BY <2>1 DEF SanInv, Typed
  <2>5. /\ req'[r].pc = "persist" /\ req'[r].report = reports /\ req'[r].stage = req[r].stage
        /\ req'[r].work = req[r].work /\ req'[r].answer = req[r].answer
        /\ req'[r].allowed = req[r].allowed /\ req'[r].refused = req[r].refused
    BY <1>0, <2>4 DEF RequestType
  <2>6. \A s \in Stages : reports[s] = IF s = req[r].stage THEN report ELSE req[r].report[s]
    BY <1>0, <1>2 DEF RequestType
  <2>7. req[r].stage = "output" => req[r].pc = "judge" /\ report = Report(req[r].work, policy)
    BY <1>0, <1>2, <2>3 DEF report, Stages
  <2> HIDE DEF reports
  <2>8. HoldsLock(r)' /\ Allowed(r)' /\ Refused(r)' /\ Progress(r)'
    BY <1>0, <2>3, <2>5
  <2>9. Answered(r)'
    <3>1. req[r].stage = "input" \/ OutputOf(r) = NoReport
      BY <1>0, <2>3
    <3>2. CASE req[r].stage = "input"
      BY <1>0, <2>3, <2>5, <2>6, <3>2 DEF Stages
    <3>3. CASE OutputOf(r) = NoReport
      BY <1>0, <2>3, <2>5, <3>3 DEF Clean, NoReport
    <3>4. QED BY <3>1, <3>2, <3>3
  <2>10. Judged(r)'
    BY <1>0, <1>2, <1>3, <2>2, <2>3, <2>5, <2>6, <2>7 DEF Stages
  <2>11. Agrees(r)'
    BY <1>0, <2>2, <2>5, <2>6
  <2>12. QED BY <2>8, <2>9, <2>10, <2>11
<1>14. CASE Persist(r)
  <2>1. req[r].pc = "persist" /\ policy' = policy /\ audit' = audit /\ lock' = lock
    BY <1>14 DEF Persist, At
  <2>2. Item(r, "record") \notin unsaved
    BY <1>0, <2>1
  <2>3. CASE Commits(r, req[r].stage) /\ Goto(r, "audit")
    <3>1. saved' = saved \cup unsaved \cup {Item(r, req[r].stage)} /\ unsaved' = {}
      BY <2>3 DEF Commits
    <3>2. req'[r] = [req[r] EXCEPT !.pc = "audit"]
      BY <2>3 DEF Goto, SanInv, Typed
    <3>3. Item(r, "record") \in saved' => Item(r, "record") \in saved
      BY <1>1, <1>2, <2>2, <3>1 DEF Stages
    <3>4. QED BY <1>0, <2>1, <3>1, <3>2, <3>3 DEF RequestType
  <2>4. CASE CommitFails(r, req[r].stage) /\ Answer(r, "error")
    <3>1. saved' = saved /\ Item(r, "record") \notin unsaved'
      BY <1>1, <1>2, <2>2, <2>4 DEF CommitFails, Stages
    <3>2. req'[r] = [req[r] EXCEPT !.pc = "done", !.answer = "error"]
      BY <1>0, <2>1, <2>4 DEF Answer, SanInv, Typed
    <3>3. QED BY <1>0, <2>1, <3>1, <3>2 DEF RequestType
  <2>5. QED BY <1>14, <2>3, <2>4 DEF Persist
<1>15. CASE AuditScan(r)
  <2>1. /\ req[r].pc = "audit" /\ ~req[r].refused
        /\ UNCHANGED <<policy, lock, saved, unsaved>> /\ audit \subseteq audit'
    BY <1>0, <1>15 DEF AuditScan, At, Logs, LogFails
  <2>2. \/ req'[r] = [req[r] EXCEPT !.pc = "done", !.answer = "error"]
        \/ /\ Item(r, req[r].stage) \in audit'
           /\ \/ req'[r] = [req[r] EXCEPT !.pc = "done", !.answer = "report"]
              \/ req'[r] = [req[r] EXCEPT !.pc = "examine"]
    BY <1>15, <2>1 DEF AuditScan, Logs, Goto, Answer, SanInv, Typed
  <2>3. CASE req'[r] = [req[r] EXCEPT !.pc = "done", !.answer = "error"]
    BY <1>0, <2>1, <2>3 DEF RequestType
  <2>4. CASE req'[r] = [req[r] EXCEPT !.pc = "done", !.answer = "report"] /\ Item(r, req[r].stage) \in audit'
    BY <1>0, <1>2, <2>1, <2>4 DEF RequestType, Stages
  <2>5. CASE req'[r] = [req[r] EXCEPT !.pc = "examine"] /\ Item(r, req[r].stage) \in audit'
    BY <1>0, <2>1, <2>5 DEF RequestType
  <2>6. QED BY <2>2, <2>3, <2>4, <2>5
<1>16. CASE PolicyUnreadable(r)
  <2>1. /\ req[r].pc \in {"judge", "unreadable", "finish"} /\ ~req[r].refused
        /\ UNCHANGED <<policy, lock, saved, unsaved, audit>> /\ Answer(r, "error")
    BY <1>0, <1>16 DEF PolicyUnreadable, At
  <2>2. req'[r] = [req[r] EXCEPT !.pc = "done", !.answer = "error"]
    BY <2>1 DEF Answer, SanInv, Typed
  <2>3. QED BY <1>0, <2>1, <2>2 DEF RequestType
<1>17. CASE RefuseInput(r)
  BY <1>0, <1>1, <1>2, <1>3, <1>17 DEF RefuseInput, At, Deny, SanInv, Typed, RequestType
<1>18. CASE Transform(r)
  BY <1>0, <1>1, <1>2, <1>3, <1>18 DEF Transform, At, Goto, SanInv, Typed, RequestType
<1>19. CASE TransformEnds(r)
  <2>1. /\ req[r].pc = "transform" /\ UNCHANGED <<policy, saved, unsaved, audit, lock>>
        /\ \/ req'[r] = [req[r] EXCEPT !.pc = "scan", !.stage = "output"]
           \/ req'[r] = [req[r] EXCEPT !.pc = "finish", !.refused = TRUE]
    BY <1>19 DEF TransformEnds, At, SanInv, Typed
  <2>2. CASE req'[r] = [req[r] EXCEPT !.pc = "scan", !.stage = "output"]
    BY <1>0, <2>1, <2>2 DEF RequestType
  <2>3. CASE req'[r] = [req[r] EXCEPT !.pc = "finish", !.refused = TRUE]
    BY <1>0, <2>1, <2>3 DEF RequestType
  <2>4. QED BY <2>1, <2>2, <2>3
<1>20. CASE RefuseOutput(r)
  BY <1>0, <1>1, <1>2, <1>3, <1>20 DEF RefuseOutput, At, Deny, SanInv, Typed, RequestType
<1>21. CASE AllowOutput(r)
  BY <1>0, <1>1, <1>2, <1>3, <1>21 DEF AllowOutput, At, SanInv, Typed, RequestType
<1>22. CASE FinishLocks(r)
  <2> DEFINE b == req[r].allowed /\ req[r].report["output"].policy = policy.version
  <2>1. /\ req[r].pc = "finish" /\ lock' = r /\ UNCHANGED <<policy, saved, unsaved, audit>>
        /\ req'[r] = [req[r] EXCEPT !.pc = "log", !.allowed = b]
    BY <1>22 DEF FinishLocks, At, SanInv, Typed
  <2>2. b => req[r].allowed /\ req[r].report["output"].policy = policy.version
    OBVIOUS
  <2> HIDE DEF b
  <2>3. QED BY <1>0, <2>1, <2>2 DEF RequestType
<1>23. CASE FinishLogs(r)
  <2>1. /\ req[r].pc = "log" /\ policy' = policy /\ saved' = saved
        /\ unsaved' = unsaved /\ lock' = lock /\ audit \subseteq audit'
    BY <1>23 DEF FinishLogs, At, Logs, LogFails
  <2>2. Item(r, "record") \notin unsaved
    BY <1>0, <2>1
  <2>3. CASE Logs(r, "record") /\ Goto(r, "insert")
    <3>1. req'[r] = [req[r] EXCEPT !.pc = "insert"] /\ Item(r, "record") \in audit'
      BY <2>3 DEF Logs, Goto, SanInv, Typed
    <3>2. QED BY <1>0, <2>1, <2>2, <3>1 DEF RequestType
  <2>4. CASE LogFails(r, "record") /\ Goto(r, "rollback")
    <3>1. req'[r] = [req[r] EXCEPT !.pc = "rollback"]
      BY <2>4 DEF Goto, SanInv, Typed
    <3>2. QED BY <1>0, <2>1, <2>2, <3>1 DEF RequestType
  <2>5. QED BY <1>23, <2>3, <2>4 DEF FinishLogs
<1>24. CASE FinishInserts(r)
  BY <1>0, <1>1, <1>2, <1>3, <1>24 DEF FinishInserts, At, Commits, CommitFails, Goto, Answer, Decision, SanInv, Typed, RequestType
<1>25. CASE Rollback(r)
  <2>1. /\ req[r].pc = "rollback" /\ UNCHANGED <<policy, saved, audit>> /\ unsaved' = {}
        /\ Answer(r, "error")
    BY <1>25 DEF Rollback, At
  <2>2. PICK pc \in {"release", "done"} :
          /\ req'[r] = [req[r] EXCEPT !.pc = pc, !.answer = "error"]
          /\ pc = "release" => req[r].refused
    BY <2>1 DEF Answer, SanInv, Typed
  <2>3. QED BY <1>0, <2>1, <2>2 DEF RequestType
<1>26. CASE Release(r)
  BY <1>0, <1>1, <1>2, <1>3, <1>26 DEF Release, At, Goto, SanInv, Typed, RequestType
<1>99. QED
  BY <1>10, <1>11, <1>12, <1>13, <1>14, <1>15, <1>16, <1>17, <1>18, <1>19, <1>20, <1>21, <1>22, <1>23, <1>24, <1>25, <1>26 DEF Step

\* The steps of one request do not disturb another.
LEMMA OthersStep ==
  ASSUME SanInv, NEW r \in Requests, NEW q \in Requests, q # r, Step(r)
  PROVE  RequestInv(q)'
<1>1. \A a, b : Item(q, a) # Item(r, b)
  BY DEF Item
<1>2. policy' = policy /\ req'[q] = req[q]
  BY DEF SanInv, Typed, Step, ScanBegins, ScanBusy, WorkerEnds, Judge, Persist, AuditScan,
         PolicyUnreadable, RefuseInput, Transform, TransformEnds, RefuseOutput, AllowOutput,
         FinishLocks, FinishLogs, FinishInserts, Rollback, Release, Goto, Answer, Deny
<1>3. lock' = lock \/ lock # q
  <2>1. lock # "free" \/ lock # q
    BY RequestsAssumption
  <2>2. req[r].pc \in Recording => lock = r
    BY DEF SanInv, RequestInv, HoldsLock
  <2>3. QED
    BY <2>1, <2>2
       DEF Recording, Step, ScanBegins, ScanBusy, WorkerEnds, Judge, Persist, AuditScan,
           PolicyUnreadable, RefuseInput, Transform, TransformEnds, RefuseOutput, AllowOutput,
           FinishLocks, FinishLogs, FinishInserts, Rollback, Release, At
<1>4. audit \subseteq audit'
  BY DEF Step, ScanBegins, ScanBusy, WorkerEnds, Judge, Persist, AuditScan,
         PolicyUnreadable, RefuseInput, Transform, TransformEnds, RefuseOutput, AllowOutput,
         FinishLocks, FinishLogs, FinishInserts, Rollback, Release, Logs, LogFails
<1>5. /\ saved \subseteq saved'
      /\ Item(q, "record") \in saved' => Item(q, "record") \in saved \cup unsaved
      /\ Item(q, "record") \in unsaved' => Item(q, "record") \in unsaved
  BY <1>1
     DEF Step, ScanBegins, ScanBusy, WorkerEnds, Judge, Persist, AuditScan,
         PolicyUnreadable, RefuseInput, Transform, TransformEnds, RefuseOutput, AllowOutput,
         FinishLocks, FinishLogs, FinishInserts, Rollback, Release, Commits, CommitFails
<1>6. QED BY <1>2, <1>3, <1>4, <1>5, OthersKept

\* Every step keeps the invariant.
THEOREM SanInvStep == SanInv /\ [Next]_vars => SanInv'
<1> SUFFICES ASSUME SanInv, [Next]_vars PROVE SanInv'
  OBVIOUS
<1>1. Typed'
  BY TypedStep DEF SanInv
<1>2. ASSUME NEW r \in Requests, Step(r) PROVE SanInv'
  BY <1>1, <1>2, OwnStep, OthersStep DEF SanInv
<1>3. ASSUME NEW r \in Requests, NEW op \in {"scan", "copy"}, NEW readable \in BOOLEAN,
             Submit(r, op, readable)
      PROVE  SanInv'
  <2>1. RequestInv(r)'
    BY <1>3 DEF Submit, At, SanInv, Typed, RequestType, RequestInv, HoldsLock, Judged, Allowed,
                Progress, Answered, Agrees, OutputOf, Recorded, Recording
  <2>2. ASSUME NEW q \in Requests, q # r PROVE RequestInv(q)'
    BY <1>3, <2>2, OthersKept DEF Submit, SanInv, Typed
  <2>3. QED BY <1>1, <2>1, <2>2 DEF SanInv
<1>4. ASSUME NEW t \in Thresholds, SetPolicy(t) PROVE SanInv'
  <2>1. policy.version \in Nat \ {0} /\ policy'.version = policy.version + 1
    BY <1>4, PolicyTyped DEF SetPolicy, SanInv, Typed, Policies
  <2>2. ASSUME NEW r \in Requests PROVE RequestInv(r)'
    <3>1. RequestInv(r) /\ OutputOf(r).policy \in Nat
      BY DEF SanInv, Typed, RequestType, ReportType, OutputOf, Stages
    <3>2. req[r].pc \notin Recording
      BY <1>4, <3>1, RequestsAssumption DEF SetPolicy, RequestInv, HoldsLock
    <3>3. QED
      BY <1>4, <2>1, <3>1, <3>2
         DEF SetPolicy, RequestInv, HoldsLock, Judged, Allowed, Refused, Progress, Answered, Agrees, OutputOf, Recorded
  <2>3. QED BY <1>1, <2>2 DEF SanInv
<1>5. CASE Restart
  <2>1. ASSUME NEW r \in Requests PROVE RequestInv(r)'
    <3>1. /\ UNCHANGED <<saved, audit, policy>> /\ unsaved' = {}
          /\ \/ req'[r] = req[r] /\ req[r].pc \in {"new", "done"}
             \/ req'[r] = [req[r] EXCEPT !.pc = "done", !.answer = "error"]
      BY <1>5 DEF Restart, InFlight, SanInv, Typed
    <3>2. CASE req'[r] = req[r] /\ req[r].pc \in {"new", "done"}
      BY <3>1, <3>2
         DEF SanInv, RequestInv, HoldsLock, Judged, Allowed, Refused, Progress, Answered, Agrees, OutputOf,
             Recorded, Recording
    <3>3. CASE req'[r] = [req[r] EXCEPT !.pc = "done", !.answer = "error"]
      <4>1. RequestInv(r) /\ req[r] \in RequestType
        BY DEF SanInv, Typed
      <4>2. /\ req'[r].pc = "done" /\ req'[r].answer = "error" /\ req'[r].stage = req[r].stage
            /\ req'[r].work = req[r].work /\ req'[r].report = req[r].report
            /\ req'[r].allowed = req[r].allowed /\ req'[r].refused = req[r].refused
        BY <3>3, <4>1 DEF RequestType
      <4>3. QED
        BY <3>1, <4>1, <4>2
           DEF RequestInv, HoldsLock, Judged, Allowed, Refused, Progress, Answered, Agrees, OutputOf, Recorded,
               Recording
    <3>4. QED BY <3>1, <3>2, <3>3
  <2>2. QED BY <1>1, <2>1 DEF SanInv
<1>6. CASE UNCHANGED vars
  BY <1>1, <1>6
     DEF vars, SanInv, RequestInv, HoldsLock, Judged, Allowed, Refused, Progress, Answered, Agrees, OutputOf, Recorded
<1>7. QED
  BY <1>2, <1>3, <1>4, <1>5, <1>6 DEF Next

\* The invariant holds in every behaviour.
THEOREM SanInvariant == Spec => []SanInv
<1>1. QED BY SanInvInit, SanInvStep, PTL DEF Spec

\* What an answer says is on disk and in the audit log, before all a delivered
\* copy and its clean report, through any failure, restart or interleaving.
THEOREM AnswersHold == Spec => []AnswersAreRecorded
<1>1. SanInv => AnswersAreRecorded
  BY DEF SanInv, RequestInv, Answered, AnswersAreRecorded, OutputOf, Recorded
<1>2. QED BY <1>1, SanInvariant, PTL

\* No record of a sanitization exists without its audit event.
THEOREM RecordsAudited == Spec => []RecordsAreAudited
<1>1. SanInv => RecordsAreAudited
  BY DEF SanInv, RequestInv, Progress, RecordsAreAudited
<1>2. QED BY <1>1, SanInvariant, PTL

\* The reports of all scans are consistent, in every behaviour.
THEOREM ReportsStayConsistent == Spec => []ReportsAgree
<1>1. SanInv => ReportsAgree
  BY DEF SanInv, RequestInv, Agrees, ReportsAgree
<1>2. QED BY <1>1, SanInvariant, PTL

\* A decision to deliver becomes durable under the policy its copy was judged by.
THEOREM DecisionsAreCurrent == Spec => RecordsFollowPolicy
<1> DEFINE Follows ==
      \A r \in Requests :
        Item(r, "record") \in saved' \ saved /\ req[r].allowed
          => OutputOf(r) = Report(req[r].work, policy)
<1>1. ASSUME SanInv, Next PROVE Follows
  <2>1. SUFFICES ASSUME NEW r \in Requests, Item(r, "record") \in saved' \ saved
        PROVE  req[r].pc \in Recording
    BY <1>1 DEF SanInv, RequestInv, Judged, Allowed
  <2>2. Item(r, "record") \in unsaved => req[r].pc = "rollback"
    BY <1>1 DEF SanInv, RequestInv, Progress
  <2>3. ASSUME NEW q \in Requests, Step(q) PROVE req[r].pc \in Recording
    <3>1. \A a, b : Item(q, a) = Item(r, b) => q = r /\ a = b
      BY DEF Item
    <3>2. CASE Persist(q)
      BY <1>1, <2>1, <2>2, <3>1, <3>2
         DEF Persist, Commits, CommitFails, Recording, SanInv, Typed, RequestType, Stages
    <3>3. CASE FinishInserts(q)
      BY <2>1, <2>2, <3>1, <3>3 DEF FinishInserts, Commits, CommitFails, Recording, At
    <3>4. CASE saved' = saved
      BY <2>1, <3>4
    <3>5. QED
      BY <2>3, <3>2, <3>3, <3>4
         DEF Step, ScanBegins, ScanBusy, WorkerEnds, Judge, AuditScan, PolicyUnreadable,
             RefuseInput, Transform, TransformEnds, RefuseOutput, AllowOutput, FinishLocks,
             FinishLogs, Rollback, Release
  <2>4. CASE saved' = saved
    BY <2>1, <2>4
  <2>5. QED
    BY <1>1, <2>3, <2>4 DEF Next, Submit, SetPolicy, Restart
<1>2. SanInv /\ [Next]_vars => [Follows]_vars
  BY <1>1
<1>3. QED
  BY <1>2, SanInvariant, PTL DEF Spec, RecordsFollowPolicy, OutputOf
-----------------------------------------------------------------------------
\* A request has a worker, or records that it has refused.
Works(r) == req[r].pc \in {"worker", "transform"} \/ (req[r].refused /\ req[r].pc # "done")

SlotInv == slots \in Nat /\ IsFiniteSet(Working) /\ slots + Cardinality(Working) = Slots

\* A request takes one slot when it gets a worker, and gives it back afterwards.
LEMMA SlotsMove ==
  ASSUME SlotInv, NEW r \in Requests
  PROVE  /\ Working' = Working /\ slots' = slots => SlotInv'
         /\ r \notin Working /\ Working' = Working \cup {r} /\ slots > 0 /\ slots' = slots - 1
              => SlotInv'
         /\ r \in Working /\ Working' = Working \ {r} /\ slots' = slots + 1 => SlotInv'
<1> USE RequestsAssumption
<1> DEFINE n == Cardinality(Working)
<1>0. IsFiniteSet(Working) /\ n \in Nat /\ slots \in Nat /\ slots + n = Slots
  BY FS_CardinalityType DEF SlotInv
<1>1. ASSUME Working' = Working, slots' = slots PROVE SlotInv'
  BY <1>1 DEF SlotInv
<1>2. ASSUME r \notin Working, Working' = Working \cup {r}, slots > 0, slots' = slots - 1
      PROVE  SlotInv'
  <2>1. IsFiniteSet(Working') /\ Cardinality(Working') = n + 1
    BY <1>0, <1>2, FS_AddElement
  <2> HIDE DEF n
  <2>2. QED BY <1>0, <1>2, <2>1 DEF SlotInv
<1>3. ASSUME r \in Working, Working' = Working \ {r}, slots' = slots + 1 PROVE SlotInv'
  <2>1. IsFiniteSet(Working') /\ Cardinality(Working') = n - 1
    BY <1>0, <1>3, FS_RemoveElement
  <2> HIDE DEF n
  <2>2. QED BY <1>0, <1>3, <2>1 DEF SlotInv
<1>4. QED BY <1>1, <1>2, <1>3

\* Every step keeps the account of the slots.
LEMMA SlotStep == SanInv /\ SlotInv /\ [Next]_vars => SlotInv'
<1> SUFFICES ASSUME SanInv, SlotInv, [Next]_vars PROVE SlotInv'
  OBVIOUS
<1>0. Typed /\ Typed' /\ Working = {r \in Requests : Works(r)}
  BY TypedStep DEF SanInv, Working, Works
<1>1. ASSUME NEW r \in Requests, Step(r) PROVE SlotInv'
  <2>0. req[r] \in RequestType /\ Refused(r)
    BY <1>0 DEF SanInv, RequestInv, Typed
  <2>1. \A q \in Requests \ {r} : req'[q] = req[q]
    BY <1>0, <1>1
       DEF Typed, Step, ScanBegins, ScanBusy, WorkerEnds, Judge, Persist, AuditScan,
           PolicyUnreadable, RefuseInput, Transform, TransformEnds, RefuseOutput, AllowOutput,
           FinishLocks, FinishLogs, FinishInserts, Rollback, Release, Goto, Answer, Deny
  <2>2. Works(r) \in BOOLEAN /\ (r \in Working <=> Works(r))
    BY <1>0 DEF Works
  <2>3. Working' = IF Works(r)' THEN Working \cup {r} ELSE Working \ {r}
    BY <1>0, <2>1 DEF Working, Works
  <2>4. CASE ScanBegins(r) \/ Transform(r)
    <3>1. slots > 0 /\ slots' = slots - 1 /\ ~Works(r) /\ Works(r)'
      BY <1>0, <2>0, <2>4
         DEF ScanBegins, Transform, At, Goto, Typed, RequestType, Works, Refused, Recording
    <3>2. QED BY <2>2, <2>3, <3>1, SlotsMove
  <2>5. CASE WorkerEnds(r) \/ Release(r)
    <3>1. slots' = slots + 1 /\ Works(r) /\ ~Works(r)'
      BY <1>0, <2>0, <2>5
         DEF WorkerEnds, Release, At, Goto, Typed, RequestType, Works, Refused, Recording
    <3>2. QED BY <2>2, <2>3, <3>1, SlotsMove
  <2>6. CASE TransformEnds(r)
    <3>1. req[r].pc = "transform" /\ ~req[r].refused /\ Works(r)
      BY <2>0, <2>6 DEF TransformEnds, At, Works, Refused, Recording
    <3>2. ASSUME slots' = slots + 1, req' = [req EXCEPT ![r].pc = "scan", ![r].stage = "output"]
          PROVE  SlotInv'
      <4>1. ~Works(r)'
        BY <1>0, <2>0, <3>1, <3>2 DEF Typed, RequestType, Works
      <4>2. QED BY <2>2, <2>3, <3>1, <3>2, <4>1, SlotsMove
    <3>3. ASSUME slots' = slots, req' = [req EXCEPT ![r].pc = "finish", ![r].refused = TRUE]
          PROVE  SlotInv'
      <4>1. Works(r)'
        BY <1>0, <2>0, <3>3 DEF Typed, RequestType, Works
      <4>2. QED BY <2>2, <2>3, <3>1, <3>3, <4>1, SlotsMove
    <3>4. QED BY <2>6, <3>2, <3>3 DEF TransformEnds
  <2>7. CASE ScanBusy(r) \/ Judge(r) \/ Persist(r) \/ AuditScan(r) \/ PolicyUnreadable(r)
             \/ RefuseInput(r) \/ RefuseOutput(r) \/ AllowOutput(r) \/ FinishLocks(r)
             \/ FinishLogs(r) \/ FinishInserts(r) \/ Rollback(r)
    <3>1. slots' = slots
      BY <2>7
         DEF ScanBusy, Judge, Persist, AuditScan, PolicyUnreadable, RefuseInput, RefuseOutput,
             AllowOutput, FinishLocks, FinishLogs, FinishInserts, Rollback
    <3>2. /\ req[r].pc \notin {"worker", "transform", "release", "done"}
          /\ req'[r].refused = req[r].refused
          /\ \/ req'[r].pc \notin {"worker", "transform", "done"}
             \/ req'[r].pc = "done" /\ ~req[r].refused
      BY <1>0, <2>0, <2>7
         DEF ScanBusy, Judge, Persist, AuditScan, PolicyUnreadable, RefuseInput, RefuseOutput,
             AllowOutput, FinishLocks, FinishLogs, FinishInserts, Rollback, At, Goto, Answer,
             Deny, Typed, RequestType
    <3>3. Works(r)' <=> Works(r)
      BY <3>2 DEF Works
    <3>4. Working' = Working
      BY <2>2, <2>3, <3>3
    <3>5. QED BY <3>1, <3>4, SlotsMove
  <2>8. QED BY <1>1, <2>4, <2>5, <2>6, <2>7 DEF Step
<1>2. ASSUME NEW r \in Requests, NEW op \in {"scan", "copy"}, NEW readable \in BOOLEAN,
             Submit(r, op, readable)
      PROVE  SlotInv'
  <2>1. Working' = Working /\ slots' = slots
    BY <1>0, <1>2 DEF Submit, At, Working, Typed, RequestType, SanInv, RequestInv, Refused, Recording
  <2>2. QED BY <2>1, SlotsMove
<1>3. ASSUME NEW t \in Thresholds, SetPolicy(t) PROVE SlotInv'
  BY <1>3 DEF SetPolicy, SlotInv, Working
<1>4. CASE Restart
  <2>1. ASSUME NEW r \in Requests PROVE ~Works(r)'
    <3>1. req[r] \in RequestType /\ Refused(r)
      BY <1>0 DEF SanInv, RequestInv, Typed
    <3>2. CASE r \in InFlight
      <4>1. req'[r] = [req[r] EXCEPT !.pc = "done", !.answer = "error"]
        BY <1>4, <3>2 DEF Restart
      <4>2. QED BY <3>1, <4>1 DEF RequestType, Works
    <3>3. CASE r \notin InFlight
      BY <1>4, <3>1, <3>3 DEF Restart, InFlight, Works, Refused, Recording
    <3>4. QED BY <3>2, <3>3
  <2>2. Working' = {} /\ slots' = Slots
    BY <1>4, <2>1 DEF Restart, Working, Works
  <2>3. QED BY <2>2, FS_EmptySet, RequestsAssumption DEF SlotInv
<1>5. CASE UNCHANGED vars
  BY <1>5 DEF vars, SlotInv, Working
<1>6. QED BY <1>1, <1>2, <1>3, <1>4, <1>5 DEF Next

\* Slots come back on every way out of a scan or a transformation, a refused one's
\* when its record is written or has failed, and after a restart: none is ever lost
\* or given back twice.
THEOREM SlotsComeBack == Spec => []SlotsConserved
<1>1. Init => SlotInv
  <2> SUFFICES ASSUME Init PROVE SlotInv
    OBVIOUS
  <2>1. Working = {} /\ slots = Slots
    BY DEF Init, Working, New
  <2>2. QED BY <2>1, FS_EmptySet, RequestsAssumption DEF SlotInv
<1>2. SlotInv => SlotsConserved
  BY DEF SlotInv, SlotsConserved
<1>3. QED BY <1>1, <1>2, SlotStep, SanInvariant, PTL DEF Spec

\* Every variable keeps to its values.
THEOREM RequestsTyped == Spec => []TypeOK
<1> DEFINE LockTyped == lock \in Requests \cup {"free"}
<1>1. Init => LockTyped /\ SlotInv
  <2> SUFFICES ASSUME Init PROVE LockTyped /\ SlotInv
    OBVIOUS
  <2>1. Working = {} /\ slots = Slots
    BY DEF Init, Working, New
  <2>2. QED BY <2>1, FS_EmptySet, RequestsAssumption DEF SlotInv, Init
<1>2. LockTyped /\ [Next]_vars => LockTyped'
  BY DEF Next, vars, Submit, SetPolicy, Restart, Step, ScanBegins, ScanBusy, WorkerEnds, Judge,
         Persist, AuditScan, PolicyUnreadable, RefuseInput, Transform, TransformEnds,
         RefuseOutput, AllowOutput, FinishLocks, FinishLogs, FinishInserts, Rollback, Release
<1>3. LockTyped /\ SlotInv /\ SanInv => TypeOK
  <2>1. SlotInv => slots \in 0..Slots
    BY FS_CardinalityType, RequestsAssumption DEF SlotInv
  <2>2. QED BY <2>1 DEF SanInv, Typed, TypeOK, RequestType
<1>4. QED BY <1>1, <1>2, <1>3, SlotStep, SanInvariant, PTL DEF Spec
=============================================================================
