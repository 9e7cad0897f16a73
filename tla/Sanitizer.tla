----------------------------- MODULE Sanitizer -----------------------------
(***************************************************************************)
(* Scans and sanitized copies (reports.py 155-223, sanitizer.py 77-175).   *)
(* A request scans its file; a request for a copy then transforms it,      *)
(* scans the exact bytes of the result and delivers them only when that    *)
(* report is clean, the policy is still the one it was made under, and the *)
(* decision is in the audit log and in the table of sanitizations.         *)
(*                                                                         *)
(* Requests run on threads of their own and share two worker slots, the    *)
(* lock of the store, and one connection to scans.sqlite3: a row whose     *)
(* commit failed stays in its open transaction for whoever commits next.   *)
(*                                                                         *)
(* Abstractions.  A section under Reports.lock is one step.  Contents are  *)
(* what a worker may say of them.  append_audit and get_policy can fail at *)
(* any time (module AuditLog); a failed append can have been committed.    *)
(***************************************************************************)
EXTENDS ScanReports, FiniteSets

CONSTANTS Requests,     \* requests, each made once
          Outputs,      \* what scanner workers print
          Thresholds,   \* the thresholds a policy can set
          Slots,        \* workers at the same time (two in the code)
          MaxPolicies   \* bound: policy versions

ASSUME RequestsAssumption ==
  /\ "free" \notin Requests
  /\ Outputs \subseteq WorkerOutputs
  /\ \A t \in Thresholds :
       /\ {t.flag, t.quarantine, t.block} \subseteq 0..MaxScore
       /\ t.flag < t.quarantine /\ t.quarantine < t.block
  /\ Slots \in Nat
  /\ MaxPolicies \in Nat

VARIABLES
  policy,   \* the policy in force
  lock,     \* GuardStore.lock: who holds it across several steps
  slots,    \* Reports.slots: free workers
  saved,    \* committed rows of scans.sqlite3
  unsaved,  \* rows in its open transaction
  audit,    \* durable events of scans and sanitizations
  req       \* the requests

vars == <<policy, lock, slots, saved, unsaved, audit, req>>
-----------------------------------------------------------------------------
Stages == {"input", "output"}

\* The rows and events of a request: the reports of its two scans, its record.
Item(r, kind) == <<r, kind>>
Items == Requests \X (Stages \cup {"record"})

NoReport == [status |-> "none", verdict |-> "none", complete |-> FALSE,
             findings |-> {}, score |-> 0, policy |-> 0]

New == [pc |-> "new", op |-> "none", stage |-> "input", work |-> BrokenOff,
        report |-> [s \in Stages |-> NoReport], allowed |-> FALSE, refused |-> FALSE,
        answer |-> "none"]

PolicyOf(v, t) == [version |-> v, flag |-> t.flag, quarantine |-> t.quarantine, block |-> t.block]

Init ==
  /\ policy \in {PolicyOf(1, t) : t \in Thresholds}
  /\ lock = "free"
  /\ slots = Slots
  /\ saved = {}
  /\ unsaved = {}
  /\ audit = {}
  /\ req = [r \in Requests |-> New]

At(r, pc) == req[r].pc = pc
Goto(r, pc) == req' = [req EXCEPT ![r].pc = pc]
Deny(r) == req' = [req EXCEPT ![r].pc = "finish", ![r].allowed = FALSE]

\* The slot of a refused transformation is not given back.
AnswerAtOnce(r, answer) == req' = [req EXCEPT ![r].pc = "done", ![r].answer = answer]

\* A request whose transformation was refused still has to give its slot back.
Answer(r, answer) ==
  req' = [req EXCEPT ![r].pc = IF req[r].refused THEN "release" ELSE "done",
                     ![r].answer = answer]

\* INSERT and commit of one row, which also commits what was left open.
Commits(r, kind) ==
  /\ saved' = saved \cup unsaved \cup {Item(r, kind)}
  /\ unsaved' = {}

\* The INSERT fails, its commit fails, or SQLite has rolled everything back.
CommitFails(r, kind) ==
  /\ unsaved' \in {{}, unsaved, unsaved \cup {Item(r, kind)}}
  /\ UNCHANGED saved

Logs(r, kind) == audit' = audit \cup {Item(r, kind)}

\* append_audit raises, before or after its commit.
LogFails(r, kind) == audit' \in {audit, audit \cup {Item(r, kind)}}
-----------------------------------------------------------------------------
(* Scans (Reports.scan, record_failure, _persist) *)

Submit(r, op, readable) ==
  /\ At(r, "new")
  /\ req' = [req EXCEPT ![r].op = op, ![r].pc = IF readable THEN "scan" ELSE "unreadable"]
  /\ UNCHANGED <<policy, lock, slots, saved, unsaved, audit>>

ScanBegins(r) ==
  /\ At(r, "scan")
  /\ slots > 0
  /\ slots' = slots - 1
  /\ Goto(r, "worker")
  /\ UNCHANGED <<policy, lock, saved, unsaved, audit>>

\* Both workers are busy: the copy is denied, a first scan is refused.
ScanBusy(r) ==
  /\ At(r, "scan")
  /\ slots = 0
  /\ IF req[r].stage = "output" THEN Deny(r) ELSE Answer(r, "error")
  /\ UNCHANGED <<policy, lock, slots, saved, unsaved, audit>>

WorkerEnds(r) ==
  /\ At(r, "worker")
  /\ slots' = slots + 1
  /\ \E w \in Outputs \cup {BrokenOff} :
       req' = [req EXCEPT ![r].pc = "judge", ![r].work = w]
  /\ UNCHANGED <<policy, lock, saved, unsaved, audit>>

\* The policy of this moment decides.
Judge(r) ==
  /\ At(r, "judge") \/ At(r, "unreadable")
  /\ lock = "free"
  /\ req' = [req EXCEPT ![r].pc = "persist",
                        ![r].report[req[r].stage] =
                          IF At(r, "judge") THEN Report(req[r].work, policy)
                                            ELSE FailureReport(policy)]
  /\ UNCHANGED <<policy, lock, slots, saved, unsaved, audit>>

Persist(r) ==
  /\ At(r, "persist")
  /\ \/ Commits(r, req[r].stage) /\ Goto(r, "audit")
     \/ CommitFails(r, req[r].stage) /\ Answer(r, "error")
  /\ UNCHANGED <<policy, lock, slots, audit>>

AuditScan(r) ==
  /\ At(r, "audit")
  /\ lock = "free"
  /\ \/ /\ Logs(r, req[r].stage)
        /\ IF req[r].op = "scan" THEN Answer(r, "report") ELSE Goto(r, "examine")
     \/ LogFails(r, req[r].stage) /\ Answer(r, "error")
  /\ UNCHANGED <<policy, lock, slots, saved, unsaved>>

\* get_policy raises when the policy does not match the signed history.
PolicyUnreadable(r) ==
  /\ \/ At(r, "judge")
     \/ At(r, "unreadable")
     \/ At(r, "finish") /\ req[r].allowed
  /\ lock = "free"
  /\ Answer(r, "error")
  /\ UNCHANGED <<policy, lock, slots, saved, unsaved, audit>>
-----------------------------------------------------------------------------
(* Copies (Sanitizer.sanitize) *)

\* The original is not complete, not HTML, holds a secret, or workers are busy.
RefuseInput(r) ==
  /\ At(r, "examine") /\ req[r].stage = "input"
  /\ Deny(r)
  /\ UNCHANGED <<policy, lock, slots, saved, unsaved, audit>>

Transform(r) ==
  /\ At(r, "examine") /\ req[r].stage = "input"
  /\ req[r].report["input"].complete
  /\ slots > 0
  /\ slots' = slots - 1
  /\ Goto(r, "transform")
  /\ UNCHANGED <<policy, lock, saved, unsaved, audit>>

\* A refusal is recorded before its slot is given back.
TransformEnds(r) ==
  /\ At(r, "transform")
  /\ \/ /\ slots' = slots + 1
        /\ req' = [req EXCEPT ![r].pc = "scan", ![r].stage = "output"]
     \/ /\ req' = [req EXCEPT ![r].pc = "finish", ![r].refused = TRUE]
        /\ UNCHANGED slots
  /\ UNCHANGED <<policy, lock, saved, unsaved, audit>>

\* The answer is on its way, or the error of its record.
Release(r) ==
  /\ At(r, "release")
  /\ slots' = slots + 1
  /\ Goto(r, "done")
  /\ UNCHANGED <<policy, lock, saved, unsaved, audit>>

RefuseOutput(r) ==
  /\ At(r, "examine") /\ req[r].stage = "output"
  /\ Deny(r)
  /\ UNCHANGED <<policy, lock, slots, saved, unsaved, audit>>

AllowOutput(r) ==
  /\ At(r, "examine") /\ req[r].stage = "output"
  /\ Clean(req[r].report["output"])
  /\ req[r].report["output"].findings = {}
  /\ req' = [req EXCEPT ![r].pc = "finish", ![r].allowed = TRUE]
  /\ UNCHANGED <<policy, lock, slots, saved, unsaved, audit>>
-----------------------------------------------------------------------------
(* The record of the decision (Sanitizer._finish) *)

\* The policy is not looked at again.
FinishLocksBlind(r) ==
  /\ At(r, "finish")
  /\ lock = "free"
  /\ lock' = r
  /\ Goto(r, "log")
  /\ UNCHANGED <<policy, slots, saved, unsaved, audit>>

\* Under the lock of the store: a report of an older policy allows nothing.
FinishLocks(r) ==
  /\ At(r, "finish")
  /\ lock = "free"
  /\ lock' = r
  /\ req' = [req EXCEPT ![r].pc = "log",
                        ![r].allowed = @ /\ req[r].report["output"].policy = policy.version]
  /\ UNCHANGED <<policy, slots, saved, unsaved, audit>>

\* A failed append does not keep the row from being written.
FinishLogsAnyway(r) ==
  /\ At(r, "log")
  /\ Logs(r, "record") \/ LogFails(r, "record")
  /\ Goto(r, "insert")
  /\ UNCHANGED <<policy, lock, slots, saved, unsaved>>

FinishLogs(r) ==
  /\ At(r, "log")
  /\ \/ Logs(r, "record") /\ Goto(r, "insert")
     \/ LogFails(r, "record") /\ Goto(r, "rollback")
  /\ UNCHANGED <<policy, lock, slots, saved, unsaved>>

Decision(r) == IF req[r].allowed THEN "delivered" ELSE "denied"

\* The answer is given although the row could not be written.
FinishInsertsAnyway(r) ==
  /\ At(r, "insert")
  /\ Commits(r, "record") \/ CommitFails(r, "record")
  /\ lock' = "free"
  /\ Answer(r, Decision(r))
  /\ UNCHANGED <<policy, slots, audit>>

FinishInserts(r) ==
  /\ At(r, "insert")
  /\ \/ /\ Commits(r, "record")
        /\ lock' = "free"
        /\ Answer(r, Decision(r))
     \/ /\ CommitFails(r, "record")
        /\ Goto(r, "rollback")
        /\ UNCHANGED lock
  /\ UNCHANGED <<policy, slots, audit>>

\* The lock is not given back.
RollbackLocked(r) ==
  /\ At(r, "rollback")
  /\ unsaved' = {}
  /\ Answer(r, "error")
  /\ UNCHANGED <<policy, lock, slots, saved, audit>>

Rollback(r) ==
  /\ At(r, "rollback")
  /\ unsaved' = {}
  /\ lock' = "free"
  /\ Answer(r, "error")
  /\ UNCHANGED <<policy, slots, saved, audit>>
-----------------------------------------------------------------------------
SetPolicy(t) ==
  /\ lock = "free"
  /\ policy.version < MaxPolicies
  /\ policy' = PolicyOf(policy.version + 1, t)
  /\ UNCHANGED <<lock, slots, saved, unsaved, audit, req>>

InFlight == {r \in Requests : req[r].pc \notin {"new", "done"}}

\* The service ends and starts again: the databases stay, requests are lost.
Restart ==
  /\ InFlight # {} \/ unsaved # {}
  /\ lock' = "free"
  /\ slots' = Slots
  /\ unsaved' = {}
  /\ req' = [r \in Requests |->
               IF r \in InFlight THEN [req[r] EXCEPT !.pc = "done", !.answer = "error"] ELSE req[r]]
  /\ UNCHANGED <<policy, saved, audit>>

Step(r) ==
  \/ ScanBegins(r)
  \/ ScanBusy(r)
  \/ WorkerEnds(r)
  \/ Judge(r)
  \/ Persist(r)
  \/ AuditScan(r)
  \/ PolicyUnreadable(r)
  \/ RefuseInput(r)
  \/ Transform(r)
  \/ TransformEnds(r)
  \/ RefuseOutput(r)
  \/ AllowOutput(r)
  \/ FinishLocks(r)
  \/ FinishLogs(r)
  \/ FinishInserts(r)
  \/ Rollback(r)
  \/ Release(r)

Next ==
  \/ \E r \in Requests, op \in {"scan", "copy"}, readable \in BOOLEAN : Submit(r, op, readable)
  \/ \E r \in Requests : Step(r)
  \/ \E t \in Thresholds : SetPolicy(t)
  \/ Restart

Spec == Init /\ [][Next]_vars

\* The thread of a request runs on, and a worker ends by its timeout.
FairSpec == Spec /\ \A r \in Requests : WF_vars(Step(r))
-----------------------------------------------------------------------------
Pcs == {"new", "scan", "worker", "judge", "unreadable", "persist", "audit", "examine",
        "transform", "finish", "log", "insert", "rollback", "release", "done"}

ReportType ==
  [status : Statuses \cup {"none"},
   verdict : {"VALID", "INFECTED", "CORRUPTED", "REVIEW_REQUIRED", "UNSCANNABLE", "none"},
   complete : BOOLEAN, findings : SUBSET FindingKinds, score : 0..MaxScore, policy : Nat]

\* The values every variable ranges over.
TypeOK ==
  /\ policy \in Policies
  /\ lock \in Requests \cup {"free"}
  /\ slots \in 0..Slots
  /\ saved \subseteq Items
  /\ unsaved \subseteq Items
  /\ audit \subseteq Items
  /\ req \in [Requests -> [pc : Pcs, op : {"none", "scan", "copy"}, stage : Stages,
                           work : WorkerOutputs, report : [Stages -> ReportType],
                           allowed : BOOLEAN, refused : BOOLEAN,
                           answer : {"none", "report", "denied", "delivered", "error"}]]

\* The requests that have a worker, or record that it has refused.
Working ==
  {r \in Requests : \/ req[r].pc \in {"worker", "transform"}
                    \/ req[r].refused /\ req[r].pc # "done"}

\* Every slot taken for a scan or a transformation is held by exactly one request,
\* during a refusal until its record is written or has failed (sanitizer.py:143),
\* and comes back on every way out.
SlotsConserved == slots + Cardinality(Working) = Slots

\* What an answer says is on disk and in the audit log: a report that was
\* returned, a denial, and before all the copy that was delivered, whose own
\* scan was complete, clean and without findings.
AnswersAreRecorded ==
  \A r \in Requests :
    LET Recorded(kind) == Item(r, kind) \in saved \cap audit
    IN  /\ req[r].answer = "report" => Recorded("input")
        /\ req[r].answer = "denied" => Recorded("input") /\ Recorded("record")
        /\ req[r].answer = "delivered" =>
             /\ Recorded("input") /\ Recorded("output") /\ Recorded("record")
             /\ Clean(req[r].report["output"])
             /\ req[r].report["output"].findings = {}

\* The table of sanitizations never holds a record the audit log does not know,
\* whichever thread has committed it.
RecordsAreAudited ==
  \A r \in Requests : Item(r, "record") \in saved \cup unsaved => Item(r, "record") \in audit

\* When a decision to deliver becomes durable, the policy in force is the one the
\* copy was judged by: judged again it would get the same report.
RecordsFollowPolicy ==
  [][\A r \in Requests :
       Item(r, "record") \in saved' \ saved /\ req[r].allowed
         => req[r].report["output"] = Report(req[r].work, policy)]_vars

\* Every report says one thing: ALLOWED goes with VALID, incomplete with a verdict
\* that says so, whichever of the checks has found it out (reports.py:185), and no
\* VALID report is one the MCP reader refuses.
ReportsAgree ==
  \A r \in Requests, s \in Stages :
    req[r].report[s] # NoReport => Consistent(req[r].report[s])

\* Every request gets an answer: no lock, slot or failure keeps it waiting.
RequestsAnswered == \A r \in Requests : ~At(r, "new") ~> At(r, "done")
=============================================================================
