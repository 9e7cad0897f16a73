# MCP Integrity Guard: a TLA+ verification project

This directory holds TLA+ models of the service in `backend/integrity_guard`,
the TLC configurations that check them on small instances, and proofs, checked
by TLAPS, of the most important results for every value of the constants.

File names and line numbers refer to `src/backend/integrity_guard/` unless a
path says otherwise. `PROJECT.json` gives, for every definition that stands for
code, the lines it stands for.

1. [The system](#the-system)
2. [Modules and the code](#modules-and-the-code)
3. [What is checked](#what-is-checked)
4. [What is proved](#what-is-proved)
5. [Findings](#findings)
6. [What is not modelled](#what-is-not-modelled)
7. [Plan](#plan)

To run a check: `tlc -workers 2 -config AuditLog.cfg MCAuditLog`. To check a
proof: `tlapm AuditLogProofs.tla`.

## The system

MCP Integrity Guard watches the configuration files of MCP servers and the
documents in protected folders. A component (a server, or a tool of one) may be
used only with exactly the bytes a person has approved; documents are scanned
before an MCP client may read them; every decision is in a signed log.

| Part | State it keeps | Operations | Works with |
|---|---|---|---|
| **Audit log**, `core.py` 374-670 | table `audit` (hash chain of signed rows), `audit-head.json` (signed head), `_audit_cache` (the last verification and the evidence it rests on), one SQLite connection and its open transaction | `append_audit`, `verify_audit(fast)`, `_atomic_updates` (batches), start | every other part appends to it; other SQLite connections and programs can touch its two files |
| **Trust store and gate**, `core.py` 671-1157 | tables `components`, `versions`, `approvals`, `settings` | `discover`, `approve`, `revoke`, `quarantine`, `gate`, `get_policy`, `set_policy`, `history` | reads the log back to decide whether its own rows can be believed |
| **Findings and diff**, `core.py` 244-320, `canonical.py` | none | `normalize`, `semantic_diff`, `config_findings` | called by the trust store |
| **File watcher, lifecycle**, `filewatch.py` 78-365, 658-753 | `roots`, `_active`, `_slots`, `_stop`, `_thread`, `_executor`, `_generation`, `_cursors` | `start`, `stop`, `close`, `_run`, `_scheduled_scan`, `scan_root`, add, enable, remove a root | dispatcher threads, pools of two, API threads |
| **File watcher, index**, `filewatch.py` 376-753 | tables `root_files`, `file_index`, `walk_dirs`, the cycle and cursor of each root | `_cycle`, `_open_cursor`, `_entries`, `_finish_directory`, the index of a file | scans each file through Reports |
| **Reports**, `reports.py`, `scan_protocol.py` | `scans.sqlite3` (table of scans, shared connection), two worker slots | `scan`, `_persist`, `record_failure`, lists | worker processes, policy and audit of the trust store |
| **Sanitizer**, `sanitizer.py` | table of sanitizations in the same file | `sanitize`, `sanitize_path`, records | Reports twice, the transformation worker, policy and audit |
| **Worker processes**, `worker_process.py`, `scan_worker.py`, `sanitize_worker.py` | one child, three pipes, a deadline | `run_worker`; the two workers' `main` | Linux sandbox, registry, scanner; called by Reports and the sanitizer |
| **Scanner**, `scanner.py`, `extraction.py`, `xlsx_extractor.py`, `html_text.py` | none outside a call: segments, a queue of decoded texts, budgets | `scan_bytes`, `extract`, `html_to_text` | runs in the worker |
| **Extractor registry**, `extractor_registry.py` | registered extractors until frozen, the inventory of the package's sources | `register_extractor`, `freeze`, `lookup`, `fingerprint` | scanner; its fingerprint is part of the file index |
| **MCP reader**, `mcp_server.py` | protocol state of one session, `_calls` (the times of recent calls) | `handle`, `call`, `snapshot`, `scan` | the file system, Reports over a connection |
| **Connection and CLI**, `connection.py`, `cli.py` | the lock on the data directory | proof that the local server holds the token, then one request; or the same operation on a store of its own | HTTP API, or the trust store |
| **Configuration monitor**, `monitor.py` | `_stop`, `_observer`, `_thread`, `_dirty` | `start`, `stop`, `_run`, the callbacks of the observer | `refresh` of the trust store |
| **HTTP API**, `api.py` | none of its own | thin handlers | all of the above |
| **Interface, shell, site**, `frontend/`, `windows/`, `website/`, `deploy/` | display state, packaging | | the HTTP API |

### Where it is hard

* **Evidence instead of proof.** Verifying the whole log for every request would
  be too slow, so `verify_audit(fast=True)` and the updates trust a cached
  verification while some counters and the checkpoint file stand still. Other
  connections write while it is made and while it is used.
* **Two writes that cannot be atomic.** A commit to SQLite and the new
  checkpoint; a report and its audit event; a decision, its event and its record.
* **Rows that cannot be believed.** The tables are not signed as a whole: an
  earlier row, with a valid signature, can be put back by another program. The
  log must decide.
* **Read, then decide.** `approve` and `gate` read a file first; a copy is
  scanned under one policy and recorded perhaps under another.
* **One connection, many threads.** An update whose commit failed stays in the
  open transaction of a connection other threads commit.
* **A walk in instalments.** A cycle over a tree takes many passes, which end at
  limits, cancellations and errors, while the tree, the policy and the process
  change; roots that share directories share the index entries of their files.
* **Starts, stops and scans that overlap**, with a semaphore, a table of scans in
  progress, thread pools that are replaced, and waits that give up.
* **Names that lead elsewhere.** A file that is scanned and then delivered can be
  written, replaced, moved or linked between any two looks at it; so can the
  directory above it.
* **Two equal passes instead of a lock.** The registry's inventory of its own sources
  is believed when two passes over a changing tree see the same.
* **A port that changes hands.** The service, or the process that has its port, can
  end between the proof and the request that carries the token.
* **Requests whose answer is lost.** A command that got no answer must not run again
  on a store of its own.
* **Pipes that fill in both directions**, with a worker that fails, hangs, or leaves
  a process behind that holds them open.
* **Limits.** Depth, candidates, expansion, findings and segments of a scan: reaching
  one must make the scan fail and never make it skip.

`PROJECT.json` lists these hazards one by one, at their lines, with the properties
that would notice each of them going wrong.

### What makes each part correct

| Part | Correctness |
|---|---|
| Audit log | An answer "valid" is true of the log on disk when it is given; a commit only extends an intact log; a log damaged by a stop is never sealed over; the checkpoint never runs ahead of the log. |
| Trust store | The gate allows only bytes it has just read, under the latest signed approval of exactly these bytes and the policy in force; a lost approval returns only by approving again; a version number names one content. |
| Watcher | One scan per root; nobody closes an iterator in use; a stop that returns leaves nothing behind; stops end and are obeyed; every entry of `_active` goes away. |
| Reports, sanitizer | Nothing is delivered or reported that is not recorded and audited; a delivery is recorded under the policy that judged it; no report says two things about its file; slots come back and requests are answered. |
| Index | A completed cycle has covered every file that was there all the time, and forgets files that are gone; an entry with the signature of a file is about its bytes; every change is indexed in the end. |
| MCP reader | The text delivered is what was scanned, with a clean result, and still what the path leads to after the scan; the token goes to the service alone; the rate limit holds in every window; every call ends. |
| Worker processes | A result is a whole reply of a worker that got all of its input and exited with 0; every run ends, and needs the deadline only for a worker that hangs. |
| Extractor registry | A published inventory is the package as it was at one instant. |
| Configuration monitor | The switch holds as long as calls do not overlap, but for a start after a stop that gave up; changes of registered files are refreshed in the end, whatever events are lost. |
| Connection and CLI | A command runs at most once, exactly once when it has an answer, and never beside a process that has the store. |
| Scanner | A complete report is of every text, searched with everything that can be decoded from it. |
| HTML to text | The text is what is visible, in order, and nothing else. |
| Semantic diff | Every change is named once; a diff that is cut off says so. |

## Modules and the code

```
 AuditLog             GateContract            FileWatchJobs        ScanReports
   |                     ^ implements           |                  |    |    |
   | (appends and        |                      | (one pass of a   |    |    |
   |  damage as          |                      |  root at a time, v    |    v
   |  single steps)      |                      v  cursors closed) Sanitizer  GuardedReader
   +- - - - - - - ->  TrustStore            FileWatchCycle             |
                                                                       v
 PackageSources       ConfigMonitor           HtmlText  SemanticDiff  Scanner
   |                     |                        \         |         /
   v                     v                         v        v        v
 WorkerProcess        LocalService                     Inspection
```

An arrow down is `EXTENDS`, except where a note stands on it: there the upper module
justifies steps of the lower one. A module `M` that is checked has `MCM` with the
constants TLC needs, and `MProofs` with its theorems. What runs in a worker, that is
`PackageSources`, `WorkerProcess`, `Scanner` and `HtmlText`, is proved in `WorkerProofs`,
and so is `SemanticDiff`, the other inspection of content.

### AuditLog (`core.py` 374-670)

`rows` is the committed table, `view` what our connection sees of it, `inTxn`
whether it has a transaction open. `checkpoint` is the content of
`audit-head.json`; `changes` and `dataVersion` are `total_changes` and
`PRAGMA data_version`; `cache` is `_audit_cache`. GuardStore holds one re-entrant
lock over every call, so there is one call at a time: `call` holds its local
variables and says between which two statements it stands.

| Action | Code |
|---|---|
| `FastVerify`, `StartVerify`, `Scan`, `ConfirmVerify`, `ConfirmSettled` | `verify_audit`: answer from the cache, or read the evidence, scan all rows, read the evidence again |
| `BeginUpdate`, `ConfirmUpdate`, `Refuse` | the start of `append_audit` and `_atomic_updates`: `BEGIN IMMEDIATE`, reuse of the cached proof or a full scan |
| `Insert`, `Commit`, `ReadCommitted`, `Seal`, `Promote`, `Settle` | `append_audit`: insert, commit, compare the counters, write the checkpoint, keep the proof for the next call |
| `BatchWrite`, `BatchAppend`, `BatchCommit`, `BatchSeal`, `BatchKeep` | `_atomic_updates` and the events inside it |
| `DataWrite` | a statement of a handler before its event, which opens SQLite's implicit transaction |
| `Fail`, `Restart` | an exception, or the end of the process, at any point |
| `OutsideWrite`, `OutsideCheckpoint` | other SQLite connections, excluded while ours holds the write lock, and other programs, never excluded |

A digest is the sequence of events it covers. That is what a collision-free hash
of payload and previous digest determines; edited rows fail the check because
nobody else has the key. File metadata and schema counters in the evidence are
left out: they only make two evidences differ more often. `signed`, `durable`
and `damaged` are history variables.

### GateContract and TrustStore (`core.py` 671-1157)

`GateContract` is what a user of the gate is promised, with no rows, versions or
log: trust in a component is at most one grant, for exact bytes; a grant is made
only for bytes the approving call has just read; trust can be withdrawn at any
time and is never revived; the gate allows only under a grant for the bytes the
same call has read.

`TrustStore` has the four tables (`row`, `versions`, `docs`, `policy`) and, from
the audit log, what the handlers read back: `anchors` (the events that introduce
versions), `life` (the latest lifecycle event of a component), `policyLog`.
`sealed` says whether the log verifies. These do not change under a log that
verifies; that is what module AuditLog is about.

| Action | Code |
|---|---|
| `Discover` | `discover` and `_persist` of every component of one file, with new versions, lost sources and the state the policy asks for |
| `ApproveRead`, `Approve` | `approve`: refresh from the file, then decide on the version the caller has inspected |
| `GateRead`, `GateDecide`, `GateRefuse` | `gate`, split in the same way |
| `Abandon` | the exceptions between the two parts (a row that is no longer there is a `KeyError`) |
| `SetState` | `revoke`, `quarantine` |
| `SetPolicy` | `set_policy` |
| `EditFile`, `RowChanged`, `PolicyChanged` | users and other SQLite connections: a file changes; an earlier row is put back or a row is removed |

The refinement mapping makes `granted` the bytes of the latest lifecycle event if
that is an approval under the policy in force, and `offer` what the call in
progress has read. The raw hash is the content of a file and the canonical hash
the definition it gives a component, so a change of layout changes one and not
the other. Which edits `semantic_diff` calls security relevant is left open.

Handlers are single steps here, apart from the two that read first: they run
under the store's lock. That one statement of several in a handler fails is
modelled for the log (AuditLog) and not yet for the other tables.

### FileWatchJobs (`filewatch.py` 78-365, 658-753)

One action is one section under `FileWatch._lock`, or one step between two. An
entry of `active` carries the token of a reservation until its scan begins and
that of the job afterwards; `Drop` removes an entry only by its token, as the
code compares identities. The n-th start creates thread n and pool n, so `thread`
and `executor` are numbers and 0 is `None`.

| Action | Code |
|---|---|
| `AddRoot`, `Enable`, `Disable`, `RemoveRoot` | `add_root`, `set_enabled`, `remove_root`, 178-238 |
| `DispatcherChecks`, `TickIdle`, `TickReserve` | `_run`, 325-348 |
| `PoolStarts`, `BeginScheduled`, `Unwind` | `_scheduled_scan`, 350-365, on a pool of two threads |
| `BeginManual`, `NextFile`, `FileDone`, `EndWalk`, `Finish`, `Release` | `scan_root` and `_scan_root`, 658-753 |
| `Start`, `StopBegins` ... `StopReturns`, `StopGivesUp`, `CloseDatabase` | `start`, `stop`, `close`, 273-323, statement by statement where another thread can come between |

Time is abstracted: any enabled root may be due at any tick, so what is checked
holds for every order of change events and reconciliations. A tick reserves one
root; the code's loop over the due roots is several ticks. A walk may end at any
file. Observers and file system watches are left out. `submit` and `shutdown` of
CPython's pool are single steps, so the pool's own locks are not in the model.

### FileWatchCycle (`filewatch.py` 209-222, 376-753)

The tables are variables: `watched`, `context`, `finalized` and `result` are rows
of `roots` (`finalized` is `last_job.cycle_complete` with the id of the present
cycle), `walk` is `walk_dirs`, `index` is `file_index`, and `root_files` is `seen`
(rows of the present cycle) and `old` (rows of earlier ones). `cursor` is
`_cursors`: the open directory, what its iterator has still to list (`todo`), and
the file in hand (`pending`). `job` is the pass of each root, with the statement it
has reached and its local variables.

| Action | Code |
|---|---|
| `Begin`, `BeginFails`, `NewCycle`, `ContinueCycle`, `CycleGone` | `_scan_root` 658-674, `_context`, `_cycle`: go on with the queue, or begin anew |
| `EnterRoot`, `RootUnavailable`, `OpenDirectory`, `DirectoryUnreadable`, `DirectoryChanged`, `Drained`, `EntryLimit`, `TimeLimit`, `YieldPending`, `NextFile`, `EntryVanished`, `NextDirectory`, `EndDirectory` | `_entries`, `_open_cursor`, `_finish_directory` |
| `Pause`, `RootGone`, `Wanted`, `Record` | the loop of `_scan_root`, 677-693 |
| `Look`, `Read`, `ReadFails`, `Scan`, `ScanFails`, `Save` | `_scan_file`, `_cached_failure`, `_save_index` |
| `Abort`, `Publish`, `PublishNothing` | the end of `_scan_root`, 697-746 |
| `RemoveRoot`, `Stop`, `Restart`, `RetryDue`, `SetPolicy` | `remove_root`, `stop` 307-315, a new process, the end of a retry delay, a policy change |
| `WriteFile`, `DeleteFile`, `BreakDirectory`, `RepairDirectory` | users of the file system |

Every lookup, insert or commit of one pass is a step, so anything else can happen in
between. What is abstracted:

* The signature of a file is the time stamp of its last change, so two contents
  never share one. The code takes device, inode, size and the times of modification
  and status change; a file system on which none of them moves is outside the model.
* The analysis context is the version of the policy. Its other parts (rules,
  engine, dependencies) change only with the process.
* A broken directory is missing or is another one than was queued; what is below it
  cannot be reached either. Links, excluded and private files, which are skipped, and
  the depth limit are left out.
* The queue is served in any order (the code: by row id).
* Limits of time and bytes, cancellations, exceptions of the scanner or database,
  removals, stops and restarts are bounded together by `MaxTrouble`, and can come at
  any step. Only `MAX_ENTRIES` is counted (`PassEntries`).
* A removed root is not added again: a new one would have a new id. A pass that
  outlives its root can leave rows behind (`Record`); this is in the model.

### ScanReports and Sanitizer (`reports.py`, `sanitizer.py`, parts of `scan_protocol.py`, `api.py`)

`ScanReports` has no variables: it says which worker outputs the service accepts
(`Valid`, `BrokenOff`, `Accepted`), what a report says of them under a policy
(`Reviewed`, `PolicyStatus`, `Verdict`, `Report`), and when the MCP reader takes a
report for clean. Findings are reduced to the kinds the rules tell apart. The rules
differ: the validation of an output knows failures by their category
(`FailedFindings`, `scan_protocol.py:56`), the report also by the rule
`SCAN_INCOMPLETE` under any category (`UnfinishedFindings`, `reports.py:43`).

`Sanitizer` has requests for scans and copies, each on a thread of its own, the
worker slots, the store's lock (held from the policy check over the audit event to
the record), the shared connection of `scans.sqlite3` as `saved` and `unsaved`
rows, and the durable audit events.

| Action | Code |
|---|---|
| `Submit`, `ScanBegins`, `ScanBusy`, `WorkerEnds`, `Judge`, `Persist`, `AuditScan`, `PolicyUnreadable` | `Reports.scan`, `record_failure`, `_persist` |
| `RefuseInput`, `Transform`, `TransformEnds`, `Release`, `RefuseOutput`, `AllowOutput` | `sanitizer.py` 112-163: scan, transform, scan the result; `Release` is the `finally` of a refused transformation, after its record |
| `FinishLocks`, `FinishLogs`, `FinishInserts`, `Rollback` | the decision: policy check, audit event, record, commit, and the roll back after a failure |
| `SetPolicy`, `Restart` | a policy change by the API; the end of the process |

`append_audit` and `get_policy` can fail at any time, and a failed append may have
been committed: both are what AuditLog shows of them. Contents are reduced to what
a worker may print about them.

### GuardedReader (`mcp_server.py` 106-431)

`entry` is what the name of the file leads to, in the directory the root was at
first; `root` says whether the root's path still leads there; `node` is the content
and time stamp of each inode. `peer` is who listens on the port of the service, `conn`
who is at the other end of the connection of the call. `state`, `closed`, `seen` and
`calls` are the session; `call` is the call in progress with its snapshots.

| Action | Code |
|---|---|
| `Initialize`, `Initialized`, `ToolCall`, `OtherRequest`, `Close` | `StdioServer.handle` and `_call`: states, identifiers, rate limit, size of messages |
| `SnapshotOpens`, `SnapshotReads`, `SnapshotReadsOn`, `SnapshotCompares`, `SnapshotResolves` | `GuardedReader.snapshot`: open below the root, read, look at the identity again, then at the name, then at the path |
| `ScanConnects`, `ScanProves`, `ScanPosts`, `ReportArrives`, `Judge` | `LocalScanner.scan`, `verified_summary` |
| `Deliver` | the second snapshot of `read_file` and the comparison with the first |
| `Write`, `Rename`, `MoveRoot`, `ChangePeer`, `ChangePolicy`, `Tick` | users of the file system, the process on the port, the policy, time |

`Outlived` and `Kept` are the loop that forgets old calls (`popleft`).

The service is what ScanReports says of a worker output under a policy. There is one
path; a link on the way counts as no file. Reading is two steps, and a file that is
written between them is read as a mix. `list` reads the names of the roots only and is
an `OtherRequest`. In the run, `Large`, `Long`, `Binary`, `Secret` and `Private` are
empty: they are guards without interleaving of their own, and the proof covers them.

### PackageSources and WorkerProcess (`extractor_registry.py`, `worker_process.py`, `scan_worker.py`, `sanitize_worker.py`)

`PackageSources` is `_package_sources`: two passes over the application's files.
`file` and `dir` are contents and time stamps on disk, `dirSeen` and `fileSeen` what
each pass has seen, `hash` what was read.

| Action | Code |
|---|---|
| `OpenDir`, `Look`, `ReadBegins`, `ReadEnds`, `CloseDir` | `collect` and `_source_hash`, 106-212 |
| `SecondPass`, `Publish`, `CollectFails` | the second pass, the comparison, every `raise` |
| `Change` | an installer, or anybody else who writes there |

`WorkerProcess` is the parent in `run_worker` and the child beside it, connected by
three bounded pipes. On POSIX one loop serves all pipes, on Windows a thread each;
`platform` chooses.

| Action | Code |
|---|---|
| `Spawn`, `WriteInput`, `ReadOutput`, `ReadEnd`, `ReleasesPipes`, `LoopEnds`, `Waits`, `Deadline`, `Judge`, `CleanUp` | `worker_process.py`: loop, limits, deadline, exit code, and the killing of whatever is left |
| `ChildConfines`, `ChildRegisters`, `ChildReads`, `ChildWrites` | `main` of the workers |
| `ChildFails`, `ChildHangs`, `ChildForks`, `ExtraOutput` | what can go wrong in a child, at any step |

The inventory is taken while the child is in its setup; afterwards its state is
forgotten (`Forget`), because nothing later looks at it. Data is counted in chunks.

### ConfigMonitor and LocalService (`monitor.py`, `cli.py`, `connection.py`, parts of `api.py`, `core.py`)

`ConfigMonitor` is the monitor: a file is the number of its edits, `known` what the
store has of it. Three history variables are there for the properties alone: `wanted`
is what the call that returned last has asked for, `missed` that two calls have
overlapped, `late` that the last start has found a thread that was told to end.

| Action | Code |
|---|---|
| `StartBegins`, `StartEnds` | `start`, under the lock of the monitor |
| `StopBegins`, `StopObserver`, `StopJoins` | `stop`, without it: the event, the observer, the join that gives up |
| `CycleBegins`, `Refresh`, `RefreshFails`, `CycleEnds`, `ThreadEnds` | `_run` |
| `Edit`, `Debounced`, `ReconcileDue`, `Register` | the file system and its events, time, `discover` |

`LocalService` puts it into the process of the service, next to a command that wants
to change the store.

| Action | Code |
|---|---|
| `ServiceOpens`, `ServiceStarts`, `ServiceListens`, `ServiceDrains`, `ServiceStops`, `ServiceCloses`, `ServiceEnds`, `SetMonitor` | `serve`, the lifespan of `api.py`, `GuardStore.__init__` and `close`, `POST /api/monitor` |
| `ReadToken`, `Connect`, `Prove`, `Handle`, `Answered`, `RequestFails` | `main` of `cli.py`, `VerifiedConnection` |
| `OpenStore`, `RunOffline`, `CloseStore`, `CommandKilled` | the same command without a service |
| `StrangerListens` | another process on the port |

### Scanner, HtmlText, SemanticDiff and Inspection (`scanner.py`, `extraction.py`, `html_text.py`, `canonical.py` 360-436)

Three algorithms that share nothing; `Inspection` is a job of one of them, so that
one run checks all.

* `Scanner` is `scan_bytes` with the bookkeeping of `extract`: `Extracts`,
  `ExtractorStops`, `ExtractionEnds` for the segments, `Search`, `Descend`,
  `NextSegment`, `Completes` for the queue of decoded texts, `ScanFails` for time and
  errors. How a text decodes and which rules it matches is part of the document, so the
  result is for every decoder and every set of rules. Unusual characters of all kinds
  count as invisible ones.
* `HtmlText` is the sequence of callbacks `StartTag`, `EndTag`, `Data`, `Comment`,
  `Finish` with the stack, the pending space and the start of the line. `Rendering` is
  a second definition of the text, from what is visible alone: it says of every
  visible place, by what is around it, which character it leaves (`Rendered`), and
  `Selected` that the text is these characters in order.
* `SemanticDiff` is the walk over two values. A value is a tree, a function from paths to
  what is there, and the recursive calls still to be made are the set of paths `todo`:
  `Visit` is a call of `walk`, or of `add` for a part that one side lacks, and
  `WalkReturns` the end of the outermost one. The order of the calls is left open, which
  only decides what is named before the limit. `Changed` is a second definition of the
  result, from the two trees alone. A path is the sequence of its keys and indices; the
  code joins them with dots (`canonical.py:416`), so where keys contain dots two
  positions can have the same text. What is shown is about positions.

## What is checked

All runs that hold finish with the state space exhausted, each in less than two and a
half minutes with two workers. States are distinct states.

| Run | Instance | States | Checks |
|---|---|---|---|
| `audit_log` | 2 payloads; 3 rows, 3 changes of our connection, 2 outside changes | 842 308 | `CacheSound`, `CheckpointNamesDurableHead`, `DamageStaysRefused`, `AppendsOnlyToVerifiedLog`, `AnswersAreTrue` |
| `trust_store` | 1 component; contents that differ in layout and in definition, and an unreadable file; 2 edits, 1 row put back, 2 approvals, 2 policies | 1 205 771 | `VersionNamesOneContent`, `KeepsContract`, `FailsClosed` |
| `trust_store_pair` | 2 components of one file, one of which can vanish; 2 edits, 1 approval, nobody else in the tables | 761 401 | `GrantIsUsable`, `HistoryServed`, `IsolationStays` |
| `filewatch_cycle` | 2 roots that share a directory, 1 file, 2 contents; passes of 2 entries; 1 edit, 2 policy versions | 1 251 990 | `SignaturesNameContents`, `CompletedMeansCovered`, `CompletedForgetsTheGone` |
| `filewatch_catch_up` | 1 root of 2 directories, 1 file that can become too large; passes of 1 entry; 2 edits, 1 trouble, 2 policy versions, fairness | 508 695 | `ChangesAreIndexed` |
| `filewatch_jobs` | 1 root, 2 scans, 1 controller, 2 starts, fairness | 56 270 | `OneScanPerRoot`, `ScansKeepTheirCursor`, `ReservationsBacked`, `QuietAfterStop`, `StopDrains`, `StopsEnd` |
| `filewatch_retry` | 1 root, 1 scan, 2 controllers, 2 starts | | `RetryMeansScanning` is violated, see [the findings](#findings) |
| `sanitizer` | 2 requests, 3 worker outputs, one of which contradicts itself, 1 slot, 2 policy versions, fairness | 710 981 | `AnswersAreRecorded`, `RecordsAreAudited`, `ReportsAgree`, `SlotsConserved`, `RecordsFollowPolicy`, `RequestsAnswered` |
| `guarded_reader` | 2 inodes, a harmless and a harmful content; 3 requests, 1 call per window of 1; 3 changes on disk, 1 of the listener or policy, fairness | 1 155 264 | `DeliversWhatWasScanned`, `TokenStaysLocal`, `CallsAreLimited`, `CallsEnd` |
| `worker_process` | input and reply of 2 chunks, pipes of 1, a limit of 3, 2 chunks of other output; 1 source file, 2 changes of it; both platforms, fairness | 638 012 | `ResultIsWhole`, `SourcesWereThere`, `RunsEnd` |
| `local_service` | 1 source; 1 edit, 1 failed refresh; 2 requests to switch the monitor, 2 starts of the service, 1 command, fairness | 620 568 | `CommandsRunOnce`, `SwitchHolds`, `ChangesAreRefreshed` |
| `inspection` | documents of up to 2 texts that decode in up to 3 layers and in cycles, 2 rules, low limits; 6 tags, 5 nodes, 6 characters; 2 keys, nested values, diffs cut off at 1, 2 and 9 | 3 595 238 | `CompleteMeansSearched`, `TextIsWhatIsVisible`, `DiffNamesEveryChange` |

Each property was also checked against a changed model, in which a plausible
mistake takes the place of one definition (`mutants` in `PROJECT.json`): the
changed definitions stand just before the right ones in the modules, under names
such as `RemoveRootClosing` or `UnwindAny`, and TLC finds the property violated
in each.

### The bounds, and why they are enough

* **AuditLog.** Three rows give a prefix, a row to edit and a suffix. Three writes
  of our connection allow an append, a batch and a failed handler after each
  other. With two outside changes one can come before a verification and one
  between two of its steps, or the table and the checkpoint can both change; an
  edit can be undone by putting back the earlier checkpoint.
* **TrustStore.** Two edits take a file away from its approved content and back,
  which is the case an approval must not survive. Two approvals and two policy
  versions let an old document and an old policy row compete with new ones; one
  row put back is enough to bring any earlier state of one row. In
  `trust_store_pair` the tables are changed by nobody else, because what it asks
  (that grants are usable and histories readable) is promised only then.
* **FileWatchJobs.** Two scans are what `_run` keeps in progress: one holds the root,
  the other meets it, and after a restart the second overtakes what is left of the
  first. Two starts give an old and a new thread and pool. Two controllers, in
  `filewatch_retry`, are what it takes for a start to overlap a stop. What several
  roots and any number of scans and controllers do to each other is proved
  (`ScanInvariant`). `SlowTicks` says that a tick may outlast the five seconds `stop`
  waits for the thread.
* **FileWatchCycle.** The trees have three entries, so a cycle takes two passes of two
  entries or three of one, and a limit can come before, at and behind the file in hand.
  Two roots that share a directory, one file and two policies are what it takes for a
  slow pass to meet a newer entry; one edit changes, creates or deletes the file in
  the middle of either cycle. In `filewatch_catch_up` two edits are a change away and
  back, or a change and a broken directory, and one trouble is one interruption, at
  any step; passes of a single entry are the smallest that can make progress.
* **Sanitizer.** The code has two slots; for contention a run needs more requests than
  slots, so it has two requests and one slot. The second policy version is what
  changes between judgement and record. Three outputs are a clean one, a hint under the
  thresholds, and one the rules disagree about; what a report says of every
  worker output is proved (`ReportsAreConsistent`).
* **GuardedReader.** Three changes on disk take the name away, change a file and bring
  the name back between two looks; two inodes can take each other's place. One change
  of the listener or of the policy is one at any step of a call. Two of three requests
  can be calls after the first has initialized the session, and two windows of time
  are enough for one call to be forgotten.
* **WorkerProcess.** Pipes of one chunk are full at once, in both directions; the limit
  of three is one more than the reply, so two chunks of other output pass it. Two
  changes are one in each pass, or one away and back. One file is enough for the
  two looks at it and at its directory to disagree; any number is proved.
* **LocalService.** Two starts give a service, its end and another one, with the
  command in between; two requests switch the monitor off and on. One edit and one
  failed refresh are enough for an event to be lost and for the next cycle to fail.
* **Inspection.** Decoding in a chain, to two texts at once, by two encodings to the
  same text, and in a cycle; the limits are below and above what each document needs.
  Five HTML nodes nest two elements around a text, or follow one with another. Values
  are nested two deep, as containers within containers of either kind.

Only `filewatch_cycle` uses symmetry, of the contents, which nothing compares but for
equality; its properties are invariants and action properties.

### Fairness

* **FileWatchJobs.** Weak fairness of each dispatcher, each scan and each stop or
  close call: they are threads that run on, and none waits for a lock whose holder
  waits for it. Nothing is assumed of the end of a walk (a tree may have any number
  of files), of API calls that begin, or of changes to roots. In the model an
  unfair `EndWalk` is part of the fair step of a scan, but the walk may take
  `NextFile` for ever.
* **FileWatchCycle.** Weak fairness of the passes of each root: `_run` begins one at
  least every `RECONCILE_SECONDS` (30 seconds), and its thread runs on. Weak fairness
  of `RetryDue`: time goes by. Trouble is bounded, since a system that is interrupted
  for ever owes nothing. The liveness run has a single root, so no pass waits for
  the lock of another. Of changes to files, directories and the policy nothing is
  assumed but that they end.
* **Sanitizer.** Weak fairness of each request. A worker ends because the parent
  kills it at its deadline (12 seconds), and no request waits for another's slot: a
  scan without a slot is refused at once.

* **GuardedReader.** Weak fairness of the steps of a call: the reader runs on, and every
  wait for the service has a timeout. Nothing is assumed of the listener.
* **WorkerProcess.** Weak fairness of the parent's steps, of the worker's own (until it
  hangs) and of its inventory. The deadline is certain only for a worker that hangs:
  with it for all, `RunsEnd` would be its mere consequence.
* **LocalService.** Weak fairness of the monitor's cycle, of calls of `start` and
  `stop` that have begun, and of the time until the next reconciliation. Nothing is
  assumed of events, of requests, or of the service being up.

Deadlock checking is off in all configurations, since all counters are bounded and
the system may come to rest: no calls, a service that is closed, all requests
answered. What must not stop is stated as liveness instead.

## What is proved

For all values of the constants: any number of payloads, components, roots, scans,
controllers and requests. The assumptions are the `ASSUME`s of the modules: they
give the bounds and the shape of the constants. Three theorems assume more and say so
in their statement: `OneController` is one controller, and ticks that do not outlast
the time a stop waits for them.

| Theorem | Statement |
|---|---|
| `AuditLogProofs!TypeCorrect`, `AuditInvariant` | `TypeOK` and `AuditInv` are invariants |
| `CacheIsSound`, `CheckpointFollowsCommit`, `DamageIsNotHidden` | `CacheSound`, `CheckpointNamesDurableHead`, `DamageStaysRefused` |
| `AppendsAreVerified`, `AnswersHold` | `AppendsOnlyToVerifiedLog`, `AnswersAreTrue` |
| `TrustStoreProofs!StoreInvariant`, `VersionsAreNames` | `StoreInv`, `VersionNamesOneContent` |
| `StoreKeepsContract` | TrustStore implements GateContract |
| `GrantsAreUsable`, `HistoryIsServed`, `StoreFailsClosed`, `IsolationIsKept` | `GrantIsUsable`, `HistoryServed`, `FailsClosed`, `IsolationStays` |
| `FileWatchJobsProofs!ScanInvariant`, `ScansOwnTheirRoots`, `ScansAreExclusive`, `CursorsAreKept` | `JobsOwnTheirRoots`, `OneScanPerRoot`, `ScansKeepTheirCursor` and the invariant behind them |
| `JobsTyped` | `TypeOK`, with the places of the semaphore |
| `OneControllerLeavesNoOrphan`, `OneControllerIsQuiet`, `OneControllerRetriesForAScan` | with one controller: `ReservationsBacked`, `QuietAfterStop`, `RetryMeansScanning` |
| `FileWatchCycleProofs!IndexInvariant`, `IndexTyped`, `SignaturesHold` | `TypeOK` and `SignaturesNameContents` of the index, and the invariant behind them |
| `CoverInvariant`, `CompletedCoversTheTree`, `CompletedListsTheLiving` | `CompletedMeansCovered`, `CompletedForgetsTheGone`, and the invariant behind them |
| `SanitizerProofs!ReportsAreConsistent`, `ReportsStayConsistent` | a report of any worker output under any policy, and every report in any behaviour, is consistent (`ReportsAgree`); it is `BLOCKED` when the output was invalid, broken off, or said it was incomplete |
| `AnswersHold`, `RecordsAudited`, `DecisionsAreCurrent` | `AnswersAreRecorded`, `RecordsAreAudited`, `RecordsFollowPolicy` |
| `SlotsComeBack`, `RequestsTyped` | `SlotsConserved`, `TypeOK` |
| `GuardedReaderProofs!ReaderInvariant`, `DeliveryIsScanned`, `TokenIsKept` | the invariant of a call; `DeliversWhatWasScanned`, `TokenStaysLocal` |
| `RateInvariant`, `RateIsLimited` | the invariant of the remembered calls; `CallsAreLimited` |
| `WorkerProofs!InventoryIsOfOneInstant`, `WorkerInventory` | `SourcesWereThere`, of an inventory alone and of one taken by a worker |
| `ResultsAreWhole` | `ResultIsWhole` |
| `ScannerInvariant`, `ScansAreComplete` | the invariant of a scan; `CompleteMeansSearched` |
| `HtmlInvariant`, `TextIsVisibleText` | the invariant of the transformation; `TextIsWhatIsVisible` |
| `DiffInvariant`, `DiffsAreComplete` | the invariant of the walk; `DiffNamesEveryChange` |
| `LocalServiceProofs!ServiceTyped`, `ServiceInvariant` | `TypeOK`, and the invariant of service, monitor and command |
| `CommandsAreRunOnce`, `SwitchIsKept` | `CommandsRunOnce`, `SwitchHolds` |

### The arguments

* **Audit log.** `CacheSound` is not inductive: a proof is used later than it is
  made. `AuditInv` adds what is true in between: a cached or kept proof, and a
  positive scan not yet confirmed, are about the log on disk *as long as both
  counters have not moved* (`ProofsHold`, `ScanHolds`); an admitted update has
  verified the very view it extends (`ViewInv`); after its commit the head is the
  log's unless the data version has moved (`CommittedInv`); and while the log is
  damaged, no proof exists and no update is admitted (`DamageInv`). The counters
  only grow, so evidence, once stale, stays stale.
* **Trust store.** Rows may be anything another connection has put back, so the
  invariant says nothing about them: `StoreInv` relates approvals, versions and
  calls to the *log* (`ApprovalsMatchLog`, `CallMatchesLog`). From it every step
  maps to a step of the contract or a stutter; `GateDecide` maps to `Allow` because
  the row it believes has to agree with the log. What the store promises only as long
  as nobody else writes its tables does need an invariant about rows: `Undisturbed`
  says that row, versions and log of every component agree (`Consistent`) and that a
  call still sees the row it has read. Each operation that writes a row is shown to
  write the event that matches it. For `FailsClosed`, `CallSealed` says that no call
  that has read its source is left once the checkpoint is lost.
* **File watcher.** `OneScanPerRoot` rests on ownership: the entry of a root carries the
  token of its scan in the phase the scan is in (`JobsOwnTheirRoots`), so two scans of
  one root would need one entry with two tokens. `ScanInv` joins it with the types and
  with `ScansKeepTheirCursor`, since each needs the other: `RemoveRoot` spares the
  cursor of a root because its entry is there, and a stop clears all cursors only when
  there is no entry. The semaphore is an account: `slots` is the number of scans
  between taking and giving back a place (`SlotsHold`), so every step moves both or
  neither.
* **One controller.** `Serial` says how far the controller's stop has come, and what is
  left by then: the only thread that dispatches is the one of the current start, until
  the stop has waited for it (`OneThread`); scheduled scans are in the pool that thread
  feeds, and none is left after the wait for that pool (`OnePool`). So a scan is never
  submitted to a pool that has been shut down, and every reservation has a scan that
  releases it.
* **Index.** `SignaturesNameContents` is about entries, which are made from what a pass
  has had in hand since the stat of the file. `IndexInv` adds that the file in hand is
  one and is there while a pass deals with it (`HandsFull`), that no signature is newer
  than the last change (`SignaturesAreOld`), so a change makes every signature of the
  file stale, and that what a pass has read is what the file contains if its signature
  is still the one in hand (`ReadsMatch`). Taking the signature after the scan would
  break the last: that is the mutant `SaveAfterwards`.
* **Covered cycles.** `CompletedMeansCovered` relates one step to a whole cycle, of which
  the tables show only a part. `CoverInv` says what is true on the way. A cycle is done
  with a file when its directory is DONE, or open and past the file; then the entry of
  the file serves the cycle, *and so will whatever a pass of any root is still going to
  write there* (`HandledFilesServed`, `WillServe`). The second half is needed because
  roots share the index: another root's pass can hold bytes or an old entry of the file
  at that moment, and one pass at a time at a file (`FilesAreLocked`, by the stripes of
  locks) leaves no third one. An entry that is kept because its signature is unchanged is of
  the time of the cycle (`HandsKnown`), and no entry is older than the context it names
  (`EntriesAreOfTheirTime`). Progress is `WaysAreQueued`: whatever lies on the way to a
  file that was there all the time joins the queue before its parent is done. When
  nothing is pending and nothing has failed, the closure of the root's directory under
  "its children are queued" then reaches every such file (`DoneAllTheWay`). The same
  invariant, with `HistoryKnows`, gives `CompletedForgetsTheGone`.
* **Sanitizer.** `SanInv` follows a request through its phases: what it has committed
  and logged so far, that it holds the lock in the three last phases, and that under
  the lock the policy is the one its report was made under. One lemma is about the
  request that moves, another about all the others, which its commit can affect
  through the shared connection. Slots are counted like the places of the watcher's
  semaphore: `Working` are the requests that have one, in a worker or, when the
  transformation was refused, until the record of that is settled.
* **Reports.** `ReportsAreConsistent` needs no invariant: it goes through the rules by
  cases. A finding of `UnfinishedFindings` is what the two rules disagree on, and the
  one case in which an incomplete report can have another status than `BLOCKED`.
* **Reader.** `ReaderInv` says what each step of a call knows: the snapshot in hand is of
  an inode whose time stamp says whether it still has that content; the report is of
  the first snapshot's bytes; a connection that has been proven is to the service or is
  dead. The second snapshot looks at the name after the report, so what it returns is
  in `held`, and equality with the first carries the scan's result over to it.
* **Rate limit.** `CallsAreLimited` counts calls in a window, which no step can be seen to
  preserve. `RateInv` says it in terms of distance: calls that are as many apart as the
  limit are more than a window apart (`Spaced`). For a new call this holds because the
  remembered calls are exactly the last ones, every forgotten one is older than the
  window (`Remembered`), and there are fewer than the limit. A window that had more calls
  than the limit would contain a first and a last one that are that far apart. Forgetting
  is a loop; that it stops at the first call within the window is `Outlived`, a number,
  and needs the order of the calls, not an induction.
* **Service and command.** Both properties of LocalService are about calls that are
  long over. `RequestFollows` says at each point of a command whether it can have been
  carried out: before it is sent it was not, while a request waits for the service it was
  not and has no answer, and a command that has reached the service never turns to a
  store of its own. `LockFollows` ties open stores to the one lock. `OneCall` describes the
  monitor as long as no calls overlap: then at most one call is in progress, a call
  of `start` in progress has no thread beside it, and one of `stop` has set the event, so
  when it ends the thread is told to end even if the join gave up. What a start that
  comes then finds is what `late` remembers.
* **Package sources.** What the first pass has seen of a file or directory was true
  before the turn, what the second has seen after it. Time stamps never come back, so
  equal ones mean that nothing changed in between: the files at the turn are the ones
  that were hashed. Comparing files alone is not enough, since a file that appears
  behind the first pass's look and disappears before the second's leaves a trace only
  in its directory (mutant `PublishFiles`).
* **Worker process.** The invariant counts chunks: what was written to a pipe is what
  was read from it and what is in it, `total` is never less than what was kept, and
  exit code 0 means that the whole input was read and the whole reply written. Only
  `Judge` makes a result, when all pipes are at their end.
* **Scanner.** `ScannerInv` says that whatever a searched text decodes to is searched or
  queued, at this level or the next, and that every finding of a searched text is kept;
  the end of a segment finds both levels empty, so nothing queued is lost. A limit ends
  the scan in another state, whose report is never complete.
* **HTML to text.** `TextIsWhatIsVisible` speaks of the whole document, a step of its
  last place. `TextGrows` closes the gap: when one place more is visible, the rendering
  of all earlier ones stays as it is, but for a space at the end that was waiting to see
  what follows; the text grows by that space, if it is due, and by what the new place
  leaves. `TextInv` says that the two flags are true of the end of what is visible:
  `lineStart` that its line is empty, `pendingSpace` that a space waits there. `TreeInv`
  says that an entry of the stack is marked if and only if the element or one around it
  is itself omitted, for which `EndTag` may pop the marks and `StartTag` need not look
  further than the innermost one. The third part, that no space waits inside of
  omitted elements or of `pre`, holds because both begin with a break: `pre` is a block.
* **Semantic diff.** `WalkInv` says of the paths that are named and of those still to be
  visited that any two differ at a place both have, so that none is above another: that
  is why no change is named twice, and why no call is made below one. It says that the
  values agree on everything on the way to them, and, below the limit, that each path
  that changed has one of them on its way or is one. At the end nothing is left to be
  visited, so all that changed is named, or the limit was reached and says so. That an
  empty diff means equal values takes one more step (`NothingChanged`): of the paths on
  the way to a difference, the shortest that differs is a change.

### Only model-checked

Liveness (`StopDrains`, `StopsEnd`, `ChangesAreIndexed`, `RequestsAnswered`, `CallsEnd`,
`RunsEnd`, `ChangesAreRefreshed`) is out of reach of the prover, and all that is: every
invariant and every action property that a run checks is proved.

`RetryMeansScanning`, which two controllers violate, is proved for one.

## Findings

`filewatch_retry` shows the first by a behaviour that violates what the code says. The
other two are disagreements between text and code that were met while modelling; there
the properties that are checked state what the code does.

### A root that stays busy

`filewatch_retry`. `_run` enters its reservation into `_active` (`filewatch.py:343`)
before it submits the scan, and nothing takes it out again when there is no pool
(344) or when `submit` raises because the pool has been shut down. A `start` that
overlaps a `stop` reaches this: the stop waits for the thread, which the start has
kept alive by clearing `_stop`, and then shuts down the pool, or sets `_executor` to
`None`, under the thread that goes on. The reservation then has no scan. `stop` and
`close` wait 15 seconds and raise "File scan is still finishing; retry shutdown after
the bounded scanner returns" (309), but there is no scan that could return, and a
retry meets the same entry. The root is skipped by later dispatchers and reported
`BUSY` to explicit scans until the process ends.

With one controller, whose calls do not overlap, this cannot happen: TLC shows
`ReservationsBacked` and `QuietAfterStop` (`filewatch_jobs`), and both are proved for
any number of roots, scans and starts, with the very `RetryMeansScanning` that two
controllers violate. The API serves each request on a thread of its own, so
overlapping calls are possible.

### A monitor that is off after it was switched on

`stop` sets the event, waits 5 seconds for the thread and returns
whether it has ended or not (`monitor.py:107`). A `start` that comes after that finds
the old thread alive and returns its status (36-37), `running`, without clearing the
event. When the thread is done with the refresh in hand, it sees the event and ends.
The monitor is then off though it was enabled last, no call has overlapped another, and
nothing starts it again until somebody switches it. `docs/MANUALE_UTENTE.md:320` says
of the switch: "si applica immediatamente". It takes a refresh longer than 5 seconds.

A `start` during a `stop` that is still waiting has the same effect. `SwitchHolds` leaves
overlapping calls out (`missed`), and says of all others, exactly, what the monitor does:
it runs on if and only if the last call was a start that did not find a thread told to end
(`late`). So it is shown of every such start that it leaves the monitor off. This is
checked in `local_service` and proved (`SwitchIsKept`).

### An incomplete report that is not BLOCKED

The comment at `reports.py:183` says: "Incomplete extraction always
remains BLOCKED, regardless of thresholds." The code skips the thresholds for an
incomplete report (187) and leaves it the status the worker has printed. For an output
that says it is incomplete, the validation has made sure that this is `BLOCKED`, and
it refuses one that says it is complete beside a finding of the category
`ANALYSIS_FAILURE` (`scan_protocol.py:52-57`). But the report is incomplete also by a
finding of the rule `SCAN_INCOMPLETE` under any other category (185-186), which the
validation does not look at: such an output keeps a status of its own, and `ALLOWED`
becomes `FLAGGED` (197-198), with the verdict `UNSCANNABLE`.

It never becomes `ALLOWED`, and no reader or copy delivers it. `scanner.py` itself emits no such
finding, so it takes a worker that contradicts itself; the comment, and the validation
that is there for such workers, promise more. What holds for every output is
`ReportsAgree` and the theorem `ReportsAreConsistent`.

## What is not modelled

* **Parsers of formats** (`extraction.py` from the registration table on,
  `xlsx_extractor.py`, the HTML of scans) and of configurations (`normalize`): text
  processing over unbounded inputs. Which rules match a text and what it decodes to
  is a parameter of Scanner.
* **Findings of configurations** (`config_findings`, `redact`): pattern matching.
* **Registration** of extractors and the fingerprint: a fixed sequence at import time.
* **Linux sandbox**: a fixed sequence of system calls without state of its own.
* **Read-only routes of the HTTP API, diagnostics**: projections of the tables.
* **A handler of the trust store that fails between two statements**: modelled for the
  log (AuditLog), not for the other tables (`core.py:1062`). Handlers are single steps
  of TrustStore.
* **Locks inside CPython's thread pool** (`filewatch.py:345`).
* **Web interface, Windows shell, installers, site, `qa/`**: display, packaging and
  test drivers.

## Plan

Done, in the order of importance: AuditLog and its proofs, GateContract and
TrustStore with the refinement, FileWatchJobs, ScanReports and Sanitizer,
FileWatchCycle and the proofs of its index and its cycles, GuardedReader, PackageSources and
WorkerProcess, Scanner, ConfigMonitor in LocalService, HtmlText and SemanticDiff, each
with proofs.

What would come next:

1. **Composition** of AuditLog with TrustStore, for a handler that fails between two
   statements and leaves them in the open transaction.
2. **Registration** before the freeze, with the fingerprint that is part of the context
   of the file index.
3. **The worker as Sanitizer sees it**: WorkerProcess shown to implement an abstract
   worker that answers, fails, or is late.
4. **Theorems**: what AuditLog promises to TrustStore (appends and damage as single steps)
   as an abstract log that AuditLog implements.
