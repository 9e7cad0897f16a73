--------------------------- MODULE FileWatchJobs ---------------------------
(***************************************************************************)
(* Starting, stopping and scheduling in FileWatch (filewatch.py 65-388,    *)
(* 658-753): the dispatcher threads, the pool they submit scans to, the    *)
(* explicit scans of API threads, and concurrent start, stop and close.    *)
(*                                                                         *)
(* Every root with a scan in progress has an entry in `active': the token  *)
(* of a reservation until the scan begins, then that of its job.  An entry *)
(* is removed only by whoever knows its token.  One action is one section  *)
(* under FileWatch._lock, or one step between two of them.                 *)
(*                                                                         *)
(* Abstractions.  Time: any enabled root can be due at any tick (a change  *)
(* was reported, or 30 seconds have passed), so `_pending' and             *)
(* `_last_reconcile' are left out.  A tick reserves one root: reserving    *)
(* two is two ticks.  A scan is a walk over files that can end at any file *)
(* (no more files, a limit, an error).  Observers and file system watches  *)
(* are left out.                                                           *)
(***************************************************************************)
EXTENDS Naturals, Sequences, FiniteSets

CONSTANTS Roots,        \* watched directories
          Jobs,         \* bound: scans that exist at the same time
          Controllers,  \* API threads that start, stop and close the watcher
          MaxStarts,    \* bound: successful starts
          SlowTicks     \* a tick can outlast the 5 seconds stop waits for it

ASSUME JobsAssumption ==
  /\ MaxStarts \in Nat
  /\ SlowTicks \in BOOLEAN
  /\ {"none", "nobody"} \cap Jobs = {}

Pools == 1..MaxStarts   \* the n-th start creates thread n and pool n

VARIABLES
  roots,       \* the roots table
  active,      \* _active: the token of each root with a scan in progress
  job,         \* the scans in progress
  queue,       \* scans a pool has accepted and not begun, in order
  slots,       \* _slots: free places of the semaphore
  stopFlag,    \* _stop
  dispatcher,  \* the dispatcher threads
  thread,      \* _thread: 0 is None
  executor,    \* _executor: 0 is None
  shut,        \* pools that accept nothing any more
  cursors,     \* _cursors: roots with an open directory iterator
  closed,      \* _closed
  call,        \* the stop or close call of each controller
  outcome      \* how the last stop or close of each controller ended

vars == <<roots, active, job, queue, slots, stopFlag, dispatcher, thread,
          executor, shut, cursors, closed, call, outcome>>

jobState == <<active, job, queue, slots, cursors>>
threads == <<stopFlag, dispatcher, thread, executor, shut>>
controls == <<closed, call, outcome>>
-----------------------------------------------------------------------------
None == [job |-> "none", running |-> FALSE]

\* A reservation whose scan was never submitted.
Orphan == [job |-> "nobody", running |-> FALSE]

Reservation(j) == [job |-> j, running |-> FALSE]
Running(j) == [job |-> j, running |-> TRUE]

Free == [pc |-> "free", root |-> "none", pool |-> 0, stale |-> FALSE]
NoCall == [pc |-> "idle", op |-> "none", thread |-> 0, pool |-> 0]

Exists(r) == roots[r] \in {"enabled", "disabled"}
Active == {r \in Roots : active[r] # None}
Automatic(j) == job[j].pool # 0

\* Remove the entry of a root if it still carries this token.
Drop(r, token) == [active EXCEPT ![r] = IF @ = token THEN None ELSE @]

Init ==
  /\ roots \in [Roots -> {"new", "enabled", "disabled"}]
  /\ active = [r \in Roots |-> None]
  /\ job = [j \in Jobs |-> Free]
  /\ queue = [p \in Pools |-> <<>>]
  /\ slots = 2
  /\ stopFlag = FALSE
  /\ dispatcher = [t \in Pools |-> "none"]
  /\ thread = 0
  /\ executor = 0
  /\ shut = {}
  /\ cursors = {}
  /\ closed = FALSE
  /\ call = [c \in Controllers |-> NoCall]
  /\ outcome = [c \in Controllers |-> "none"]
-----------------------------------------------------------------------------
(* Roots *)

SetRoot(r, from, to) ==
  /\ ~closed
  /\ roots[r] = from
  /\ roots' = [roots EXCEPT ![r] = to]
  /\ UNCHANGED <<jobState, threads, controls>>

AddRoot(r) == SetRoot(r, "new", "enabled")
Enable(r) == SetRoot(r, "disabled", "enabled")
Disable(r) == SetRoot(r, "enabled", "disabled")

\* The cursor is closed although a scan may be using it.
RemoveRootClosing(r) ==
  /\ ~closed
  /\ Exists(r)
  /\ roots' = [roots EXCEPT ![r] = "removed"]
  /\ cursors' = cursors \ {r}
  /\ UNCHANGED <<active, job, queue, slots, threads, controls>>

RemoveRoot(r) ==
  /\ ~closed
  /\ Exists(r)
  /\ roots' = [roots EXCEPT ![r] = "removed"]
  /\ cursors' = IF active[r] = None THEN cursors \ {r} ELSE cursors
  /\ UNCHANGED <<active, job, queue, slots, threads, controls>>
-----------------------------------------------------------------------------
(* The dispatcher (_run) *)

DispatcherChecks(t) ==
  /\ dispatcher[t] = "check"
  /\ dispatcher' = [dispatcher EXCEPT ![t] = IF stopFlag THEN "dead" ELSE "tick"]
  /\ UNCHANGED <<roots, jobState, stopFlag, thread, executor, shut, controls>>

\* Nothing is due, or two scans are in progress; a closed database raises.
TickIdle(t) ==
  /\ dispatcher[t] = "tick"
  /\ dispatcher' = [dispatcher EXCEPT ![t] = IF closed THEN "dead" ELSE "check"]
  /\ UNCHANGED <<roots, jobState, stopFlag, thread, executor, shut, controls>>

\* Reserve a due root, then submit its scan.  Without a pool nothing is
\* submitted; a pool that has been shut down raises, which ends the thread.
TickReserve(t, r) ==
  /\ dispatcher[t] = "tick"
  /\ ~closed
  /\ roots[r] = "enabled"
  /\ active[r] = None
  /\ Cardinality(Active) < 2
  /\ IF executor = 0 \/ executor \in shut
     THEN /\ active' = [active EXCEPT ![r] = Orphan]
          /\ dispatcher' = [dispatcher EXCEPT ![t] = IF executor = 0 THEN "check" ELSE "dead"]
          /\ UNCHANGED <<job, queue>>
     ELSE \E j \in Jobs :
            /\ job[j] = Free
            /\ job' = [job EXCEPT ![j] = [pc |-> "queued", root |-> r,
                                          pool |-> executor, stale |-> FALSE]]
            /\ active' = [active EXCEPT ![r] = Reservation(j)]
            /\ queue' = [queue EXCEPT ![executor] = Append(@, j)]
            /\ dispatcher' = [dispatcher EXCEPT ![t] = "check"]
  /\ UNCHANGED <<roots, slots, cursors, stopFlag, thread, executor, shut, controls>>
-----------------------------------------------------------------------------
(* Scans (_scheduled_scan and _scan_root) *)

OnThread(p) == {j \in Jobs : job[j].pool = p /\ job[j].pc \notin {"free", "queued"}}

Goto(j, pc) == job' = [job EXCEPT ![j].pc = pc]

\* A pool has two threads, which take its scans in order.
PoolStarts(j) ==
  /\ job[j].pc = "queued"
  /\ LET p == job[j].pool
     IN  /\ Head(queue[p]) = j
         /\ Cardinality(OnThread(p)) < 2
         /\ queue' = [queue EXCEPT ![p] = Tail(@)]
  /\ Goto(j, "started")
  /\ UNCHANGED <<roots, active, slots, cursors, threads, controls>>

\* A scheduled scan takes a slot and puts its job in the place of its
\* reservation.  Its root can be gone, and the slots can be taken.
BeginScheduled(j) ==
  /\ job[j].pc = "started"
  /\ LET r == job[j].root
     IN  IF closed \/ ~Exists(r) \/ slots = 0
         THEN Goto(j, "unwind") /\ UNCHANGED <<active, slots>>
         ELSE /\ Goto(j, "walk")
              /\ active' = [active EXCEPT ![r] = Running(j)]
              /\ slots' = slots - 1
  /\ UNCHANGED <<roots, queue, cursors, threads, controls>>

\* scan_root by an API thread; otherwise its answer is BUSY or an error.
BeginManual(j, r) ==
  /\ ~closed
  /\ job[j] = Free
  /\ Exists(r)
  /\ active[r] = None
  /\ slots > 0
  /\ job' = [job EXCEPT ![j] = [pc |-> "walk", root |-> r, pool |-> 0, stale |-> FALSE]]
  /\ active' = [active EXCEPT ![r] = Running(j)]
  /\ slots' = slots - 1
  /\ UNCHANGED <<roots, queue, cursors, threads, controls>>

\* The generation is not compared.
CancelledByOwner(j) ==
  \/ closed
  \/ roots[job[j].root] = "removed"
  \/ Automatic(j) /\ (roots[job[j].root] = "disabled" \/ stopFlag)

\* Asked before each file: the root is gone, a stop has begun since, or an
\* automatic scan is no longer wanted.  A closed database raises.
Cancelled(j) ==
  \/ closed
  \/ job[j].stale
  \/ roots[job[j].root] = "removed"
  \/ Automatic(j) /\ (roots[job[j].root] = "disabled" \/ stopFlag)

\* The cancellation is not looked at.
NextFileUnchecked(j) ==
  /\ job[j].pc = "walk"
  /\ cursors' = cursors \cup {job[j].root}
  /\ Goto(j, "file")
  /\ UNCHANGED <<roots, active, queue, slots, threads, controls>>

\* The walk finds the next file through the cursor of its root.
NextFile(j) ==
  /\ job[j].pc = "walk"
  /\ cursors' = cursors \cup {job[j].root}
  /\ Goto(j, IF Cancelled(j) THEN "finish" ELSE "file")
  /\ UNCHANGED <<roots, active, queue, slots, threads, controls>>

FileDone(j) ==
  /\ job[j].pc = "file"
  /\ Goto(j, "walk")
  /\ UNCHANGED <<roots, active, queue, slots, cursors, threads, controls>>

\* No more files, or a limit or an error, which can leave the cursor open.
EndWalk(j) ==
  /\ job[j].pc = "walk"
  /\ cursors' \in {cursors, cursors \ {job[j].root}}
  /\ Goto(j, "finish")
  /\ UNCHANGED <<roots, active, queue, slots, threads, controls>>

\* Publish the result; the cursor of a root that is gone is closed.
Finish(j) ==
  /\ job[j].pc = "finish"
  /\ cursors' = IF ~closed /\ roots[job[j].root] = "removed"
                THEN cursors \ {job[j].root} ELSE cursors
  /\ active' = Drop(job[j].root, Running(j))
  /\ Goto(j, "release")
  /\ UNCHANGED <<roots, queue, slots, threads, controls>>

Release(j) ==
  /\ job[j].pc = "release"
  /\ slots' = slots + 1
  /\ IF Automatic(j) THEN Goto(j, "unwind") ELSE job' = [job EXCEPT ![j] = Free]
  /\ UNCHANGED <<roots, active, queue, cursors, threads, controls>>

\* The entry is removed whatever its token is.
UnwindAny(j) ==
  /\ job[j].pc = "unwind"
  /\ active' = [active EXCEPT ![job[j].root] = None]
  /\ job' = [job EXCEPT ![j] = Free]
  /\ UNCHANGED <<roots, queue, slots, cursors, threads, controls>>

\* A scan that did not begin forgets its reservation.
UnwindForgetting(j) ==
  /\ job[j].pc = "unwind"
  /\ job' = [job EXCEPT ![j] = Free]
  /\ UNCHANGED <<roots, active, queue, slots, cursors, threads, controls>>

\* The end of _scheduled_scan releases a reservation that is still its own.
Unwind(j) ==
  /\ job[j].pc = "unwind"
  /\ active' = Drop(job[j].root, Reservation(j))
  /\ job' = [job EXCEPT ![j] = Free]
  /\ UNCHANGED <<roots, queue, slots, cursors, threads, controls>>
-----------------------------------------------------------------------------
(* start, stop and close *)

IsRunning == thread # 0 /\ dispatcher[thread] \in {"check", "tick"} /\ ~stopFlag

Start(c) ==
  /\ call[c] = NoCall
  /\ ~IsRunning
  /\ ~closed
  /\ \E t \in Pools :
       /\ dispatcher[t] = "none"
       /\ \A u \in Pools : u < t => dispatcher[u] # "none"
       /\ dispatcher' = [dispatcher EXCEPT ![t] = "check"]
       /\ thread' = t
       /\ executor' = t
  /\ stopFlag' = FALSE
  /\ outcome' = [outcome EXCEPT ![c] = "none"]
  /\ UNCHANGED <<roots, jobState, shut, closed, call>>

\* The new generation makes every scan in progress stale.
StopBegins(c, op) ==
  /\ call[c] = NoCall
  /\ ~closed
  /\ call' = [call EXCEPT ![c] = [NoCall EXCEPT !.pc = "signal", !.op = op]]
  /\ outcome' = [outcome EXCEPT ![c] = "none"]
  /\ job' = [j \in Jobs |-> [job[j] EXCEPT !.stale = job[j].pc \in {"walk", "file", "finish"}]]
  /\ UNCHANGED <<roots, active, queue, slots, cursors, threads, closed>>

StopSignals(c) ==
  /\ call[c].pc = "signal"
  /\ stopFlag' = TRUE
  /\ call' = [call EXCEPT ![c].pc = "read"]
  /\ UNCHANGED <<roots, jobState, dispatcher, thread, executor, shut, closed, outcome>>

StopReadsThread(c) ==
  /\ call[c].pc = "read"
  /\ call' = [call EXCEPT ![c].thread = thread,
                          ![c].pc = IF thread = 0 THEN "pool" ELSE "join"]
  /\ UNCHANGED <<roots, jobState, threads, closed, outcome>>

\* The thread is not waited for.
StopSkipsJoin(c) ==
  /\ call[c].pc = "join"
  /\ call' = [call EXCEPT ![c].pc = "pool"]
  /\ UNCHANGED <<roots, jobState, threads, closed, outcome>>

\* Wait up to 5 seconds for the thread, which a start can have kept alive.
StopJoins(c) ==
  /\ call[c].pc = "join"
  /\ dispatcher[call[c].thread] = "dead" \/ ~stopFlag \/ SlowTicks
  /\ call' = [call EXCEPT ![c].pc = "pool"]
  /\ UNCHANGED <<roots, jobState, threads, closed, outcome>>

\* Shut the pool down and cancel what it has not begun.
StopShutsPool(c) ==
  /\ call[c].pc = "pool"
  /\ IF executor = 0
     THEN /\ call' = [call EXCEPT ![c].pc = "wait"]
          /\ UNCHANGED <<active, job, queue, shut>>
     ELSE LET queued == {j \in Jobs : job[j].pc = "queued" /\ job[j].pool = executor}
          IN  /\ call' = [call EXCEPT ![c].pc = "drain", ![c].pool = executor]
              /\ shut' = shut \cup {executor}
              /\ queue' = [queue EXCEPT ![executor] = <<>>]
              /\ job' = [j \in Jobs |-> IF j \in queued THEN Free ELSE job[j]]
              /\ active' = [r \in Roots |->
                              IF \E j \in queued : job[j].root = r /\ active[r] = Reservation(j)
                              THEN None ELSE active[r]]
  /\ UNCHANGED <<roots, slots, cursors, stopFlag, dispatcher, thread, executor, closed, outcome>>

StopDrainsPool(c) ==
  /\ call[c].pc = "drain"
  /\ OnThread(call[c].pool) = {}
  /\ call' = [call EXCEPT ![c].pc = "wait"]
  /\ UNCHANGED <<roots, jobState, threads, closed, outcome>>

\* No scan is in progress: forget threads, pool and cursors.
StopReturns(c) ==
  /\ call[c].pc = "wait"
  /\ Active = {}
  /\ thread' = 0
  /\ executor' = 0
  /\ cursors' = {}
  /\ IF call[c].op = "close"
     THEN call' = [call EXCEPT ![c].pc = "close"] /\ UNCHANGED outcome
     ELSE call' = [call EXCEPT ![c] = NoCall] /\ outcome' = [outcome EXCEPT ![c] = "stopped"]
  /\ UNCHANGED <<roots, active, job, queue, slots, stopFlag, dispatcher, shut, closed>>

\* A scan is still in progress after 15 seconds: the call raises.
StopGivesUp(c) ==
  /\ call[c].pc = "wait"
  /\ Active # {}
  /\ call' = [call EXCEPT ![c] = NoCall]
  /\ outcome' = [outcome EXCEPT ![c] = "retry"]
  /\ UNCHANGED <<roots, jobState, threads, closed>>

CloseDatabase(c) ==
  /\ call[c].pc = "close"
  /\ closed' = TRUE
  /\ call' = [call EXCEPT ![c] = NoCall]
  /\ outcome' = [outcome EXCEPT ![c] = "stopped"]
  /\ UNCHANGED <<roots, jobState, threads>>
-----------------------------------------------------------------------------
DispatcherStep(t) ==
  \/ DispatcherChecks(t)
  \/ TickIdle(t)
  \/ \E r \in Roots : TickReserve(t, r)

JobStep(j) ==
  \/ PoolStarts(j)
  \/ BeginScheduled(j)
  \/ NextFile(j)
  \/ FileDone(j)
  \/ EndWalk(j)
  \/ Finish(j)
  \/ Release(j)
  \/ Unwind(j)

StopStep(c) ==
  \/ StopSignals(c)
  \/ StopReadsThread(c)
  \/ StopJoins(c)
  \/ StopShutsPool(c)
  \/ StopDrainsPool(c)
  \/ StopReturns(c)
  \/ StopGivesUp(c)
  \/ CloseDatabase(c)

Next ==
  \/ \E r \in Roots : AddRoot(r)
  \/ \E r \in Roots : Enable(r)
  \/ \E r \in Roots : Disable(r)
  \/ \E r \in Roots : RemoveRoot(r)
  \/ \E t \in Pools : DispatcherStep(t)
  \/ \E j \in Jobs : JobStep(j)
  \/ \E j \in Jobs, r \in Roots : BeginManual(j, r)
  \/ \E c \in Controllers : Start(c)
  \/ \E c \in Controllers, op \in {"stop", "close"} : StopBegins(c, op)
  \/ \E c \in Controllers : StopStep(c)

Spec == Init /\ [][Next]_vars

\* Threads run on: no step of a thread waits for ever while it can be taken.
\* Calls of the API, and the end of a walk, need not happen.
FairSpec ==
  /\ Spec
  /\ \A t \in Pools : WF_vars(DispatcherStep(t))
  /\ \A j \in Jobs : WF_vars(JobStep(j))
  /\ \A c \in Controllers : WF_vars(StopStep(c))
-----------------------------------------------------------------------------
JobPcs == {"free", "queued", "started", "walk", "file", "finish", "release", "unwind"}
CallPcs == {"idle", "signal", "read", "join", "pool", "drain", "wait", "close"}

\* The values the scans and their entries range over.
ScansTyped ==
  /\ active \in [Roots -> [job : Jobs \cup {"none", "nobody"}, running : BOOLEAN]]
  /\ job \in [Jobs -> [pc : JobPcs, root : Roots \cup {"none"}, pool : 0..MaxStarts,
                       stale : BOOLEAN]]
  /\ executor \in 0..MaxStarts
  /\ cursors \subseteq Roots

\* The values every variable ranges over.
TypeOK ==
  /\ ScansTyped
  /\ roots \in [Roots -> {"new", "enabled", "disabled", "removed"}]
  /\ queue \in [Pools -> Seq(Jobs)]
  /\ slots \in 0..2
  /\ stopFlag \in BOOLEAN
  /\ dispatcher \in [Pools -> {"none", "check", "tick", "dead"}]
  /\ thread \in 0..MaxStarts
  /\ shut \subseteq Pools
  /\ closed \in BOOLEAN
  /\ call \in [Controllers -> [pc : CallPcs, op : {"none", "stop", "close"},
                               thread : 0..MaxStarts, pool : 0..MaxStarts]]
  /\ outcome \in [Controllers -> {"none", "stopped", "retry"}]

Walking(j) == job[j].pc \in {"walk", "file", "finish"}

\* A scan in progress owns the entry of its root, by the token of its phase.
JobsOwnTheirRoots ==
  \A j \in Jobs :
    /\ job[j].pc # "free" => job[j].root \in Roots
    /\ job[j].pc \in {"queued", "started"} => active[job[j].root] = Reservation(j)
    /\ Walking(j) => active[job[j].root] = Running(j)

\* No directory is walked by two scans at once, however starts, stops, explicit
\* scans and removals overlap: a finished scan never releases the entry of the
\* one that followed it (the comment at filewatch.py:361).
OneScanPerRoot ==
  \A i, j \in Jobs :
    Walking(i) /\ Walking(j) /\ job[i].root = job[j].root => i = j

\* Nobody closes the directory iterator a scan is in the middle of: not the
\* removal of its root, and not a stop that gave up waiting before.
ScansKeepTheirCursor ==
  \A j \in Jobs : job[j].pc = "file" => job[j].root \in cursors

\* Every entry of `_active' belongs to a scan that will remove it.
ReservationsBacked ==
  \A r \in Active : \E j \in Jobs :
    /\ job[j].root = r
    /\ \/ active[r] = Reservation(j) /\ job[j].pc \in {"queued", "started", "unwind"}
       \/ active[r] = Running(j) /\ Walking(j)

\* After a stop that returned, and before the next start, no thread dispatches
\* and no automatic scan is left.
QuietAfterStop ==
  \A c \in Controllers : outcome[c] = "stopped" =>
    /\ \A t \in Pools : dispatcher[t] \in {"none", "dead"}
    /\ \A j \in Jobs : job[j].pc # "free" => ~Automatic(j)

\* A stop or close that raises "File scan is still finishing; retry shutdown
\* after the bounded scanner returns" (filewatch.py:309) tells the truth: there
\* is a scan that can still return.
RetryMeansScanning ==
  [][\A c \in Controllers : outcome[c] # "retry" /\ outcome'[c] = "retry"
       => \E j \in Jobs : job[j].pc # "free"]_vars

\* A stop is obeyed by every scan it finds in progress, explicit ones included,
\* even when their walk would never end: each finishes at most one more file.
StopDrains == \A j \in Jobs : (Walking(j) /\ job[j].stale) ~> ~Walking(j)

\* Every stop or close returns or raises.
StopsEnd == \A c \in Controllers : call[c] # NoCall ~> call[c] = NoCall
=============================================================================
