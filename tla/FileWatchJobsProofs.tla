------------------------ MODULE FileWatchJobsProofs ------------------------
(***************************************************************************)
(* Proofs about FileWatchJobs, for any roots, scans, controllers and       *)
(* number of starts, whatever start, stop, close and removal interleave.   *)
(* The inductive invariant says that the entry of a root carries the token *)
(* of its scan in the phase the scan is in, and that a scan in the middle  *)
(* of a file has its cursor.  A second invariant is about a single         *)
(* controller whose stops wait for the dispatcher: how far a stop has come *)
(* says which threads and scans are left.                                  *)
(***************************************************************************)
EXTENDS FileWatchJobs, FiniteSetTheorems, TLAPS

\* The inductive invariant: types, ownership of the entries, and cursors.
ScanInv == ScansTyped /\ JobsOwnTheirRoots /\ ScansKeepTheirCursor

\* Tokens tell their owners and phases apart, and from no entry.
LEMMA TokenFacts ==
  /\ \A i, j \in Jobs : Running(i) = Running(j) => i = j
  /\ \A i, j \in Jobs : Reservation(i) = Reservation(j) => i = j
  /\ \A i, j \in Jobs : Running(i) # Reservation(j)
  /\ \A j \in Jobs : Running(j) # None /\ Reservation(j) # None
  /\ \A j \in Jobs : Running(j) # Orphan /\ Reservation(j) # Orphan
<1>1. \A j : Running(j).job = j /\ Running(j).running = TRUE
  BY DEF Running
<1>2. \A j : Reservation(j).job = j /\ Reservation(j).running = FALSE
  BY DEF Reservation
<1>3. None.job = "none" /\ Orphan.job = "nobody"
  BY DEF None, Orphan
<1>4. QED BY <1>1, <1>2, <1>3, JobsAssumption

\* Two scans that walk the same root would both own its one entry.
LEMMA OwnersAreUnique ==
  ASSUME JobsOwnTheirRoots
  PROVE  OneScanPerRoot
BY TokenFacts DEF JobsOwnTheirRoots, OneScanPerRoot, Walking

\* No scan that is queued, started or walking leaves its root without entry.
LEMMA BusyRootsActive ==
  ASSUME ScanInv, NEW j \in Jobs, job[j].pc \in {"queued", "started"} \/ Walking(j)
  PROVE  job[j].root \in Roots /\ active[job[j].root] # None
BY TokenFacts DEF ScanInv, JobsOwnTheirRoots, Walking, None

\* The values a freed scan and a removed entry take.
LEMMA FreeTyped ==
  /\ Free \in [pc : JobPcs, root : Roots \cup {"none"}, pool : 0..MaxStarts,
              stale : BOOLEAN]
  /\ None \in [job : Jobs \cup {"none", "nobody"}, running : BOOLEAN]
BY JobsAssumption DEF Free, None, JobPcs

\* No scan exists when the watcher is created.
LEMMA ScanInvInit == Init => ScanInv
<1> SUFFICES ASSUME Init PROVE ScanInv
  OBVIOUS
<1>1. \A j \in Jobs : job[j] = Free
  BY DEF Init
<1>2. job \in [Jobs -> [pc : JobPcs, root : Roots \cup {"none"}, pool : 0..MaxStarts,
                       stale : BOOLEAN]]
  BY JobsAssumption DEF Init, Free, JobPcs
<1>3. active \in [Roots -> [job : Jobs \cup {"none", "nobody"}, running : BOOLEAN]]
  BY DEF Init, None
<1>4. executor \in 0..MaxStarts /\ cursors \subseteq Roots
  BY JobsAssumption DEF Init
<1>5. \A j \in Jobs : job[j].pc = "free"
  BY <1>1 DEF Free
<1>6. QED
  BY <1>2, <1>3, <1>4, <1>5
     DEF ScanInv, ScansTyped, JobsOwnTheirRoots, ScansKeepTheirCursor, Walking

\* One scan moves to another phase and leaves the entries alone, unless the
\* phase it leaves or enters owns its entry in a different way.
LEMMA PhaseKept ==
  ASSUME ScanInv, NEW j \in Jobs, NEW pc \in JobPcs, Goto(j, pc),
         UNCHANGED <<active, executor>>,
         job[j].pc # "free",
         pc \in {"queued", "started"} => job[j].pc \in {"queued", "started"},
         pc \in {"walk", "file", "finish"} => Walking(j)
  PROVE  ScansTyped /\ cursors' \subseteq Roots => ScansTyped' /\ JobsOwnTheirRoots'
BY DEF ScanInv, ScansTyped, JobsOwnTheirRoots, Goto, Walking

\* Every step keeps the invariant: an entry is replaced only by its owner, or
\* when there is none.
THEOREM ScanInvStep == ScanInv /\ [Next]_vars => ScanInv'
<1> SUFFICES ASSUME ScanInv, [Next]_vars PROVE ScanInv'
  OBVIOUS
<1> USE DEF ScanInv
<1>1. ASSUME UNCHANGED jobState, UNCHANGED executor PROVE ScanInv'
  BY <1>1 DEF jobState, ScansTyped, JobsOwnTheirRoots, ScansKeepTheirCursor, Walking
<1>2. ASSUME NEW r \in Roots, AddRoot(r) \/ Enable(r) \/ Disable(r) PROVE ScanInv'
  BY <1>1, <1>2 DEF AddRoot, Enable, Disable, SetRoot, threads
<1>3. ASSUME NEW r \in Roots, RemoveRoot(r) PROVE ScanInv'
  <2>1. ScansTyped' /\ JobsOwnTheirRoots'
    BY <1>3 DEF RemoveRoot, ScansTyped, JobsOwnTheirRoots, Walking, threads
  <2>2. ASSUME NEW j \in Jobs, job[j].pc = "file" PROVE job[j].root \in cursors'
    BY <1>3, <2>2, BusyRootsActive DEF RemoveRoot, ScansKeepTheirCursor, Walking
  <2>3. QED BY <2>1, <2>2, <1>3 DEF RemoveRoot, ScansKeepTheirCursor
<1>4. ASSUME NEW t \in Pools, DispatcherStep(t) PROVE ScanInv'
  <2>1. CASE DispatcherChecks(t) \/ TickIdle(t)
    BY <1>1, <2>1 DEF DispatcherChecks, TickIdle
  <2>2. ASSUME NEW r \in Roots, TickReserve(t, r) PROVE ScanInv'
    <3>1. CASE executor = 0 \/ executor \in shut
      <4>1. active' = [active EXCEPT ![r] = Orphan] /\ UNCHANGED <<job, cursors, executor>>
        BY <2>2, <3>1 DEF TickReserve
      <4>2. active[r] = None
        BY <2>2 DEF TickReserve
      <4>3. ScansTyped' /\ ScansKeepTheirCursor'
        BY <4>1 DEF ScansTyped, ScansKeepTheirCursor, Orphan
      <4>4. JobsOwnTheirRoots'
        BY <4>1, <4>2, TokenFacts DEF JobsOwnTheirRoots, ScansTyped, Walking
      <4>5. QED BY <4>3, <4>4
    <3>2. CASE ~(executor = 0 \/ executor \in shut)
      <4>1. PICK j \in Jobs :
              /\ job[j] = Free
              /\ job' = [job EXCEPT ![j] = [pc |-> "queued", root |-> r,
                                            pool |-> executor, stale |-> FALSE]]
              /\ active' = [active EXCEPT ![r] = Reservation(j)]
        BY <2>2, <3>2 DEF TickReserve
      <4>2. active[r] = None /\ UNCHANGED <<cursors, executor>>
        BY <2>2 DEF TickReserve
      <4>3. ScansTyped'
        BY <4>1, <4>2 DEF ScansTyped, JobPcs, Reservation
      <4>4. ASSUME NEW i \in Jobs, i # j PROVE job'[i] = job[i]
        BY <4>1, <4>4 DEF ScansTyped
      <4>5. job'[j].pc = "queued" /\ job'[j].root = r
        BY <4>1 DEF ScansTyped
      <4>6. JobsOwnTheirRoots'
        BY <4>1, <4>2, <4>4, <4>5, TokenFacts DEF JobsOwnTheirRoots, ScansTyped, Walking
      <4>7. ScansKeepTheirCursor'
        BY <4>1, <4>2 DEF ScansTyped, ScansKeepTheirCursor
      <4>8. QED BY <4>3, <4>7, <4>6
    <3>3. QED BY <3>1, <3>2
  <2>3. QED BY <1>4, <2>1, <2>2 DEF DispatcherStep
<1>5. ASSUME NEW j \in Jobs, JobStep(j) PROVE ScanInv'
  <2>0. executor' = executor
    BY <1>5 DEF JobStep, PoolStarts, BeginScheduled, NextFile, FileDone, EndWalk, Finish,
                Release, Unwind, threads
  <2>1. CASE PoolStarts(j)
    <3>1. Goto(j, "started") /\ UNCHANGED <<active, cursors>> /\ job[j].pc = "queued"
      BY <2>1 DEF PoolStarts
    <3>2. ScansTyped' /\ JobsOwnTheirRoots'
      BY <3>1, PhaseKept, <2>0 DEF JobPcs, ScansTyped
    <3>3. ScansKeepTheirCursor'
      BY <3>1 DEF ScansTyped, ScansKeepTheirCursor, Goto
    <3>4. QED BY <3>2, <3>3
  <2>2. CASE BeginScheduled(j)
    <3>1. CASE Goto(j, "unwind") /\ UNCHANGED active
      <4>1. job[j].pc = "started" /\ UNCHANGED cursors
        BY <2>2 DEF BeginScheduled
      <4>2. ScansTyped' /\ JobsOwnTheirRoots'
        BY <3>1, <4>1, PhaseKept, <2>0 DEF JobPcs, ScansTyped
      <4>3. ScansKeepTheirCursor'
        BY <3>1, <4>1 DEF ScansTyped, ScansKeepTheirCursor, Goto
      <4>4. QED BY <4>2, <4>3
    <3>2. CASE Goto(j, "walk") /\ active' = [active EXCEPT ![job[j].root] = Running(j)]
      <4>1. job[j].pc = "started" /\ UNCHANGED cursors
        BY <2>2 DEF BeginScheduled
      <4>2. job[j].root \in Roots /\ active[job[j].root] = Reservation(j)
        BY <4>1 DEF JobsOwnTheirRoots
      <4>3. ScansTyped'
        BY SMTT(20), <3>2, <4>1, <4>2, <2>0 DEF ScansTyped, JobPcs, Goto, Running
      <4>4. ASSUME NEW i \in Jobs, i # j PROVE job'[i] = job[i]
        BY <3>2, <4>4 DEF Goto, ScansTyped
      <4>5. job'[j].pc = "walk" /\ job'[j].root = job[j].root
        BY <3>2 DEF Goto, ScansTyped
      <4>6. JobsOwnTheirRoots'
        BY <3>2, <4>2, <4>4, <4>5, TokenFacts DEF JobsOwnTheirRoots, ScansTyped, Walking
      <4>7. ScansKeepTheirCursor'
        BY <3>2, <4>1 DEF ScansTyped, ScansKeepTheirCursor, Goto
      <4>8. QED BY <4>3, <4>6, <4>7
    <3>3. QED BY <2>2, <3>1, <3>2 DEF BeginScheduled
  <2>3. CASE NextFile(j) \/ FileDone(j) \/ EndWalk(j)
    <3>1. PICK pc \in {"walk", "file", "finish"} : Goto(j, pc)
      BY <2>3 DEF NextFile, FileDone, EndWalk
    <3>2. Walking(j) /\ UNCHANGED active
      BY <2>3 DEF NextFile, FileDone, EndWalk, Walking
    <3>3. job[j].root \in Roots
      BY <3>2, BusyRootsActive
    <3>4. cursors' \subseteq Roots
      BY <2>3, <3>3 DEF NextFile, FileDone, EndWalk, ScansTyped
    <3>5. ScansTyped' /\ JobsOwnTheirRoots'
      BY <3>1, <3>2, <3>4, PhaseKept, <2>0 DEF JobPcs, Walking
    <3>6. ASSUME NEW i \in Jobs, job'[i].pc = "file" PROVE job'[i].root \in cursors'
      <4>1. job'[i].root = job[i].root
        BY <3>1 DEF Goto, ScansTyped
      <4>2. CASE i = j
        BY <2>3, <3>6, <4>1, <4>2 DEF NextFile, FileDone, EndWalk, Goto, ScansTyped
      <4>3. CASE i # j
        <5>1. job[i].pc = "file"
          BY <3>1, <3>6, <4>3 DEF Goto, ScansTyped
        <5>2. job[i].root \in cursors /\ job[i].root # job[j].root
          BY <5>1, <4>3, <3>2, OwnersAreUnique DEF ScansKeepTheirCursor, OneScanPerRoot, Walking
        <5>3. QED BY <2>3, <4>1, <5>2 DEF NextFile, FileDone, EndWalk
      <4>4. QED BY <4>2, <4>3
    <3>7. QED BY <3>5, <3>6 DEF ScansKeepTheirCursor
  <2>4. CASE Finish(j)
    <3>1. /\ Walking(j)
          /\ job[j].root \in Roots
          /\ active' = [active EXCEPT ![job[j].root] = None]
      BY <2>4 DEF Finish, Walking, JobsOwnTheirRoots, Drop, ScansTyped
    <3>2. Goto(j, "release") /\ cursors' \in {cursors, cursors \ {job[j].root}}
      BY <2>4 DEF Finish
    <3>3. ScansTyped'
      BY <3>1, <3>2, <2>0 DEF ScansTyped, JobPcs, Goto, None
    <3>4. ASSUME NEW i \in Jobs, i # j PROVE job'[i] = job[i]
      BY <3>2, <3>4 DEF Goto, ScansTyped
    <3>5. job'[j].pc = "release" /\ job'[j].root = job[j].root
      BY <3>2 DEF Goto, ScansTyped
    <3>6. JobsOwnTheirRoots'
      BY <3>1, <3>4, <3>5, TokenFacts DEF JobsOwnTheirRoots, ScansTyped, Walking
    <3>7. ASSUME NEW i \in Jobs, job'[i].pc = "file" PROVE job'[i].root \in cursors'
      <4>1. i # j /\ job[i].pc = "file" /\ job'[i].root = job[i].root
        BY <3>4, <3>5, <3>7
      <4>2. job[i].root \in cursors /\ job[i].root # job[j].root
        BY <4>1, <3>1, OwnersAreUnique DEF ScansKeepTheirCursor, OneScanPerRoot, Walking
      <4>3. QED BY <3>2, <4>1, <4>2
    <3>8. QED BY <3>3, <3>6, <3>7 DEF ScansKeepTheirCursor
  <2>5. CASE Release(j)
    <3>1. UNCHANGED <<active, cursors>> /\ job[j].pc = "release"
      BY <2>5 DEF Release
    <3>2. CASE Goto(j, "unwind")
      <4>1. ScansTyped' /\ JobsOwnTheirRoots'
        BY <3>1, <3>2, PhaseKept, <2>0 DEF JobPcs, ScansTyped
      <4>2. ScansKeepTheirCursor'
        BY <3>1, <3>2 DEF ScansTyped, ScansKeepTheirCursor, Goto
      <4>3. QED BY <4>1, <4>2
    <3>3. CASE job' = [job EXCEPT ![j] = Free]
      <4>1. ScansTyped'
        BY <3>1, <3>3, FreeTyped, <2>0 DEF ScansTyped
      <4>2. ASSUME NEW i \in Jobs PROVE job'[i] = job[i] \/ job'[i].pc = "free"
        BY <3>3 DEF ScansTyped, Free
      <4>3. QED
        BY <3>1, <4>1, <4>2 DEF JobsOwnTheirRoots, ScansKeepTheirCursor, Walking
    <3>4. QED BY <2>5, <3>2, <3>3 DEF Release
  <2>6. CASE Unwind(j)
    <3>1. /\ active' = [active EXCEPT ![job[j].root] = IF @ = Reservation(j) THEN None ELSE @]
          /\ job' = [job EXCEPT ![j] = Free]
          /\ job[j].pc = "unwind"
          /\ UNCHANGED cursors
      BY <2>6 DEF Unwind, Drop
    <3>2. ScansTyped'
      BY <3>1, FreeTyped, <2>0 DEF ScansTyped
    <3>3. ScansKeepTheirCursor'
      BY <3>1 DEF ScansTyped, ScansKeepTheirCursor, Free
    <3>4. ASSUME NEW i \in Jobs, i # j PROVE job'[i] = job[i]
      BY <3>1, <3>4 DEF ScansTyped
    <3>5. job'[j].pc = "free"
      BY <3>1 DEF ScansTyped, Free
    <3>6. JobsOwnTheirRoots'
      BY <3>1, <3>4, <3>5, TokenFacts DEF JobsOwnTheirRoots, ScansTyped, Walking
    <3>7. QED BY <3>2, <3>3, <3>6
  <2>7. QED BY <1>5, <2>1, <2>2, <2>3, <2>4, <2>5, <2>6 DEF JobStep
<1>6. ASSUME NEW j \in Jobs, NEW r \in Roots, BeginManual(j, r) PROVE ScanInv'
  <2>1. /\ job[j] = Free
        /\ active[r] = None
        /\ job' = [job EXCEPT ![j] = [pc |-> "walk", root |-> r, pool |-> 0, stale |-> FALSE]]
        /\ active' = [active EXCEPT ![r] = Running(j)]
        /\ UNCHANGED <<cursors, executor>>
    BY <1>6 DEF BeginManual, threads
  <2>2. ScansTyped'
    BY <2>1, JobsAssumption DEF ScansTyped, JobPcs, Running
  <2>3. ASSUME NEW i \in Jobs, i # j PROVE job'[i] = job[i]
    BY <2>1, <2>3 DEF ScansTyped
  <2>4. job'[j].pc = "walk" /\ job'[j].root = r
    BY <2>1 DEF ScansTyped
  <2>5. JobsOwnTheirRoots'
    BY <2>1, <2>3, <2>4, TokenFacts DEF JobsOwnTheirRoots, ScansTyped, Walking
  <2>6. ScansKeepTheirCursor'
    BY <2>1 DEF ScansTyped, ScansKeepTheirCursor
  <2>7. QED BY <2>2, <2>5, <2>6
<1>7. ASSUME NEW c \in Controllers, Start(c) PROVE ScanInv'
  <2>1. UNCHANGED jobState /\ executor' \in 0..MaxStarts
    BY <1>7, JobsAssumption DEF Start, Pools
  <2>2. QED
    BY <2>1 DEF jobState, ScansTyped, JobsOwnTheirRoots, ScansKeepTheirCursor, Walking
<1>8. ASSUME NEW c \in Controllers, NEW op \in {"stop", "close"}, StopBegins(c, op)
      PROVE ScanInv'
  <2>1. /\ job' = [j \in Jobs |->
                     [job[j] EXCEPT !.stale = job[j].pc \in {"walk", "file", "finish"}]]
        /\ UNCHANGED <<active, cursors, executor>>
    BY <1>8 DEF StopBegins, threads
  <2>2. ASSUME NEW j \in Jobs
        PROVE  job'[j] \in [pc : JobPcs, root : Roots \cup {"none"}, pool : 0..MaxStarts,
                            stale : BOOLEAN]
    <3> DEFINE stale == job[j].pc \in {"walk", "file", "finish"}
    <3>1. job'[j] = [job[j] EXCEPT !.stale = stale]
      BY <2>1
    <3>2. stale \in BOOLEAN
      OBVIOUS
    <3> HIDE DEF stale
    <3>3. QED BY <3>1, <3>2 DEF ScansTyped
  <2>3. ScansTyped'
    BY <2>1, <2>2 DEF ScansTyped
  <2>4. \A j \in Jobs : job'[j].pc = job[j].pc /\ job'[j].root = job[j].root
    BY <2>1 DEF ScansTyped
  <2>5. QED
    BY <2>1, <2>3, <2>4 DEF JobsOwnTheirRoots, ScansKeepTheirCursor, Walking
<1>9. ASSUME NEW c \in Controllers, StopStep(c) PROVE ScanInv'
  <2>1. CASE \/ StopSignals(c) \/ StopReadsThread(c) \/ StopJoins(c) \/ StopDrainsPool(c)
             \/ StopGivesUp(c) \/ CloseDatabase(c)
    BY <1>1, <2>1 DEF StopSignals, StopReadsThread, StopJoins, StopDrainsPool, StopGivesUp,
                      CloseDatabase, threads
  <2>2. CASE StopShutsPool(c)
    <3>1. CASE executor = 0
      <4>1. UNCHANGED <<active, job, cursors, executor>>
        BY <2>2, <3>1 DEF StopShutsPool
      <4>2. QED
        BY <4>1 DEF ScansTyped, JobsOwnTheirRoots, ScansKeepTheirCursor, Walking
    <3>2. CASE executor # 0
      <4> DEFINE queued == {j \in Jobs : job[j].pc = "queued" /\ job[j].pool = executor}
      <4>1. /\ job' = [j \in Jobs |-> IF j \in queued THEN Free ELSE job[j]]
            /\ active' = [r \in Roots |->
                            IF \E j \in queued : job[j].root = r /\ active[r] = Reservation(j)
                            THEN None ELSE active[r]]
            /\ UNCHANGED <<cursors, executor>>
        BY <2>2, <3>2 DEF StopShutsPool
      <4>2. ScansTyped'
        BY <4>1, FreeTyped DEF ScansTyped
      <4>3. ASSUME NEW j \in Jobs PROVE (job'[j] = job[j] /\ j \notin queued) \/ job'[j] = Free
        BY <4>1
      <4>4. ASSUME NEW j \in Jobs, j \notin queued, job[j].root \in Roots,
                   active[job[j].root] \in {Reservation(j), Running(j)}
            PROVE  active'[job[j].root] = active[job[j].root]
        BY <4>1, <4>4, TokenFacts
      <4>5. ScansKeepTheirCursor'
        BY <4>1, <4>3 DEF ScansKeepTheirCursor, Free
      <4> HIDE DEF queued
      <4>6. JobsOwnTheirRoots'
        BY <4>3, <4>4 DEF JobsOwnTheirRoots, Free, Walking
      <4>7. QED BY <4>2, <4>5, <4>6
    <3>3. QED BY <3>1, <3>2
  <2>3. CASE StopReturns(c)
    <3>1. /\ Active = {} /\ cursors' = {} /\ executor' = 0
          /\ UNCHANGED <<active, job>>
      BY <2>3 DEF StopReturns
    <3>2. \A j \in Jobs : ~Walking(j)
      BY <3>1, BusyRootsActive DEF Active
    <3>3. ScansTyped' /\ JobsOwnTheirRoots'
      BY <3>1, JobsAssumption DEF ScansTyped, JobsOwnTheirRoots, Walking
    <3>4. QED BY <3>1, <3>2, <3>3 DEF ScansKeepTheirCursor, Walking
  <2>4. QED BY <1>9, <2>1, <2>2, <2>3 DEF StopStep
<1>10. CASE UNCHANGED vars
  BY <1>1, <1>10 DEF vars, jobState
<1>11. QED
  BY <1>2, <1>3, <1>4, <1>5, <1>6, <1>7, <1>8, <1>9, <1>10 DEF Next

\* Every scan in progress owns the entry of its root, by the token of its phase.
THEOREM ScanInvariant == Spec => []ScanInv
<1>1. Init => ScanInv
  BY ScanInvInit
<1>2. ScanInv /\ [Next]_vars => ScanInv'
  BY ScanInvStep
<1>3. QED BY <1>1, <1>2, PTL DEF Spec

\* A scan in progress owns its root's entry: it alone can remove it.
THEOREM ScansOwnTheirRoots == Spec => []JobsOwnTheirRoots
<1>1. ScanInv => JobsOwnTheirRoots
  BY DEF ScanInv
<1>2. QED BY <1>1, ScanInvariant, PTL

\* No directory is ever walked by two scans at once.
THEOREM ScansAreExclusive == Spec => []OneScanPerRoot
<1>1. ScanInv => OneScanPerRoot
  BY OwnersAreUnique DEF ScanInv
<1>2. QED BY <1>1, ScanInvariant, PTL

\* Nobody closes the directory iterator a scan is in the middle of.
THEOREM CursorsAreKept == Spec => []ScansKeepTheirCursor
<1>1. ScanInv => ScansKeepTheirCursor
  BY DEF ScanInv
<1>2. QED BY <1>1, ScanInvariant, PTL
-----------------------------------------------------------------------------
(* Types and counts *)

CallType == [pc : CallPcs, op : {"none", "stop", "close"}, thread : 0..MaxStarts,
             pool : 0..MaxStarts]

\* The values of everything but the scans, the queues and the slots.
ControlTyped ==
  /\ roots \in [Roots -> {"new", "enabled", "disabled", "removed"}]
  /\ stopFlag \in BOOLEAN
  /\ dispatcher \in [Pools -> {"none", "check", "tick", "dead"}]
  /\ thread \in 0..MaxStarts
  /\ shut \subseteq Pools
  /\ closed \in BOOLEAN
  /\ call \in [Controllers -> CallType]
  /\ outcome \in [Controllers -> {"none", "stopped", "retry"}]

\* A pool has accepted every scan that is queued.
QueuesHold ==
  /\ queue \in [Pools -> Seq(Jobs)]
  /\ \A j \in Jobs : job[j].pc = "queued" =>
       /\ job[j].pool \in Pools
       /\ \E k \in DOMAIN queue[job[j].pool] : queue[job[j].pool][k] = j

\* The scans that hold a place of the semaphore.
Holders == {j \in Jobs : Walking(j) \/ job[j].pc = "release"}

SlotsHold == slots \in Nat /\ IsFiniteSet(Holders) /\ slots + Cardinality(Holders) = 2

\* Every step keeps the values of roots, threads and calls.
LEMMA ControlStep == ScansTyped /\ ControlTyped /\ [Next]_vars => ControlTyped'
<1> SUFFICES ASSUME ScansTyped, ControlTyped, [Next]_vars PROVE ControlTyped'
  OBVIOUS
<1> USE DEF ControlTyped
<1>1. ASSUME NEW r \in Roots, AddRoot(r) \/ Enable(r) \/ Disable(r) \/ RemoveRoot(r)
      PROVE  ControlTyped'
  BY <1>1 DEF AddRoot, Enable, Disable, SetRoot, RemoveRoot, threads, controls
<1>2. ASSUME NEW t \in Pools, DispatcherStep(t) PROVE ControlTyped'
  BY <1>2 DEF DispatcherStep, DispatcherChecks, TickIdle, TickReserve, controls
<1>3. ASSUME NEW j \in Jobs, JobStep(j) PROVE ControlTyped'
  BY <1>3 DEF JobStep, PoolStarts, BeginScheduled, NextFile, FileDone, EndWalk, Finish, Release,
              Unwind, threads, controls
<1>4. ASSUME NEW j \in Jobs, NEW r \in Roots, BeginManual(j, r) PROVE ControlTyped'
  BY <1>4 DEF BeginManual, threads, controls
<1>5. ASSUME NEW c \in Controllers, Start(c) PROVE ControlTyped'
  <2>1. PICK t \in Pools : dispatcher' = [dispatcher EXCEPT ![t] = "check"] /\ thread' = t
    BY <1>5 DEF Start
  <2>2. thread' \in 0..MaxStarts
    BY <2>1, JobsAssumption DEF Pools
  <2>3. QED BY <1>5, <2>1, <2>2 DEF Start
<1>6. ASSUME NEW c \in Controllers, NEW op \in {"stop", "close"}, StopBegins(c, op)
      PROVE  ControlTyped'
  <2>1. [NoCall EXCEPT !.pc = "signal", !.op = op] \in CallType
    <3>1. NoCall \in CallType
      BY JobsAssumption DEF NoCall, CallType, CallPcs
    <3>2. "signal" \in CallPcs
      BY DEF CallPcs
    <3>3. QED BY <3>1, <3>2 DEF CallType
  <2>2. QED BY <1>6, <2>1 DEF StopBegins, threads
<1>7. ASSUME NEW c \in Controllers, StopStep(c) PROVE ControlTyped'
  <2>1. NoCall \in CallType
    BY JobsAssumption DEF NoCall, CallPcs, CallType
  <2>2. ASSUME NEW pc \in CallPcs, call' = [call EXCEPT ![c].pc = pc]
        PROVE  call' \in [Controllers -> CallType]
    BY <2>2 DEF CallType
  <2>3. CASE StopSignals(c) \/ StopJoins(c) \/ StopDrainsPool(c)
    BY <2>2, <2>3 DEF StopSignals, StopJoins, StopDrainsPool, threads, CallPcs
  <2>4. CASE StopReadsThread(c)
    <3>1. PICK pc \in CallPcs : call' = [call EXCEPT ![c].thread = thread, ![c].pc = pc]
      BY <2>4 DEF StopReadsThread, CallPcs
    <3>2. call' \in [Controllers -> CallType]
      <4>1. [call[c] EXCEPT !.thread = thread, !.pc = pc] \in CallType
        BY ZenonT(30) DEF CallType
      <4>2. call' = [call EXCEPT ![c] = [call[c] EXCEPT !.thread = thread, !.pc = pc]]
        BY <3>1
      <4>3. QED BY <4>1, <4>2
    <3>3. QED BY <2>4, <3>2 DEF StopReadsThread, threads
  <2>5. CASE StopShutsPool(c)
    <3>1. CASE executor = 0
      BY <2>2, <2>5, <3>1 DEF StopShutsPool, CallPcs
    <3>2. CASE executor # 0
      <4>1. executor \in Pools
        BY <3>2, JobsAssumption DEF ScansTyped, Pools
      <4>2. call' = [call EXCEPT ![c].pc = "drain", ![c].pool = executor]
        BY <2>5, <3>2 DEF StopShutsPool
      <4>3. call' \in [Controllers -> CallType]
        <5>1. [call[c] EXCEPT !.pc = "drain", !.pool = executor] \in CallType
          <6>1. "drain" \in CallPcs /\ executor \in 0..MaxStarts
            BY DEF CallPcs, ScansTyped
          <6>2. QED BY <6>1 DEF CallType
        <5>2. call' = [call EXCEPT ![c] = [call[c] EXCEPT !.pc = "drain", !.pool = executor]]
          BY <4>2
        <5>3. QED BY <5>1, <5>2
      <4>4. QED BY <2>5, <3>2, <4>1, <4>3 DEF StopShutsPool
    <3>3. QED BY <3>1, <3>2
  <2>6. CASE StopReturns(c)
    <3>1. call' \in [Controllers -> CallType]
      BY <2>1, <2>2, <2>6 DEF StopReturns, CallPcs
    <3>2. QED BY <2>6, <3>1, JobsAssumption DEF StopReturns
  <2>7. CASE StopGivesUp(c) \/ CloseDatabase(c)
    BY <2>1, <2>7 DEF StopGivesUp, CloseDatabase, threads
  <2>8. QED BY <1>7, <2>3, <2>4, <2>5, <2>6, <2>7 DEF StopStep
<1>8. CASE UNCHANGED vars
  BY <1>8 DEF vars
<1>9. QED BY <1>1, <1>2, <1>3, <1>4, <1>5, <1>6, <1>7, <1>8 DEF Next

\* What the steps of scans do to the scans and queues.
LEMMA OneScanMoves ==
  ASSUME ScansTyped, NEW j \in Jobs, JobStep(j)
  PROVE  /\ \A i \in Jobs \ {j} : job'[i] = job[i]
         /\ job[j].pc # "free"
         /\ job'[j].pc # "queued"
         /\ PoolStarts(j) \/ UNCHANGED queue
<1>1. /\ PoolStarts(j) \/ UNCHANGED queue
      /\ job[j].pc # "free"
      /\ \/ job' = [job EXCEPT ![j] = Free]
         \/ \E pc \in {"started", "unwind", "walk", "file", "finish", "release"} : Goto(j, pc)
  BY DEF JobStep, PoolStarts, BeginScheduled, NextFile, FileDone, EndWalk, Finish, Release, Unwind
<1>2. CASE job' = [job EXCEPT ![j] = Free]
  BY <1>1, <1>2 DEF ScansTyped, Free
<1>3. ASSUME NEW pc \in {"started", "unwind", "walk", "file", "finish", "release"}, Goto(j, pc)
      PROVE  /\ \A i \in Jobs \ {j} : job'[i] = job[i]
             /\ job'[j].pc # "queued"
  BY <1>3 DEF ScansTyped, Goto
<1>4. QED BY <1>1, <1>2, <1>3

\* What follows the head of a queue keeps its order.
LEMMA TailFacts ==
  ASSUME NEW s \in Seq(Jobs), s # <<>>
  PROVE  /\ Tail(s) \in Seq(Jobs)
         /\ \A k \in DOMAIN s : k # 1 => k - 1 \in DOMAIN Tail(s) /\ Tail(s)[k - 1] = s[k]
         /\ s[1] = Head(s)
<1>1. Tail(s) \in Seq(Jobs) /\ Len(Tail(s)) = Len(s) - 1 /\ s[1] = Head(s)
  OBVIOUS
<1>2. \A k \in 1..Len(Tail(s)) : Tail(s)[k] = s[k + 1]
  OBVIOUS
<1>3. DOMAIN s = 1..Len(s) /\ DOMAIN Tail(s) = 1..Len(Tail(s)) /\ Len(s) \in Nat
  BY <1>1
<1> DEFINE rest == Tail(s)
<1>4. SUFFICES \A k \in DOMAIN s : k # 1 => k - 1 \in DOMAIN rest /\ rest[k - 1] = s[k]
  BY <1>1
<1>5. /\ Len(rest) = Len(s) - 1
      /\ \A k \in 1..Len(rest) : rest[k] = s[k + 1]
      /\ DOMAIN rest = 1..Len(rest)
  BY <1>1, <1>2, <1>3
<1> HIDE DEF rest
<1>6. QED BY <1>3, <1>5

\* Every queued scan stays in the queue of its pool until that takes it.
LEMMA QueueStep ==
  ScansTyped /\ ControlTyped /\ QueuesHold /\ [Next]_vars => QueuesHold'
<1> SUFFICES ASSUME ScansTyped, ControlTyped, QueuesHold, [Next]_vars PROVE QueuesHold'
  OBVIOUS
<1>0. ASSUME UNCHANGED queue, \A j \in Jobs : job'[j].pc = "queued" => job'[j] = job[j]
      PROVE  QueuesHold'
  BY <1>0 DEF QueuesHold
<1>1. ASSUME UNCHANGED <<job, queue>> PROVE QueuesHold'
  BY <1>1 DEF QueuesHold
<1>2. ASSUME NEW r \in Roots, AddRoot(r) \/ Enable(r) \/ Disable(r) \/ RemoveRoot(r)
      PROVE  QueuesHold'
  BY <1>1, <1>2 DEF AddRoot, Enable, Disable, SetRoot, RemoveRoot, jobState
<1>3. ASSUME NEW t \in Pools, DispatcherStep(t) PROVE QueuesHold'
  <2>1. CASE DispatcherChecks(t) \/ TickIdle(t)
    BY <1>1, <2>1 DEF DispatcherChecks, TickIdle, jobState
  <2>2. ASSUME NEW r \in Roots, TickReserve(t, r) PROVE QueuesHold'
    <3>1. CASE UNCHANGED <<job, queue>>
      BY <1>1, <3>1
    <3>2. CASE ~UNCHANGED <<job, queue>>
      <4>1. PICK j \in Jobs :
              /\ executor # 0
              /\ job' = [job EXCEPT ![j] = [pc |-> "queued", root |-> r,
                                            pool |-> executor, stale |-> FALSE]]
              /\ queue' = [queue EXCEPT ![executor] = Append(@, j)]
        BY <2>2, <3>2 DEF TickReserve
      <4>2. executor \in Pools
        BY <4>1, JobsAssumption DEF ScansTyped, Pools
      <4>3. queue[executor] \in Seq(Jobs)
        BY <4>2 DEF QueuesHold
      <4> DEFINE longer == Append(queue[executor], j)
      <4>4. /\ longer \in Seq(Jobs)
            /\ Len(queue[executor]) + 1 \in DOMAIN longer
            /\ longer[Len(queue[executor]) + 1] = j
            /\ \A k \in DOMAIN queue[executor] : k \in DOMAIN longer /\ longer[k] = queue[executor][k]
        BY <4>3
      <4>5. queue' = [queue EXCEPT ![executor] = longer]
        BY <4>1
      <4> HIDE DEF longer
      <4>6. queue' \in [Pools -> Seq(Jobs)] /\ queue'[executor] = longer
            /\ \A p \in Pools \ {executor} : queue'[p] = queue[p]
        BY <4>2, <4>4, <4>5 DEF QueuesHold
      <4>7. ASSUME NEW i \in Jobs, job'[i].pc = "queued"
            PROVE  /\ job'[i].pool \in Pools
                   /\ \E k \in DOMAIN queue'[job'[i].pool] : queue'[job'[i].pool][k] = i
        <5>1. CASE i = j
          <6>1. job'[i].pool = executor
            BY <4>1, <5>1 DEF ScansTyped
          <6>2. QED BY <4>2, <4>4, <4>6, <5>1, <6>1
        <5>2. CASE i # j
          <6>1. job'[i] = job[i]
            BY <4>1, <5>2 DEF ScansTyped
          <6>2. PICK k \in DOMAIN queue[job[i].pool] : queue[job[i].pool][k] = i
            BY <4>7, <6>1 DEF QueuesHold
          <6>3. job[i].pool \in Pools
            BY <4>7, <6>1 DEF QueuesHold
          <6>4. QED BY ZenonT(30), <4>4, <4>6, <6>1, <6>2, <6>3
        <5>3. QED BY <5>1, <5>2
      <4>8. QED BY <4>6, <4>7 DEF QueuesHold
    <3>3. QED BY <3>1, <3>2
  <2>3. QED BY <1>3, <2>1, <2>2 DEF DispatcherStep
<1>4. ASSUME NEW j \in Jobs, JobStep(j) PROVE QueuesHold'
  <2>1. CASE UNCHANGED queue
    BY <1>0, <1>4, <2>1, OneScanMoves
  <2>2. CASE PoolStarts(j)
    <3> DEFINE p == job[j].pool
    <3>1. job[j].pc = "queued" /\ Head(queue[p]) = j /\ queue' = [queue EXCEPT ![p] = Tail(@)]
      BY <2>2 DEF PoolStarts
    <3>2. p \in Pools /\ queue[p] \in Seq(Jobs) /\ DOMAIN queue[p] # {}
      BY <3>1 DEF QueuesHold
    <3>3. queue[p] # <<>>
      BY <3>2
    <3> DEFINE rest == Tail(queue[p])
    <3>4. /\ rest \in Seq(Jobs)
          /\ \A k \in DOMAIN queue[p] : k # 1 => k - 1 \in DOMAIN rest /\ rest[k - 1] = queue[p][k]
          /\ queue[p][1] = j
      BY <3>1, <3>2, <3>3, TailFacts
    <3>5. queue' = [queue EXCEPT ![p] = rest]
      BY <3>1
    <3> HIDE DEF rest, p
    <3>6. /\ queue' \in [Pools -> Seq(Jobs)] /\ queue'[p] = rest
          /\ \A q \in Pools \ {p} : queue'[q] = queue[q]
      BY <3>2, <3>4, <3>5 DEF QueuesHold
    <3>7. ASSUME NEW i \in Jobs, job'[i].pc = "queued"
          PROVE  /\ job'[i].pool \in Pools
                 /\ \E k \in DOMAIN queue'[job'[i].pool] : queue'[job'[i].pool][k] = i
      <4>1. i # j /\ job'[i] = job[i]
        BY <1>4, <3>7, OneScanMoves
      <4>2. PICK k \in DOMAIN queue[job[i].pool] : queue[job[i].pool][k] = i
        BY <3>7, <4>1 DEF QueuesHold
      <4>3. job[i].pool \in Pools
        BY <3>7, <4>1 DEF QueuesHold
      <4>4. CASE job[i].pool = p
        BY <3>4, <3>6, <4>1, <4>2, <4>3, <4>4
      <4>5. CASE job[i].pool # p
        BY <3>6, <4>1, <4>2, <4>3, <4>5
      <4>6. QED BY <4>4, <4>5
    <3>8. QED BY <3>6, <3>7 DEF QueuesHold
  <2>3. QED BY <1>4, <2>1, <2>2, OneScanMoves
<1>5. ASSUME NEW j \in Jobs, NEW r \in Roots, BeginManual(j, r) PROVE QueuesHold'
  <2>1. \A i \in Jobs : job'[i] = job[i] \/ job'[i].pc = "walk"
    BY <1>5 DEF BeginManual, ScansTyped
  <2>2. QED BY <1>0, <1>5, <2>1 DEF BeginManual
<1>6. ASSUME NEW c \in Controllers, Start(c) PROVE QueuesHold'
  BY <1>1, <1>6 DEF Start, jobState
<1>7. ASSUME NEW c \in Controllers, NEW op \in {"stop", "close"}, StopBegins(c, op)
      PROVE  QueuesHold'
  <2>1. \A j \in Jobs : job'[j].pc = job[j].pc /\ job'[j].pool = job[j].pool
    BY <1>7 DEF StopBegins, ScansTyped
  <2>2. UNCHANGED queue
    BY <1>7 DEF StopBegins
  <2>3. QED BY <2>1, <2>2 DEF QueuesHold
<1>8. ASSUME NEW c \in Controllers, StopStep(c) PROVE QueuesHold'
  <2>1. CASE StopShutsPool(c)
    <3>1. CASE executor = 0
      BY <1>1, <2>1, <3>1 DEF StopShutsPool
    <3>2. CASE executor # 0
      <4> DEFINE queued == {j \in Jobs : job[j].pc = "queued" /\ job[j].pool = executor}
      <4>1. /\ job' = [j \in Jobs |-> IF j \in queued THEN Free ELSE job[j]]
            /\ queue' = [queue EXCEPT ![executor] = <<>>]
        BY <2>1, <3>2 DEF StopShutsPool
      <4>2. queue' \in [Pools -> Seq(Jobs)] /\ \A p \in Pools : p # executor => queue'[p] = queue[p]
        <5>1. <<>> \in Seq(Jobs)
          OBVIOUS
        <5> DEFINE empty == <<>>
        <5>2. empty \in Seq(Jobs) /\ queue' = [queue EXCEPT ![executor] = empty]
          BY <4>1, <5>1
        <5> HIDE DEF empty
        <5>3. QED BY <5>2 DEF QueuesHold
      <4>3. ASSUME NEW j \in Jobs, job'[j].pc = "queued"
            PROVE  job'[j] = job[j] /\ job[j].pool # executor
        BY <4>1, <4>3 DEF Free
      <4>4. QED BY <4>2, <4>3 DEF QueuesHold
    <3>3. QED BY <3>1, <3>2
  <2>2. CASE UNCHANGED <<job, queue>>
    BY <1>1, <2>2
  <2>3. QED
    BY <1>8, <2>1, <2>2
       DEF StopStep, StopSignals, StopReadsThread, StopJoins, StopDrainsPool, StopReturns,
           StopGivesUp, CloseDatabase, jobState
<1>9. CASE UNCHANGED vars
  BY <1>1, <1>9 DEF vars
<1>10. QED BY <1>2, <1>3, <1>4, <1>5, <1>6, <1>7, <1>8, <1>9 DEF Next

\* A scan that takes a place of the semaphore, or gives its own back.
LEMMA HoldersMove ==
  ASSUME SlotsHold, NEW j \in Jobs
  PROVE  /\ Holders' = Holders /\ slots' = slots => SlotsHold'
         /\ j \notin Holders /\ Holders' = Holders \cup {j} /\ slots > 0 /\ slots' = slots - 1
              => SlotsHold'
         /\ j \in Holders /\ Holders' = Holders \ {j} /\ slots' = slots + 1 => SlotsHold'
<1> DEFINE n == Cardinality(Holders)
<1>0. IsFiniteSet(Holders) /\ n \in Nat /\ slots \in Nat /\ slots + n = 2
  BY FS_CardinalityType DEF SlotsHold
<1>1. ASSUME Holders' = Holders, slots' = slots PROVE SlotsHold'
  BY <1>1 DEF SlotsHold
<1>2. ASSUME j \notin Holders, Holders' = Holders \cup {j}, slots > 0, slots' = slots - 1
      PROVE  SlotsHold'
  <2>1. IsFiniteSet(Holders') /\ Cardinality(Holders') = n + 1
    BY <1>0, <1>2, FS_AddElement
  <2> HIDE DEF n
  <2>2. QED BY <1>0, <1>2, <2>1 DEF SlotsHold
<1>3. ASSUME j \in Holders, Holders' = Holders \ {j}, slots' = slots + 1 PROVE SlotsHold'
  <2>1. IsFiniteSet(Holders') /\ Cardinality(Holders') = n - 1
    BY <1>0, <1>3, FS_RemoveElement
  <2> HIDE DEF n
  <2>2. QED BY <1>0, <1>3, <2>1 DEF SlotsHold
<1>4. QED BY <1>1, <1>2, <1>3

\* Every step keeps the account of the places.
LEMMA SlotStep == ScansTyped /\ SlotsHold /\ [Next]_vars => SlotsHold'
<1> SUFFICES ASSUME ScansTyped, SlotsHold, [Next]_vars PROVE SlotsHold'
  OBVIOUS
<1> DEFINE Held == {"walk", "file", "finish", "release"}
<1>0. ASSUME slots' = slots, \A j \in Jobs : job'[j].pc \in Held <=> job[j].pc \in Held
      PROVE  SlotsHold'
  <2>1. Holders' = Holders
    BY <1>0 DEF Holders, Walking
  <2>2. QED BY <1>0, <2>1 DEF SlotsHold
<1>1. ASSUME UNCHANGED <<job, slots>> PROVE SlotsHold'
  BY <1>0, <1>1
<1>2. ASSUME NEW r \in Roots, AddRoot(r) \/ Enable(r) \/ Disable(r) \/ RemoveRoot(r)
      PROVE  SlotsHold'
  BY <1>1, <1>2 DEF AddRoot, Enable, Disable, SetRoot, RemoveRoot, jobState
<1>3. ASSUME NEW t \in Pools, DispatcherStep(t) PROVE SlotsHold'
  <2>1. CASE DispatcherChecks(t) \/ TickIdle(t)
    BY <1>1, <2>1 DEF DispatcherChecks, TickIdle, jobState
  <2>2. ASSUME NEW r \in Roots, TickReserve(t, r) PROVE SlotsHold'
    <3>1. \A j \in Jobs : job'[j] = job[j] \/ (job[j] = Free /\ job'[j].pc = "queued")
      <4>1. CASE UNCHANGED job
        BY <4>1
      <4>2. ASSUME NEW i \in Jobs, job[i] = Free,
                   job' = [job EXCEPT ![i] = [pc |-> "queued", root |-> r,
                                              pool |-> executor, stale |-> FALSE]]
            PROVE  \A j \in Jobs : job'[j] = job[j] \/ (job[j] = Free /\ job'[j].pc = "queued")
        BY <4>2 DEF ScansTyped
      <4>3. QED BY <2>2, <4>1, <4>2 DEF TickReserve
    <3>2. QED BY <1>0, <2>2, <3>1 DEF TickReserve, Free
  <2>3. QED BY <1>3, <2>1, <2>2 DEF DispatcherStep
<1>4. ASSUME NEW j \in Jobs, JobStep(j) PROVE SlotsHold'
  <2>1. \A i \in Jobs \ {j} : job'[i] = job[i]
    BY <1>4, OneScanMoves
  <2>2. /\ j \in Holders <=> job[j].pc \in Held
        /\ Holders' = IF job'[j].pc \in Held THEN Holders \cup {j} ELSE Holders \ {j}
    BY <2>1 DEF Holders, Walking
  <2> DEFINE Moves(pcs, next) == job[j].pc \in pcs /\ job'[j].pc \in next
  <2>3. CASE BeginScheduled(j)
    <3>1. \/ UNCHANGED slots /\ Moves({"started"}, {"unwind"})
          \/ slots # 0 /\ slots' = slots - 1 /\ Moves({"started"}, {"walk"})
      BY <2>3 DEF BeginScheduled, Goto, ScansTyped
    <3>2. slots # 0 => slots > 0
      BY DEF SlotsHold
    <3>3. QED BY <2>2, <3>1, <3>2, HoldersMove
  <2>4. CASE Release(j)
    <3>1. slots' = slots + 1 /\ Moves({"release"}, {"unwind", "free"})
      BY <2>4 DEF Release, Goto, Free, ScansTyped
    <3>2. QED BY <2>2, <3>1, HoldersMove
  <2>5. CASE PoolStarts(j) \/ NextFile(j) \/ FileDone(j) \/ EndWalk(j) \/ Finish(j) \/ Unwind(j)
    <3>1. /\ UNCHANGED slots
          /\ \/ Moves(Held, Held)
             \/ Moves({"queued", "unwind"}, {"started", "free"})
      BY <2>5 DEF PoolStarts, NextFile, FileDone, EndWalk, Finish, Unwind, Goto, Free, ScansTyped
    <3>2. QED BY <2>1, <3>1, <1>0
  <2>6. QED BY <1>4, <2>3, <2>4, <2>5 DEF JobStep
<1>5. ASSUME NEW j \in Jobs, NEW r \in Roots, BeginManual(j, r) PROVE SlotsHold'
  <2>1. /\ \A i \in Jobs \ {j} : job'[i] = job[i]
        /\ job[j].pc = "free" /\ job'[j].pc = "walk"
        /\ slots > 0 /\ slots' = slots - 1
    BY <1>5 DEF BeginManual, Free, ScansTyped
  <2>2. j \notin Holders /\ Holders' = Holders \cup {j}
    BY <2>1 DEF Holders, Walking
  <2>3. QED BY <2>1, <2>2, HoldersMove
<1>6. ASSUME NEW c \in Controllers, Start(c) PROVE SlotsHold'
  BY <1>1, <1>6 DEF Start, jobState
<1>7. ASSUME NEW c \in Controllers, NEW op \in {"stop", "close"}, StopBegins(c, op)
      PROVE  SlotsHold'
  <2>1. \A j \in Jobs : job'[j].pc = job[j].pc
    BY <1>7 DEF StopBegins, ScansTyped
  <2>2. QED BY <1>0, <1>7, <2>1 DEF StopBegins
<1>8. ASSUME NEW c \in Controllers, StopStep(c) PROVE SlotsHold'
  <2>1. CASE StopShutsPool(c)
    <3>1. \A j \in Jobs : job'[j] = job[j] \/ (job[j].pc = "queued" /\ job'[j].pc = "free")
      <4>1. CASE UNCHANGED job
        BY <4>1
      <4>2. CASE executor # 0
        BY <2>1, <4>2 DEF StopShutsPool, Free
      <4>3. QED BY <2>1, <4>1, <4>2 DEF StopShutsPool
    <3>2. QED BY <1>0, <2>1, <3>1 DEF StopShutsPool
  <2>2. QED
    BY <1>1, <1>8, <2>1
       DEF StopStep, StopSignals, StopReadsThread, StopJoins, StopDrainsPool, StopReturns,
           StopGivesUp, CloseDatabase, jobState
<1>9. CASE UNCHANGED vars
  BY <1>1, <1>9 DEF vars
<1>10. QED BY <1>2, <1>3, <1>4, <1>5, <1>6, <1>7, <1>8, <1>9 DEF Next

\* Every variable keeps to its values: the semaphore never hands out a place it
\* does not have, nor gets one back that nobody took.
THEOREM JobsTyped == Spec => []TypeOK
<1> DEFINE Inv == ScanInv /\ ControlTyped /\ QueuesHold /\ SlotsHold
<1>1. Init => Inv
  <2> SUFFICES ASSUME Init PROVE Inv
    OBVIOUS
  <2>1. ScanInv
    BY ScanInvInit
  <2>2. ControlTyped
    <3>1. 0 \in 0..MaxStarts /\ "idle" \in CallPcs
      BY JobsAssumption DEF CallPcs
    <3>2. NoCall \in CallType
      BY <3>1 DEF NoCall, CallType
    <3>3. QED BY <3>1, <3>2 DEF Init, ControlTyped
  <2>3. QueuesHold
    <3> DEFINE empty == <<>>
    <3>1. empty \in Seq(Jobs) /\ queue = [p \in Pools |-> empty]
      BY DEF Init
    <3>2. \A j \in Jobs : job[j].pc = "free"
      BY DEF Init, Free
    <3> HIDE DEF empty
    <3>3. QED BY <3>1, <3>2 DEF QueuesHold
  <2>4. SlotsHold
    <3>1. Holders = {} /\ slots = 2
      BY DEF Init, Free, Holders, Walking
    <3>2. QED BY <3>1, FS_EmptySet DEF SlotsHold
  <2>5. QED BY <2>1, <2>2, <2>3, <2>4
<1>2. Inv /\ [Next]_vars => Inv'
  BY ScanInvStep, ControlStep, QueueStep, SlotStep DEF ScanInv
<1>3. Inv => TypeOK
  <2> SUFFICES ASSUME Inv PROVE TypeOK
    OBVIOUS
  <2>1. slots \in 0..2
    BY FS_CardinalityType DEF SlotsHold
  <2>2. QED BY <2>1 DEF TypeOK, ScanInv, ControlTyped, QueuesHold, CallType
<1>4. QED BY <1>1, <1>2, <1>3, PTL DEF Spec
-----------------------------------------------------------------------------
(* One controller, whose stops wait for the dispatcher however long it takes *)

OneController(c) == Controllers = {c} /\ ~SlowTicks

Alive(t) == dispatcher[t] \in {"check", "tick"}
Scheduled(j) == job[j].pc # "free" /\ Automatic(j)

\* Only the thread of the current start can dispatch, to a pool that accepts
\* scans, and until a stop has waited for its end.
OneThread(c) ==
  /\ thread = executor
  /\ executor # 0 => dispatcher[executor] # "none"
  /\ \A t \in shut : dispatcher[t] # "none"
  /\ \A t \in Pools : Alive(t) =>
       /\ t = executor /\ t \notin shut
       /\ ~closed /\ outcome[c] # "stopped"
       /\ call[c].pc \in {"idle", "signal", "read", "join"}
       /\ call[c].pc = "idle" => ~stopFlag
  /\ call[c].pc \in {"read", "join"} => stopFlag
  /\ call[c].pc = "join" => call[c].thread = thread
  /\ outcome[c] = "stopped" => call[c].pc = "idle"

\* Automatic scans belong to the current pool; between two calls a thread that
\* dispatches is behind them, and a stop that has emptied the pool leaves none.
OnePool(c) ==
  \A j \in Jobs : Scheduled(j) =>
    /\ job[j].pool = executor
    /\ ~closed /\ outcome[c] # "stopped"
    /\ call[c].pc \notin {"wait", "close"}
    /\ call[c].pc = "drain" => call[c].pool = executor /\ job[j].pc # "queued"
    /\ call[c].pc = "idle" => Alive(executor)

Serial(c) == OneThread(c) /\ OnePool(c)

\* The dispatcher of the current start goes on, or ends after a stop.
LEMMA SerialDispatch ==
  ASSUME NEW c \in Controllers, ScansTyped, ControlTyped, Serial(c),
         NEW t \in Pools, DispatcherStep(t)
  PROVE  Serial(c)'
<1>1. Alive(t) /\ UNCHANGED <<thread, executor, shut, closed, outcome, call, stopFlag>>
  BY DEF DispatcherStep, DispatcherChecks, TickIdle, TickReserve, Alive, controls
<1>2. /\ t = executor /\ t \notin shut
      /\ ~closed /\ outcome[c] # "stopped"
      /\ call[c].pc \in {"idle", "signal", "read", "join"}
      /\ call[c].pc = "idle" => ~stopFlag
  BY <1>1 DEF Serial, OneThread
<1>3. PICK end \in {"check", "tick", "dead"} :
        /\ dispatcher' = [dispatcher EXCEPT ![t] = end]
        /\ call[c].pc = "idle" => end # "dead"
  <2>1. CASE DispatcherChecks(t)
    BY <1>2, <2>1 DEF DispatcherChecks
  <2>2. CASE TickIdle(t)
    BY <1>2, <2>2 DEF TickIdle
  <2>3. CASE \E r \in Roots : TickReserve(t, r)
    <3>1. t # 0
      BY DEF Pools
    <3>2. QED BY <1>2, <2>3, <3>1 DEF TickReserve
  <2>4. QED BY <2>1, <2>2, <2>3 DEF DispatcherStep
<1>4. /\ dispatcher'[t] = end
      /\ \A u \in Pools : u # t => dispatcher'[u] = dispatcher[u]
  BY <1>3 DEF ControlTyped
<1>5. OneThread(c)'
  <2>1. shut \subseteq Pools
    BY DEF ControlTyped
  <2>2. QED BY <1>1, <1>2, <1>3, <1>4, <2>1 DEF Serial, OneThread, Alive
<1>6. \A j \in Jobs : Scheduled(j)' =>
         \/ Scheduled(j) /\ job'[j] = job[j]
         \/ job'[j].pool = executor
  <2>1. CASE UNCHANGED job
    BY <2>1 DEF Scheduled, Automatic
  <2>2. ASSUME NEW i \in Jobs, NEW r \in Roots,
               job' = [job EXCEPT ![i] = [pc |-> "queued", root |-> r,
                                          pool |-> executor, stale |-> FALSE]]
        PROVE  \A j \in Jobs : job'[j] = job[j] \/ job'[j].pool = executor
    BY <2>2 DEF ScansTyped
  <2>3. QED
    BY <2>1, <2>2 DEF DispatcherStep, DispatcherChecks, TickIdle, TickReserve, jobState,
                      Scheduled, Automatic
<1>7. OnePool(c)'
  <2>1. SUFFICES ASSUME NEW j \in Jobs, Scheduled(j)'
                 PROVE  job'[j].pool = executor /\ (call[c].pc = "idle" => Alive(executor)')
    BY <1>1, <1>2 DEF OnePool
  <2>2. job'[j].pool = executor
    BY <1>6, <2>1 DEF Serial, OnePool
  <2>3. call[c].pc = "idle" => Alive(executor)'
    BY <1>1, <1>2, <1>3, <1>4 DEF Alive
  <2>4. QED BY <2>2, <2>3
<1>8. QED BY <1>5, <1>7 DEF Serial

\* A scan keeps its pool until it ends, and is not queued again.
LEMMA SerialScan ==
  ASSUME NEW c \in Controllers, ScansTyped, Serial(c), NEW j \in Jobs, JobStep(j)
  PROVE  Serial(c)'
<1>1. UNCHANGED <<thread, executor, dispatcher, shut, closed, outcome, call, stopFlag>>
  BY DEF JobStep, PoolStarts, BeginScheduled, NextFile, FileDone, EndWalk, Finish, Release,
         Unwind, threads, controls
<1>2. \A i \in Jobs : Scheduled(i)' => /\ Scheduled(i)
                                       /\ job'[i].pool = job[i].pool
                                       /\ job'[i].pc = "queued" => job[i].pc = "queued"
  <2>1. /\ \A i \in Jobs \ {j} : job'[i] = job[i]
        /\ job[j].pc # "free"
        /\ job'[j].pc # "queued"
    BY OneScanMoves
  <2>2. job'[j] = Free \/ job'[j].pool = job[j].pool
    BY DEF JobStep, PoolStarts, BeginScheduled, NextFile, FileDone, EndWalk, Finish, Release,
           Unwind, Goto, ScansTyped
  <2>3. QED BY <2>1, <2>2 DEF Scheduled, Automatic, Free
<1>3. OneThread(c)'
  BY <1>1 DEF Serial, OneThread, Alive
<1>4. OnePool(c)'
  BY <1>1, <1>2 DEF Serial, OnePool, Alive
<1>5. QED BY <1>3, <1>4 DEF Serial

\* A start finds no thread that dispatches, and so no automatic scan.
LEMMA SerialStart ==
  ASSUME NEW c \in Controllers, ScansTyped, ControlTyped, Serial(c), Start(c)
  PROVE  Serial(c)'
<1>1. call[c].pc = "idle" /\ ~closed /\ ~IsRunning /\ UNCHANGED <<job, shut, closed, call>>
  BY DEF Start, NoCall, jobState
<1>2. \A t \in Pools : ~Alive(t)
  <2>1. SUFFICES ASSUME NEW t \in Pools, Alive(t) PROVE FALSE
    OBVIOUS
  <2>2. t = thread /\ ~stopFlag /\ thread # 0
    BY <1>1, <2>1 DEF Serial, OneThread, Pools
  <2>3. QED BY <1>1, <2>1, <2>2 DEF IsRunning, Alive
<1>3. \A j \in Jobs : ~Scheduled(j)
  <2>1. SUFFICES ASSUME NEW j \in Jobs, Scheduled(j) PROVE FALSE
    OBVIOUS
  <2>2. job[j].pool = executor /\ executor # 0 /\ Alive(executor)
    BY <1>1, <2>1 DEF Serial, OnePool, Scheduled, Automatic
  <2>3. executor \in Pools
    BY <2>2, JobsAssumption DEF ScansTyped, Pools
  <2>4. QED BY <1>2, <2>2, <2>3
<1>4. PICK t \in Pools : /\ dispatcher[t] = "none"
                         /\ dispatcher' = [dispatcher EXCEPT ![t] = "check"]
                         /\ thread' = t /\ executor' = t
  BY DEF Start
<1>5. /\ dispatcher'[t] = "check"
      /\ \A u \in Pools : u # t => dispatcher'[u] = dispatcher[u]
  BY <1>4 DEF ControlTyped
<1>6. stopFlag' = FALSE /\ outcome'[c] = "none"
  BY DEF Start, ControlTyped
<1>7. shut \subseteq Pools /\ t \notin shut
  BY <1>4 DEF Serial, OneThread, ControlTyped
<1>8. OneThread(c)'
  BY <1>1, <1>2, <1>4, <1>5, <1>6, <1>7 DEF Serial, OneThread, Alive
<1>9. OnePool(c)'
  BY <1>1, <1>3 DEF OnePool, Scheduled, Automatic
<1>10. QED BY <1>8, <1>9 DEF Serial

\* A stop signals the thread, waits for its end, and then empties the pool.
LEMMA SerialStop ==
  ASSUME NEW c \in Controllers, OneController(c), ScansTyped, ControlTyped, Serial(c),
         StopStep(c)
  PROVE  Serial(c)'
<1>1. \A t \in Pools : Alive(t) => t = executor /\ call[c].pc \in {"idle", "signal", "read", "join"}
  BY DEF Serial, OneThread
<1>2. \A j \in Jobs : Scheduled(j) => job[j].pool = executor /\ executor # 0
  BY DEF Serial, OnePool, Scheduled, Automatic
<1>3. CASE StopSignals(c)
  <2>1. call[c].pc = "signal" /\ stopFlag' = TRUE
        /\ UNCHANGED <<job, dispatcher, thread, executor, shut, closed, outcome>>
    BY <1>3 DEF StopSignals, jobState
  <2>2. call'[c].pc = "read"
    BY <1>3 DEF StopSignals, ControlTyped, CallType
  <2>3. QED BY <2>1, <2>2 DEF Serial, OneThread, OnePool, Alive, Scheduled, Automatic
<1>4. CASE StopReadsThread(c)
  <2>1. call[c].pc = "read" /\ UNCHANGED <<job, stopFlag, dispatcher, thread, executor, shut, closed, outcome>>
    BY <1>4 DEF StopReadsThread, jobState, threads
  <2>2. call'[c].thread = thread /\ call'[c].pc = IF thread = 0 THEN "pool" ELSE "join"
    BY <1>4 DEF StopReadsThread, ControlTyped, CallType
  <2>3. thread = 0 => \A t \in Pools : ~Alive(t)
    BY <1>1 DEF Serial, OneThread, Pools
  <2>4. QED BY <2>1, <2>2, <2>3 DEF Serial, OneThread, OnePool, Alive, Scheduled, Automatic
<1>5. CASE StopJoins(c)
  <2>1. call[c].pc = "join" /\ UNCHANGED <<job, stopFlag, dispatcher, thread, executor, shut, closed, outcome>>
    BY <1>5 DEF StopJoins, jobState, threads
  <2>2. call'[c].pc = "pool"
    BY <1>5 DEF StopJoins, ControlTyped, CallType
  <2>3. dispatcher[executor] = "dead"
    BY <1>5, <2>1 DEF StopJoins, OneController, Serial, OneThread
  <2>4. \A t \in Pools : ~Alive(t)
    BY <1>1, <2>3 DEF Alive
  <2>5. QED BY <2>1, <2>2, <2>4 DEF Serial, OneThread, OnePool, Alive, Scheduled, Automatic
<1>6. CASE StopShutsPool(c)
  <2>1. call[c].pc = "pool" /\ UNCHANGED <<stopFlag, dispatcher, thread, executor, closed, outcome>>
    BY <1>6 DEF StopShutsPool
  <2>2. \A t \in Pools : ~Alive(t)
    BY <1>1, <2>1
  <2>3. CASE executor = 0
    <3>1. call'[c].pc = "wait" /\ UNCHANGED <<job, shut>>
      BY <1>6, <2>3 DEF StopShutsPool, ControlTyped, CallType
    <3>2. \A j \in Jobs : ~Scheduled(j)
      BY <1>2, <2>3
    <3>3. QED BY <2>1, <2>2, <3>1, <3>2 DEF Serial, OneThread, OnePool, Alive, Scheduled, Automatic
  <2>4. CASE executor # 0
    <3>1. /\ call'[c].pc = "drain" /\ call'[c].pool = executor
          /\ shut' = shut \cup {executor}
          /\ \A j \in Jobs : \/ job'[j] = Free
                             \/ job'[j] = job[j] /\ ~(job[j].pc = "queued" /\ job[j].pool = executor)
      BY <1>6, <2>4 DEF StopShutsPool, ControlTyped, CallType
    <3>2. \A j \in Jobs : Scheduled(j)' => Scheduled(j) /\ job'[j] = job[j] /\ job[j].pc # "queued"
      BY <1>2, <3>1 DEF Scheduled, Automatic, Free
    <3>3. OneThread(c)'
      BY <2>1, <2>2, <2>4, <3>1 DEF Serial, OneThread, Alive
    <3>4. OnePool(c)'
      BY <1>2, <2>1, <3>1, <3>2 DEF Serial, OnePool
    <3>5. QED BY <3>3, <3>4 DEF Serial
  <2>5. QED BY <2>3, <2>4
<1>7. CASE StopDrainsPool(c)
  <2>1. call[c].pc = "drain" /\ UNCHANGED <<job, stopFlag, dispatcher, thread, executor, shut, closed, outcome>>
    BY <1>7 DEF StopDrainsPool, jobState, threads
  <2>2. call'[c].pc = "wait"
    BY <1>7 DEF StopDrainsPool, ControlTyped, CallType
  <2>3. \A j \in Jobs : ~Scheduled(j)
    <3>1. SUFFICES ASSUME NEW j \in Jobs, Scheduled(j) PROVE FALSE
      OBVIOUS
    <3>2. job[j].pool = call[c].pool /\ job[j].pc \notin {"free", "queued"}
      BY <1>2, <2>1, <3>1 DEF Serial, OnePool, Scheduled
    <3>3. QED BY <1>7, <3>2 DEF StopDrainsPool, OnThread
  <2>4. QED BY <2>1, <2>2, <2>3 DEF Serial, OneThread, OnePool, Alive, Scheduled, Automatic
<1>8. CASE StopReturns(c) \/ StopGivesUp(c) \/ CloseDatabase(c)
  <2>1. call[c].pc \in {"wait", "close"} /\ UNCHANGED <<job, stopFlag, dispatcher, shut>>
    BY <1>8 DEF StopReturns, StopGivesUp, CloseDatabase, jobState, threads
  <2>2. /\ \A t \in Pools : ~Alive(t)
        /\ \A j \in Jobs : ~Scheduled(j)
    BY <1>1, <2>1 DEF Serial, OnePool
  <2>3. /\ thread' = executor'
        /\ executor' # 0 => executor' = executor
        /\ call'[c].pc \in {"idle", "close"}
        /\ call'[c].pc = "close" => outcome'[c] # "stopped"
    <3>1. 0 \in 0..MaxStarts /\ call[c].pc # "idle"
      BY <2>1, JobsAssumption
    <3>2. CASE StopReturns(c)
      BY <3>1, <3>2 DEF StopReturns, ControlTyped, CallType, NoCall, Serial, OneThread
    <3>3. CASE StopGivesUp(c) \/ CloseDatabase(c)
      BY <3>1, <3>3 DEF StopGivesUp, CloseDatabase, ControlTyped, CallType, NoCall, threads,
                        Serial, OneThread
    <3>4. QED BY <1>8, <3>2, <3>3
  <2>4. OneThread(c)'
    BY <2>1, <2>2, <2>3 DEF Serial, OneThread, Alive
  <2>5. OnePool(c)'
    BY <2>1, <2>2 DEF OnePool, Scheduled, Automatic
  <2>6. QED BY <2>4, <2>5 DEF Serial
<1>9. QED BY <1>3, <1>4, <1>5, <1>6, <1>7, <1>8 DEF StopStep

\* With one controller, every step keeps threads and scans in their order.
LEMMA SerialStep ==
  ASSUME NEW c, OneController(c), ScansTyped, ControlTyped, Serial(c), [Next]_vars
  PROVE  Serial(c)'
<1>0. c \in Controllers /\ \A d \in Controllers : d = c
  BY DEF OneController
<1>1. ASSUME UNCHANGED <<job, threads, controls>> PROVE Serial(c)'
  <2>1. UNCHANGED <<job, stopFlag, dispatcher, thread, executor, shut, closed, call, outcome>>
    BY <1>1 DEF threads, controls
  <2>2. QED BY <2>1 DEF Serial, OneThread, OnePool, Alive, Scheduled, Automatic
<1>2. ASSUME NEW r \in Roots, AddRoot(r) \/ Enable(r) \/ Disable(r) \/ RemoveRoot(r)
      PROVE  Serial(c)'
  BY <1>1, <1>2 DEF AddRoot, Enable, Disable, SetRoot, RemoveRoot, jobState
<1>3. ASSUME NEW j \in Jobs, NEW r \in Roots, BeginManual(j, r) PROVE Serial(c)'
  <2>1. UNCHANGED <<stopFlag, dispatcher, thread, executor, shut, closed, call, outcome>>
    BY <1>3 DEF BeginManual, threads, controls
  <2>2. /\ job'[j].pool = 0
        /\ \A i \in Jobs \ {j} : job'[i] = job[i]
    BY <1>3 DEF BeginManual, ScansTyped
  <2>3. \A i \in Jobs : Scheduled(i)' => Scheduled(i) /\ job'[i] = job[i]
    BY <2>2 DEF Scheduled, Automatic
  <2>4. QED BY <2>1, <2>3 DEF Serial, OneThread, OnePool, Alive
<1>4. ASSUME NEW op \in {"stop", "close"}, StopBegins(c, op) PROVE Serial(c)'
  <2>1. /\ call[c].pc = "idle"
        /\ UNCHANGED <<stopFlag, dispatcher, thread, executor, shut, closed>>
    BY <1>4 DEF StopBegins, threads, NoCall
  <2>2. call'[c].pc = "signal" /\ outcome'[c] = "none"
    BY <1>0, <1>4 DEF StopBegins, ControlTyped, NoCall
  <2>3. \A j \in Jobs : job'[j].pc = job[j].pc /\ job'[j].pool = job[j].pool
    BY <1>4 DEF StopBegins, ScansTyped
  <2>4. QED BY <2>1, <2>2, <2>3 DEF Serial, OneThread, OnePool, Alive, Scheduled, Automatic
<1>5. CASE UNCHANGED vars
  BY <1>1, <1>5 DEF vars, threads, controls
<1>6. QED
  BY <1>0, <1>2, <1>3, <1>4, <1>5, SerialDispatch, SerialScan, SerialStart, SerialStop DEF Next

\* A tick that finds a pool which accepts its scan leaves no orphan, and every
\* scan removes the entry it is behind.
LEMMA BackedStep ==
  ASSUME NEW c, OneController(c), ScanInv, ScanInv', Serial(c), ReservationsBacked, [Next]_vars
  PROVE  ReservationsBacked'
<1> DEFINE Behind(j, r) ==
             /\ job[j].root = r
             /\ \/ active[r] = Reservation(j) /\ job[j].pc \in {"queued", "started", "unwind"}
                \/ active[r] = Running(j) /\ Walking(j)
<1>0. \A r \in Roots : active[r] # None => \E j \in Jobs : Behind(j, r)
  BY DEF ReservationsBacked, Active
<1>00. SUFFICES \A r \in Roots : active'[r] # None => \E j \in Jobs : Behind(j, r)'
  BY DEF ReservationsBacked, Active
<1> USE DEF ScanInv
<1>1. ASSUME UNCHANGED active,
             \A j \in Jobs : /\ job'[j].root = job[j].root
                             /\ job'[j].pc = job[j].pc
      PROVE  \A r \in Roots : active'[r] # None => \E j \in Jobs : Behind(j, r)'
  BY <1>0, <1>1 DEF Walking
<1>2. ASSUME NEW r \in Roots, AddRoot(r) \/ Enable(r) \/ Disable(r) \/ RemoveRoot(r)
      PROVE  \A s \in Roots : active'[s] # None => \E j \in Jobs : Behind(j, s)'
  BY <1>1, <1>2 DEF AddRoot, Enable, Disable, SetRoot, RemoveRoot, jobState
<1>3. ASSUME NEW t \in Pools, DispatcherStep(t)
      PROVE  \A s \in Roots : active'[s] # None => \E j \in Jobs : Behind(j, s)'
  <2>1. CASE DispatcherChecks(t) \/ TickIdle(t)
    BY <1>1, <2>1 DEF DispatcherChecks, TickIdle, jobState
  <2>2. ASSUME NEW r \in Roots, TickReserve(t, r)
        PROVE  \A s \in Roots : active'[s] # None => \E j \in Jobs : Behind(j, s)'
    <3>1. executor # 0 /\ executor \notin shut
      BY <2>2 DEF TickReserve, Serial, OneThread, Alive, Pools
    <3>2. PICK j \in Jobs :
            /\ job[j] = Free
            /\ job' = [job EXCEPT ![j] = [pc |-> "queued", root |-> r,
                                          pool |-> executor, stale |-> FALSE]]
            /\ active' = [active EXCEPT ![r] = Reservation(j)]
      BY <2>2, <3>1 DEF TickReserve
    <3>3. /\ job'[j].root = r /\ job'[j].pc = "queued" /\ active'[r] = Reservation(j)
          /\ \A i \in Jobs \ {j} : job'[i] = job[i]
          /\ \A s \in Roots \ {r} : active'[s] = active[s]
      BY <3>2 DEF ScansTyped
    <3>4. \A s \in Roots : ~Behind(j, s)
      BY <3>2 DEF Free, Walking
    <3>5. ASSUME NEW s \in Roots, active'[s] # None PROVE \E i \in Jobs : Behind(i, s)'
      <4>1. CASE s = r
        BY <3>3, <4>1
      <4>2. CASE s # r
        BY <1>0, <3>3, <3>4, <3>5, <4>2 DEF Walking
      <4>3. QED BY <4>1, <4>2
    <3>6. QED BY <3>5
  <2>3. QED BY <1>3, <2>1, <2>2 DEF DispatcherStep
<1>4. ASSUME NEW j \in Jobs, JobStep(j)
      PROVE  \A s \in Roots : active'[s] # None => \E i \in Jobs : Behind(i, s)'
  <2>0. \A i \in Jobs \ {j} : job'[i] = job[i]
    BY <1>4, OneScanMoves
  <2> DEFINE r == job[j].root
  <2>1. ASSUME NEW s \in Roots, active'[s] = active[s], ~Behind(j, s), active'[s] # None
        PROVE  \E i \in Jobs : Behind(i, s)'
    BY <1>0, <2>0, <2>1 DEF Walking
  <2>2. ASSUME UNCHANGED active, job'[j].root = r,
               \/ job'[j].pc = job[j].pc
               \/ Walking(j) /\ Walking(j)'
               \/ job[j].pc \in {"queued", "started"} /\ job'[j].pc \in {"queued", "started", "unwind"}
        PROVE  \A s \in Roots : active'[s] # None => \E i \in Jobs : Behind(i, s)'
    <3>1. ASSUME NEW s \in Roots, Behind(j, s) PROVE Behind(j, s)'
      BY <2>2, <3>1, TokenFacts DEF Walking
    <3>2. QED BY <2>1, <2>2, <3>1
  <2>3. CASE PoolStarts(j) \/ NextFile(j) \/ FileDone(j) \/ EndWalk(j)
    <3>1. /\ UNCHANGED active /\ job'[j].root = r
          /\ \/ job[j].pc = "queued" /\ job'[j].pc = "started"
             \/ Walking(j) /\ job'[j].pc \in {"walk", "file", "finish"}
      BY <2>3 DEF PoolStarts, NextFile, FileDone, EndWalk, Goto, ScansTyped, Walking
    <3>2. QED BY <2>2, <3>1 DEF Walking
  <2>4. CASE BeginScheduled(j)
    <3>1. CASE UNCHANGED active
      <4>1. job[j].pc = "started" /\ job'[j].root = r /\ job'[j].pc \in {"unwind", "walk"}
        BY <2>4 DEF BeginScheduled, Goto, ScansTyped
      <4>2. CASE job'[j].pc = "unwind"
        BY <2>2, <3>1, <4>1, <4>2
      <4>3. CASE job'[j].pc = "walk"
        <5>1. r \in Roots /\ active'[r] = Running(j) /\ active[r] = Reservation(j)
          BY <4>1, <4>3 DEF JobsOwnTheirRoots, Walking
        <5>2. QED BY <3>1, <5>1, TokenFacts
      <4>4. QED BY <4>1, <4>2, <4>3
    <3>2. CASE ~UNCHANGED active
      <4>1. /\ job[j].pc = "started" /\ r \in Roots
            /\ job'[j].root = r /\ job'[j].pc = "walk"
            /\ active' = [active EXCEPT ![r] = Running(j)]
        BY <2>4, <3>2 DEF BeginScheduled, Goto, ScansTyped, JobsOwnTheirRoots
      <4>2. ASSUME NEW s \in Roots, active'[s] # None PROVE \E i \in Jobs : Behind(i, s)'
        <5>1. CASE s = r
          BY <4>1, <5>1 DEF ScansTyped, Walking
        <5>2. CASE s # r
          BY <2>1, <4>1, <4>2, <5>2 DEF ScansTyped
        <5>3. QED BY <5>1, <5>2
      <4>3. QED BY <4>2
    <3>3. QED BY <3>1, <3>2
  <2>5. CASE Finish(j)
    <3>1. /\ job[j].pc = "finish" /\ r \in Roots
          /\ active' = [active EXCEPT ![r] = IF @ = Running(j) THEN None ELSE @]
      BY <2>5 DEF Finish, Drop, JobsOwnTheirRoots
    <3>2. ASSUME NEW s \in Roots, active'[s] # None PROVE \E i \in Jobs : Behind(i, s)'
      <4>1. active'[s] = active[s] /\ ~(s = r /\ active[s] = Running(j))
        BY <3>1, <3>2 DEF ScansTyped
      <4>2. ~Behind(j, s)
        BY <3>1, <4>1
      <4>3. QED BY <2>1, <3>2, <4>1, <4>2
    <3>3. QED BY <3>2
  <2>6. CASE Release(j)
    <3>1. job[j].pc = "release" /\ UNCHANGED active
      BY <2>6 DEF Release
    <3>2. \A s \in Roots : ~Behind(j, s)
      BY <3>1 DEF Walking
    <3>3. QED BY <2>1, <3>1, <3>2
  <2>7. CASE Unwind(j)
    <3>1. /\ job[j].pc = "unwind" /\ r \in Roots
          /\ active' = [active EXCEPT ![r] = IF @ = Reservation(j) THEN None ELSE @]
      BY <2>7 DEF Unwind, Drop, JobsOwnTheirRoots
    <3>2. ASSUME NEW s \in Roots, active'[s] # None PROVE \E i \in Jobs : Behind(i, s)'
      <4>1. active'[s] = active[s] /\ ~(s = r /\ active[s] = Reservation(j))
        BY <3>1, <3>2 DEF ScansTyped
      <4>2. ~Behind(j, s)
        BY <3>1, <4>1 DEF Walking
      <4>3. QED BY <2>1, <3>2, <4>1, <4>2
    <3>3. QED BY <3>2
  <2>8. QED BY <1>4, <2>3, <2>4, <2>5, <2>6, <2>7 DEF JobStep
<1>5. ASSUME NEW j \in Jobs, NEW r \in Roots, BeginManual(j, r)
      PROVE  \A s \in Roots : active'[s] # None => \E i \in Jobs : Behind(i, s)'
  <2>1. /\ job[j] = Free
        /\ job'[j].root = r /\ job'[j].pc = "walk" /\ active'[r] = Running(j)
        /\ \A i \in Jobs \ {j} : job'[i] = job[i]
        /\ \A s \in Roots \ {r} : active'[s] = active[s]
    BY <1>5 DEF BeginManual, ScansTyped
  <2>2. \A s \in Roots : ~Behind(j, s)
    BY <2>1 DEF Free, Walking
  <2>3. ASSUME NEW s \in Roots, active'[s] # None PROVE \E i \in Jobs : Behind(i, s)'
    <3>1. CASE s = r
      BY <2>1, <3>1 DEF Walking
    <3>2. CASE s # r
      BY <1>0, <2>1, <2>2, <2>3, <3>2 DEF Walking
    <3>3. QED BY <3>1, <3>2
  <2>4. QED BY <2>3
<1>6. ASSUME NEW d \in Controllers, Start(d)
      PROVE  \A s \in Roots : active'[s] # None => \E j \in Jobs : Behind(j, s)'
  BY <1>1, <1>6 DEF Start, jobState
<1>7. ASSUME NEW d \in Controllers, NEW op \in {"stop", "close"}, StopBegins(d, op)
      PROVE  \A s \in Roots : active'[s] # None => \E j \in Jobs : Behind(j, s)'
  <2>1. \A j \in Jobs : job'[j].root = job[j].root /\ job'[j].pc = job[j].pc
    BY <1>7 DEF StopBegins, ScansTyped
  <2>2. QED BY <1>1, <1>7, <2>1 DEF StopBegins
<1>8. ASSUME NEW d \in Controllers, StopStep(d)
      PROVE  \A s \in Roots : active'[s] # None => \E j \in Jobs : Behind(j, s)'
  <2>1. CASE UNCHANGED <<active, job>>
    BY <1>1, <2>1
  <2>2. CASE StopShutsPool(d) /\ executor # 0
    <3> DEFINE queued == {j \in Jobs : job[j].pc = "queued" /\ job[j].pool = executor}
    <3>1. /\ job' = [j \in Jobs |-> IF j \in queued THEN Free ELSE job[j]]
          /\ active' = [r \in Roots |->
                          IF \E j \in queued : job[j].root = r /\ active[r] = Reservation(j)
                          THEN None ELSE active[r]]
      BY <2>2 DEF StopShutsPool
    <3>2. ASSUME NEW s \in Roots, active'[s] # None PROVE \E j \in Jobs : Behind(j, s)'
      <4>1. active'[s] = active[s] /\ \A j \in queued : ~(job[j].root = s /\ active[s] = Reservation(j))
        BY <3>1, <3>2
      <4>2. PICK j \in Jobs : Behind(j, s)
        BY <1>0, <3>2, <4>1
      <4>3. j \notin queued
        BY <4>1, <4>2 DEF Walking
      <4>4. job'[j] = job[j]
        BY <3>1, <4>3
      <4>5. QED BY <4>1, <4>2, <4>4 DEF Walking
    <3>3. QED BY <3>2
  <2>3. QED
    BY <1>8, <2>1, <2>2
       DEF StopStep, StopSignals, StopReadsThread, StopJoins, StopShutsPool, StopDrainsPool,
           StopReturns, StopGivesUp, CloseDatabase, jobState
<1>9. CASE UNCHANGED vars
  BY <1>1, <1>9 DEF vars
<1>10. QED BY <1>2, <1>3, <1>4, <1>5, <1>6, <1>7, <1>8, <1>9 DEF Next

\* What holds in every state when one controller starts and stops the watcher.
LEMMA SerialInvariant ==
  ASSUME NEW c, OneController(c)
  PROVE  Spec => [](Serial(c) /\ ReservationsBacked)
<1> DEFINE Inv == ScanInv /\ ControlTyped /\ Serial(c) /\ ReservationsBacked
<1>1. Init => Inv
  <2> SUFFICES ASSUME Init PROVE Inv
    OBVIOUS
  <2>1. ScanInv
    BY ScanInvInit
  <2>2. ControlTyped
    <3>1. 0 \in 0..MaxStarts /\ "idle" \in CallPcs
      BY JobsAssumption DEF CallPcs
    <3>2. NoCall \in CallType
      BY <3>1 DEF NoCall, CallType
    <3>3. QED BY <3>1, <3>2 DEF Init, ControlTyped
  <2>3. Serial(c)
    BY DEF OneController, Init, Serial, OneThread, OnePool, Alive, Scheduled, Free, NoCall
  <2>4. ReservationsBacked
    BY DEF Init, ReservationsBacked, Active
  <2>5. QED BY <2>1, <2>2, <2>3, <2>4
<1>2. Inv /\ [Next]_vars => Inv'
  <2> SUFFICES ASSUME Inv, [Next]_vars PROVE Inv'
    OBVIOUS
  <2>1. ScanInv' /\ ControlTyped'
    BY ScanInvStep, ControlStep DEF ScanInv
  <2>2. Serial(c)'
    BY SerialStep DEF ScanInv
  <2>3. ReservationsBacked'
    BY <2>1, BackedStep
  <2>4. QED BY <2>1, <2>2, <2>3
<1>3. QED BY <1>1, <1>2, PTL DEF Spec

\* No reservation is left that nobody will release.
THEOREM OneControllerLeavesNoOrphan ==
  ASSUME NEW c, OneController(c)
  PROVE  Spec => []ReservationsBacked
<1>1. Spec => [](Serial(c) /\ ReservationsBacked)
  BY SerialInvariant
<1>2. QED BY <1>1, PTL

\* A stop that returned has left no thread and no automatic scan behind.
THEOREM OneControllerIsQuiet ==
  ASSUME NEW c, OneController(c)
  PROVE  Spec => []QuietAfterStop
<1>1. Serial(c) /\ TypeOK => QuietAfterStop
  <2> SUFFICES ASSUME Serial(c), TypeOK, outcome[c] = "stopped"
               PROVE  /\ \A t \in Pools : dispatcher[t] \in {"none", "dead"}
                      /\ \A j \in Jobs : job[j].pc # "free" => ~Automatic(j)
    BY DEF OneController, QuietAfterStop
  <2>1. \A t \in Pools : dispatcher[t] \in {"none", "dead"}
    BY DEF TypeOK, Serial, OneThread, Alive
  <2>2. \A j \in Jobs : job[j].pc # "free" => ~Automatic(j)
    BY DEF Serial, OnePool, Scheduled
  <2>3. QED BY <2>1, <2>2
<1>2. Spec => [](Serial(c) /\ ReservationsBacked)
  BY SerialInvariant
<1>3. QED BY <1>1, <1>2, JobsTyped, PTL

\* With one controller a stop that raises tells the truth (filewatch.py:309): a
\* scan is in progress, and can still return.
THEOREM OneControllerRetriesForAScan ==
  ASSUME NEW d, OneController(d)
  PROVE  Spec => RetryMeansScanning
<1> DEFINE Truth == \A c \in Controllers : outcome[c] # "retry" /\ outcome'[c] = "retry"
                      => \E j \in Jobs : job[j].pc # "free"
<1>1. ReservationsBacked /\ TypeOK /\ [Next]_vars => [Truth]_vars
  <2> SUFFICES ASSUME ReservationsBacked, TypeOK, [Next]_vars,
                      NEW c \in Controllers, outcome[c] # "retry", outcome'[c] = "retry"
               PROVE  \E j \in Jobs : job[j].pc # "free"
    OBVIOUS
  <2>1. StopGivesUp(c)
    <3>1. ~UNCHANGED outcome
      OBVIOUS
    <3>2. \/ \E e \in Controllers : Start(e) \/ StopStep(e)
          \/ \E e \in Controllers, op \in {"stop", "close"} : StopBegins(e, op)
      BY <3>1 DEF Next, vars, AddRoot, Enable, Disable, SetRoot, RemoveRoot, DispatcherStep,
                  DispatcherChecks, TickIdle, TickReserve, JobStep, PoolStarts, BeginScheduled,
                  NextFile, FileDone, EndWalk, Finish, Release, Unwind, BeginManual, controls
    <3>3. ASSUME NEW e \in Controllers, Start(e) PROVE FALSE
      BY <3>3 DEF Start, TypeOK
    <3>4. ASSUME NEW e \in Controllers, NEW op \in {"stop", "close"}, StopBegins(e, op)
          PROVE  FALSE
      BY <3>4 DEF StopBegins, TypeOK
    <3>5. ASSUME NEW e \in Controllers, StopStep(e) PROVE StopGivesUp(c)
      <4>1. CASE StopReturns(e) \/ CloseDatabase(e)
        BY <4>1 DEF StopReturns, CloseDatabase, TypeOK
      <4>2. CASE StopGivesUp(e)
        BY <4>2 DEF StopGivesUp, TypeOK
      <4>3. QED
        BY <3>1, <3>5, <4>1, <4>2 DEF StopStep, StopSignals, StopReadsThread, StopJoins,
                                      StopShutsPool, StopDrainsPool
    <3>6. QED BY <3>2, <3>3, <3>4, <3>5
  <2>2. Active # {}
    BY <2>1 DEF StopGivesUp
  <2>3. QED BY <2>2 DEF ReservationsBacked, Walking
<1>2. Spec => [](Serial(d) /\ ReservationsBacked)
  BY SerialInvariant
<1>3. Spec => [][Truth]_vars
  BY <1>1, <1>2, JobsTyped, PTL DEF Spec
<1>4. QED BY <1>3, PTL DEF RetryMeansScanning

=============================================================================
