--------------------------- MODULE FileWatchCycle ---------------------------
(***************************************************************************)
(* Bounded passes over watched directories and the index of their files    *)
(* (filewatch.py 191-210, 385-753).  A cycle visits every directory of a   *)
(* root; a pass of it ends at a limit, a cancellation or an error, and the *)
(* next one goes on where it stopped: unfinished directories are in the    *)
(* table walk_dirs, and an open iterator with the file in hand in memory.  *)
(* A file with a known signature, or with known bytes, is not scanned      *)
(* again unless the policy has changed.  Roots can share directories.      *)
(*                                                                         *)
(* Files, directories and the policy change, and the process can restart,  *)
(* between any two steps.  A root has one pass at a time, and stop closes  *)
(* the iterators when there is none (module FileWatchJobs).                *)
(*                                                                         *)
(* Abstractions.  The signature of a file is the time stamp of its last    *)
(* change.  The analysis context is the version of the policy, which is    *)
(* what can change while the service runs.  A broken directory is one that *)
(* is missing, unreadable or another one than was queued.  Directories are *)
(* taken from the queue in any order.  A cancellation, a limit of time or  *)
(* bytes, a failing scanner or database can strike anywhere (`trouble').   *)
(***************************************************************************)
EXTENDS Naturals, FiniteSets

CONSTANTS Roots, Files, Dirs,
          TopOf,        \* the directory of a root
          ParentOf,     \* the directory a directory is in
          DirOf,        \* the directory a file is in
          Recursive,    \* roots that are watched with their subdirectories
          Contents,     \* contents of files; "large" is over the size limit
          PassEntries,  \* entries of one pass (MAX_ENTRIES)
          MaxEdits,     \* bound: changes of files and directories
          MaxTrouble,   \* bound: interruptions of a pass
          MaxPolicies   \* bound: policy versions

ASSUME TreeAssumption ==
  /\ TopOf \in [Roots -> Dirs]
  /\ ParentOf \in [Dirs -> Dirs \cup {"none"}]
  /\ DirOf \in [Files -> Dirs]
  /\ Recursive \subseteq Roots
  /\ Dirs \cap Files = {} /\ "none" \notin Dirs
  /\ "gone" \notin Contents
  /\ PassEntries \in Nat \ {0} /\ MaxPolicies \in Nat \ {0}
  /\ MaxEdits \in Nat /\ MaxTrouble \in Nat

VARIABLES
  file,       \* the files on disk
  broken,     \* directories that cannot be opened
  policy,     \* version of the policy in force
  watched,    \* the roots table
  walk,       \* walk_dirs: directories of the cycle of each root
  context,    \* roots.cycle_context; 0 before the first cycle
  finalized,  \* roots.last_job says that this cycle is complete
  result,     \* roots.last_job: status of the last pass
  seen, old,  \* root_files: rows of this cycle and of earlier ones
  index,      \* file_index
  cursor,     \* _cursors
  job,        \* the pass of each root
  since,      \* history: contents of files since the cycle began
  steady,     \* history: files that were there since the cycle began
  edits, trouble

vars == <<file, broken, policy, watched, walk, context, finalized, result, seen, old,
          index, cursor, job, since, steady, edits, trouble>>

disk == <<file, broken, policy, edits>>
rootsTable == <<watched, context, finalized, result>>
rootFiles == <<seen, old>>
history == <<since, steady>>
-----------------------------------------------------------------------------
Gone == [content |-> "gone", stamp |-> 0]
Exists(f) == file[f] # Gone

\* The directories at or below d.
Under(d) ==
  {x \in Dirs : \A S \in SUBSET Dirs :
     d \in S /\ (\A y \in Dirs : ParentOf[y] \in S => y \in S) => x \in S}

InTree(r) == IF r \in Recursive THEN Under(TopOf[r]) ELSE {TopOf[r]}

\* A directory is opened step by step, from the directory of the root.
Reachable(d) == \A x \in Dirs : d \in Under(x) => x \notin broken

Entries(r, d) ==
  {f \in Files : DirOf[f] = d /\ Exists(f)} \cup {x \in Dirs : ParentOf[x] = d}

NoEntry == [signature |-> 0, content |-> "gone", policy |-> 0, error |-> FALSE,
            retry |-> "never", context |-> 0]

NoCursor == [dir |-> "none", todo |-> {}, pending |-> {}, failed |-> FALSE]

NoPass == [pc |-> "idle", context |-> 0, visited |-> 0, status |-> "RUNNING",
           limited |-> FALSE, failed |-> FALSE, drained |-> FALSE,
           cached |-> NoEntry, content |-> "gone", report |-> 0]

Pending(r) == {d \in Dirs : walk[r][d] = "PENDING"}

\* The file in hand, with the signature and size it had when it was listed.
InHand(r) == CHOOSE p \in cursor[r].pending : TRUE

\* Entries of the index that no row of root_files names are deleted.
Pruned(rows) == [f \in Files |-> IF \E r \in Roots : f \in rows[r] THEN index[f] ELSE NoEntry]

Init ==
  /\ file \in [Files -> {Gone} \cup [content : Contents, stamp : {1}]]
  /\ broken = {}
  /\ policy = 1
  /\ watched = Roots
  /\ walk = [r \in Roots |-> [d \in Dirs |-> "none"]]
  /\ context = [r \in Roots |-> 0]
  /\ finalized = [r \in Roots |-> FALSE]
  /\ result = [r \in Roots |-> "none"]
  /\ seen = [r \in Roots |-> {}]
  /\ old = [r \in Roots |-> {}]
  /\ index = [f \in Files |-> NoEntry]
  /\ cursor = [r \in Roots |-> NoCursor]
  /\ job = [r \in Roots |-> NoPass]
  /\ since = [r \in Roots |-> {}]
  /\ steady = [r \in Roots |-> {}]
  /\ edits = 1
  /\ trouble = 0
-----------------------------------------------------------------------------
(* A pass begins (_scan_root, _context, _cycle) *)

At(r, pc) == job[r].pc = pc
PassIs(r, pass) == job' = [job EXCEPT ![r] = pass]
CursorIs(r, c) == cursor' = [cursor EXCEPT ![r] = c]
Goto(r, pc) == PassIs(r, [job[r] EXCEPT !.pc = pc])
Fails(r, pc) == PassIs(r, [job[r] EXCEPT !.pc = pc, !.failed = TRUE])
Strikes == trouble < MaxTrouble /\ trouble' = trouble + 1

Begin(r) ==
  /\ At(r, "idle")
  /\ r \in watched
  /\ PassIs(r, [NoPass EXCEPT !.pc = "cycle", !.context = policy])
  /\ UNCHANGED <<disk, rootsTable, rootFiles, walk, index, cursor, history, trouble>>

\* The context or the queue cannot be read: the pass ends without a cycle.
BeginFails(r) ==
  /\ At(r, "cycle")
  /\ Strikes
  /\ PassIs(r, [NoPass EXCEPT !.pc = "publish", !.failed = TRUE])
  /\ UNCHANGED <<disk, rootsTable, rootFiles, walk, index, cursor, history>>

\* A completed cycle is never followed by another one.
BeginsAnewByContext(r) == context[r] # job[r].context

BeginsAnew(r) ==
  \/ context[r] = 0
  \/ finalized[r] /\ Pending(r) = {}
  \/ context[r] # job[r].context

NewCycle(r) ==
  /\ At(r, "cycle")
  /\ r \in watched
  /\ BeginsAnew(r)
  /\ CursorIs(r, NoCursor)
  /\ walk' = [walk EXCEPT ![r] = [d \in Dirs |-> IF d = TopOf[r] THEN "PENDING" ELSE "none"]]
  /\ context' = [context EXCEPT ![r] = job[r].context]
  /\ finalized' = [finalized EXCEPT ![r] = FALSE]
  /\ old' = [old EXCEPT ![r] = @ \cup seen[r]]
  /\ seen' = [seen EXCEPT ![r] = {}]
  /\ since' = [since EXCEPT ![r] = {<<f, file[f].content>> : f \in {g \in Files : Exists(g)}}]
  /\ steady' = [steady EXCEPT ![r] = {f \in Files : /\ Exists(f)
                                                     /\ DirOf[f] \in InTree(r)
                                                     /\ Reachable(DirOf[f])}]
  /\ Goto(r, "enter")
  /\ UNCHANGED <<disk, watched, result, index, trouble>>

\* The queue goes on, also a drained one whose result was never published.
ContinueCycle(r) ==
  /\ At(r, "cycle")
  /\ r \in watched
  /\ ~BeginsAnew(r)
  /\ Goto(r, "enter")
  /\ UNCHANGED <<disk, rootsTable, rootFiles, walk, index, cursor, history, trouble>>

CycleGone(r) ==
  /\ At(r, "cycle")
  /\ r \notin watched
  /\ Fails(r, "publish")
  /\ UNCHANGED <<disk, rootsTable, rootFiles, walk, index, cursor, history, trouble>>
-----------------------------------------------------------------------------
(* The walk (_entries, _open_cursor, _finish_directory) *)

EnterRoot(r) ==
  /\ At(r, "enter")
  /\ Reachable(TopOf[r])
  /\ Goto(r, "walk")
  /\ UNCHANGED <<disk, rootsTable, rootFiles, walk, index, cursor, history, trouble>>

\* Without its root a pass ends at once, and the queue is kept.
RootUnavailable(r) ==
  /\ At(r, "enter")
  /\ ~Reachable(TopOf[r])
  /\ Fails(r, "publish")
  /\ UNCHANGED <<disk, rootsTable, rootFiles, walk, index, cursor, history, trouble>>

Unopened(r) == cursor[r] = NoCursor

\* The row of d is updated, unless it went with the root.
FinishDirectory(r, d, failed) ==
  /\ CursorIs(r, NoCursor)
  /\ walk' = [walk EXCEPT ![r][d] = IF @ = "none" THEN @
                                    ELSE IF failed THEN "FAILED" ELSE "DONE"]

OpenDirectory(r, d) ==
  /\ At(r, "walk")
  /\ Unopened(r)
  /\ d \in Pending(r)
  /\ Reachable(d)
  /\ CursorIs(r, [NoCursor EXCEPT !.dir = d, !.todo = Entries(r, d)])
  /\ UNCHANGED <<disk, rootsTable, rootFiles, walk, index, job, history, trouble>>

\* The queued directory cannot be opened.
DirectoryUnreadable(r, d) ==
  /\ At(r, "walk")
  /\ Unopened(r)
  /\ d \in Pending(r)
  /\ ~Reachable(d)
  /\ FinishDirectory(r, d, TRUE)
  /\ Fails(r, "walk")
  /\ UNCHANGED <<disk, rootsTable, rootFiles, index, history, trouble>>

\* The open directory has changed, at the latest since the last pass.
DirectoryChanged(r) ==
  /\ At(r, "walk")
  /\ ~Unopened(r)
  /\ ~Reachable(cursor[r].dir)
  /\ FinishDirectory(r, cursor[r].dir, TRUE)
  /\ Fails(r, "walk")
  /\ UNCHANGED <<disk, rootsTable, rootFiles, index, history, trouble>>

Drained(r) ==
  /\ At(r, "walk")
  /\ Unopened(r)
  /\ Pending(r) = {}
  /\ PassIs(r, [job[r] EXCEPT !.pc = "publish", !.drained = TRUE])
  /\ UNCHANGED <<disk, rootsTable, rootFiles, walk, index, cursor, history, trouble>>

Listing(r) ==
  /\ At(r, "walk")
  /\ ~Unopened(r)
  /\ Reachable(cursor[r].dir)

\* MAX_ENTRIES entries have been looked at; the cursor stays.
EntryLimit(r) ==
  /\ Listing(r)
  /\ job[r].visited >= PassEntries
  /\ PassIs(r, [job[r] EXCEPT !.pc = "publish", !.limited = TRUE])
  /\ UNCHANGED <<disk, rootsTable, rootFiles, walk, index, cursor, history, trouble>>

\* The time of the pass is used up while there is work left.
TimeLimit(r) ==
  /\ At(r, "walk")
  /\ ~Unopened(r) \/ Pending(r) # {}
  /\ Strikes
  /\ PassIs(r, [job[r] EXCEPT !.pc = "publish", !.limited = TRUE])
  /\ UNCHANGED <<disk, rootsTable, rootFiles, walk, index, cursor, history>>

Visit(r) == Listing(r) /\ job[r].visited < PassEntries

Visited(r, pc) == PassIs(r, [job[r] EXCEPT !.visited = @ + 1, !.pc = pc])

\* The file a former pass has left in hand.
YieldPending(r) ==
  /\ Visit(r)
  /\ cursor[r].pending # {}
  /\ Visited(r, "check")
  /\ UNCHANGED <<disk, rootsTable, rootFiles, walk, index, cursor, history, trouble>>

Lists(r, x) == Visit(r) /\ cursor[r].pending = {} /\ x \in cursor[r].todo

NextFile(r, f) ==
  /\ Lists(r, f)
  /\ Exists(f)
  /\ LET hand == [file |-> f, signature |-> file[f].stamp,
                   large |-> file[f].content = "large"]
     IN  CursorIs(r, [cursor[r] EXCEPT !.todo = @ \ {f}, !.pending = {hand}])
  /\ Visited(r, "check")
  /\ UNCHANGED <<disk, rootsTable, rootFiles, walk, index, history, trouble>>

\* What is no longer there is not listed, or listed and not found any more.
EntryVanished(r, x) ==
  /\ Lists(r, x)
  /\ x \in broken \/ (x \in Files /\ ~Exists(x))
  /\ \/ /\ CursorIs(r, [cursor[r] EXCEPT !.todo = @ \ {x}])
        /\ UNCHANGED job
     \/ /\ CursorIs(r, [cursor[r] EXCEPT !.todo = @ \ {x}, !.failed = TRUE])
        /\ PassIs(r, [job[r] EXCEPT !.visited = @ + 1, !.failed = TRUE])
  /\ UNCHANGED <<disk, rootsTable, rootFiles, walk, index, history, trouble>>

\* A subdirectory joins the queue once; what has become a link is skipped.
NextDirectory(r, d) ==
  /\ Lists(r, d)
  /\ CursorIs(r, [cursor[r] EXCEPT !.todo = @ \ {d}])
  /\ \/ /\ r \in Recursive
        /\ walk' = [walk EXCEPT ![r][d] = IF @ = "none" THEN "PENDING" ELSE @]
     \/ /\ r \notin Recursive \/ d \in broken
        /\ UNCHANGED walk
  /\ Visited(r, "walk")
  /\ UNCHANGED <<disk, rootsTable, rootFiles, index, history, trouble>>

EndDirectory(r) ==
  /\ Visit(r)
  /\ cursor[r].pending = {}
  /\ cursor[r].todo = {}
  /\ FinishDirectory(r, cursor[r].dir, cursor[r].failed)
  /\ UNCHANGED <<disk, rootsTable, rootFiles, index, job, history, trouble>>
-----------------------------------------------------------------------------
(* One file (_scan_root, _scan_file) *)

\* The pass is cancelled, or its time or bytes are used up: the file stays in
\* hand.
Pause(r) ==
  /\ At(r, "check")
  /\ Strikes
  /\ \E status \in {"RUNNING", "CANCELLED"} :
       PassIs(r, [job[r] EXCEPT !.pc = "publish", !.status = status,
                                !.limited = (status = "RUNNING")])
  /\ UNCHANGED <<disk, rootsTable, rootFiles, walk, index, cursor, history>>

RootGone(r) ==
  /\ At(r, "check")
  /\ r \notin watched
  /\ PassIs(r, [job[r] EXCEPT !.pc = "publish", !.status = "CANCELLED"])
  /\ UNCHANGED <<disk, rootsTable, rootFiles, walk, index, cursor, history, trouble>>

Wanted(r) ==
  /\ At(r, "check")
  /\ r \in watched
  /\ Goto(r, "record")
  /\ UNCHANGED <<disk, rootsTable, rootFiles, walk, index, cursor, history, trouble>>

\* The row is written even if the root has been removed since the check.
Record(r) ==
  /\ At(r, "record")
  /\ LET f == InHand(r).file
     IN  /\ seen' = [seen EXCEPT ![r] = @ \cup {f}]
         /\ old' = [old EXCEPT ![r] = @ \ {f}]
  /\ Goto(r, "look")
  /\ UNCHANGED <<disk, rootsTable, walk, index, cursor, history, trouble>>

\* Files are locked, by stripes of paths, from the look at the index on.
Locked(f) ==
  \E r \in Roots : job[r].pc \in {"read", "scan", "save"} /\ InHand(r).file = f

Release(r) == CursorIs(r, [cursor[r] EXCEPT !.pending = {}])

Usable(r, entry) == entry # NoEntry /\ entry.context = job[r].context

Unchanged(r, entry) ==
  Usable(r, entry) /\ entry.signature = InHand(r).signature /\ entry.retry # "due"

\* The failure of a file is kept in the index; most are tried again in 3 seconds.
Failure(r, retry) ==
  [NoEntry EXCEPT !.signature = InHand(r).signature, !.error = TRUE, !.retry = retry,
                  !.context = job[r].context]

RecordFailure(r, retry) ==
  /\ index' = [index EXCEPT ![InHand(r).file] = Failure(r, retry)]
  /\ Release(r)
  /\ Fails(r, "walk")

\* What the index says of the file in hand, and whether it has to be read.
Consult(r) ==
  /\ At(r, "look")
  /\ LET entry == index[InHand(r).file]
     IN  IF Unchanged(r, entry)
         THEN /\ PassIs(r, [job[r] EXCEPT !.pc = "walk", !.failed = @ \/ entry.error])
              /\ Release(r)
              /\ UNCHANGED index
         ELSE IF InHand(r).large
         THEN RecordFailure(r, "never")
         ELSE /\ PassIs(r, [job[r] EXCEPT !.pc = "read", !.cached = entry])
              /\ UNCHANGED <<index, cursor>>
  /\ UNCHANGED <<disk, rootsTable, rootFiles, walk, history, trouble>>

LookUnlocked(r) == Consult(r)

\* One pass at a time from here to the new entry.
Look(r) == At(r, "look") /\ ~Locked(InHand(r).file) /\ Consult(r)

Readable(r) ==
  LET f == InHand(r).file
  IN  Exists(f) /\ file[f].content # "large" /\ Reachable(DirOf[f])

\* Known bytes get the new signature; others go to the scanner.
Read(r) ==
  /\ At(r, "read")
  /\ Readable(r)
  /\ LET f == InHand(r).file
         cached == job[r].cached
     IN  IF Usable(r, cached) /\ ~cached.error /\ cached.content = file[f].content
         THEN /\ index' = [index EXCEPT ![f] = [cached EXCEPT !.signature = InHand(r).signature]]
              /\ Release(r)
              /\ Goto(r, "walk")
         ELSE /\ PassIs(r, [job[r] EXCEPT !.pc = "scan", !.content = file[f].content])
              /\ UNCHANGED <<index, cursor>>
  /\ UNCHANGED <<disk, rootsTable, rootFiles, walk, history, trouble>>

ReadFails(r) ==
  /\ At(r, "read")
  /\ ~Readable(r)
  /\ RecordFailure(r, "wait")
  /\ UNCHANGED <<disk, rootsTable, rootFiles, walk, history, trouble>>

\* The report is made under the policy of its own time.
Scan(r) ==
  /\ At(r, "scan")
  /\ PassIs(r, [job[r] EXCEPT !.pc = "save", !.report = policy])
  /\ UNCHANGED <<disk, rootsTable, rootFiles, walk, index, cursor, history, trouble>>

ScanFails(r) ==
  /\ At(r, "scan")
  /\ Strikes
  /\ RecordFailure(r, "wait")
  /\ UNCHANGED <<disk, rootsTable, rootFiles, walk, history>>

SaveAs(r, signature) ==
  /\ At(r, "save")
  /\ index' = [index EXCEPT ![InHand(r).file] =
                 [signature |-> signature, content |-> job[r].content, policy |-> job[r].report,
                  error |-> FALSE, retry |-> "never", context |-> job[r].context]]
  /\ Release(r)
  /\ Goto(r, "walk")
  /\ UNCHANGED <<disk, rootsTable, rootFiles, walk, history, trouble>>

\* The file is looked at again after its scan.
SaveAfterwards(r) == SaveAs(r, file[InHand(r).file].stamp)

\* The signature is the one from before the file was read.
Save(r) == SaveAs(r, InHand(r).signature)

\* An exception ends the pass; the file stays in hand.
Abort(r) ==
  /\ job[r].pc \in {"enter", "walk", "record", "look", "read", "scan", "save"}
  /\ Strikes
  /\ Fails(r, "publish")
  /\ UNCHANGED <<disk, rootsTable, rootFiles, walk, index, cursor, history>>
-----------------------------------------------------------------------------
(* The pass ends (_scan_root) *)

FailedDirs(r) == {d \in Dirs : walk[r][d] = "FAILED"}
FailedFiles(r) == {f \in seen[r] : index[f].error}

\* All directories of the cycle have been visited.
CycleComplete(r) == job[r].drained /\ Pending(r) = {}

Complete(r) ==
  /\ CycleComplete(r)
  /\ FailedDirs(r) = {} /\ FailedFiles(r) = {}
  /\ ~job[r].failed /\ ~job[r].limited

\* A pass that failed before it had a cycle (context 0) counts nothing.
Status(r) ==
  IF job[r].status # "RUNNING" THEN job[r].status
  ELSE IF Complete(r) THEN "COMPLETED"
  ELSE IF job[r].limited \/ (job[r].context # 0 /\ seen[r] # {}) THEN "PARTIAL"
  ELSE "FAILED"

\* Rows of earlier cycles are kept.
PublishKeeping(r) ==
  /\ At(r, "publish")
  /\ r \in watched
  /\ result' = [result EXCEPT ![r] = Status(r)]
  /\ finalized' = [finalized EXCEPT ![r] = CycleComplete(r)]
  /\ PassIs(r, NoPass)
  /\ UNCHANGED <<disk, watched, context, rootFiles, walk, index, cursor, history, trouble>>

Publish(r) ==
  /\ At(r, "publish")
  /\ r \in watched
  /\ result' = [result EXCEPT ![r] = Status(r)]
  /\ finalized' = [finalized EXCEPT ![r] = CycleComplete(r)]
  /\ IF CycleComplete(r) /\ FailedDirs(r) = {}
     THEN /\ old' = [old EXCEPT ![r] = {}]
          /\ index' = Pruned([x \in Roots |-> seen[x] \cup old'[x]])
     ELSE UNCHANGED <<old, index>>
  /\ PassIs(r, NoPass)
  /\ UNCHANGED <<disk, watched, context, seen, walk, cursor, history, trouble>>

PublishNothing(r) ==
  /\ At(r, "publish")
  /\ r \notin watched
  /\ CursorIs(r, NoCursor)
  /\ PassIs(r, NoPass)
  /\ UNCHANGED <<disk, rootsTable, rootFiles, walk, index, history, trouble>>
-----------------------------------------------------------------------------
(* Everything else *)

\* The index of a root goes with it, unless another root has the file.
RemoveRoot(r) ==
  /\ r \in watched
  /\ Strikes
  /\ watched' = watched \ {r}
  /\ seen' = [seen EXCEPT ![r] = {}]
  /\ old' = [old EXCEPT ![r] = {}]
  /\ walk' = [walk EXCEPT ![r] = [d \in Dirs |-> "none"]]
  /\ cursor' = IF At(r, "idle") THEN [cursor EXCEPT ![r] = NoCursor] ELSE cursor
  /\ index' = Pruned([x \in Roots |-> seen'[x] \cup old'[x]])
  /\ UNCHANGED <<disk, context, finalized, result, job, history>>

\* stop closes the iterators; an end of the process also ends the passes.
Stop ==
  /\ Strikes
  /\ \A r \in Roots : At(r, "idle")
  /\ cursor' = [r \in Roots |-> NoCursor]
  /\ UNCHANGED <<disk, rootsTable, rootFiles, walk, index, job, history>>

Restart ==
  /\ Strikes
  /\ cursor' = [r \in Roots |-> NoCursor]
  /\ job' = [r \in Roots |-> NoPass]
  /\ UNCHANGED <<disk, rootsTable, rootFiles, walk, index, history>>

RetryDue(f) ==
  /\ index[f].retry = "wait"
  /\ index' = [index EXCEPT ![f].retry = "due"]
  /\ UNCHANGED <<disk, rootsTable, rootFiles, walk, cursor, job, history, trouble>>

SetPolicy ==
  /\ policy < MaxPolicies
  /\ policy' = policy + 1
  /\ UNCHANGED <<file, broken, edits, rootsTable, rootFiles, walk, index, cursor, job,
                 history, trouble>>

\* Write a file, which may be new: an open iterator may or may not list it.
WriteFile(f, content) ==
  /\ edits < MaxEdits + 1
  /\ edits' = edits + 1
  /\ file' = [file EXCEPT ![f] = [content |-> content, stamp |-> edits']]
  /\ since' = [r \in Roots |-> since[r] \cup {<<f, content>>}]
  /\ cursor' \in {cursor, [r \in Roots |-> IF ~Exists(f) /\ cursor[r].dir = DirOf[f]
                                           THEN [cursor[r] EXCEPT !.todo = @ \cup {f}]
                                           ELSE cursor[r]]}
  /\ UNCHANGED <<broken, policy, rootsTable, rootFiles, walk, index, job, steady, trouble>>

DeleteFile(f) ==
  /\ Exists(f)
  /\ edits < MaxEdits + 1
  /\ edits' = edits + 1
  /\ file' = [file EXCEPT ![f] = Gone]
  /\ steady' = [r \in Roots |-> steady[r] \ {f}]
  /\ UNCHANGED <<broken, policy, rootsTable, rootFiles, walk, index, cursor, job, since, trouble>>

BreakDirectory(d) ==
  /\ d \notin broken
  /\ edits < MaxEdits + 1
  /\ edits' = edits + 1
  /\ broken' = broken \cup {d}
  /\ steady' = [r \in Roots |-> {f \in steady[r] : DirOf[f] \notin Under(d)}]
  /\ UNCHANGED <<file, policy, rootsTable, rootFiles, walk, index, cursor, job, since, trouble>>

RepairDirectory(d) ==
  /\ d \in broken
  /\ broken' = broken \ {d}
  /\ UNCHANGED <<file, policy, edits, rootsTable, rootFiles, walk, index, cursor, job,
                 history, trouble>>
-----------------------------------------------------------------------------
Pass(r) ==
  \/ Begin(r)
  \/ BeginFails(r)
  \/ NewCycle(r)
  \/ ContinueCycle(r)
  \/ CycleGone(r)
  \/ EnterRoot(r)
  \/ RootUnavailable(r)
  \/ \E d \in Dirs : OpenDirectory(r, d)
  \/ \E d \in Dirs : DirectoryUnreadable(r, d)
  \/ DirectoryChanged(r)
  \/ Drained(r)
  \/ EntryLimit(r)
  \/ TimeLimit(r)
  \/ YieldPending(r)
  \/ \E f \in Files : NextFile(r, f)
  \/ \E x \in Files \cup Dirs : EntryVanished(r, x)
  \/ \E d \in Dirs : NextDirectory(r, d)
  \/ EndDirectory(r)
  \/ Pause(r)
  \/ RootGone(r)
  \/ Wanted(r)
  \/ Record(r)
  \/ Look(r)
  \/ Read(r)
  \/ ReadFails(r)
  \/ Scan(r)
  \/ ScanFails(r)
  \/ Save(r)
  \/ Abort(r)
  \/ Publish(r)
  \/ PublishNothing(r)

Next ==
  \/ \E r \in Roots : Pass(r)
  \/ \E r \in Roots : RemoveRoot(r)
  \/ Stop
  \/ Restart
  \/ \E f \in Files : RetryDue(f)
  \/ SetPolicy
  \/ \E f \in Files, content \in Contents : WriteFile(f, content)
  \/ \E f \in Files : DeleteFile(f)
  \/ \E d \in Dirs : BreakDirectory(d)
  \/ \E d \in Dirs : RepairDirectory(d)

Spec == Init /\ [][Next]_vars

\* The dispatcher begins a pass of every root at least every 30 seconds, passes
\* run on, and time goes by.
FairSpec ==
  /\ Spec
  /\ \A r \in Roots : WF_vars(Pass(r))
  /\ \A f \in Files : WF_vars(RetryDue(f))
-----------------------------------------------------------------------------
JobPcs == {"idle", "cycle", "enter", "walk", "check", "record", "look", "read", "scan", "save",
           "publish"}
Statuses == {"RUNNING", "CANCELLED", "COMPLETED", "PARTIAL", "FAILED", "none"}
Bytes == Contents \cup {"gone"}
EntryType == [signature : Nat, content : Bytes, policy : Nat, error : BOOLEAN,
              retry : {"never", "wait", "due"}, context : Nat]
HandType == [file : Files, signature : Nat, large : BOOLEAN]
CursorType == [dir : Dirs \cup {"none"}, todo : SUBSET (Files \cup Dirs),
               pending : SUBSET HandType, failed : BOOLEAN]
PassType == [pc : JobPcs, context : Nat, visited : 0..PassEntries, status : Statuses,
             limited : BOOLEAN, failed : BOOLEAN, drained : BOOLEAN,
             cached : EntryType, content : Bytes, report : Nat]

\* The values every variable ranges over.
TypeOK ==
  /\ file \in [Files -> [content : Bytes, stamp : Nat]]
  /\ broken \subseteq Dirs
  /\ policy \in Nat
  /\ watched \subseteq Roots
  /\ walk \in [Roots -> [Dirs -> {"none", "PENDING", "DONE", "FAILED"}]]
  /\ context \in [Roots -> Nat]
  /\ finalized \in [Roots -> BOOLEAN]
  /\ result \in [Roots -> Statuses]
  /\ seen \in [Roots -> SUBSET Files]
  /\ old \in [Roots -> SUBSET Files]
  /\ index \in [Files -> EntryType]
  /\ cursor \in [Roots -> CursorType]
  /\ job \in [Roots -> PassType]
  /\ since \in [Roots -> SUBSET (Files \X Bytes)]
  /\ steady \in [Roots -> SUBSET Files]
  /\ edits \in Nat
  /\ trouble \in Nat

\* The index tells the truth about every file it calls unchanged: when the
\* signature is that of the file now, the bytes are too.
SignaturesNameContents ==
  \A f \in Files :
    index[f] # NoEntry /\ ~index[f].error /\ Exists(f) /\ index[f].signature = file[f].stamp
      => index[f].content = file[f].content

PublishesComplete(r) == Publish(r) /\ result'[r] = "COMPLETED"

\* Every file that was there during the whole cycle has been inspected in it: its
\* entry is no failure, and is of bytes it had since the cycle began, under the
\* policy of the pass that reports it or a later one.
CoveredBy(r, f) ==
  /\ f \in seen[r]
  /\ index[f] # NoEntry /\ ~index[f].error
  /\ <<f, index[f].content>> \in since[r]
  /\ index[f].policy >= job[r].context

\* A root is called COMPLETED only when its cycle has covered it, whatever limits,
\* errors, restarts, policy changes and edits came between its passes ("a large
\* tree is never represented as fully covered", the docstring of filewatch.py).
CompletedMeansCovered ==
  [][\A r \in Roots : PublishesComplete(r) => \A f \in steady[r] : CoveredBy(r, f)]_vars

\* After a completed cycle the root lists only files that were there since it began.
CompletedForgetsTheGone ==
  [][\A r \in Roots : PublishesComplete(r) =>
       \A f \in seen'[r] \cup old'[r] : \E c \in Contents : <<f, c>> \in since[r]]_vars

\* What the watcher owes a file: its entry is about its bytes, and made under the
\* policy in force, or says that it cannot be scanned.
UpToDate(f) ==
  /\ index[f] # NoEntry
  /\ index[f].context = policy
  /\ IF file[f].content = "large" THEN index[f].error
     ELSE /\ index[f].content = file[f].content
          /\ index[f].policy = policy

\* Every change is indexed in the end: passes of any size, with limits and errors
\* between them, get through the tree again and again.
ChangesAreIndexed ==
  \A f \in Files, r \in Roots :
    []<>(\/ UpToDate(f)
         \/ ~Exists(f)
         \/ r \notin watched \/ DirOf[f] \notin InTree(r) \/ ~Reachable(DirOf[f]))
=============================================================================
