--------------------------- MODULE WorkerProcess ---------------------------
(***************************************************************************)
(* One worker process and the thread that runs it (worker_process.py,      *)
(* scan_worker.py, sanitize_worker.py): input and output are carried over  *)
(* three pipes of limited size, by one thread on POSIX and by a thread for *)
(* each pipe on Windows, until the worker has exited, the output is over   *)
(* its limit, or the deadline has passed.  The worker confines itself,     *)
(* takes the inventory of its own sources (module PackageSources; the      *)
(* sanitizing worker does without), reads all of its input, and writes a   *)
(* reply.  It can fail, hang or complain on stderr at any step, and leave  *)
(* behind a process that holds its pipes.                                  *)
(*                                                                         *)
(* Abstractions.  Data is counted in chunks.  A killed process is gone at  *)
(* once, and reaping it and joining threads takes less than 2 seconds.     *)
(* Changes of the sources matter while the inventory is taken.             *)
(***************************************************************************)
EXTENDS PackageSources, Sequences, FiniteSets

CONSTANTS Input,      \* chunks of the input
          Reply,      \* chunks of the reply
          PipeSize,   \* chunks a pipe can hold
          MaxOutput,  \* limit of stdout and stderr together
          MaxExtra    \* bound: chunks on stderr, and of the process left behind

ASSUME WorkerAssumption == {Input, Reply, PipeSize, MaxOutput, MaxExtra} \subseteq Nat

VARIABLES
  platform,  \* posix or windows
  run,       \* the thread in run_worker
  outcome,   \* what its call returns or raises
  position,  \* chunks of the input it has written
  output,    \* chunks of stdout it has kept
  total,     \* chunks of stdout and stderr it has read
  open,      \* its ends of the pipes
  error,     \* windows: the error of a pipe thread
  child,     \* the worker
  exit,      \* its exit code
  read,      \* chunks of the input it has read
  replied,   \* chunks of the reply it has written
  heir,      \* a process that has inherited the pipes
  pipe,      \* chunks in the pipes
  written,   \* history: all that was written on stdout
  extra

workerVars == <<platform, run, outcome, position, output, total, open, error, child, exit,
                read, replied, heir, pipe, written, extra>>
vars == <<sourceVars, workerVars>>

parent == <<run, outcome, position, output, total, open, error>>
worker == <<child, exit, read, replied, heir, written, extra>>
-----------------------------------------------------------------------------
Outputs == {"stdout", "stderr"}
Streams == Outputs \cup {"stdin"}

Posix == platform = "posix"
Alive == child \notin {"none", "exited"}
Writers == Alive \/ heir     \* someone can still write, or read the input
EndOfFile(s) == pipe[s] = <<>> /\ ~Writers

Init ==
  /\ SourcesInit
  /\ platform \in {"posix", "windows"}
  /\ run = "start"
  /\ outcome = "none"
  /\ position = 0
  /\ output = <<>>
  /\ total = 0
  /\ open = {}
  /\ error = FALSE
  /\ child = "none"
  /\ exit = 0
  /\ read = 0
  /\ replied = 0
  /\ heir = FALSE
  /\ pipe = [s \in Streams |-> <<>>]
  /\ written = <<>>
  /\ extra = 0
-----------------------------------------------------------------------------
(* The worker (scan_worker.main and sanitize_worker.main) *)

ChildGoto(pc) ==
  /\ child' = pc
  /\ UNCHANGED <<parent, exit, read, replied, heir, pipe, written, extra>>

Exits(code) ==
  /\ child' = "exited"
  /\ exit' = code
  /\ UNCHANGED <<parent, read, replied, heir, pipe, written, extra>>

ChildConfines ==
  /\ child = "start"
  /\ ChildGoto("setup")

\* The registry is frozen, or the worker fails.
ChildRegisters ==
  /\ child = "setup"
  /\ \/ pass = 3 /\ ChildGoto("reading")
     \/ pass = 0 /\ Exits(1)

ChildReads ==
  /\ child = "reading"
  /\ IF pipe["stdin"] # <<>>
     THEN /\ pipe' = [pipe EXCEPT !["stdin"] = Tail(@)]
          /\ read' = read + 1
          /\ UNCHANGED <<parent, child, exit, replied, heir, written, extra>>
     ELSE "stdin" \notin open /\ ChildGoto("writing")

Writes(s, chunk) ==
  /\ Len(pipe[s]) < PipeSize
  /\ pipe' = [pipe EXCEPT ![s] = Append(@, chunk)]
  /\ written' = IF s = "stdout" THEN Append(written, chunk) ELSE written

ChildWrites ==
  /\ child = "writing"
  /\ IF replied < Reply
     THEN /\ Writes("stdout", "reply")
          /\ replied' = replied + 1
          /\ UNCHANGED <<parent, child, exit, read, heir, extra>>
     ELSE Exits(0)

ChildFails == Alive /\ Exits(1)

ChildHangs == Alive /\ ChildGoto("hung")

ChildForks ==
  /\ child = "start"
  /\ ~heir
  /\ heir' = TRUE
  /\ UNCHANGED <<parent, child, exit, read, replied, pipe, written, extra>>

\* Diagnostics, and output of the process that was left behind.
ExtraOutput ==
  /\ extra < MaxExtra
  /\ extra' = extra + 1
  /\ \/ Alive /\ child # "hung" /\ Writes("stderr", "extra")
     \/ heir /\ Writes("stdout", "extra")
  /\ UNCHANGED <<parent, child, exit, read, replied, heir>>
-----------------------------------------------------------------------------
(* The pipes *)

Pumping(s) == s \in open /\ (Posix => run = "loop")

Closes(s) == open' = open \ {s}

\* A closed reading end is not an error: the exit code decides.
WriteInput ==
  /\ Pumping("stdin")
  /\ IF ~Writers
     THEN Closes("stdin") /\ UNCHANGED <<position, pipe>>
     ELSE /\ Len(pipe["stdin"]) < PipeSize
          /\ pipe' = [pipe EXCEPT !["stdin"] = Append(@, "input")]
          /\ position' = position + 1
          /\ IF position' = Input THEN Closes("stdin") ELSE UNCHANGED open
  /\ UNCHANGED <<run, outcome, output, total, error, worker>>

\* Over the limit nothing is kept: the POSIX loop raises, the thread of a
\* Windows pipe reports an error and ends.
ReadOutput(s) ==
  /\ Pumping(s)
  /\ pipe[s] # <<>>
  /\ pipe' = [pipe EXCEPT ![s] = Tail(@)]
  /\ total' = total + 1
  /\ IF total' <= MaxOutput
     THEN /\ output' = IF s = "stdout" THEN Append(output, Head(pipe[s])) ELSE output
          /\ UNCHANGED <<run, outcome, open, error>>
     ELSE /\ UNCHANGED output
          /\ IF Posix
             THEN run' = "cleanup" /\ outcome' = "overflow" /\ UNCHANGED <<open, error>>
             ELSE error' = TRUE /\ Closes(s) /\ UNCHANGED <<run, outcome>>
  /\ UNCHANGED <<position, worker>>

ReadEnd(s) ==
  /\ Pumping(s)
  /\ EndOfFile(s)
  /\ Closes(s)
  /\ UNCHANGED <<run, outcome, position, output, total, error, worker, pipe>>
-----------------------------------------------------------------------------
(* run_worker *)

RunIs(r, o) ==
  /\ run' = r
  /\ outcome' = o
  /\ UNCHANGED <<position, output, total, error, pipe>>

Spawn ==
  /\ run = "start"
  /\ \/ /\ RunIs("loop", "none")
        /\ child' = "start"
        /\ open' = IF Input = 0 THEN Outputs ELSE Streams
     \/ RunIs("done", "error") /\ UNCHANGED <<child, open>>
  /\ UNCHANGED <<exit, read, replied, heir, written, extra>>

\* Processes that were left behind are killed when the pipes are finished with.
ReleasesLate ==
  /\ run = "loop"
  /\ child = "exited" /\ heir /\ open = {}
  /\ heir' = FALSE
  /\ UNCHANGED <<parent, child, exit, read, replied, pipe, written, extra>>

\* Killing what an exited worker has left behind closes its pipes.
ReleasesPipes ==
  /\ run = "loop"
  /\ child = "exited" /\ heir
  /\ heir' = FALSE
  /\ UNCHANGED <<parent, child, exit, read, replied, pipe, written, extra>>

\* The pipes are finished with; on POSIX the worker is then waited for.
LoopEnds ==
  /\ run = "loop"
  /\ IF Posix
     THEN open = {} /\ RunIs("wait", outcome)
     ELSE IF error THEN RunIs("cleanup", "overflow")
     ELSE child = "exited" /\ ~heir /\ open = {} /\ RunIs("judge", outcome)
  /\ UNCHANGED <<open, worker>>

Waits ==
  /\ run = "wait"
  /\ child = "exited"
  /\ RunIs("judge", outcome)
  /\ UNCHANGED <<open, worker>>

Deadline ==
  /\ run \in {"loop", "wait"}
  /\ RunIs("cleanup", "timeout")
  /\ UNCHANGED <<open, worker>>

\* The exit code is not looked at.
JudgeOutput ==
  /\ run = "judge"
  /\ RunIs("cleanup", "result")
  /\ UNCHANGED <<open, worker>>

Judge ==
  /\ run = "judge"
  /\ RunIs("cleanup", IF exit = 0 THEN "result" ELSE "error")
  /\ UNCHANGED <<open, worker>>

\* The worker and all of its processes are killed, which ends the threads of
\* the pipes; the worker is reaped.
CleanUp ==
  /\ run = "cleanup"
  /\ run' = "done"
  /\ child' = "exited"
  /\ exit' = IF Alive THEN 1 ELSE exit
  /\ heir' = FALSE
  /\ open' = {}
  /\ UNCHANGED <<outcome, position, output, total, error, read, replied, pipe, written, extra>>
-----------------------------------------------------------------------------
ChildStep ==
  \/ ChildConfines
  \/ ChildRegisters
  \/ ChildReads
  \/ ChildWrites

ParentStep ==
  \/ Spawn
  \/ WriteInput
  \/ \E s \in Outputs : ReadOutput(s)
  \/ \E s \in Outputs : ReadEnd(s)
  \/ ReleasesPipes
  \/ LoopEnds
  \/ Waits
  \/ Judge
  \/ CleanUp

Forget ==
  /\ file' = [f \in Files |-> NotRead]
  /\ dir' = [d \in Dirs |-> 1]
  /\ clock' = 1
  /\ pass' = 0
  /\ dirSeen' = [p \in Passes |-> [d \in Dirs |-> 0]]
  /\ fileSeen' = [p \in Passes |-> [f \in Files |-> 0]]
  /\ looked' = {}
  /\ shut' = {}
  /\ reading' = "none"
  /\ hash' = [f \in Files |-> NotRead]
  /\ turn' = [f \in Files |-> NotRead]

\* Nothing after the setup depends on the sources and on what was seen of them:
\* they are forgotten, so that the states of the two parts do not multiply.
Sources ==
  IF child = "setup" /\ child' # "setup"
  THEN Forget
  ELSE UNCHANGED sourceVars

ParentSteps == ParentStep /\ Sources /\ UNCHANGED platform
ChildSteps == ChildStep /\ Sources /\ UNCHANGED platform
Accidents == (ChildFails \/ ChildHangs \/ ChildForks \/ ExtraOutput) /\ Sources /\ UNCHANGED platform
DeadlineStrikes == Deadline /\ Sources /\ UNCHANGED platform
Inventory == child = "setup" /\ Collect /\ UNCHANGED workerVars
SourcesChange ==
  /\ child = "setup"
  /\ \E f \in Files, c \in Contents \cup {"absent"} : Change(f, c)
  /\ UNCHANGED workerVars

Next ==
  \/ ParentSteps
  \/ ChildSteps
  \/ Accidents
  \/ DeadlineStrikes
  \/ Inventory
  \/ SourcesChange

Spec == Init /\ [][Next]_vars

\* The thread runs on; a worker runs on until it hangs; the deadline is sure to
\* strike only when the worker hangs.
FairSpec ==
  /\ Spec
  /\ WF_vars(ParentSteps)
  /\ WF_vars(ChildSteps)
  /\ WF_vars(Inventory)
  /\ WF_vars(child = "hung" /\ DeadlineStrikes)
-----------------------------------------------------------------------------
\* A reply is only a result when it is whole: the worker was given all of the
\* input, exited with 0, and everything written on stdout is in the result, within
\* the limit.  A late, partial or oversized reply never is (the docstring at
\* worker_process.py:259).
ResultIsWhole ==
  outcome = "result" =>
    /\ exit = 0 /\ read = Input /\ replied = Reply
    /\ output = written
    /\ total <= MaxOutput

\* Every run ends, also when the pipes are full in both directions, and when a
\* process left behind holds them open: the deadline is only needed for a
\* worker that hangs.
RunsEnd == <>(run = "done")
=============================================================================
