--------------------------- MODULE ConfigMonitor ---------------------------
(***************************************************************************)
(* The monitor of the registered configuration files (monitor.py): an      *)
(* observer that reports changes, a thread that refreshes in the store     *)
(* what was reported some time ago and, now and then, everything, and the  *)
(* calls that start and stop both.  start holds the lock of the monitor    *)
(* throughout; stop takes no lock and gives up waiting after 5 seconds.    *)
(*                                                                         *)
(* Abstractions.  A file is the number of its edits, what the store has of *)
(* it the number it was at when last read.  Events can be lost: a          *)
(* directory may not be there to be watched, or be replaced.  A waiting    *)
(* thread sees the stop event well within 5 seconds, one in the middle of  *)
(* a cycle need not.  A cycle that cannot list the sources changes         *)
(* nothing and is not modelled.                                            *)
(***************************************************************************)
EXTENDS Naturals

CONSTANTS Sources,
          Callers,      \* requests that switch the monitor; "lifespan" is the application
          MaxEdits,     \* bound: edits of files
          MaxTroubles,  \* bound: cycles and refreshes that fail
          MaxCalls      \* bound: calls that switch the monitor

ASSUME MonitorAssumption ==
  /\ "lifespan" \in Callers
  /\ {MaxEdits, MaxTroubles, MaxCalls} \subseteq Nat

VARIABLES
  file,        \* the file of each source
  registered,  \* the sources in the store (source_paths)
  known,       \* what the store has of each
  storeOpen,   \* the service can use its store
  stopping,    \* _stop
  observer,    \* _observer: none, new, running, or ended
  dirty,       \* _dirty: no, new, or old enough
  overdue,     \* next_reconcile has passed
  thread,      \* _thread: none, waiting, cycle
  due,         \* sources its cycle has yet to refresh
  caller,      \* where each call of start or stop is
  wanted,      \* history: the call that returned last was a start
  missed,      \* history: two calls of start or stop have overlapped
  late,        \* history: the last start has found a thread that was told to end
  bounds       \* what was used up of each bound

monitor == <<stopping, observer, dirty, overdue, thread, due, caller, wanted, missed, late>>
sources == <<file, registered, known>>
monitorVars == <<sources, storeOpen, monitor, bounds>>

MonitorInit ==
  /\ file = [s \in Sources |-> 0]
  /\ registered \in SUBSET Sources
  /\ known = [s \in Sources |-> 0]
  /\ storeOpen = FALSE
  /\ stopping = FALSE
  /\ observer = "none"
  /\ dirty = [s \in Sources |-> "no"]
  /\ overdue = FALSE
  /\ thread = "none"
  /\ due = {}
  /\ caller = [c \in Callers |-> "idle"]
  /\ wanted = FALSE
  /\ missed = FALSE
  /\ late = FALSE
  /\ bounds = [edits |-> 0, troubles |-> 0, calls |-> 0]

Idle(c) == caller[c] = "idle"
Locked == \E c \in Callers : caller[c] = "starting"   \* start holds _lock
Alive == thread # "none"
Goes(c, pc) == caller' = [caller EXCEPT ![c] = pc]

Uses(bound, limit) ==
  /\ bounds[bound] < limit
  /\ bounds' = [bounds EXCEPT ![bound] = @ + 1]
-----------------------------------------------------------------------------
(* Files, events and time *)

Edit(s) ==
  /\ Uses("edits", MaxEdits)
  /\ file' = [file EXCEPT ![s] = @ + 1]
  /\ \/ observer = "running" /\ ~Locked /\ dirty' = [dirty EXCEPT ![s] = "new"]
     \/ UNCHANGED dirty
  /\ UNCHANGED <<registered, known, storeOpen, stopping, observer, overdue, thread, due, caller,
                 wanted, missed, late>>

\* A source is discovered through the service.
Register(s) ==
  /\ storeOpen
  /\ s \notin registered
  /\ registered' = registered \cup {s}
  /\ known' = [known EXCEPT ![s] = file[s]]
  /\ UNCHANGED <<file, storeOpen, monitor, bounds>>

Debounced(s) ==
  /\ dirty[s] = "new"
  /\ dirty' = [dirty EXCEPT ![s] = "old"]
  /\ UNCHANGED <<sources, storeOpen, stopping, observer, overdue, thread, due, caller, wanted,
                 missed, late, bounds>>

\* Nothing but reported changes is ever refreshed again.
ReconcileNever == FALSE /\ UNCHANGED monitorVars

ReconcileDue ==
  /\ Alive /\ ~overdue
  /\ overdue' = TRUE
  /\ UNCHANGED <<sources, storeOpen, stopping, observer, dirty, thread, due, caller, wanted,
                 missed, late, bounds>>
-----------------------------------------------------------------------------
(* start and stop *)

\* What start leaves of the stop event: an earlier stop, or nothing.
Uncleared == stopping
Cleared == FALSE

\* Another call of start or stop has not returned yet.
Overlap == missed' = (missed \/ \E d \in Callers : ~Idle(d))

\* A start that finds a thread returns at once, also when that thread is about
\* to stop.
StartBegins(c) ==
  /\ Idle(c) /\ ~Locked
  /\ Overlap
  /\ IF Alive
     THEN /\ wanted' = TRUE
          /\ late' = stopping
          /\ UNCHANGED <<stopping, observer, caller>>
     ELSE /\ stopping' = Cleared
          /\ observer' = "new"
          /\ late' = FALSE
          /\ Goes(c, "starting")
          /\ UNCHANGED wanted
  /\ UNCHANGED <<sources, storeOpen, dirty, overdue, thread, due>>

\* An observer that was stopped before it was started ends at once.
StartEnds(c) ==
  /\ caller[c] = "starting"
  /\ observer' = IF observer = "new" THEN "running" ELSE observer
  /\ thread' = "waiting"
  /\ overdue' = TRUE
  /\ Goes(c, "idle")
  /\ wanted' = TRUE
  /\ UNCHANGED <<sources, storeOpen, stopping, dirty, due, missed, late, bounds>>

StopBegins(c) ==
  /\ Idle(c)
  /\ stopping' = TRUE
  /\ Goes(c, "stopping")
  /\ Overlap
  /\ UNCHANGED <<sources, storeOpen, observer, dirty, overdue, thread, due, wanted, late>>

\* Waiting for an observer that was not started yet raises.
StopObserver(c) ==
  /\ caller[c] = "stopping"
  /\ observer' = IF observer = "none" THEN "none" ELSE "ended"
  /\ Goes(c, IF observer = "new" THEN "idle" ELSE "joining")
  /\ UNCHANGED <<sources, storeOpen, stopping, dirty, overdue, thread, due, wanted, missed,
                 late, bounds>>

\* The thread has ended, or has taken too long.
StopJoins(c) ==
  /\ caller[c] = "joining"
  /\ thread = "waiting" => ~stopping
  /\ Goes(c, "idle")
  /\ wanted' = FALSE
  /\ UNCHANGED <<sources, storeOpen, stopping, observer, dirty, overdue, thread, due, missed, late,
                 bounds>>
-----------------------------------------------------------------------------
(* The thread *)

ThreadEnds ==
  /\ thread = "waiting" /\ stopping
  /\ thread' = "none"
  /\ UNCHANGED <<sources, storeOpen, stopping, observer, dirty, overdue, due, caller, wanted,
                 missed, late, bounds>>

\* What is due is taken off the list before it is refreshed.
CycleBegins ==
  /\ thread = "waiting" /\ ~stopping /\ ~Locked /\ storeOpen
  /\ thread' = "cycle"
  /\ LET old == {s \in Sources : dirty[s] = "old"}
     IN  /\ due' = registered \cap (old \cup IF overdue THEN registered ELSE {})
         /\ dirty' = [s \in Sources |-> IF s \in old THEN "no" ELSE dirty[s]]
  /\ overdue' = FALSE
  /\ UNCHANGED <<sources, storeOpen, stopping, observer, caller, wanted, missed, late, bounds>>

Refresh(s) ==
  /\ s \in due /\ storeOpen
  /\ known' = [known EXCEPT ![s] = file[s]]
  /\ due' = due \ {s}
  /\ UNCHANGED <<file, registered, storeOpen, stopping, observer, dirty, overdue, thread, caller,
                 wanted, missed, late, bounds>>

\* The components cannot be listed, or some sources not refreshed; the store may
\* have been closed.
RefreshFails(rest) ==
  /\ rest \subseteq due /\ rest # due
  /\ IF storeOpen THEN Uses("troubles", MaxTroubles) ELSE UNCHANGED bounds
  /\ due' = rest
  /\ UNCHANGED <<sources, storeOpen, stopping, observer, dirty, overdue, thread, caller, wanted,
                 missed, late>>

CycleEnds ==
  /\ thread = "cycle" /\ due = {}
  /\ thread' = "waiting"
  /\ UNCHANGED <<sources, storeOpen, stopping, observer, dirty, overdue, due, caller, wanted,
                 missed, late, bounds>>
-----------------------------------------------------------------------------
CallProceeds == \E c \in Callers : StartEnds(c) \/ StopObserver(c) \/ StopJoins(c)

Cycle ==
  \/ ThreadEnds
  \/ CycleBegins
  \/ \E s \in Sources : Refresh(s)
  \/ \E rest \in SUBSET Sources : RefreshFails(rest)
  \/ CycleEnds

Around ==
  \/ \E s \in Sources : Edit(s)
  \/ \E s \in Sources : Register(s)
  \/ \E s \in Sources : Debounced(s)
  \/ ReconcileDue
=============================================================================
