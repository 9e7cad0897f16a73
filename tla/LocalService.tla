---------------------------- MODULE LocalService ----------------------------
(***************************************************************************)
(* The processes that share a data directory: the service (cli.py serve,   *)
(* the lifespan of api.py) with its monitor (module ConfigMonitor), and a  *)
(* command of the command line (cli.py, connection.py), which asks the     *)
(* service when there is one and otherwise opens the store itself.  The    *)
(* store (GuardStore.__init__ and close in core.py) belongs to one process *)
(* at a time, by a lock on a file.                                         *)
(*                                                                         *)
(* The service can be started, stopped or killed at any time, another      *)
(* process can listen on its port while it does not, and any answer can be *)
(* late, lost or unusable.  The command is one that changes the store.     *)
(***************************************************************************)
EXTENDS ConfigMonitor

CONSTANT MaxStarts   \* bound: starts of the service

ASSUME ServiceAssumption == MaxStarts \in Nat

VARIABLES
  service,    \* down, opened, up, draining, stopped, closed
  token,      \* the file of the token is there
  lock,       \* who has the lock of the store: none, service, command
  stranger,   \* another process listens on the port of the service
  command,    \* where the command is
  conn,       \* who is at the other end of its connection; dead when gone
  request,    \* the service has its request, and has not yet carried it out
  cliOpen,    \* the command can use the store
  runs,       \* history: how often the command was carried out
  exit,       \* what it exits with: none, answer, error
  starts

serviceVars == <<service, token, lock, stranger, starts>>
commandVars == <<command, conn, request, cliOpen, runs, exit>>
vars == <<monitorVars, serviceVars, commandVars>>

Init ==
  /\ MonitorInit
  /\ service = "down"
  /\ token \in BOOLEAN
  /\ lock = "none"
  /\ stranger \in BOOLEAN
  /\ command = "start"
  /\ conn = "none"
  /\ request = FALSE
  /\ cliOpen = FALSE
  /\ runs = 0
  /\ exit = "none"
  /\ starts = 0
-----------------------------------------------------------------------------
(* The service *)

\* The token is there before the store is opened; a store that belongs to
\* another process is an error.
ServiceOpens ==
  /\ service = "down" /\ starts < MaxStarts
  /\ starts' = starts + 1
  /\ token' = TRUE
  /\ IF lock = "none"
     THEN lock' = "service" /\ storeOpen' = TRUE /\ service' = "opened"
     ELSE UNCHANGED <<lock, storeOpen, service>>
  /\ UNCHANGED <<sources, monitor, bounds, stranger, commandVars>>

\* The monitor is started before the service listens.
ServiceStarts ==
  /\ service = "opened" /\ ~Alive
  /\ StartBegins("lifespan")
  /\ UNCHANGED <<bounds, serviceVars, commandVars>>

ServiceListens ==
  /\ service = "opened" /\ Alive /\ Idle("lifespan")
  /\ service' = IF stranger THEN "draining" ELSE "up"
  /\ UNCHANGED <<monitorVars, token, lock, stranger, starts, commandVars>>

\* The listener is closed; connections are closed when they have their answer.
ServiceDrains ==
  /\ service = "up"
  /\ service' = "draining"
  /\ conn' = IF conn = "service" /\ command # "waiting" THEN "dead" ELSE conn
  /\ UNCHANGED <<monitorVars, token, lock, stranger, starts, command, request, cliOpen, runs, exit>>

\* The monitor is stopped when no request is left.
ServiceStops ==
  /\ service = "draining" /\ conn # "service" /\ ~request
  /\ \A c \in Callers : Idle(c)
  /\ StopBegins("lifespan")
  /\ service' = "stopped"
  /\ UNCHANGED <<bounds, token, lock, stranger, starts, commandVars>>

\* First the database is closed, then the lock given up.
ServiceCloses ==
  /\ service = "stopped" /\ Idle("lifespan")
  /\ IF storeOpen
     THEN storeOpen' = FALSE /\ UNCHANGED <<service, lock>>
     ELSE service' = "closed" /\ lock' = "none" /\ UNCHANGED storeOpen
  /\ UNCHANGED <<sources, monitor, bounds, token, stranger, starts, commandVars>>

\* The process ends, in good order or not: what is left of it is the store.
ServiceEnds ==
  /\ service # "down"
  /\ service' = "down"
  /\ lock' = IF lock = "service" THEN "none" ELSE lock
  /\ storeOpen' = FALSE
  /\ stopping' = FALSE /\ observer' = "none" /\ overdue' = FALSE
  /\ dirty' = [s \in Sources |-> "no"]
  /\ thread' = "none" /\ due' = {}
  /\ caller' = [c \in Callers |-> "idle"]
  /\ wanted' = FALSE /\ missed' = FALSE /\ late' = FALSE
  /\ request' = FALSE
  /\ conn' = IF conn = "service" THEN "dead" ELSE conn
  /\ UNCHANGED <<sources, bounds, token, stranger, starts, command, cliOpen, runs, exit>>

\* POST /api/monitor
SetMonitor(c) ==
  /\ service = "up" /\ c # "lifespan"
  /\ Uses("calls", MaxCalls)
  /\ StartBegins(c) \/ StopBegins(c)
  /\ UNCHANGED <<serviceVars, commandVars>>

\* The port is free while the service does not listen on it.
StrangerListens ==
  /\ service # "up"
  /\ stranger' = ~stranger
  /\ conn' = IF conn = "other" THEN "dead" ELSE conn
  /\ UNCHANGED <<monitorVars, service, token, lock, starts, command, request, cliOpen, runs, exit>>
-----------------------------------------------------------------------------
(* The command (main, VerifiedConnection) *)

CommandGoes(pc) == command' = pc /\ UNCHANGED <<monitorVars, serviceVars>>

Exits(e) ==
  /\ exit' = e
  /\ CommandGoes("done")

\* A data directory that no service has used has no token.
ReadToken ==
  /\ command = "start"
  /\ CommandGoes(IF token THEN "connect" ELSE "offline")
  /\ UNCHANGED <<conn, request, cliOpen, runs, exit>>

\* Only a refused connection means that there is no service.
Connect ==
  /\ command = "connect"
  /\ \/ /\ service = "up" \/ stranger
        /\ conn' = IF service = "up" THEN "service" ELSE "other"
        /\ CommandGoes("prove") /\ UNCHANGED exit
     \/ /\ service # "up" /\ ~stranger
        /\ CommandGoes("offline") /\ UNCHANGED <<conn, exit>>
     \/ Exits("error") /\ UNCHANGED conn
  /\ UNCHANGED <<request, cliOpen, runs>>

\* The request goes only to whoever has proven to know the token, over the same
\* connection.
Prove ==
  /\ command = "prove"
  /\ \/ conn = "service" /\ request' = TRUE /\ CommandGoes("waiting") /\ UNCHANGED <<conn, exit>>
     \/ Exits("error") /\ conn' = "none" /\ UNCHANGED request
  /\ UNCHANGED <<cliOpen, runs>>

\* The service carries the request out, or reports an error; the command may
\* have given up by then.
Handle ==
  /\ request /\ storeOpen
  /\ request' = FALSE
  /\ \/ runs' = runs + 1 /\ UNCHANGED conn
     \/ conn' = (IF conn = "service" THEN "dead" ELSE conn) /\ UNCHANGED runs
  /\ UNCHANGED <<monitorVars, serviceVars, command, cliOpen, exit>>

Answered ==
  /\ command = "waiting" /\ conn = "service" /\ ~request
  /\ Exits("answer")
  /\ conn' = "none"
  /\ UNCHANGED <<request, cliOpen, runs>>

\* Without an answer the command tries the store.
RequestRetried ==
  /\ command = "waiting"
  /\ CommandGoes("offline")
  /\ conn' = "none"
  /\ UNCHANGED <<request, cliOpen, runs, exit>>

\* The connection ends, the time is up, or the answer is of no use.
RequestFails ==
  /\ command = "waiting"
  /\ Exits("error")
  /\ conn' = "none"
  /\ UNCHANGED <<request, cliOpen, runs>>

OpenStore ==
  /\ command = "offline"
  /\ IF lock = "none"
     THEN /\ lock' = "command" /\ cliOpen' = TRUE /\ command' = "opened"
          /\ UNCHANGED <<monitorVars, service, token, stranger, starts, exit>>
     ELSE Exits("error") /\ UNCHANGED cliOpen
  /\ UNCHANGED <<conn, request, runs>>

\* The operation can raise.
RunOffline ==
  /\ command = "opened"
  /\ \/ runs' = runs + 1 /\ exit' = "answer"
     \/ exit' = "error" /\ UNCHANGED runs
  /\ CommandGoes("close")
  /\ UNCHANGED <<conn, request, cliOpen>>

CloseStore ==
  /\ command = "close"
  /\ IF cliOpen
     THEN cliOpen' = FALSE /\ CommandGoes("close")
     ELSE /\ lock' = "none" /\ command' = "done"
          /\ UNCHANGED <<monitorVars, service, token, stranger, starts, cliOpen>>
  /\ UNCHANGED <<conn, request, runs, exit>>

CommandKilled ==
  /\ command # "done"
  /\ command' = "done" /\ exit' = "error" /\ conn' = "none" /\ cliOpen' = FALSE
  /\ lock' = IF lock = "command" THEN "none" ELSE lock
  /\ UNCHANGED <<monitorVars, service, token, stranger, starts, request, runs>>
-----------------------------------------------------------------------------
MonitorCycle == Cycle /\ UNCHANGED <<serviceVars, commandVars>>
MonitorCall == CallProceeds /\ UNCHANGED <<serviceVars, commandVars>>
MonitorDue == ReconcileDue /\ UNCHANGED <<serviceVars, commandVars>>
Elsewhere == Around /\ UNCHANGED <<serviceVars, commandVars>>

ServiceStep ==
  \/ ServiceOpens
  \/ ServiceStarts
  \/ ServiceListens
  \/ ServiceDrains
  \/ ServiceStops
  \/ ServiceCloses
  \/ ServiceEnds
  \/ \E c \in Callers : SetMonitor(c)
  \/ StrangerListens

CommandStep ==
  \/ ReadToken
  \/ Connect
  \/ Prove
  \/ Handle
  \/ Answered
  \/ RequestFails
  \/ OpenStore
  \/ RunOffline
  \/ CloseStore
  \/ CommandKilled

Next == MonitorCycle \/ MonitorCall \/ Elsewhere \/ ServiceStep \/ CommandStep

Spec == Init /\ [][Next]_vars

\* The threads of a service run on, and time passes.
FairSpec ==
  /\ Spec
  /\ WF_vars(MonitorCycle)
  /\ WF_vars(MonitorCall)
  /\ WF_vars(MonitorDue)
-----------------------------------------------------------------------------
TypeOK ==
  /\ service \in {"down", "opened", "up", "draining", "stopped", "closed"}
  /\ lock \in {"none", "service", "command"}
  /\ command \in {"start", "connect", "prove", "waiting", "offline", "opened", "close", "done"}
  /\ conn \in {"none", "service", "other", "dead"}
  /\ exit \in {"none", "answer", "error"}
  /\ observer \in {"none", "new", "running", "ended"}
  /\ thread \in {"none", "waiting", "cycle"}
  /\ caller \in [Callers -> {"idle", "starting", "stopping", "joining"}]
  /\ registered \subseteq Sources /\ due \subseteq Sources
  /\ dirty \in [Sources -> {"no", "new", "old"}]
  /\ {token, stranger, request, storeOpen, cliOpen, stopping, overdue, wanted, missed, late}
       \subseteq BOOLEAN

\* A command is carried out at most once, and exactly once when it has an answer,
\* whatever becomes of the service, its listener and the answer in the meantime;
\* and nobody else has the store open while the command works on it (the
\* docstring at connection.py:3).
CommandsRunOnce ==
  /\ runs <= 1
  /\ exit = "answer" => runs = 1
  /\ ~(storeOpen /\ cliOpen)

\* As long as calls do not overlap, the switch of the monitor holds with one
\* exception (monitor.py:36): once all have returned, a thread runs on if and only
\* if the last call was a start and has not found a thread that was told to end.
\* A stop may have given up waiting for such a thread; the start after it leaves
\* the monitor off.
SwitchHolds ==
  service = "up" /\ ~missed /\ (\A c \in Callers : Idle(c))
    => (Alive /\ ~stopping <=> wanted /\ ~late)

\* While the monitor runs, what the store has of a registered source always
\* catches up with the file: events that are lost, refreshes that fail and a dead
\* observer only delay it (monitor.py:80).
ChangesAreRefreshed ==
  \A s \in Sources :
    []<>(\/ s \notin registered \/ known[s] = file[s]
         \/ ~Alive \/ stopping \/ ~storeOpen)
=============================================================================
