------------------------- MODULE LocalServiceProofs -------------------------
(***************************************************************************)
(* Proofs about LocalService and ConfigMonitor, for any sources, requests  *)
(* and bounds.  The inductive invariant has three parts: who holds the     *)
(* lock of the store, by where the service and the command are; how far    *)
(* the command has come with its one request or its own operation; and,    *)
(* as long as calls of start and stop do not overlap, the one call that is *)
(* under way, and what the last one has left of the monitor's thread.      *)
(***************************************************************************)
EXTENDS LocalService, TLAPS

\* The lock belongs to whoever has come past opening the store and not yet past
\* giving it up, and the store is open for nobody else.
LockFollows ==
  /\ lock = "service" <=> service \in {"opened", "up", "draining", "stopped"}
  /\ lock = "command" <=> command \in {"opened", "close"}
  /\ storeOpen => lock = "service"
  /\ cliOpen => lock = "command"

Undecided == {"start", "connect", "prove", "offline", "opened"}

\* A request that the service still has is not carried out, and was given up or
\* is waited for; one it no longer has, of a command that waits for the answer,
\* is carried out.
RequestFollows ==
  /\ runs \in {0, 1}
  /\ command \in Undecided => runs = 0 /\ exit = "none"
  /\ command = "waiting" => exit = "none"
  /\ request => runs = 0 /\ exit # "answer" /\ command \in {"waiting", "done"}
  /\ command = "waiting" /\ conn = "service" /\ ~request => runs = 1
  /\ exit = "answer" => runs = 1

\* Calls come one after the other, and each finds what the one before it left.
OneCall ==
  ~missed =>
    /\ \A c, d \in Callers : ~Idle(c) /\ ~Idle(d) => c = d
    /\ \A c \in Callers :
         /\ caller[c] = "starting" => ~stopping /\ ~Alive
         /\ caller[c] \in {"stopping", "joining"} => stopping
    /\ observer = "new" => Locked
    /\ late => stopping
    /\ (\A c \in Callers : Idle(c)) => (Alive /\ ~stopping <=> wanted /\ ~late)

ServiceInv ==
  /\ TypeOK
  /\ LockFollows
  /\ RequestFollows
  /\ OneCall
-----------------------------------------------------------------------------
(* What some steps do, without their guards *)

LEMMA HandleEffect ==
  ASSUME Handle
  PROVE  /\ request' = FALSE
         /\ conn' \in {conn, "dead"}
         /\ UNCHANGED <<monitorVars, serviceVars, command, cliOpen, exit>>
BY DEF Handle

LEMMA CycleEffect ==
  ASSUME CycleBegins
  PROVE  /\ thread' = "cycle" /\ overdue' = FALSE
         /\ due' \subseteq registered
         /\ \E old \in SUBSET Sources : dirty' = [s \in Sources |-> IF s \in old THEN "no" ELSE dirty[s]]
         /\ UNCHANGED <<sources, storeOpen, stopping, observer, caller, wanted, missed, late, bounds>>
<1>. DEFINE old == {s \in Sources : dirty[s] = "old"}
<1>1. old \in SUBSET Sources /\ dirty' = [s \in Sources |-> IF s \in old THEN "no" ELSE dirty[s]]
  BY DEF CycleBegins
<1>. QED  BY <1>1, Zenon DEF CycleBegins

LEMMA JoinEffect ==
  ASSUME NEW c \in Callers, StopJoins(c)
  PROVE  /\ wanted' = FALSE /\ caller' = [caller EXCEPT ![c] = "idle"]
         /\ UNCHANGED <<sources, storeOpen, stopping, observer, dirty, overdue, thread, due, missed, late, bounds>>
BY DEF StopJoins, Goes

LEMMA CloseEffect ==
  ASSUME ServiceCloses
  PROVE  /\ storeOpen' \in {storeOpen, FALSE}
         /\ service' \in {service, "closed"} /\ lock' \in {lock, "none"}
         /\ UNCHANGED <<sources, monitor, bounds, token, stranger, starts, commandVars>>
<1>1. CASE storeOpen
  BY <1>1 DEF ServiceCloses
<1>2. CASE ~storeOpen
  BY <1>2 DEF ServiceCloses
<1>. QED  BY <1>1, <1>2
-----------------------------------------------------------------------------
(* Types *)

LEMMA TypeInit == Init => TypeOK
BY MonitorAssumption DEF Init, MonitorInit, TypeOK

\* What a call of start or stop can change at all, and to what.
CallChanges ==
  /\ stopping' \in BOOLEAN /\ wanted' \in BOOLEAN
  /\ missed' \in BOOLEAN /\ late' \in BOOLEAN
  /\ observer' \in {"none", "new", "running", "ended"}
  /\ caller' \in [Callers -> {"idle", "starting", "stopping", "joining"}]
  /\ UNCHANGED <<sources, storeOpen, dirty, overdue, thread, due>>

LEMMA CallEffect ==
  ASSUME TypeOK, NEW c \in Callers, StartBegins(c) \/ StopBegins(c)
  PROVE  CallChanges
<1>. /\ stopping \in BOOLEAN /\ wanted \in BOOLEAN
     /\ missed \in BOOLEAN /\ late \in BOOLEAN
     /\ observer \in {"none", "new", "running", "ended"}
     /\ caller \in [Callers -> {"idle", "starting", "stopping", "joining"}]
  BY DEF TypeOK
<1>1. CASE StartBegins(c)
  <2>. USE <1>1 DEF StartBegins, Overlap, Cleared, Goes, CallChanges
  <2>1. CASE Alive
    BY <2>1
  <2>2. CASE ~Alive
    BY <2>2
  <2>. QED  BY <2>1, <2>2
<1>2. CASE StopBegins(c)
  BY <1>2 DEF StopBegins, Overlap, Goes, CallChanges
<1>. QED  BY <1>1, <1>2

\* A step of the service keeps the types, whatever it does to its monitor.
LEMMA ServiceTypes ==
  ASSUME TypeOK, ServiceStep
  PROVE  TypeOK'
<1> USE DEF monitorVars, monitor, sources, serviceVars, commandVars, TypeOK
<1>1. CASE ServiceOpens
  <2>. USE <1>1 DEF ServiceOpens
  <2>1. CASE lock = "none"
    BY <2>1
  <2>2. CASE lock # "none"
    BY <2>2
  <2>. QED  BY <2>1, <2>2
<1>2. CASE ServiceStarts
  BY <1>2, CallEffect, MonitorAssumption DEF ServiceStarts, CallChanges
<1>3. CASE ServiceListens
  BY <1>3 DEF ServiceListens
<1>4. CASE ServiceDrains
  BY <1>4 DEF ServiceDrains
<1>5. CASE ServiceStops
  BY <1>5, CallEffect, MonitorAssumption DEF ServiceStops, CallChanges
<1>6. CASE ServiceCloses
  BY <1>6, CloseEffect
<1>7. CASE ServiceEnds
  BY <1>7 DEF ServiceEnds
<1>8. ASSUME NEW c \in Callers, SetMonitor(c)
      PROVE  TypeOK'
  BY <1>8, CallEffect DEF SetMonitor, CallChanges
<1>9. CASE StrangerListens
  BY <1>9 DEF StrangerListens
<1>. QED  BY <1>1, <1>2, <1>3, <1>4, <1>5, <1>6, <1>7, <1>8, <1>9 DEF ServiceStep

LEMMA CommandTypes ==
  ASSUME TypeOK, CommandStep
  PROVE  TypeOK'
<1> USE DEF monitorVars, monitor, sources, serviceVars, CommandGoes, Exits, TypeOK
<1>1. CASE ReadToken
  BY <1>1 DEF ReadToken
<1>2. CASE Connect
  BY <1>2 DEF Connect
<1>3. CASE Prove
  BY <1>3 DEF Prove
<1>4. CASE Handle
  BY <1>4, HandleEffect
<1>5. CASE Answered
  BY <1>5 DEF Answered
<1>6. CASE RequestFails
  BY <1>6 DEF RequestFails
<1>7. CASE OpenStore
  <2>. USE <1>7 DEF OpenStore
  <2>1. CASE lock = "none"
    BY <2>1
  <2>2. CASE lock # "none"
    BY <2>2
  <2>. QED  BY <2>1, <2>2
<1>8. CASE RunOffline
  BY <1>8 DEF RunOffline
<1>9. CASE CloseStore
  BY <1>9 DEF CloseStore
<1>10. CASE CommandKilled
  BY <1>10 DEF CommandKilled
<1>. QED  BY <1>1, <1>2, <1>3, <1>4, <1>5, <1>6, <1>7, <1>8, <1>9, <1>10 DEF CommandStep

LEMMA MonitorTypes ==
  ASSUME TypeOK, MonitorCycle \/ MonitorCall \/ Elsewhere
  PROVE  TypeOK'
<1> USE DEF sources, monitor, serviceVars, commandVars, TypeOK
<1>1. CASE MonitorCycle
  <2>. USE <1>1 DEF MonitorCycle
  <2>1. CASE ThreadEnds
    BY <2>1 DEF ThreadEnds
  <2>2. CASE CycleBegins
    BY <2>2, CycleEffect
  <2>3. ASSUME NEW s \in Sources, Refresh(s)
        PROVE  TypeOK'
    BY <2>3 DEF Refresh
  <2>4. ASSUME NEW rest \in SUBSET Sources, RefreshFails(rest)
        PROVE  TypeOK'
    BY <2>4 DEF RefreshFails
  <2>5. CASE CycleEnds
    BY <2>5 DEF CycleEnds
  <2>. QED  BY <2>1, <2>2, <2>3, <2>4, <2>5 DEF Cycle
<1>2. CASE MonitorCall
  <2>. USE <1>2 DEF MonitorCall
  <2>. SUFFICES ASSUME NEW c \in Callers, StartEnds(c) \/ StopObserver(c) \/ StopJoins(c)
                PROVE  TypeOK'
    BY DEF CallProceeds
  <2>1. CASE StartEnds(c)
    BY <2>1 DEF StartEnds, Goes
  <2>2. CASE StopObserver(c)
    BY <2>2 DEF StopObserver, Goes
  <2>3. CASE StopJoins(c)
    <3>1. /\ wanted' = FALSE /\ caller' = [caller EXCEPT ![c] = "idle"]
          /\ UNCHANGED <<sources, storeOpen, stopping, observer, dirty, overdue, thread, due,
                         missed, late, bounds>>
      BY <2>3, JoinEffect, Zenon
    <3>2. UNCHANGED <<serviceVars, commandVars>>
      BY Zenon
    <3>3. wanted' \in BOOLEAN
      BY <3>1, Zenon
    <3>4. caller' \in [Callers -> {"idle", "starting", "stopping", "joining"}]
      BY <3>1
    <3>. QED  BY <3>1, <3>2, <3>3, <3>4
  <2>. QED  BY <2>1, <2>2, <2>3
<1>3. CASE Elsewhere
  <2>. USE <1>3 DEF Elsewhere
  <2>1. ASSUME NEW s \in Sources, Edit(s)
        PROVE  TypeOK'
    BY <2>1 DEF Edit
  <2>2. ASSUME NEW s \in Sources, Register(s)
        PROVE  TypeOK'
    BY <2>2 DEF Register
  <2>3. ASSUME NEW s \in Sources, Debounced(s)
        PROVE  TypeOK'
    BY <2>3 DEF Debounced
  <2>4. CASE ReconcileDue
    BY <2>4 DEF ReconcileDue
  <2>. QED  BY <2>1, <2>2, <2>3, <2>4 DEF Around
<1>. QED  BY <1>1, <1>2, <1>3

LEMMA TypeStep == TypeOK /\ [Next]_vars => TypeOK'
<1>. SUFFICES ASSUME TypeOK, [Next]_vars
              PROVE  TypeOK'
  OBVIOUS
<1>1. CASE UNCHANGED vars
  BY <1>1 DEF vars, monitorVars, monitor, sources, serviceVars, commandVars, TypeOK
<1>. QED  BY <1>1, ServiceTypes, CommandTypes, MonitorTypes DEF Next

\* The state of the service, of its monitor and of the command is always one the
\* program knows, whatever is started, stopped, killed or lost.
THEOREM ServiceTyped == Spec => []TypeOK
BY TypeInit, TypeStep, PTL DEF Spec
-----------------------------------------------------------------------------
(* The lock of the store *)

\* Neither the monitor nor what happens around it opens, closes or locks a store.
LEMMA MonitorLeavesLocks ==
  ASSUME MonitorCycle \/ MonitorCall \/ Elsewhere
  PROVE  UNCHANGED <<storeOpen, serviceVars, commandVars>>
<1>1. CASE MonitorCycle
  BY <1>1 DEF MonitorCycle, Cycle, ThreadEnds, CycleBegins, Refresh, RefreshFails, CycleEnds
<1>2. CASE MonitorCall
  BY <1>2 DEF MonitorCall, CallProceeds, StartEnds, StopObserver, StopJoins
<1>3. CASE Elsewhere
  BY <1>3 DEF Elsewhere, Around, Edit, Register, Debounced, ReconcileDue
<1>. QED  BY <1>1, <1>2, <1>3

\* A call of start or stop does not either.
LEMMA CallsLeaveLocks ==
  ASSUME NEW c, StartBegins(c) \/ StopBegins(c)
  PROVE  UNCHANGED <<sources, storeOpen>>
BY DEF StartBegins, StopBegins

LEMMA LockInit == Init => LockFollows
BY DEF Init, MonitorInit, LockFollows

LEMMA ServiceLocks ==
  ASSUME TypeOK, LockFollows, ServiceStep
  PROVE  LockFollows'
<1>. USE DEF LockFollows, serviceVars, commandVars
<1>. service \in {"down", "opened", "up", "draining", "stopped", "closed"}
     /\ lock \in {"none", "service", "command"}
  BY DEF TypeOK
<1>1. CASE ServiceOpens
  BY <1>1 DEF ServiceOpens
<1>2. CASE ServiceStarts
  BY <1>2, CallsLeaveLocks DEF ServiceStarts
<1>3. CASE ServiceListens
  BY <1>3 DEF ServiceListens, monitorVars
<1>4. CASE ServiceDrains
  BY <1>4 DEF ServiceDrains, monitorVars
<1>5. CASE ServiceStops
  BY <1>5, CallsLeaveLocks DEF ServiceStops
<1>6. CASE ServiceCloses
  BY <1>6 DEF ServiceCloses
<1>7. CASE ServiceEnds
  BY <1>7 DEF ServiceEnds
<1>8. ASSUME NEW c \in Callers, SetMonitor(c)
      PROVE  LockFollows'
  BY <1>8, CallsLeaveLocks DEF SetMonitor
<1>9. CASE StrangerListens
  BY <1>9 DEF StrangerListens, monitorVars
<1>. QED  BY <1>1, <1>2, <1>3, <1>4, <1>5, <1>6, <1>7, <1>8, <1>9 DEF ServiceStep

LEMMA CommandLocks ==
  ASSUME TypeOK, LockFollows, CommandStep
  PROVE  LockFollows'
<1>. USE DEF LockFollows, monitorVars, serviceVars, CommandGoes, Exits
<1>. /\ lock \in {"none", "service", "command"}
     /\ command \in {"start", "connect", "prove", "waiting", "offline", "opened", "close", "done"}
  BY DEF TypeOK
<1>1. CASE ReadToken
  BY <1>1 DEF ReadToken
<1>2. CASE Connect
  BY <1>2 DEF Connect
<1>3. CASE Prove
  BY <1>3 DEF Prove
<1>4. CASE Handle
  BY <1>4, HandleEffect
<1>5. CASE Answered
  BY <1>5 DEF Answered
<1>6. CASE RequestFails
  BY <1>6 DEF RequestFails
<1>7. CASE OpenStore
  BY <1>7 DEF OpenStore
<1>8. CASE RunOffline
  BY <1>8 DEF RunOffline
<1>9. CASE CloseStore
  BY <1>9 DEF CloseStore
<1>10. CASE CommandKilled
  BY <1>10 DEF CommandKilled
<1>. QED  BY <1>1, <1>2, <1>3, <1>4, <1>5, <1>6, <1>7, <1>8, <1>9, <1>10 DEF CommandStep

LEMMA LockStep == TypeOK /\ LockFollows /\ [Next]_vars => LockFollows'
<1>. SUFFICES ASSUME TypeOK, LockFollows, [Next]_vars
              PROVE  LockFollows'
  OBVIOUS
<1>1. CASE UNCHANGED vars
  BY <1>1 DEF vars, monitorVars, serviceVars, commandVars, LockFollows
<1>2. CASE MonitorCycle \/ MonitorCall \/ Elsewhere
  BY <1>2, MonitorLeavesLocks DEF serviceVars, commandVars, LockFollows
<1>. QED  BY <1>1, <1>2, ServiceLocks, CommandLocks DEF Next
-----------------------------------------------------------------------------
(* The request and the operation of the command *)

LEMMA RequestInit == Init => RequestFollows
BY DEF Init, RequestFollows, Undecided

\* The end of a service takes its request with it, and the connection.
LEMMA ServiceRequests ==
  ASSUME RequestFollows, ServiceStep
  PROVE  RequestFollows'
<1>. USE DEF RequestFollows, Undecided, serviceVars, commandVars
<1>1. CASE ServiceOpens \/ ServiceStarts \/ ServiceListens
  BY <1>1 DEF ServiceOpens, ServiceStarts, ServiceListens
<1>2. CASE ServiceDrains
  BY <1>2 DEF ServiceDrains
<1>3. CASE ServiceStops \/ ServiceCloses
  BY <1>3 DEF ServiceStops, ServiceCloses
<1>4. CASE ServiceEnds
  BY <1>4 DEF ServiceEnds
<1>5. ASSUME NEW c \in Callers, SetMonitor(c)
      PROVE  RequestFollows'
  BY <1>5 DEF SetMonitor
<1>6. CASE StrangerListens
  BY <1>6 DEF StrangerListens
<1>. QED  BY <1>1, <1>2, <1>3, <1>4, <1>5, <1>6 DEF ServiceStep

LEMMA CommandRequests ==
  ASSUME TypeOK, RequestFollows, CommandStep
  PROVE  RequestFollows'
<1>. USE DEF RequestFollows, Undecided, CommandGoes, Exits
<1>1. CASE ReadToken
  BY <1>1 DEF ReadToken
<1>2. CASE Connect
  BY <1>2 DEF Connect
<1>3. CASE Prove
  BY <1>3 DEF Prove
<1>4. CASE Handle
  BY <1>4 DEF Handle
<1>5. CASE Answered
  BY <1>5 DEF Answered
<1>6. CASE RequestFails
  BY <1>6 DEF RequestFails
<1>7. CASE OpenStore
  BY <1>7 DEF OpenStore
<1>8. CASE RunOffline
  BY <1>8 DEF RunOffline
<1>9. CASE CloseStore
  BY <1>9 DEF CloseStore
<1>10. CASE CommandKilled
  BY <1>10 DEF CommandKilled
<1>. QED  BY <1>1, <1>2, <1>3, <1>4, <1>5, <1>6, <1>7, <1>8, <1>9, <1>10 DEF CommandStep

LEMMA RequestStep == TypeOK /\ RequestFollows /\ [Next]_vars => RequestFollows'
<1>. SUFFICES ASSUME TypeOK, RequestFollows, [Next]_vars
              PROVE  RequestFollows'
  OBVIOUS
<1>1. CASE UNCHANGED vars
  BY <1>1 DEF vars, commandVars, RequestFollows, Undecided
<1>2. CASE MonitorCycle \/ MonitorCall \/ Elsewhere
  BY <1>2, MonitorLeavesLocks DEF commandVars, RequestFollows, Undecided
<1>. QED  BY <1>1, <1>2, ServiceRequests, CommandRequests DEF Next
-----------------------------------------------------------------------------
(* The calls of start and stop *)

Phases == {"idle", "starting", "stopping", "joining"}

CallTypes ==
  /\ caller \in [Callers -> Phases]
  /\ stopping \in BOOLEAN /\ wanted \in BOOLEAN
  /\ missed \in BOOLEAN /\ late \in BOOLEAN

LEMMA CallInit == Init => OneCall
BY DEF Init, MonitorInit, OneCall, Idle, Locked, Alive

\* A start that returns at once has found a thread, alone, and is late when that
\* one is about to end; any other start or stop is the only call from then on.
LEMMA StartKeeps ==
  ASSUME CallTypes, OneCall, NEW c \in Callers, StartBegins(c)
  PROVE  OneCall'
<1>. USE DEF CallTypes, Phases, OneCall, Idle, Locked, Alive
<1>1. CASE Alive
  BY <1>1 DEF StartBegins, Overlap
<1>2. CASE ~Alive
  <2>1. /\ caller' = [caller EXCEPT ![c] = "starting"] /\ stopping' = FALSE /\ late' = FALSE
        /\ missed' = (missed \/ \E d \in Callers : ~Idle(d)) /\ thread' = thread
    BY <1>2 DEF StartBegins, Overlap, Cleared, Goes
  <2>. SUFFICES ASSUME ~missed'
                PROVE  OneCall'
    OBVIOUS
  <2>2. \A d \in Callers : caller[d] = "idle"
    BY <2>1
  <2>3. caller'[c] = "starting" /\ \A d \in Callers : d # c => caller'[d] = "idle"
    BY <2>1, <2>2
  <2>4. ~Alive' /\ ~stopping'
    BY <1>2, <2>1
  <2>. QED  BY <2>1, <2>3, <2>4
<1>. QED  BY <1>1, <1>2

LEMMA StopKeeps ==
  ASSUME CallTypes, OneCall, NEW c \in Callers, StopBegins(c)
  PROVE  OneCall'
BY DEF StopBegins, Overlap, Goes, CallTypes, Phases, OneCall, Idle, Locked, Alive

LEMMA CallProceedsKeeps ==
  ASSUME CallTypes, OneCall, NEW c \in Callers, StartEnds(c) \/ StopObserver(c) \/ StopJoins(c)
  PROVE  OneCall'
<1>. USE DEF CallTypes, Phases, OneCall, Idle, Locked, Alive
<1>1. CASE StartEnds(c)
  BY <1>1 DEF StartEnds, Goes
<1>2. CASE StopObserver(c)
  BY <1>2 DEF StopObserver, Goes
<1>3. CASE StopJoins(c)
  BY <1>3 DEF StopJoins, Goes
<1>. QED  BY <1>1, <1>2, <1>3

\* A thread ends only when it is stopped, and is otherwise there before and after.
LEMMA ThreadKeeps ==
  ASSUME OneCall, Cycle
  PROVE  OneCall'
<1>. USE DEF OneCall, Idle, Locked, Alive
<1>1. CASE ThreadEnds
  BY <1>1 DEF ThreadEnds
<1>2. CASE CycleBegins
  BY <1>2 DEF CycleBegins
<1>3. ASSUME NEW s \in Sources, Refresh(s)
      PROVE  OneCall'
  BY <1>3 DEF Refresh
<1>4. ASSUME NEW rest \in SUBSET Sources, RefreshFails(rest)
      PROVE  OneCall'
  BY <1>4 DEF RefreshFails
<1>5. CASE CycleEnds
  BY <1>5 DEF CycleEnds
<1>. QED  BY <1>1, <1>2, <1>3, <1>4, <1>5 DEF Cycle

\* Only these variables matter to the calls.
LEMMA CallsUntouched ==
  ASSUME OneCall, UNCHANGED <<stopping, observer, thread, caller, wanted, missed, late>>
  PROVE  OneCall'
BY DEF OneCall, Idle, Locked, Alive

LEMMA CallStep == TypeOK /\ OneCall /\ [Next]_vars => OneCall'
<1>. SUFFICES ASSUME TypeOK, OneCall, [Next]_vars
              PROVE  OneCall'
  OBVIOUS
<1>. CallTypes
  BY DEF TypeOK, CallTypes, Phases
<1>1. CASE UNCHANGED vars
  BY <1>1, CallsUntouched DEF vars, monitorVars, monitor
<1>2. CASE MonitorCycle
  BY <1>2, ThreadKeeps DEF MonitorCycle
<1>3. CASE MonitorCall
  BY <1>3, CallProceedsKeeps DEF MonitorCall, CallProceeds
<1>4. CASE Elsewhere
  BY <1>4, CallsUntouched DEF Elsewhere, Around, Edit, Register, Debounced, ReconcileDue, monitor
<1>5. CASE ServiceStep
  <2>1. CASE ServiceOpens \/ ServiceCloses
    BY <2>1, CallsUntouched DEF ServiceOpens, ServiceCloses, monitor
  <2>2. CASE ServiceListens \/ ServiceDrains \/ StrangerListens
    BY <2>2, CallsUntouched DEF ServiceListens, ServiceDrains, StrangerListens, monitorVars, monitor
  <2>3. CASE ServiceStarts
    BY <2>3, StartKeeps, MonitorAssumption DEF ServiceStarts
  <2>4. CASE ServiceStops
    BY <2>4, StopKeeps, MonitorAssumption DEF ServiceStops
  <2>5. CASE ServiceEnds
    BY <2>5 DEF ServiceEnds, OneCall, Idle, Locked, Alive
  <2>6. ASSUME NEW c \in Callers, SetMonitor(c)
        PROVE  OneCall'
    BY <2>6, StartKeeps, StopKeeps DEF SetMonitor
  <2>. QED  BY <1>5, <2>1, <2>2, <2>3, <2>4, <2>5, <2>6 DEF ServiceStep
<1>6. CASE CommandStep
  <2>1. UNCHANGED monitorVars
    BY <1>6 DEF CommandStep, ReadToken, Connect, Prove, Handle, Answered, RequestFails, OpenStore,
                RunOffline, CloseStore, CommandKilled, CommandGoes, Exits
  <2>. QED  BY <2>1, CallsUntouched DEF monitorVars, monitor
<1>. QED  BY <1>1, <1>2, <1>3, <1>4, <1>5, <1>6 DEF Next
-----------------------------------------------------------------------------
\* The inductive invariant.
THEOREM ServiceInvariant == Spec => []ServiceInv
<1>1. Init => ServiceInv
  BY TypeInit, LockInit, RequestInit, CallInit DEF ServiceInv
<1>2. ServiceInv /\ [Next]_vars => ServiceInv'
  BY TypeStep, LockStep, RequestStep, CallStep DEF ServiceInv
<1>. QED  BY <1>1, <1>2, PTL DEF Spec

\* A command is carried out at most once, exactly once when it has an answer, and
\* with the store to itself (connection.py:3).
THEOREM CommandsAreRunOnce == Spec => []CommandsRunOnce
<1>1. ServiceInv => CommandsRunOnce
  BY DEF ServiceInv, LockFollows, RequestFollows, CommandsRunOnce
<1>. QED  BY <1>1, ServiceInvariant, PTL

\* Whatever calls of start and stop follow one another without overlapping, a thread
\* of the monitor runs on exactly when the last of them was a start and has not
\* found a thread that was told to end (monitor.py:36, 101).
THEOREM SwitchIsKept == Spec => []SwitchHolds
<1>1. ServiceInv => SwitchHolds
  BY DEF ServiceInv, OneCall, SwitchHolds
<1>. QED  BY <1>1, ServiceInvariant, PTL
=============================================================================
