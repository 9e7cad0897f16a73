--------------------------- MODULE GuardedReader ---------------------------
(***************************************************************************)
(* The stdio file reader for MCP clients (mcp_server.py): one session, the *)
(* tool calls it handles one after the other, the snapshots of the file a  *)
(* call names, and the scan of their bytes by the local service.           *)
(*                                                                         *)
(* The file, the directories that lead to it, the process that listens on  *)
(* the port of the service, and the policy can change between any two      *)
(* steps of a call.                                                        *)
(*                                                                         *)
(* Abstractions.  Every call names one path, in one root.  `entry' is what *)
(* that name leads to in the directory the root was when the reader        *)
(* started: "none" if there is no regular file, or a symbolic link on the  *)
(* way.  The identity of a file is its inode and the time stamp of its     *)
(* last change.  Reading is two steps: a file that changes between them is *)
(* read as Torn.  The service reports on exactly the bytes it was sent     *)
(* (module ScanReports).                                                   *)
(***************************************************************************)
EXTENDS ScanReports, Sequences, FiniteSets

CONSTANTS Inodes,
          Private,      \* inodes of the application's own data
          Contents,
          Torn,         \* a mix of an old and a new content
          Large,        \* contents over the scan limit
          Long,         \* contents over the read limit
          Binary,       \* contents that are not plain UTF-8 text
          Secret,       \* contents with credential material
          OutputOf,     \* what a scanner worker prints for a content
          Thresholds,   \* the thresholds a policy can set
          MaxRequests,  \* requests of a session (10 000 in the code)
          RateLimit,    \* calls in a window (60 in the code)
          Window,       \* length of the window (60 seconds in the code)
          MaxTime,      \* bound: clock
          MaxEdits,     \* bound: changes of files and directories
          MaxChanges    \* bound: changes of the listener and of the policy

ASSUME ReaderAssumption ==
  /\ Private \subseteq Inodes
  /\ "none" \notin Inodes
  /\ Torn \in Contents
  /\ OutputOf \in [Contents -> WorkerOutputs]
  /\ \A t \in Thresholds : [version |-> 1, flag |-> t.flag, quarantine |-> t.quarantine,
                            block |-> t.block] \in Policies
  /\ {MaxRequests, RateLimit, Window, MaxTime, MaxEdits, MaxChanges} \subseteq Nat

VARIABLES
  root,      \* the path of the root leads to the directory it was at first
  entry,     \* what the path of the file leads to in that directory
  node,      \* content and time stamp of each inode
  edits,
  peer,      \* who listens on the port of the service
  policy,    \* the policy of the service
  changes,
  conn,      \* who is at the other end of the connection of the call
  told,      \* history: who has received the token
  state,     \* session: NEW, INITIALIZING, READY
  closed,    \* the session takes no more messages
  seen,      \* how many identifiers have been used
  now,
  calls,     \* _calls: the times of recent calls
  accepted,  \* history: the times of all calls
  call,      \* the call in progress
  answer,    \* the text of the last call, and the report it was allowed by
  held       \* history: contents the path has led to since the last report

vars == <<root, entry, node, edits, peer, policy, changes, conn, told, state, closed,
          seen, now, calls, accepted, call, answer, held>>

disk == <<root, entry, node, edits>>
service == <<peer, policy, changes>>
session == <<state, closed, seen, now, calls, accepted>>
-----------------------------------------------------------------------------
NoFile == [inode |-> "none", stamp |-> 0, data |-> Torn]

NoReport == [status |-> "none", verdict |-> "none", complete |-> FALSE,
             findings |-> {}, score |-> 0, policy |-> 0]

Idle == [pc |-> "idle", tool |-> "none", again |-> FALSE, file |-> NoFile,
         first |-> NoFile, report |-> NoReport]

NoAnswer == [kind |-> "none", text |-> Torn, report |-> NoReport]

PolicyOf(v, t) == [version |-> v, flag |-> t.flag, quarantine |-> t.quarantine, block |-> t.block]

\* The content the path leads to, if it leads to a file.
Named == IF entry \in Inodes THEN {node[entry].content} ELSE {}

Init ==
  /\ root \in BOOLEAN
  /\ entry \in Inodes \cup {"none"}
  /\ node \in [Inodes -> [content : Contents \ {Torn}, stamp : {1}]]
  /\ edits = 1
  /\ peer \in {"service", "other", "none"}
  /\ policy \in {PolicyOf(1, t) : t \in Thresholds}
  /\ changes = 0
  /\ conn = "none"
  /\ told = {}
  /\ state = "NEW"
  /\ closed = FALSE
  /\ seen = 0
  /\ now = 0
  /\ calls = <<>>
  /\ accepted = <<>>
  /\ call = Idle
  /\ answer = NoAnswer
  /\ held = {}
-----------------------------------------------------------------------------
(* What happens around the reader *)

DiskChanges ==
  /\ edits < MaxEdits
  /\ edits' = edits + 1
  /\ held' = held \cup Named'
  /\ UNCHANGED <<service, conn, told, session, call, answer>>

Write(i, c) ==
  /\ node' = [node EXCEPT ![i] = [content |-> c, stamp |-> edits + 1]]
  /\ UNCHANGED <<root, entry>>
  /\ DiskChanges

Rename(target) ==
  /\ entry' = target
  /\ UNCHANGED <<root, node>>
  /\ DiskChanges

\* The root is moved away or back.
MoveRoot ==
  /\ root' = ~root
  /\ UNCHANGED <<entry, node>>
  /\ DiskChanges

\* The process behind the port ends, or another one takes its place.
ChangePeer(p) ==
  /\ changes < MaxChanges
  /\ changes' = changes + 1
  /\ peer' = p
  /\ conn' = IF conn = "none" THEN "none" ELSE "dead"
  /\ UNCHANGED <<disk, policy, told, session, call, answer, held>>

ChangePolicy(t) ==
  /\ changes < MaxChanges
  /\ changes' = changes + 1
  /\ policy' = PolicyOf(policy.version + 1, t)
  /\ UNCHANGED <<disk, peer, conn, told, session, call, answer, held>>

Tick ==
  /\ call = Idle
  /\ now < MaxTime
  /\ now' = now + 1
  /\ UNCHANGED <<disk, service, conn, told, state, closed, seen, calls, accepted, call,
                 answer, held>>
-----------------------------------------------------------------------------
(* The session (StdioServer) *)

Listening == call = Idle /\ ~closed

\* A client leaves, or sends a message over the size limit.
Close ==
  /\ Listening
  /\ closed' = TRUE
  /\ UNCHANGED <<disk, service, conn, told, state, seen, now, calls, accepted, call, answer, held>>

Initialized ==
  /\ Listening
  /\ state = "INITIALIZING"
  /\ state' = "READY"
  /\ UNCHANGED <<disk, service, conn, told, closed, seen, now, calls, accepted, call, answer, held>>

\* Every request uses up its identifier (a second one of that identifier gets an
\* error and changes nothing); the one over the limit ends the session.
Admitted ==
  /\ Listening
  /\ seen' = seen + 1
  /\ closed' = (seen' > MaxRequests)
  /\ answer' = NoAnswer

Initialize ==
  /\ Admitted
  /\ state' = IF state = "NEW" /\ ~closed' THEN "INITIALIZING" ELSE state
  /\ UNCHANGED <<disk, service, conn, told, now, calls, accepted, call, held>>

\* ping, tools/list, and whatever is not a well-formed call in this state.
OtherRequest ==
  /\ Admitted
  /\ UNCHANGED <<disk, service, conn, told, state, now, calls, accepted, call, held>>

\* Calls are forgotten from the oldest on, up to the first whose window lasts
\* until the given time.
Outlived(until) ==
  CHOOSE k \in 0..Len(calls) :
    /\ \A j \in 1..k : calls[j] + Window < until
    /\ k < Len(calls) => calls[k + 1] + Window >= until

Kept(until) == SubSeq(calls, Outlived(until) + 1, Len(calls))

\* Calls that are exactly one window old are forgotten too.
RecentOnly == Kept(now + 1)

\* A call from before the window no longer counts.
Recent == Kept(now)

\* The rate limit comes first; a call over it is answered with an error.
ToolCall(tool) ==
  /\ state = "READY"
  /\ Admitted
  /\ IF closed' \/ Len(Recent) >= RateLimit
     THEN /\ calls' = IF closed' THEN calls ELSE Recent
          /\ UNCHANGED <<accepted, call>>
     ELSE /\ calls' = Append(Recent, now)
          /\ accepted' = Append(accepted, now)
          /\ call' = [Idle EXCEPT !.pc = "open", !.tool = tool]
  /\ UNCHANGED <<disk, service, conn, told, state, now, held>>
-----------------------------------------------------------------------------
(* A snapshot of the file (GuardedReader.snapshot) *)

At(pc) == call.pc = pc

\* The call ends; its answer has no text in it.
Refuse ==
  /\ call' = Idle
  /\ conn' = "none"
  /\ UNCHANGED <<disk, service, told, session, answer, held>>

Proceed(c) ==
  /\ call' = c
  /\ UNCHANGED <<disk, service, conn, told, session, answer, held>>

\* The root must still be the directory it was when the reader started.
SnapshotOpens ==
  /\ At("open")
  /\ IF root THEN Proceed([call EXCEPT !.pc = "file"]) ELSE Refuse

SnapshotReads ==
  /\ At("file")
  /\ IF entry \in Inodes \ Private /\ node[entry].content \notin Large
     THEN Proceed([call EXCEPT !.pc = "read",
                               !.file = [inode |-> entry, stamp |-> node[entry].stamp,
                                         data |-> node[entry].content]])
     ELSE Refuse

\* The rest of the file is read, and its identity looked at again.
SnapshotReadsOn ==
  /\ At("read")
  /\ LET f == node[call.file.inode]
     IN  IF f.stamp = call.file.stamp
         THEN Proceed([call EXCEPT !.pc = "compare",
                                   !.file.data = IF f.content = @ THEN @ ELSE Torn])
         ELSE Refuse

\* The name must still lead to the file that was read, unchanged.
SnapshotCompares ==
  /\ At("compare")
  /\ IF entry = call.file.inode /\ node[entry].stamp = call.file.stamp
     THEN Proceed([call EXCEPT !.pc = "resolve"])
     ELSE Refuse

\* So must the whole path; credentials are not handed on.
SnapshotResolves ==
  /\ At("resolve")
  /\ IF root /\ entry = call.file.inode /\ call.file.data \notin Secret
     THEN Proceed([call EXCEPT !.pc = IF call.again THEN "deliver" ELSE "connect"])
     ELSE Refuse
-----------------------------------------------------------------------------
(* The scan (LocalScanner.scan, verified_summary) *)

\* read_file stops here for what it would not deliver.  A refused connection
\* is an error.
ScanConnects ==
  /\ At("connect")
  /\ IF (call.tool = "read" /\ call.file.data \in Long) \/ peer = "none"
     THEN Refuse
     ELSE /\ conn' = peer
          /\ call' = [call EXCEPT !.pc = "prove"]
          /\ UNCHANGED <<disk, service, told, session, answer, held>>

\* Whoever is connected must prove that it knows the token, and keep the
\* connection open.  A timeout or an unusable answer can come at any time.
ScanProves ==
  /\ At("prove")
  /\ \/ conn = "service" /\ Proceed([call EXCEPT !.pc = "post"])
     \/ Refuse

\* A connection that has ended is opened again.
ScanPostsAgain ==
  /\ At("post")
  /\ LET other == IF conn = "dead" THEN peer ELSE conn
     IN  IF other = "none"
         THEN Refuse
         ELSE /\ conn' = other
              /\ told' = told \cup {other}
              /\ call' = [call EXCEPT !.pc = "report"]
              /\ UNCHANGED <<disk, service, session, answer, held>>

\* The token goes out with the bytes, over the connection that was proven.
ScanPosts ==
  /\ At("post")
  /\ IF conn = "dead"
     THEN Refuse
     ELSE /\ told' = told \cup {conn}
          /\ call' = [call EXCEPT !.pc = "report"]
          /\ UNCHANGED <<disk, service, conn, session, answer, held>>

\* The reader waits for as long as the service takes.
ReportArrivesLate ==
  /\ At("report")
  /\ conn = "service"
  /\ call' = [call EXCEPT !.pc = "judge", !.report = Report(OutputOf[call.file.data], policy)]
  /\ conn' = "none"
  /\ held' = Named
  /\ UNCHANGED <<disk, service, told, session, answer>>

\* The report arrives, or the time runs out.
ReportArrives ==
  /\ At("report")
  /\ \/ /\ conn = "service"
        /\ call' = [call EXCEPT !.pc = "judge", !.report = Report(OutputOf[call.file.data], policy)]
        /\ conn' = "none"
        /\ held' = Named
        /\ UNCHANGED <<disk, service, told, session, answer>>
     \/ Refuse

Answers(a) ==
  /\ call' = Idle
  /\ answer' = a
  /\ UNCHANGED <<disk, service, conn, told, session, held>>

Summary == [kind |-> "report", text |-> Torn, report |-> call.report]
Text == [kind |-> "text", text |-> call.file.data, report |-> call.report]

\* The text is delivered without a second look at the file.
JudgeOnly ==
  /\ At("judge")
  /\ IF ~ReaderAccepts(call.report) THEN Refuse
     ELSE IF call.tool = "scan" \/ ~Clean(call.report) THEN Answers(Summary)
     ELSE IF call.file.data \in Binary THEN Refuse
     ELSE Answers(Text)

\* The summary of the report is the answer, or, for clean text, a part of it:
\* then there is another snapshot.
Judge ==
  /\ At("judge")
  /\ IF ~ReaderAccepts(call.report) THEN Refuse
     ELSE IF call.tool = "scan" \/ ~Clean(call.report) THEN Answers(Summary)
     ELSE IF call.file.data \in Binary THEN Refuse
     ELSE Proceed([call EXCEPT !.pc = "open", !.again = TRUE, !.first = call.file])

\* The file must be the one that was scanned.
Deliver ==
  /\ At("deliver")
  /\ IF call.file = call.first THEN Answers(Text) ELSE Refuse
-----------------------------------------------------------------------------
CallStep ==
  \/ SnapshotOpens
  \/ SnapshotReads
  \/ SnapshotReadsOn
  \/ SnapshotCompares
  \/ SnapshotResolves
  \/ ScanConnects
  \/ ScanProves
  \/ ScanPosts
  \/ ReportArrives
  \/ Judge
  \/ Deliver

Next ==
  \/ \E i \in Inodes, c \in Contents \ {Torn} : Write(i, c)
  \/ \E target \in Inodes \cup {"none"} : Rename(target)
  \/ MoveRoot
  \/ \E p \in {"service", "other", "none"} : ChangePeer(p)
  \/ \E t \in Thresholds : ChangePolicy(t)
  \/ Tick
  \/ Close
  \/ Initialized
  \/ Initialize
  \/ OtherRequest
  \/ \E tool \in {"scan", "read"} : ToolCall(tool)
  \/ CallStep

Spec == Init /\ [][Next]_vars

\* The reader runs on, and every wait for the service has a timeout.
FairSpec == Spec /\ WF_vars(CallStep)
-----------------------------------------------------------------------------
Snapshots == [inode : Inodes \cup {"none"}, stamp : Nat, data : Contents]

TypeOK ==
  /\ root \in BOOLEAN
  /\ entry \in Inodes \cup {"none"}
  /\ node \in [Inodes -> [content : Contents, stamp : Nat]]
  /\ peer \in {"service", "other", "none"}
  /\ policy \in Policies
  /\ conn \in {"service", "other", "none", "dead"}
  /\ state \in {"NEW", "INITIALIZING", "READY"}
  /\ closed \in BOOLEAN
  /\ seen \in Nat
  /\ calls \in Seq(Nat)
  /\ accepted \in Seq(Nat)
  /\ {now, edits, changes} \subseteq Nat
  /\ call.file \in Snapshots /\ call.first \in Snapshots

\* The service found nothing in this content, and finished looking.
Harmless(c) == Valid(OutputOf[c]) /\ ~Incomplete(OutputOf[c]) /\ OutputOf[c].findings = {}

\* Text that reaches the client was scanned, in full and with a clean result, as
\* exactly these bytes; it has no credentials in it; and it was what the path led
\* to, in the directory the administrator chose, after the scan: however the
\* file, the directories, the listener and the policy change during the call
\* (mcp_server.py:253).
DeliversWhatWasScanned ==
  answer.kind = "text" =>
    /\ Harmless(answer.text) /\ Clean(answer.report)
    /\ answer.text \notin Secret \cup Binary
    /\ answer.text \in held

\* Nobody but the service ever gets the token, whoever takes its port and
\* whenever (the docstring at mcp_server.py:104).
TokenStaysLocal == told \subseteq {"service"}

\* No window of time has more calls in it than the limit, wherever it begins:
\* forgetting old calls never lets a burst through (mcp_server.py:309).
CallsAreLimited ==
  \A i \in DOMAIN accepted :
    Cardinality({j \in DOMAIN accepted : accepted[j] \in accepted[i]..(accepted[i] + Window)})
      <= RateLimit

\* Every call ends, also when the listener keeps silent, so that the session
\* goes on to the next message.
CallsEnd == call # Idle ~> call = Idle
=============================================================================
