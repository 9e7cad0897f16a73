------------------------ MODULE GuardedReaderProofs ------------------------
(***************************************************************************)
(* Proofs about GuardedReader, for any files, contents (credentials,       *)
(* binary, large and long ones among them), worker outputs, thresholds and *)
(* limits, and any changes around a call.  The inductive invariant follows *)
(* a call: what the file it has in hand was when it was read, what is      *)
(* known of the one that was scanned, and who it is connected to.  A       *)
(* second one follows the calls that are remembered for the rate limit.    *)
(***************************************************************************)
EXTENDS GuardedReader, TLAPS, FiniteSetTheorems, SequenceTheorems, WellFoundedInduction

\* Phases with a file in hand that was looked at but not yet compared.
Comparing == {"read", "compare"}
Snapshotted == Comparing \cup {"resolve", "deliver"}
Scanning == {"connect", "prove", "post", "report", "judge"}

Shaped ==
  /\ call = [pc |-> call.pc, tool |-> call.tool, again |-> call.again, file |-> call.file,
             first |-> call.first, report |-> call.report]
  /\ call.file = [inode |-> call.file.inode, stamp |-> call.file.stamp, data |-> call.file.data]
  /\ call.pc \in {"idle", "open", "file"} \cup Snapshotted \cup Scanning
  /\ call.pc = "idle" => call = Idle
  /\ call.again \in BOOLEAN

\* Every change has a time stamp of its own.
Stamped ==
  /\ edits \in Nat
  /\ node \in [Inodes -> [content : Contents, stamp : Nat]]
  /\ \A i \in Inodes : node[i].stamp <= edits

\* A file that still has its time stamp has the content that was read first.
InHand ==
  call.pc \in Comparing =>
    /\ call.file.inode \in Inodes
    /\ call.file.stamp \in Nat /\ call.file.stamp <= edits
    /\ node[call.file.inode].stamp = call.file.stamp =>
         node[call.file.inode].content = call.file.data

Connected ==
  /\ call.pc \in {"post", "report"} => conn \in {"service", "dead"}
  /\ told \subseteq {"service"}

\* The first snapshot, until the report on it has come.
FirstLook ==
  call.pc \in Scanning =>
    /\ ~call.again
    /\ call.file.data \notin Secret
    /\ call.pc = "judge" =>
         /\ Clean(call.report) => Harmless(call.file.data)
         /\ Named \subseteq held

\* The second one.
SecondLook ==
  /\ call.pc = "deliver" => call.again
  /\ call.again =>
       /\ Clean(call.report) /\ Harmless(call.first.data)
       /\ call.first.data \notin Secret \cup Binary
       /\ Named \subseteq held
       /\ call.pc \in Snapshotted => call.file.data \in held

NoEarlyAnswer == call # Idle => answer.kind = "none"

ReaderInv ==
  /\ Shaped
  /\ Stamped
  /\ InHand
  /\ Connected
  /\ FirstLook
  /\ SecondLook
  /\ NoEarlyAnswer
  /\ DeliversWhatWasScanned

\* Nothing is in hand, connected or told when the reader starts.
LEMMA ReaderInvInit == Init => ReaderInv
BY DEF Init, ReaderInv, Shaped, Stamped, InHand, Connected, FirstLook, SecondLook, NoEarlyAnswer,
       DeliversWhatWasScanned, Idle, NoAnswer, NoFile, Snapshotted, Comparing, Scanning

\* A clean report is on an output that is valid, finished and without findings.
LEMMA CleanIsHarmless ==
  ASSUME NEW c, NEW p, Clean(Report(OutputOf[c], p))
  PROVE  Harmless(c)
BY DEF Clean, Report, Verdict, Incomplete, Accepted, BrokenOff, Valid, Reviewed, PolicyStatus,
       Harmless
-----------------------------------------------------------------------------
\* A change on disk adds to what was there, and takes a new time stamp.
LEMMA DiskKeeps ==
  ASSUME ReaderInv, DiskChanges,
         Stamped', \A i \in Inodes : node'[i] = node[i] \/ node'[i].stamp = edits + 1
  PROVE  ReaderInv'
<1> USE DEF DiskChanges, service, session
<1>1. held \cup Named' \subseteq held' /\ call' = call /\ answer' = answer /\ told' = told /\ conn' = conn
  OBVIOUS
<1>2. Shaped' /\ Connected' /\ NoEarlyAnswer'
  BY <1>1 DEF ReaderInv, Shaped, Connected, NoEarlyAnswer
<1>3. InHand'
  BY <1>1 DEF ReaderInv, InHand, Stamped
<1>4. FirstLook' /\ SecondLook'
  BY <1>1 DEF ReaderInv, FirstLook, SecondLook, Harmless
<1>5. DeliversWhatWasScanned'
  BY <1>1 DEF ReaderInv, DeliversWhatWasScanned, Harmless
<1> QED BY <1>2, <1>3, <1>4, <1>5 DEF ReaderInv

LEMMA WriteKeeps ==
  ASSUME ReaderInv, NEW i \in Inodes, NEW c \in Contents \ {Torn}, Write(i, c)
  PROVE  ReaderInv'
<1>1. Stamped' /\ \A j \in Inodes : node'[j] = node[j] \/ node'[j].stamp = edits + 1
  BY DEF ReaderInv, Stamped, Write, DiskChanges
<1> QED BY <1>1, DiskKeeps DEF Write

LEMMA MoveKeeps ==
  ASSUME ReaderInv, MoveRoot \/ \E target \in Inodes \cup {"none"} : Rename(target)
  PROVE  ReaderInv'
<1>1. DiskChanges /\ node' = node
  BY DEF MoveRoot, Rename
<1>2. Stamped'
  BY <1>1 DEF ReaderInv, Stamped, DiskChanges
<1> QED BY <1>1, <1>2, DiskKeeps

\* Changes of the service and of the session between calls.
LEMMA AroundKeeps ==
  ASSUME ReaderInv,
         \/ \E p \in {"service", "other", "none"} : ChangePeer(p)
         \/ \E t \in Thresholds : ChangePolicy(t)
         \/ Tick \/ Close \/ Initialized \/ UNCHANGED vars
  PROVE  ReaderInv'
<1>1. /\ UNCHANGED <<disk, told, call, answer, held>>
      /\ conn' = conn \/ (conn # "none" /\ conn' = "dead")
  BY DEF ChangePeer, ChangePolicy, Tick, Close, Initialized, vars, session, service, disk
<1>2. Named' = Named
  BY <1>1 DEF Named, disk
<1>3. Shaped' /\ Stamped' /\ InHand'
  BY <1>1 DEF ReaderInv, Shaped, Stamped, InHand, disk
<1>4. Connected' /\ NoEarlyAnswer'
  BY <1>1 DEF ReaderInv, Connected, NoEarlyAnswer
<1>5. FirstLook' /\ SecondLook' /\ DeliversWhatWasScanned'
  BY <1>1, <1>2 DEF ReaderInv, FirstLook, SecondLook, DeliversWhatWasScanned, Harmless
<1> QED BY <1>3, <1>4, <1>5 DEF ReaderInv

\* A request is admitted between calls, and a call begins without a file.
LEMMA RequestKeeps ==
  ASSUME ReaderInv,
         Initialize \/ OtherRequest \/ \E tool \in {"scan", "read"} : ToolCall(tool)
  PROVE  ReaderInv'
<1>1. /\ call = Idle /\ answer' = NoAnswer
      /\ UNCHANGED <<disk, conn, told, held>>
      /\ \/ call' = Idle
         \/ \E tool \in {"scan", "read"} : call' = [Idle EXCEPT !.pc = "open", !.tool = tool]
  BY DEF Initialize, OtherRequest, ToolCall, Admitted, Listening, service
<1>2. /\ call'.pc \in {"idle", "open"} /\ ~call'.again /\ call'.file = NoFile
      /\ Shaped'
  <2>1. CASE call' = Idle
    BY <2>1 DEF Idle, Shaped, NoFile
  <2>2. ASSUME NEW tool \in {"scan", "read"}, call' = [Idle EXCEPT !.pc = "open", !.tool = tool]
        PROVE  /\ call'.pc \in {"idle", "open"} /\ ~call'.again /\ call'.file = NoFile
               /\ Shaped'
    <3>1. call' = [pc |-> "open", tool |-> tool, again |-> FALSE, file |-> NoFile,
                   first |-> NoFile, report |-> NoReport]
      BY <2>2 DEF Idle
    <3> QED BY <3>1 DEF Shaped, NoFile
  <2> QED BY <1>1, <2>1, <2>2
<1>3. Stamped' /\ InHand' /\ Connected' /\ FirstLook' /\ SecondLook'
  BY <1>1, <1>2 DEF ReaderInv, Stamped, InHand, Connected, FirstLook, SecondLook, disk,
                    Comparing, Snapshotted, Scanning
<1>4. NoEarlyAnswer' /\ DeliversWhatWasScanned'
  BY <1>1 DEF NoEarlyAnswer, DeliversWhatWasScanned, NoAnswer
<1> QED BY <1>2, <1>3, <1>4 DEF ReaderInv
-----------------------------------------------------------------------------
\* A call that is refused leaves nothing.
LEMMA RefuseKeeps ==
  ASSUME ReaderInv, Refuse
  PROVE  ReaderInv'
<1> USE DEF Refuse, disk
<1>1. Shaped' /\ call'.pc = "idle" /\ ~call'.again
  BY DEF Shaped, Idle, NoFile
<1>2. Stamped' /\ InHand' /\ Connected' /\ FirstLook' /\ SecondLook'
  BY <1>1 DEF ReaderInv, Stamped, InHand, Connected, FirstLook, SecondLook, Comparing,
              Snapshotted, Scanning
<1>3. NoEarlyAnswer' /\ DeliversWhatWasScanned'
  BY DEF ReaderInv, NoEarlyAnswer, DeliversWhatWasScanned, Harmless
<1> QED BY <1>1, <1>2, <1>3 DEF ReaderInv

\* What a call is that has gone on to another phase.
LEMMA PhaseShaped ==
  ASSUME Shaped, NEW p \in {"open", "file"} \cup Snapshotted \cup Scanning,
         call' = [call EXCEPT !.pc = p]
  PROVE  /\ Shaped'
         /\ call'.pc = p /\ call'.again = call.again /\ call'.file = call.file
         /\ call'.first = call.first /\ call'.report = call.report
<1>1. call' = [pc |-> p, tool |-> call.tool, again |-> call.again, file |-> call.file,
               first |-> call.first, report |-> call.report]
  BY DEF Shaped
<1>2. p # "idle"
  BY DEF Snapshotted, Comparing, Scanning
<1> QED BY <1>1, <1>2 DEF Shaped

\* A call that goes on with what it has.
LEMMA PhaseKeeps ==
  ASSUME ReaderInv, call.pc # "idle",
         NEW p \in {"open", "file"} \cup Snapshotted \cup Scanning,
         call' = [call EXCEPT !.pc = p],
         UNCHANGED <<disk, answer, held>>,
         p \in Comparing => call.pc \in Comparing,
         p \in Snapshotted => call.pc \in Snapshotted,
         p = "deliver" => call.again,
         p \in {"post", "report"} => conn' \in {"service", "dead"},
         told' \subseteq {"service"},
         p \in Scanning => ~call.again /\ call.file.data \notin Secret /\ p # "judge"
  PROVE  ReaderInv'
<1>1. /\ Shaped' /\ call'.pc = p /\ call'.again = call.again /\ call'.file = call.file
      /\ call'.first = call.first /\ call'.report = call.report
  BY PhaseShaped DEF ReaderInv
<1>2. Named' = Named
  BY DEF Named, disk
<1>3. Stamped' /\ InHand' /\ Connected'
  BY <1>1 DEF ReaderInv, Stamped, InHand, Connected, disk
<1>4. FirstLook' /\ SecondLook'
  BY <1>1, <1>2 DEF ReaderInv, FirstLook, SecondLook, Harmless
<1>5. NoEarlyAnswer' /\ DeliversWhatWasScanned'
  BY DEF ReaderInv, NoEarlyAnswer, DeliversWhatWasScanned, Harmless, Idle
<1> QED BY <1>1, <1>3, <1>4, <1>5 DEF ReaderInv

\* The file in hand is what the path leads to.
LEMMA ReadsKeeps ==
  ASSUME ReaderInv, SnapshotReads
  PROVE  ReaderInv'
<1>1. CASE Refuse
  BY <1>1, RefuseKeeps
<1>2. CASE ~Refuse
  <2>1. /\ entry \in Inodes
        /\ call' = [call EXCEPT !.pc = "read",
                                !.file = [inode |-> entry, stamp |-> node[entry].stamp,
                                          data |-> node[entry].content]]
        /\ UNCHANGED <<disk, conn, told, answer, held>>
        /\ call.pc = "file"
    BY <1>2 DEF SnapshotReads, Proceed, At
  <2>2. call' = [pc |-> "read", tool |-> call.tool, again |-> call.again,
                 file |-> [inode |-> entry, stamp |-> node[entry].stamp,
                           data |-> node[entry].content],
                 first |-> call.first, report |-> call.report]
    BY <2>1 DEF ReaderInv, Shaped
  <2>3. Shaped'
    BY <2>2 DEF ReaderInv, Shaped, Snapshotted, Comparing
  <2>4. Named' = Named /\ Named = {node[entry].content}
    BY <2>1 DEF Named, disk
  <2>5. Stamped' /\ InHand'
    BY <2>1, <2>2 DEF ReaderInv, Stamped, InHand, disk
  <2>6. Connected' /\ FirstLook'
    BY <2>1, <2>2 DEF ReaderInv, Connected, FirstLook, Scanning
  <2>7. SecondLook'
    BY <2>1, <2>2, <2>4 DEF ReaderInv, SecondLook, Harmless
  <2>8. NoEarlyAnswer' /\ DeliversWhatWasScanned'
    BY <2>1 DEF ReaderInv, NoEarlyAnswer, DeliversWhatWasScanned, Harmless, Idle
  <2> QED BY <2>3, <2>5, <2>6, <2>7, <2>8 DEF ReaderInv
<1> QED BY <1>1, <1>2

\* A file that kept its time stamp is not torn: what is in hand stays as it was.
LEMMA ReadsOnKeeps ==
  ASSUME ReaderInv, SnapshotReadsOn
  PROVE  ReaderInv'
<1>1. CASE Refuse
  BY <1>1, RefuseKeeps
<1>2. CASE ~Refuse
  <2> DEFINE f == node[call.file.inode]
  <2>1. /\ f.stamp = call.file.stamp
        /\ call' = [call EXCEPT !.pc = "compare",
                                !.file.data = IF f.content = @ THEN @ ELSE Torn]
        /\ UNCHANGED <<disk, conn, told, answer, held>>
        /\ call.pc = "read"
    BY <1>2 DEF SnapshotReadsOn, Proceed, At
  <2>2. f.content = call.file.data
    BY <2>1 DEF ReaderInv, InHand, Comparing
  <2>3. call' = [pc |-> "compare", tool |-> call.tool, again |-> call.again, file |-> call.file,
                 first |-> call.first, report |-> call.report]
    <3>1. call' = [call EXCEPT !.pc = "compare", !.file.data = call.file.data]
      BY <2>1, <2>2
    <3>2. [call.file EXCEPT !.data = call.file.data] = call.file
      BY DEF ReaderInv, Shaped
    <3> QED BY <3>1, <3>2 DEF ReaderInv, Shaped
  <2>4. Shaped'
    BY <2>3 DEF ReaderInv, Shaped, Snapshotted, Comparing
  <2>a. /\ call'.pc = "compare" /\ call'.again = call.again /\ call'.file = call.file
        /\ call'.first = call.first /\ call'.report = call.report
    BY <2>3
  <2>5. Named' = Named
    BY <2>1 DEF Named, disk
  <2>6. Stamped' /\ InHand'
    BY <2>1, <2>a DEF ReaderInv, Stamped, InHand, disk, Comparing
  <2>7. Connected' /\ FirstLook'
    BY <2>1, <2>3 DEF ReaderInv, Connected, FirstLook, Scanning
  <2>8. SecondLook'
    BY <2>1, <2>a, <2>5 DEF ReaderInv, SecondLook, Harmless, Snapshotted, Comparing
  <2>9. NoEarlyAnswer' /\ DeliversWhatWasScanned'
    BY <2>1 DEF ReaderInv, NoEarlyAnswer, DeliversWhatWasScanned, Harmless, Idle
  <2> QED BY <2>4, <2>6, <2>7, <2>8, <2>9 DEF ReaderInv
<1> QED BY <1>1, <1>2

\* Opening, comparing and resolving take the call on with the same file.
LEMMA SnapshotKeeps ==
  ASSUME ReaderInv, SnapshotOpens \/ SnapshotCompares \/ SnapshotResolves
  PROVE  ReaderInv'
<1> USE DEF At, Snapshotted, Comparing, Scanning
<1>1. CASE Refuse
  BY <1>1, RefuseKeeps
<1>2. CASE ~Refuse
  <2>1. told \subseteq {"service"}
    BY DEF ReaderInv, Connected
  <2>2. CASE SnapshotOpens
    <3>1. call' = [call EXCEPT !.pc = "file"] /\ UNCHANGED <<disk, answer, held, told, conn>>
      BY <1>2, <2>2 DEF SnapshotOpens, Proceed
    <3> QED BY <3>1, <2>1, <2>2, PhaseKeeps DEF SnapshotOpens
  <2>3. CASE SnapshotCompares
    <3>1. call' = [call EXCEPT !.pc = "resolve"] /\ UNCHANGED <<disk, answer, held, told, conn>>
      BY <1>2, <2>3 DEF SnapshotCompares, Proceed
    <3> QED BY <3>1, <2>1, <2>3, PhaseKeeps DEF SnapshotCompares
  <2>4. CASE SnapshotResolves
    <3>1. /\ call' = [call EXCEPT !.pc = IF call.again THEN "deliver" ELSE "connect"]
          /\ UNCHANGED <<disk, answer, held, told, conn>>
          /\ call.file.data \notin Secret
      BY <1>2, <2>4 DEF SnapshotResolves, Proceed
    <3>2. CASE call.again
      <4>1. call' = [call EXCEPT !.pc = "deliver"]
        BY <3>1, <3>2
      <4> QED BY <4>1, <3>1, <2>1, <2>4, PhaseKeeps DEF SnapshotResolves
    <3>3. CASE ~call.again
      <4>1. call' = [call EXCEPT !.pc = "connect"]
        BY <3>1, <3>3
      <4> QED BY <4>1, <3>1, <3>3, <2>1, <2>4, PhaseKeeps DEF SnapshotResolves
    <3> QED BY <3>2, <3>3
  <2> QED BY <2>2, <2>3, <2>4
<1> QED BY <1>1, <1>2

\* The token goes only to whoever has proven to know it.
LEMMA ScanKeeps ==
  ASSUME ReaderInv, ScanConnects \/ ScanProves \/ ScanPosts
  PROVE  ReaderInv'
<1> USE DEF At, Snapshotted, Comparing, Scanning
<1>1. CASE Refuse
  BY <1>1, RefuseKeeps
<1>2. CASE ~Refuse
  <2>1. told \subseteq {"service"}
    BY DEF ReaderInv, Connected
  <2>2. ~call.again /\ call.file.data \notin Secret /\ call.pc \in Scanning
    BY DEF ReaderInv, FirstLook, ScanConnects, ScanProves, ScanPosts
  <2>3. CASE ScanConnects
    <3>1. call' = [call EXCEPT !.pc = "prove"] /\ UNCHANGED <<disk, answer, held, told>>
      BY <1>2, <2>3 DEF ScanConnects
    <3> QED BY <3>1, <2>1, <2>2, PhaseKeeps
  <2>4. CASE ScanProves
    <3>1. /\ call' = [call EXCEPT !.pc = "post"] /\ UNCHANGED <<disk, answer, held, told, conn>>
          /\ conn = "service"
      BY <1>2, <2>4 DEF ScanProves, Proceed
    <3> QED BY <3>1, <2>1, <2>2, PhaseKeeps
  <2>5. CASE ScanPosts
    <3>1. /\ call' = [call EXCEPT !.pc = "report"] /\ UNCHANGED <<disk, answer, held, conn>>
          /\ told' = told \cup {conn} /\ conn # "dead"
      BY <1>2, <2>5 DEF ScanPosts
    <3>2. conn = "service"
      BY <3>1, <2>5 DEF ReaderInv, Connected, ScanPosts
    <3> QED BY <3>1, <3>2, <2>1, <2>2, PhaseKeeps
  <2> QED BY <2>3, <2>4, <2>5
<1> QED BY <1>1, <1>2

\* A report is on the bytes in hand, and what the path leads to is noted with it.
LEMMA ReportKeeps ==
  ASSUME ReaderInv, ReportArrives
  PROVE  ReaderInv'
<1>1. CASE Refuse
  BY <1>1, RefuseKeeps
<1>2. CASE ~Refuse
  <2>1. /\ call' = [call EXCEPT !.pc = "judge",
                                !.report = Report(OutputOf[call.file.data], policy)]
        /\ conn' = "none" /\ held' = Named
        /\ UNCHANGED <<disk, told, answer>>
        /\ call.pc = "report"
    BY <1>2 DEF ReportArrives, At
  <2>2. call' = [pc |-> "judge", tool |-> call.tool, again |-> call.again, file |-> call.file,
                 first |-> call.first, report |-> Report(OutputOf[call.file.data], policy)]
    BY <2>1 DEF ReaderInv, Shaped
  <2>3. /\ call'.pc = "judge" /\ call'.again = call.again /\ call'.file = call.file
        /\ call'.report = Report(OutputOf[call.file.data], policy)
        /\ Shaped'
    BY <2>2 DEF ReaderInv, Shaped, Scanning
  <2>4. ~call.again /\ call.file.data \notin Secret
    BY <2>1 DEF ReaderInv, FirstLook, Scanning
  <2>5. Clean(Report(OutputOf[call.file.data], policy)) => Harmless(call.file.data)
    BY CleanIsHarmless
  <2>6. Named' = Named
    BY <2>1 DEF Named, disk
  <2>7. Stamped' /\ InHand' /\ Connected' /\ SecondLook'
    BY <2>1, <2>3, <2>4 DEF ReaderInv, Stamped, InHand, Connected, SecondLook, Comparing, disk
  <2>8. FirstLook'
    BY <2>1, <2>3, <2>4, <2>5, <2>6 DEF FirstLook, Harmless
  <2>9. NoEarlyAnswer' /\ DeliversWhatWasScanned'
    BY <2>1 DEF ReaderInv, NoEarlyAnswer, DeliversWhatWasScanned, Idle
  <2> QED BY <2>3, <2>7, <2>8, <2>9 DEF ReaderInv
<1> QED BY <1>1, <1>2

\* A clean report is kept, with the file it is on, for the second look.
LEMMA JudgeKeeps ==
  ASSUME ReaderInv, Judge
  PROVE  ReaderInv'
<1> USE DEF At
<1>1. CASE Refuse
  BY <1>1, RefuseKeeps
<1>2. CASE Answers(Summary)
  <2>1. call' = Idle /\ answer'.kind = "report" /\ UNCHANGED <<disk, conn, told, held>>
    BY <1>2 DEF Answers, Summary
  <2>2. Shaped' /\ call'.pc = "idle" /\ ~call'.again
    BY <2>1 DEF Shaped, Idle, NoFile
  <2>3. Stamped' /\ InHand' /\ Connected' /\ FirstLook' /\ SecondLook'
    BY <2>1, <2>2 DEF ReaderInv, Stamped, InHand, Connected, FirstLook, SecondLook, Comparing,
                      Snapshotted, Scanning, disk
  <2>4. NoEarlyAnswer' /\ DeliversWhatWasScanned'
    BY <2>1 DEF NoEarlyAnswer, DeliversWhatWasScanned
  <2> QED BY <2>2, <2>3, <2>4 DEF ReaderInv
<1>3. CASE ~Refuse /\ ~Answers(Summary)
  <2>1. /\ call' = [call EXCEPT !.pc = "open", !.again = TRUE, !.first = call.file]
        /\ UNCHANGED <<disk, conn, told, answer, held>>
        /\ Clean(call.report) /\ call.file.data \notin Binary /\ call.pc = "judge"
    BY <1>3 DEF Judge, Proceed
  <2>2. call' = [pc |-> "open", tool |-> call.tool, again |-> TRUE, file |-> call.file,
                 first |-> call.file, report |-> call.report]
    BY <2>1 DEF ReaderInv, Shaped
  <2>3. /\ call'.pc = "open" /\ call'.again /\ call'.first = call.file
        /\ call'.report = call.report
        /\ Shaped'
    BY <2>2 DEF ReaderInv, Shaped
  <2>4. Named' = Named
    BY <2>1 DEF Named, disk
  <2>5. Stamped' /\ InHand' /\ Connected' /\ FirstLook'
    BY <2>1, <2>3 DEF ReaderInv, Stamped, InHand, Connected, FirstLook, Comparing, Scanning, disk
  <2>6. SecondLook'
    BY <2>1, <2>3, <2>4 DEF ReaderInv, FirstLook, SecondLook, Scanning, Snapshotted, Comparing,
                            Harmless
  <2>7. NoEarlyAnswer' /\ DeliversWhatWasScanned'
    BY <2>1 DEF ReaderInv, NoEarlyAnswer, DeliversWhatWasScanned, Harmless, Idle
  <2> QED BY <2>3, <2>5, <2>6, <2>7 DEF ReaderInv
<1> QED BY <1>1, <1>2, <1>3

\* The text of the second look is what was scanned, and was there after the scan.
LEMMA DeliverKeeps ==
  ASSUME ReaderInv, Deliver
  PROVE  ReaderInv'
<1> USE DEF At
<1>1. CASE Refuse
  BY <1>1, RefuseKeeps
<1>2. CASE ~Refuse
  <2>1. /\ call.file = call.first /\ call.pc = "deliver"
        /\ call' = Idle /\ answer' = Text
        /\ UNCHANGED <<disk, conn, told, held>>
    BY <1>2 DEF Deliver, Answers
  <2>2. Shaped' /\ call'.pc = "idle" /\ ~call'.again
    BY <2>1 DEF Shaped, Idle, NoFile
  <2>3. Stamped' /\ InHand' /\ Connected' /\ FirstLook' /\ SecondLook'
    BY <2>1, <2>2 DEF ReaderInv, Stamped, InHand, Connected, FirstLook, SecondLook, Comparing,
                      Snapshotted, Scanning, disk
  <2>4. /\ Clean(call.report) /\ Harmless(call.file.data)
        /\ call.file.data \notin Secret \cup Binary /\ call.file.data \in held
    BY <2>1 DEF ReaderInv, SecondLook, Snapshotted
  <2>5. answer'.text = call.file.data /\ answer'.report = call.report /\ held' = held
    BY <2>1 DEF Text
  <2> QED BY <2>1, <2>2, <2>3, <2>4, <2>5
          DEF ReaderInv, NoEarlyAnswer, DeliversWhatWasScanned, Harmless
<1> QED BY <1>1, <1>2
-----------------------------------------------------------------------------
\* Every step keeps the invariant.
LEMMA ReaderInvStep == ReaderInv /\ [Next]_vars => ReaderInv'
<1> SUFFICES ASSUME ReaderInv, [Next]_vars PROVE ReaderInv'
  OBVIOUS
<1>1. ASSUME NEW i \in Inodes, NEW c \in Contents \ {Torn}, Write(i, c) PROVE ReaderInv'
  BY <1>1, WriteKeeps
<1>2. CASE MoveRoot \/ \E target \in Inodes \cup {"none"} : Rename(target)
  BY <1>2, MoveKeeps
<1>3. CASE \/ \E p \in {"service", "other", "none"} : ChangePeer(p)
           \/ \E t \in Thresholds : ChangePolicy(t)
           \/ Tick \/ Close \/ Initialized \/ UNCHANGED vars
  BY <1>3, AroundKeeps
<1>4. CASE Initialize \/ OtherRequest \/ \E tool \in {"scan", "read"} : ToolCall(tool)
  BY <1>4, RequestKeeps
<1>5. CASE CallStep
  BY <1>5, SnapshotKeeps, ReadsKeeps, ReadsOnKeeps, ScanKeeps, ReportKeeps, JudgeKeeps, DeliverKeeps
     DEF CallStep
<1> QED BY <1>1, <1>2, <1>3, <1>4, <1>5 DEF Next

\* The invariant holds in every state of every session.
THEOREM ReaderInvariant == Spec => []ReaderInv
BY ReaderInvInit, ReaderInvStep, PTL DEF Spec

\* Text that reaches a client was scanned as exactly these bytes, with a clean and
\* finished result, has no credentials in it, and was what the path led to after
\* the scan (GuardedReader.call).
THEOREM DeliveryIsScanned == Spec => []DeliversWhatWasScanned
<1>1. ReaderInv => DeliversWhatWasScanned
  BY DEF ReaderInv
<1> QED BY <1>1, ReaderInvariant, PTL

\* Only the service ever receives the token, whoever takes its port and whenever
\* (LocalScanner.scan, VerifiedLocalConnection).
THEOREM TokenIsKept == Spec => []TokenStaysLocal
<1>1. ReaderInv => TokenStaysLocal
  BY DEF ReaderInv, Connected, TokenStaysLocal
<1> QED BY <1>1, ReaderInvariant, PTL
-----------------------------------------------------------------------------
(* The rate limit.  What is remembered of the calls is the end of the list   *)
(* of all of them, and what is forgotten is over for good: the limit on what *)
(* is remembered spaces out all calls.                                       *)

Forgotten == Len(accepted) - Len(calls)

\* The clock does not go back.
InOrder ==
  /\ \A i \in DOMAIN accepted : accepted[i] <= now
  /\ \A i, j \in DOMAIN accepted : i <= j => accepted[i] <= accepted[j]

Remembered ==
  /\ Len(calls) <= Len(accepted)
  /\ \A k \in DOMAIN calls : calls[k] = accepted[Forgotten + k]
  /\ \A j \in 1..Forgotten : accepted[j] + Window < now

\* As many calls apart as the limit is more than a window apart.
Spaced ==
  \A i, j \in DOMAIN accepted : j >= i + RateLimit => accepted[j] > accepted[i] + Window

RateInv ==
  /\ now \in Nat /\ calls \in Seq(Nat) /\ accepted \in Seq(Nat)
  /\ InOrder
  /\ Remembered
  /\ Spaced

LEMMA LimitsAreNumbers == RateLimit \in Nat /\ Window \in Nat
BY ReaderAssumption

LEMMA RateInvInit == Init => RateInv
BY LimitsAreNumbers DEF Init, RateInv, InOrder, Remembered, Forgotten, Spaced

LEMMA RateUntouched ==
  ASSUME RateInv, UNCHANGED <<now, calls, accepted>>
  PROVE  RateInv'
BY DEF RateInv, InOrder, Remembered, Forgotten, Spaced

LEMMA TickKeepsRate ==
  ASSUME RateInv, Tick
  PROVE  RateInv'
<1>1. now' = now + 1 /\ UNCHANGED <<calls, accepted>>
  BY DEF Tick
<1>2. Forgotten' = Forgotten /\ \A i \in DOMAIN accepted : accepted[i] \in Nat
  BY <1>1 DEF RateInv, Forgotten
<1>3. InOrder'
  BY <1>1, <1>2 DEF RateInv, InOrder
<1>4. Remembered'
  <2>1. ASSUME NEW j \in 1..Forgotten
        PROVE  accepted[j] + Window < now + 1
    <3>1. j \in DOMAIN accepted /\ accepted[j] + Window < now
      BY DEF RateInv, Remembered, Forgotten
    <3>. QED  BY <3>1, <1>2, LimitsAreNumbers DEF RateInv
  <2>. QED  BY <1>1, <1>2, <2>1 DEF RateInv, Remembered
<1>. QED  BY <1>1, <1>3, <1>4 DEF RateInv, Spaced

\* Every set of natural numbers with an element has a least one.
LEMMA Least ==
  ASSUME NEW S \in SUBSET Nat, S # {}
  PROVE  \E x \in S : \A y \in S : x <= y
<1>. DEFINE R == {ss \in Nat \X Nat : ss[1] < ss[2]}
<1>1. IsWellFoundedOn(R, Nat)
  BY NatLessThanWellFounded DEF OpToRel
<1>2. \E x \in S : \A y \in S : ~(<<y, x>> \in R)
  <2>. HIDE DEF R
  <2>. QED  BY <1>1, WFMin
<1>3. PICK x \in S : \A y \in S : ~(<<y, x>> \in R)
  BY <1>2
<1>4. ASSUME NEW y \in S
      PROVE  x <= y
  <2>1. <<y, x>> \in Nat \X Nat
    OBVIOUS
  <2>. QED  BY <1>3, <2>1
<1>. QED  BY <1>4

\* The loop that forgets ends, at the first call that is not outlived or behind
\* the last one.
LEMMA OutlivedIsThere ==
  ASSUME NEW until \in Nat, calls \in Seq(Nat)
  PROVE  /\ Outlived(until) \in 0..Len(calls)
         /\ \A j \in 1..Outlived(until) : calls[j] + Window < until
<1>. DEFINE Stays == {k \in 0..Len(calls) : k < Len(calls) => calls[k + 1] + Window >= until}
            Goes(k) == /\ \A j \in 1..k : calls[j] + Window < until
                       /\ k < Len(calls) => calls[k + 1] + Window >= until
<1>1. Len(calls) \in Stays
  BY LimitsAreNumbers
<1>2. Stays \in SUBSET Nat /\ Stays # {}
  BY <1>1
<1>3. PICK k \in Stays : \A l \in Stays : k <= l
  <2>. HIDE DEF Stays
  <2>. QED  BY <1>2, Least
<1>4. k \in 0..Len(calls) /\ Len(calls) \in Nat
  BY <1>3
<1>5. ASSUME NEW j \in 1..k
      PROVE  calls[j] + Window < until
  <2>1. j - 1 \in 0..Len(calls) /\ ~(k <= j - 1)
    BY <1>4
  <2>2. j - 1 \notin Stays
    BY <1>3, <2>1
  <2>3. calls[j] \in Nat
    BY <1>4
  <2>. QED  BY <2>1, <2>2, <2>3, LimitsAreNumbers
<1>6. \E n \in 0..Len(calls) : Goes(n)
  BY <1>3, <1>5
<1>7. Outlived(until) = CHOOSE n \in 0..Len(calls) : Goes(n)
  BY DEF Outlived
<1>. QED  BY <1>6, <1>7

\* What is kept is the end of the list still, and the rest is outlived.
LEMMA KeptIsTheEnd ==
  ASSUME RateInv
  PROVE  /\ Recent \in Seq(Nat) /\ Len(Recent) <= Len(accepted)
         /\ \A k \in 1..Len(Recent) : Recent[k] = accepted[Len(accepted) - Len(Recent) + k]
         /\ \A j \in 1..(Len(accepted) - Len(Recent)) : accepted[j] + Window < now
<1>. DEFINE n == Outlived(now)
<1>1. n \in 0..Len(calls) /\ \A j \in 1..n : calls[j] + Window < now
  BY OutlivedIsThere DEF RateInv
<1>2. Recent = SubSeq(calls, n + 1, Len(calls))
  BY DEF Recent, Kept
<1>. HIDE DEF n
<1>3. /\ Recent \in Seq(Nat) /\ Len(Recent) = Len(calls) - n
      /\ \A k \in 1..Len(Recent) : Recent[k] = calls[n + k]
  BY <1>1, <1>2 DEF RateInv
<1>4. \A k \in 1..Len(calls) : calls[k] = accepted[Len(accepted) - Len(calls) + k]
  BY DEF RateInv, Remembered, Forgotten
<1>5. ASSUME NEW k \in 1..Len(Recent)
      PROVE  Recent[k] = accepted[Len(accepted) - Len(Recent) + k]
  <2>1. n + k \in 1..Len(calls)
    BY <1>1, <1>3 DEF RateInv
  <2>2. Len(accepted) - Len(calls) + (n + k) = Len(accepted) - Len(Recent) + k
    BY <1>1, <1>3 DEF RateInv
  <2>. QED  BY <1>3, <1>4, <2>1, <2>2
<1>6. ASSUME NEW j \in 1..(Len(accepted) - Len(Recent))
      PROVE  accepted[j] + Window < now
  <2>1. CASE j <= Len(accepted) - Len(calls)
    BY <2>1, <1>3 DEF RateInv, Remembered, Forgotten
  <2>2. CASE j > Len(accepted) - Len(calls)
    <3>1. j - (Len(accepted) - Len(calls)) \in 1..n
      BY <2>2, <1>1, <1>3 DEF RateInv
    <3>2. calls[j - (Len(accepted) - Len(calls))] = accepted[j]
      <4>1. j - (Len(accepted) - Len(calls)) \in 1..Len(calls)
        BY <3>1, <1>1 DEF RateInv
      <4>. QED  BY <1>4, <4>1, <3>1 DEF RateInv
    <3>. QED  BY <3>1, <3>2, <1>1
  <2>. QED  BY <2>1, <2>2 DEF RateInv
<1>. QED  BY <1>1, <1>3, <1>5, <1>6 DEF RateInv, Remembered

\* A call that is accepted comes more than a window after the one that is as many
\* calls before it as the limit: that one is forgotten.
LEMMA ToolCallKeepsRate ==
  ASSUME RateInv, NEW tool, ToolCall(tool)
  PROVE  RateInv'
<1>. DEFINE r == Len(Recent)
            a == Len(accepted)
<1>1. now' = now /\ now \in Nat /\ accepted \in Seq(Nat) /\ InOrder /\ Spaced
  BY DEF ToolCall, RateInv
<1>2. /\ Recent \in Seq(Nat) /\ Len(Recent) <= Len(accepted)
      /\ \A k \in 1..Len(Recent) : Recent[k] = accepted[Len(accepted) - Len(Recent) + k]
      /\ \A j \in 1..(Len(accepted) - Len(Recent)) : accepted[j] + Window < now
  BY KeptIsTheEnd
<1>3. CASE UNCHANGED <<calls, accepted>>
  BY <1>1, <1>3, RateUntouched
<1>4. CASE calls' = Recent /\ accepted' = accepted
  <2>1. Forgotten' = Len(accepted) - Len(Recent)
    BY <1>4 DEF Forgotten
  <2>2. Remembered'
    <3>1. DOMAIN calls' = 1..Len(Recent) /\ Len(calls') = Len(Recent) /\ accepted' = accepted
      BY <1>2, <1>4
    <3>2. \A k \in DOMAIN calls' : calls'[k] = accepted'[Forgotten' + k]
      BY <1>2, <1>4, <2>1, <3>1
    <3>3. \A j \in 1..Forgotten' : accepted'[j] + Window < now'
      BY <1>1, <1>2, <2>1, <3>1
    <3>. QED  BY <1>2, <3>1, <3>2, <3>3 DEF Remembered
  <2>. QED  BY <1>1, <1>2, <1>4, <2>2 DEF RateInv, InOrder, Spaced
<1>5. CASE /\ calls' = Append(Recent, now) /\ accepted' = Append(accepted, now)
           /\ Len(Recent) < RateLimit
  <2>. HIDE DEF r, a
  <2>1. /\ calls' \in Seq(Nat) /\ accepted' \in Seq(Nat)
        /\ Len(calls') = Len(Recent) + 1 /\ Len(accepted') = Len(accepted) + 1
    BY <1>1, <1>2, <1>5
  <2>2. /\ \A i \in 1..Len(accepted) : accepted'[i] = accepted[i]
        /\ accepted'[Len(accepted) + 1] = now
        /\ \A k \in 1..Len(Recent) : calls'[k] = Recent[k]
        /\ calls'[Len(Recent) + 1] = now
    BY <1>1, <1>2, <1>5
  <2>3. InOrder'
    <3>1. \A i \in 1..(Len(accepted) + 1) : accepted'[i] <= now
      BY <1>1, <2>2 DEF InOrder
    <3>2. \A i, j \in 1..(Len(accepted) + 1) : i <= j => accepted'[i] <= accepted'[j]
      BY <1>1, <2>2, <3>1 DEF InOrder
    <3>. QED  BY <1>1, <2>1, <3>1, <3>2 DEF InOrder
  <2>4. Remembered'
    <3>1. Forgotten' = Len(accepted) - Len(Recent)
      BY <2>1, <1>2, <1>1 DEF Forgotten
    <3>2. ASSUME NEW k \in 1..(Len(Recent) + 1)
          PROVE  calls'[k] = accepted'[Len(accepted) - Len(Recent) + k]
      <4>1. CASE k = Len(Recent) + 1
        BY <4>1, <2>2, <1>1, <1>2
      <4>2. CASE k \in 1..Len(Recent)
        <5>1. Len(accepted) - Len(Recent) + k \in 1..Len(accepted)
          BY <4>2, <1>1, <1>2
        <5>. QED  BY <4>2, <5>1, <2>2, <1>2
      <4>. QED  BY <4>1, <4>2, <1>2
    <3>3. ASSUME NEW j \in 1..(Len(accepted) - Len(Recent))
          PROVE  accepted'[j] + Window < now'
      <4>1. Len(Recent) \in Nat /\ Len(accepted) \in Nat
        BY <1>1, <1>2
      <4>2. j \in 1..Len(accepted)
        BY <4>1
      <4>3. accepted'[j] = accepted[j] /\ accepted[j] + Window < now
        BY <4>2, <1>2, <2>2
      <4>. QED  BY <4>3, <1>1
    <3>4. DOMAIN calls' = 1..(Len(Recent) + 1) /\ Len(calls') <= Len(accepted')
      BY <1>1, <1>2, <2>1
    <3>. QED  BY <3>1, <3>2, <3>3, <3>4 DEF Remembered
  <2>5. Spaced'
    <3>. SUFFICES ASSUME NEW i \in 1..(Len(accepted) + 1), NEW j \in 1..(Len(accepted) + 1),
                         j >= i + RateLimit
                  PROVE  accepted'[j] > accepted'[i] + Window
      BY <1>1, <2>1 DEF Spaced
    <3>1. CASE j \in 1..Len(accepted)
      <4>1. i \in 1..Len(accepted)
        BY <3>1, <1>1, LimitsAreNumbers
      <4>. QED  BY <3>1, <4>1, <2>2, <1>1 DEF Spaced
    <3>2. CASE j = Len(accepted) + 1
      <4>1. i \in 1..(Len(accepted) - Len(Recent))
        BY <3>2, <1>5, <1>1, <1>2, LimitsAreNumbers
      <4>2. accepted[i] + Window < now /\ accepted'[i] = accepted[i]
        BY <4>1, <1>2, <1>1, <2>2
      <4>. QED  BY <3>2, <4>2, <2>2, <1>1
    <3>. QED  BY <3>1, <3>2, <1>1
  <2>. QED  BY <1>1, <2>1, <2>3, <2>4, <2>5 DEF RateInv
<1>6. \/ UNCHANGED <<calls, accepted>>
      \/ calls' = Recent /\ accepted' = accepted
      \/ /\ calls' = Append(Recent, now) /\ accepted' = Append(accepted, now)
         /\ ~(Len(Recent) >= RateLimit)
  BY Zenon DEF ToolCall
<1>7. Len(Recent) >= RateLimit \/ Len(Recent) < RateLimit
  BY <1>2, LimitsAreNumbers
<1>. QED  BY <1>3, <1>4, <1>5, <1>6, <1>7

LEMMA RateInvStep == RateInv /\ [Next]_vars => RateInv'
<1>. SUFFICES ASSUME RateInv, [Next]_vars
              PROVE  RateInv'
  OBVIOUS
<1>1. CASE \E tool \in {"scan", "read"} : ToolCall(tool)
  BY <1>1, ToolCallKeepsRate
<1>2. CASE Tick
  BY <1>2, TickKeepsRate
<1>3. CASE \/ \E i \in Inodes, c \in Contents \ {Torn} : Write(i, c)
           \/ \E target \in Inodes \cup {"none"} : Rename(target)
           \/ MoveRoot
           \/ \E p \in {"service", "other", "none"} : ChangePeer(p)
           \/ \E t \in Thresholds : ChangePolicy(t)
           \/ Close \/ Initialized \/ Initialize \/ OtherRequest \/ UNCHANGED vars
  BY <1>3, RateUntouched
     DEF Write, Rename, MoveRoot, DiskChanges, ChangePeer, ChangePolicy, Close, Initialized,
         Initialize, OtherRequest, session, vars
<1>4. CASE CallStep
  BY <1>4, RateUntouched
     DEF CallStep, SnapshotOpens, SnapshotReads, SnapshotReadsOn, SnapshotCompares, SnapshotResolves,
         ScanConnects, ScanProves, ScanPosts, ReportArrives, Judge, Deliver, Proceed, Refuse, Answers,
         session
<1>. QED  BY <1>1, <1>2, <1>3, <1>4 DEF Next

\* What was accepted within a window of one of its calls fits between the first of
\* them and the one that is the limit later.
LEMMA SpacedMeansLimited ==
  ASSUME RateInv
  PROVE  CallsAreLimited
<1>. SUFFICES ASSUME NEW i \in DOMAIN accepted
              PROVE  Cardinality({j \in DOMAIN accepted :
                                    accepted[j] \in accepted[i]..(accepted[i] + Window)}) <= RateLimit
  BY DEF CallsAreLimited
<1>. DEFINE S == {j \in DOMAIN accepted : accepted[j] \in accepted[i]..(accepted[i] + Window)}
<1>1. \A j \in DOMAIN accepted : accepted[j] \in Nat /\ j \in Nat
  BY DEF RateInv
<1>2. i \in S /\ S \in SUBSET Nat
  BY <1>1, LimitsAreNumbers
<1>3. PICK m \in S : \A j \in S : m <= j
  <2>. HIDE DEF S
  <2>. QED  BY <1>2, Least
<1>4. ASSUME NEW j \in S
      PROVE  j \in m..(m + RateLimit - 1)
  <2>1. m <= j /\ m \in Nat /\ j \in Nat
    BY <1>2, <1>3
  <2>2. j < m + RateLimit
    <3>. SUFFICES ASSUME j >= m + RateLimit
                  PROVE  FALSE
      BY <2>1, LimitsAreNumbers
    <3>1. accepted[j] > accepted[m] + Window
      BY DEF RateInv, Spaced
    <3>. QED  BY <3>1, <1>1, LimitsAreNumbers
  <2>. QED  BY <2>1, <2>2, LimitsAreNumbers
<1>5. m \in Nat /\ RateLimit \in Nat
  BY <1>2, <1>3, LimitsAreNumbers
<1>6. IsFiniteSet(m..(m + RateLimit - 1)) /\ Cardinality(m..(m + RateLimit - 1)) = RateLimit
  <2>. DEFINE b == m + RateLimit - 1
  <2>1. m \in Int /\ b \in Int /\ (IF m > b THEN 0 ELSE b - m + 1) = RateLimit
    BY <1>5
  <2>. HIDE DEF b
  <2>2. IsFiniteSet(m..b) /\ Cardinality(m..b) = RateLimit
    BY <2>1, FS_Interval
  <2>. QED  BY <2>2 DEF b
<1>7. S \subseteq m..(m + RateLimit - 1)
  BY <1>4
<1>8. Cardinality(S) <= Cardinality(m..(m + RateLimit - 1))
  <2>. HIDE DEF S
  <2>. QED  BY <1>6, <1>7, FS_Subset
<1>. QED  BY <1>6, <1>8

THEOREM RateInvariant == Spec => []RateInv
BY RateInvInit, RateInvStep, PTL DEF Spec

\* However calls and the clock go on, no window of time has more calls in it than
\* the limit (mcp_server.py:309).
THEOREM RateIsLimited == Spec => []CallsAreLimited
BY RateInvariant, SpacedMeansLimited, PTL
=============================================================================
