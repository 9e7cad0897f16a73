---------------------------- MODULE WorkerProofs ----------------------------
(***************************************************************************)
(* Proofs about a worker process and about what it does with a document:   *)
(* modules PackageSources, WorkerProcess, Scanner and HtmlText, for any    *)
(* files, documents, tags and limits; and, at the end, about SemanticDiff, *)
(* the other inspection of content, for any values.                        *)
(*                                                                         *)
(* That a published inventory is the package as it was at one instant      *)
(* rests on an order of time stamps: what was seen in the first pass, what *)
(* was read, what was there between the passes, and what was seen in the   *)
(* second one.  That a result is whole rests on where the data is at any   *)
(* moment: read by the one side, or still in the pipe.                     *)
(*                                                                         *)
(* The invariant of the scanner follows the scan: what is extracted so     *)
(* far, the segments that are searched through, and of the one in hand,    *)
(* that what was seen of it is searched already or queued.                 *)
(*                                                                         *)
(* That the text of HTML is what is visible in it rests on what a          *)
(* rendering becomes when it grows at its end: only a space that waits     *)
(* there can change (TextGrows), and whether one waits, and whether the    *)
(* line is empty, is what the two flags of the transformation say.         *)
(*                                                                         *)
(* That a diff is complete rests on the paths named and the paths still to *)
(* be visited: they lead away from each other, so none is named twice, and *)
(* each path that changed has one of them on its way.                      *)
(***************************************************************************)
EXTENDS WorkerProcess, Scanner, HtmlText, SemanticDiff, TLAPS, FiniteSetTheorems,
        SequenceTheorems, WellFoundedInduction

Known == Contents \cup {"absent", Torn}

SourcesType ==
  /\ file \in [Files -> [content : Known, stamp : Nat \ {0}]]
  /\ turn \in [Files -> [content : Known, stamp : Nat]]
  /\ hash \in [Files -> [content : Known, stamp : Nat]]
  /\ dir \in [Dirs -> Nat \ {0}]
  /\ fileSeen \in [Passes -> [Files -> Nat]]
  /\ dirSeen \in [Passes -> [Dirs -> Nat]]
  /\ clock \in Nat
  /\ pass \in 0..3

\* Time stamps never exceed the clock, and directories only move on.
Stamped ==
  /\ \A f \in Files : fileSeen[1][f] <= file[f].stamp /\ file[f].stamp <= clock
  /\ \A d \in Dirs : /\ dir[d] <= clock
                     /\ dirSeen[1][d] <= dir[d] /\ dirSeen[2][d] <= dir[d]

\* A file that was read was seen before, and is as it was read unless its time
\* stamp has moved on.
Hashed(f) ==
  hash[f] # NotRead =>
    /\ 0 < fileSeen[1][f] /\ fileSeen[1][f] <= hash[f].stamp
    /\ hash[f].stamp <= file[f].stamp
    /\ hash[f].stamp = file[f].stamp => hash[f].content = file[f].content
    /\ hash[f].content # "absent"

\* In the first pass, a file that was absent when it was looked at can only have
\* appeared with a change of its directory.
FirstPass(f) ==
  pass = 1 =>
    /\ hash[f] # NotRead => f \in looked
    /\ f \in looked => dirSeen[1][DirOf[f]] # 0
    /\ f \in looked /\ fileSeen[1][f] = 0 /\ Present(f) => dirSeen[1][DirOf[f]] < dir[DirOf[f]]
    /\ fileSeen[2][f] = 0 /\ dirSeen[2][DirOf[f]] = 0

\* So too for those that were there between the passes, and for the second pass.
SecondLook(f) ==
  pass = 2 =>
    /\ turn[f].stamp <= file[f].stamp
    /\ fileSeen[1][f] # 0 => hash[f] # NotRead
    /\ hash[f] # NotRead =>
         /\ hash[f].stamp <= turn[f].stamp
         /\ hash[f].stamp = turn[f].stamp => hash[f].content = turn[f].content
    /\ fileSeen[1][f] = 0 /\ turn[f].content # "absent" =>
         /\ dirSeen[1][DirOf[f]] < dir[DirOf[f]]
         /\ dirSeen[2][DirOf[f]] # 0 => dirSeen[1][DirOf[f]] < dirSeen[2][DirOf[f]]
    /\ fileSeen[2][f] # 0 => turn[f].stamp <= fileSeen[2][f]

\* A directory is finished with when all of its files are.
ShutDone ==
  Running =>
    \A f \in Files : DirOf[f] \in shut =>
      /\ dirSeen[pass][DirOf[f]] # 0 /\ f \in looked
      /\ pass = 1 /\ fileSeen[1][f] # 0 => hash[f] # NotRead

SourcesInv ==
  /\ SourcesType
  /\ Stamped
  /\ \A f \in Files : Hashed(f) /\ FirstPass(f) /\ SecondLook(f)
  /\ ShutDone
  /\ SourcesWereThere

USE SourcesAssumption

\* The first pass has seen nothing yet.
LEMMA SourcesInvInit == SourcesInit => SourcesInv
<1> SUFFICES ASSUME SourcesInit PROVE SourcesInv
  OBVIOUS
<1> USE DEF SourcesInit, NotRead, Passes
<1>1. SourcesType /\ Stamped
  BY DEF SourcesType, Stamped, Known
<1>2. ASSUME NEW f \in Files PROVE Hashed(f) /\ FirstPass(f) /\ SecondLook(f)
  <2>1. /\ hash[f] = NotRead /\ f \notin looked /\ pass = 1 /\ DirOf[f] \in Dirs
        /\ fileSeen[2][f] = 0 /\ dirSeen[2][DirOf[f]] = 0
    OBVIOUS
  <2> QED BY <2>1 DEF Hashed, FirstPass, SecondLook
<1>3. ShutDone /\ SourcesWereThere
  BY DEF ShutDone, SourcesWereThere
<1> QED BY <1>1, <1>2, <1>3 DEF SourcesInv

\* A change takes a new time stamp, and a new file changes its directory.
LEMMA ChangeKeeps ==
  ASSUME SourcesInv, NEW g \in Files, NEW c \in Contents \cup {"absent"}, Change(g, c)
  PROVE  SourcesInv'
<1> USE DEF Change, collected, NotRead, Passes
<1>1. /\ file' = [file EXCEPT ![g] = [content |-> c, stamp |-> clock + 1]]
      /\ clock' = clock + 1
      /\ UNCHANGED <<pass, dirSeen, fileSeen, looked, shut, reading, hash, turn>>
  OBVIOUS
<1>2. /\ \A d \in Dirs : dir'[d] = dir[d] \/ dir'[d] = clock + 1
      /\ dir'[DirOf[g]] = clock + 1 \/ Present(g)
      /\ dir' \in [Dirs -> Nat \ {0}]
  BY DEF SourcesInv, SourcesType
<1>3. SourcesType'
  BY <1>1, <1>2 DEF SourcesInv, SourcesType, Known
<1>4. ASSUME NEW f \in Files
      PROVE  /\ f # g => file'[f] = file[f]
             /\ f = g => file'[f].stamp = clock + 1 /\ file'[f].content = c
             /\ file[f].stamp <= clock /\ file'[f].stamp >= file[f].stamp
             /\ file'[f].stamp <= clock + 1
             /\ dir[DirOf[f]] <= dir'[DirOf[f]]
  BY <1>1, <1>2 DEF SourcesInv, SourcesType, Stamped
<1>9. Stamped'
  BY <1>1, <1>2, <1>3, <1>4 DEF SourcesInv, SourcesType, Stamped
<1>5. ASSUME NEW f \in Files PROVE Hashed(f)'
  BY <1>1, <1>4 DEF SourcesInv, SourcesType, Hashed
<1>6. ASSUME NEW f \in Files PROVE FirstPass(f)'
  <2>1. dirSeen[1][DirOf[f]] <= dir[DirOf[f]] /\ dir[DirOf[f]] <= clock
    BY DEF SourcesInv, Stamped
  <2>2. FirstPass(f)
    BY DEF SourcesInv
  <2>3. dirSeen \in [Passes -> [Dirs -> Nat]] /\ clock \in Nat /\ dir \in [Dirs -> Nat \ {0}]
    BY DEF SourcesInv, SourcesType
  <2>4. Present(f)' => Present(f) \/ dir'[DirOf[f]] = clock + 1
    BY <1>2, <1>4 DEF Present
  <2> QED BY <1>1, <1>2, <1>4, <2>1, <2>2, <2>3, <2>4 DEF FirstPass
<1>7. ASSUME NEW f \in Files PROVE SecondLook(f)'
  <2>1. SecondLook(f) /\ dirSeen \in [Passes -> [Dirs -> Nat]] /\ dir \in [Dirs -> Nat \ {0}]
        /\ dir' \in [Dirs -> Nat \ {0}] /\ turn[f].stamp \in Nat /\ file[f].stamp \in Nat
        /\ file'[f].stamp \in Nat
    BY <1>2, <1>3 DEF SourcesInv, SourcesType
  <2> QED BY <1>1, <1>4, <2>1 DEF SecondLook
<1>8. ShutDone' /\ SourcesWereThere'
  BY <1>1 DEF SourcesInv, ShutDone, SourcesWereThere, Running
<1> QED BY <1>3, <1>5, <1>6, <1>7, <1>8, <1>9 DEF SourcesInv

\* A directory is opened: what the pass has seen of it is what it is now.
LEMMA OpenDirKeeps ==
  ASSUME SourcesInv, NEW d \in Dirs, OpenDir(d)
  PROVE  SourcesInv'
<1> USE DEF OpenDir, disk, NotRead, Passes, Running
<1>1. /\ pass \in {1, 2} /\ dirSeen[pass][d] = 0
      /\ dirSeen' = [dirSeen EXCEPT ![pass][d] = dir[d]]
      /\ UNCHANGED <<file, dir, clock, pass, fileSeen, looked, shut, hash, turn>>
  BY DEF SourcesInv, SourcesType
<1>2. /\ dirSeen' \in [Passes -> [Dirs -> Nat]]
      /\ \A q \in Passes, e \in Dirs :
           dirSeen'[q][e] = IF q = pass /\ e = d THEN dir[d] ELSE dirSeen[q][e]
  BY <1>1 DEF SourcesInv, SourcesType
<1>3. SourcesType' /\ Stamped'
  BY <1>1, <1>2 DEF SourcesInv, SourcesType, Stamped
<1>4. ASSUME NEW f \in Files PROVE Hashed(f)'
  BY <1>1 DEF SourcesInv, Hashed
<1>5. ASSUME NEW f \in Files PROVE FirstPass(f)' /\ SecondLook(f)'
  <2>1. FirstPass(f) /\ SecondLook(f) /\ DirOf[f] \in Dirs /\ dir[d] # 0
    BY DEF SourcesInv, SourcesType
  <2>2. dirSeen[1][DirOf[f]] # 0 /\ pass = 1 => DirOf[f] # d
    BY <1>1
  <2>3. pass = 1 => dirSeen'[2][DirOf[f]] = dirSeen[2][DirOf[f]]
    BY <1>2, <2>1
  <2>4. pass = 2 => /\ dirSeen'[1][DirOf[f]] = dirSeen[1][DirOf[f]]
                    /\ \/ dirSeen'[2][DirOf[f]] = dirSeen[2][DirOf[f]]
                       \/ dirSeen'[2][DirOf[f]] = dir[DirOf[f]]
    BY <1>2, <2>1
  <2>5. pass = 1 /\ dirSeen[1][DirOf[f]] # 0 => dirSeen'[1][DirOf[f]] = dirSeen[1][DirOf[f]]
    BY <1>2, <2>1, <2>2
  <2>6. FirstPass(f)'
    BY <1>1, <2>1, <2>3, <2>5 DEF FirstPass, Present
  <2>7. SecondLook(f)'
    BY <1>1, <2>1, <2>4 DEF SecondLook
  <2> QED BY <2>6, <2>7
<1>6. ShutDone' /\ SourcesWereThere'
  <2>1. SourcesWereThere'
    BY <1>1 DEF SourcesInv, SourcesWereThere
  <2>2. ASSUME NEW f \in Files, DirOf[f] \in shut
        PROVE  dirSeen'[pass][DirOf[f]] # 0
    BY <1>1, <1>2, <2>2 DEF SourcesInv, SourcesType, ShutDone
  <2> QED BY <1>1, <2>1, <2>2 DEF SourcesInv, ShutDone
<1> QED BY <1>3, <1>4, <1>5, <1>6 DEF SourcesInv

\* The entry of a file is looked at once in each pass, before the file is read.
LEMMA LookKeeps ==
  ASSUME SourcesInv, NEW g \in Files, Look(g)
  PROVE  SourcesInv'
<1> USE DEF Look, disk, NotRead, Passes, Running
<1>1. /\ pass \in {1, 2} /\ g \notin looked /\ looked' = looked \cup {g}
      /\ dirSeen[pass][DirOf[g]] # 0
      /\ UNCHANGED <<file, dir, clock, pass, dirSeen, shut, hash, turn>>
  BY DEF SourcesInv, SourcesType
<1>2. /\ fileSeen' \in [Passes -> [Files -> Nat]]
      /\ \A q \in Passes, f \in Files :
           fileSeen'[q][f] = IF q = pass /\ f = g THEN IF Present(g) THEN file[g].stamp ELSE 0
                                             ELSE fileSeen[q][f]
  BY <1>1 DEF SourcesInv, SourcesType
<1>3. SourcesType' /\ Stamped'
  BY <1>1, <1>2 DEF SourcesInv, SourcesType, Stamped
<1>4. pass = 1 => hash[g] = NotRead
  BY <1>1 DEF SourcesInv, FirstPass
<1>5. ASSUME NEW f \in Files PROVE Hashed(f)' /\ FirstPass(f)' /\ SecondLook(f)'
  <2>1. /\ Hashed(f) /\ FirstPass(f) /\ SecondLook(f) /\ Stamped
        /\ file[f].stamp \in Nat \ {0} /\ DirOf[f] \in Dirs
    BY DEF SourcesInv, SourcesType
  <2>2. Hashed(f)'
    BY <1>1, <1>2, <1>4, <2>1 DEF Hashed
  <2>3. FirstPass(f)'
    BY <1>1, <1>2, <1>4, <2>1 DEF FirstPass, Present
  <2>4. SecondLook(f)'
    BY <1>1, <1>2, <2>1 DEF SecondLook
  <2> QED BY <2>2, <2>3, <2>4
<1>6. ShutDone' /\ SourcesWereThere'
  <2>1. DirOf[g] \in shut => g \in looked
    BY <1>1 DEF SourcesInv, ShutDone
  <2>2. ShutDone'
    BY <1>1, <1>2, <2>1 DEF SourcesInv, ShutDone
  <2> QED BY <1>1, <2>2 DEF SourcesInv, SourcesWereThere
<1> QED BY <1>3, <1>5, <1>6 DEF SourcesInv

\* A file is read as it is at the beginning.
LEMMA ReadBeginsKeeps ==
  ASSUME SourcesInv, NEW g \in Files, ReadBegins(g)
  PROVE  SourcesInv'
<1> USE DEF ReadBegins, disk, collected, NotRead, Passes, Running
<1>1. /\ pass = 1 /\ g \in looked /\ fileSeen[1][g] # 0 /\ Present(g)
      /\ hash' = [hash EXCEPT ![g] = file[g]]
      /\ UNCHANGED <<file, dir, clock, pass, dirSeen, fileSeen, looked, shut, turn>>
  BY DEF In
<1>2. hash'[g] = file[g] /\ \A f \in Files : f # g => hash'[f] = hash[f]
  BY <1>1 DEF SourcesInv, SourcesType
<1>3. SourcesType' /\ Stamped'
  BY <1>1 DEF SourcesInv, SourcesType, Stamped
<1>4. ASSUME NEW f \in Files PROVE Hashed(f)' /\ FirstPass(f)' /\ SecondLook(f)'
  <2>1. CASE f = g
    BY <1>1, <1>2, <2>1
       DEF SourcesInv, SourcesType, Stamped, Hashed, FirstPass, SecondLook, Present
  <2>2. CASE f # g
    BY <1>1, <1>2, <2>2 DEF SourcesInv, Hashed, FirstPass, SecondLook, Present
  <2> QED BY <2>1, <2>2
<1>5. ShutDone' /\ SourcesWereThere'
  <2>1. hash'[g] # NotRead
    BY <1>1, <1>2 DEF Present
  <2> QED BY <1>1, <1>2, <2>1 DEF SourcesInv, ShutDone, SourcesWereThere
<1> QED BY <1>3, <1>4, <1>5 DEF SourcesInv

\* A file that is unchanged at the end of the reading is not torn.
LEMMA ReadEndsKeeps ==
  ASSUME SourcesInv, NEW g \in Files, ReadEnds(g)
  PROVE  SourcesInv'
<1> USE DEF disk, collected, NotRead, Passes
<1>1. /\ file[g].stamp = hash[g].stamp
      /\ hash' = [hash EXCEPT ![g].content = IF file[g].content = @ THEN @ ELSE Torn]
      /\ UNCHANGED <<file, dir, clock, pass, dirSeen, fileSeen, looked, shut, turn>>
  BY DEF ReadEnds
<1>2. file[g].stamp # 0
  BY DEF SourcesInv, SourcesType
<1>3. hash[g] # NotRead
  BY <1>1, <1>2
<1>4. file[g].content = hash[g].content
  BY <1>1, <1>3 DEF SourcesInv, Hashed
<1>5. hash' = hash
  BY <1>1, <1>4 DEF SourcesInv, SourcesType
<1>6. SourcesType' /\ Stamped' /\ ShutDone' /\ SourcesWereThere'
  BY <1>1, <1>5 DEF SourcesInv, SourcesType, Stamped, ShutDone, SourcesWereThere, Running
<1>7. ASSUME NEW f \in Files PROVE Hashed(f)' /\ FirstPass(f)' /\ SecondLook(f)'
  BY <1>1, <1>5 DEF SourcesInv, Hashed, FirstPass, SecondLook, Present
<1> QED BY <1>6, <1>7 DEF SourcesInv

\* A directory is finished with when all of its files are.
LEMMA CloseDirKeeps ==
  ASSUME SourcesInv, NEW d \in Dirs, CloseDir(d)
  PROVE  SourcesInv'
<1> USE DEF CloseDir, disk, NotRead, Passes, Running
<1>1. /\ pass \in {1, 2} /\ dirSeen[pass][d] = dir[d] /\ In(d) \subseteq looked
      /\ pass = 1 => \A f \in In(d) : fileSeen[1][f] # 0 => hash[f] # NotRead
      /\ shut' = shut \cup {d}
      /\ UNCHANGED <<file, dir, clock, pass, dirSeen, fileSeen, looked, hash, turn>>
  BY DEF SourcesInv, SourcesType
<1>2. SourcesType' /\ Stamped' /\ SourcesWereThere'
  BY <1>1 DEF SourcesInv, SourcesType, Stamped, SourcesWereThere
<1>3. ASSUME NEW f \in Files PROVE Hashed(f)' /\ FirstPass(f)' /\ SecondLook(f)'
  BY <1>1 DEF SourcesInv, Hashed, FirstPass, SecondLook, Present
<1>4. ShutDone'
  <2>1. dir[d] # 0
    BY DEF SourcesInv, SourcesType
  <2>2. ASSUME NEW f \in Files, DirOf[f] = d
        PROVE  f \in looked /\ (pass = 1 /\ fileSeen[1][f] # 0 => hash[f] # NotRead)
    BY <1>1, <2>2 DEF In
  <2> QED BY <1>1, <2>1, <2>2 DEF SourcesInv, ShutDone
<1> QED BY <1>2, <1>3, <1>4 DEF SourcesInv

\* Between the passes: a file that is there now and was not seen has come with a
\* change of its directory.
LEMMA SecondPassKeeps ==
  ASSUME SourcesInv, SecondPass
  PROVE  SourcesInv'
<1> USE DEF SecondPass, disk, NotRead, Passes
<1>1. /\ pass = 1 /\ shut = Dirs /\ pass' = 2 /\ looked' = {} /\ shut' = {} /\ turn' = file
      /\ UNCHANGED <<file, dir, clock, dirSeen, fileSeen, hash>>
  OBVIOUS
<1>2. SourcesType' /\ Stamped'
  BY <1>1 DEF SourcesInv, SourcesType, Stamped
<1>3. ASSUME NEW f \in Files PROVE Hashed(f)' /\ FirstPass(f)' /\ SecondLook(f)'
  <2>1. /\ Hashed(f) /\ FirstPass(f) /\ file[f].stamp \in Nat /\ DirOf[f] \in Dirs
        /\ f \in looked /\ (fileSeen[1][f] # 0 => hash[f] # NotRead)
    BY <1>1 DEF SourcesInv, SourcesType, ShutDone, Running
  <2> QED BY <1>1, <2>1 DEF Hashed, FirstPass, SecondLook, Present
<1>4. ShutDone' /\ SourcesWereThere'
  BY <1>1 DEF ShutDone, SourcesWereThere
<1> QED BY <1>2, <1>3, <1>4 DEF SourcesInv

\* Both passes have seen the same, so that nothing moved on between them.
LEMMA PublishKeeps ==
  ASSUME SourcesInv, Publish
  PROVE  SourcesInv'
<1> USE DEF Publish, disk, collected, NotRead, Passes
<1>1. /\ pass = 2 /\ shut = Dirs /\ dirSeen[1] = dirSeen[2] /\ fileSeen[1] = fileSeen[2]
      /\ pass' = 3
      /\ UNCHANGED <<file, dir, clock, dirSeen, fileSeen, looked, shut, hash, turn>>
  OBVIOUS
<1>2. SourcesType' /\ Stamped'
  BY <1>1 DEF SourcesInv, SourcesType, Stamped
<1>3. ASSUME NEW f \in Files PROVE Hashed(f)' /\ FirstPass(f)' /\ SecondLook(f)'
  BY <1>1 DEF SourcesInv, Hashed, FirstPass, SecondLook
<1>4. ASSUME NEW f \in Files
      PROVE  hash[f].content = turn[f].content /\ (fileSeen[1][f] # 0 <=> turn[f].content # "absent")
  <2>1. /\ Hashed(f) /\ SecondLook(f) /\ DirOf[f] \in Dirs
        /\ hash[f] \in [content : Known, stamp : Nat] /\ turn[f].stamp \in Nat
        /\ fileSeen[1] \in [Files -> Nat] /\ dirSeen[1] \in [Dirs -> Nat]
    BY DEF SourcesInv, SourcesType
  <2>2. CASE fileSeen[1][f] = 0
    <3>1. hash[f] = NotRead
      BY <2>1, <2>2 DEF Hashed
    <3>2. dirSeen[2][DirOf[f]] # 0
      BY <1>1, <2>1 DEF SourcesInv, ShutDone, Running
    <3>3. turn[f].content = "absent"
      BY <1>1, <2>1, <2>2, <3>2 DEF SecondLook
    <3> QED BY <2>2, <3>1, <3>3
  <2>3. CASE fileSeen[1][f] # 0
    <3>1. hash[f] # NotRead /\ turn[f].stamp <= fileSeen[1][f]
      BY <1>1, <2>1, <2>3 DEF SecondLook
    <3>2. fileSeen[1][f] <= hash[f].stamp /\ hash[f].stamp <= turn[f].stamp
      BY <1>1, <2>1, <3>1 DEF Hashed, SecondLook
    <3>3. hash[f].stamp = turn[f].stamp
      BY <2>1, <3>1, <3>2
    <3>4. hash[f].content = turn[f].content /\ hash[f].content # "absent"
      BY <1>1, <2>1, <3>1, <3>3 DEF Hashed, SecondLook
    <3> QED BY <2>3, <3>4
  <2> QED BY <2>2, <2>3
<1>5. ShutDone' /\ SourcesWereThere'
  BY <1>1, <1>4 DEF ShutDone, SourcesWereThere, Running
<1> QED BY <1>2, <1>3, <1>5 DEF SourcesInv

\* A pass that fails publishes nothing.
LEMMA CollectFailsKeeps ==
  ASSUME SourcesInv, CollectFails \/ UNCHANGED sourceVars
  PROVE  SourcesInv'
<1> USE DEF CollectFails, sourceVars, disk, collected
<1>1. /\ pass' = 0 \/ pass' = pass
      /\ UNCHANGED <<file, dir, clock, dirSeen, fileSeen, looked, shut, hash, turn>>
  OBVIOUS
<1>2. SourcesType' /\ Stamped'
  BY <1>1 DEF SourcesInv, SourcesType, Stamped
<1>3. ASSUME NEW f \in Files PROVE Hashed(f)' /\ FirstPass(f)' /\ SecondLook(f)'
  BY <1>1 DEF SourcesInv, Hashed, FirstPass, SecondLook, Present
<1>4. ShutDone' /\ SourcesWereThere'
  BY <1>1 DEF SourcesInv, ShutDone, SourcesWereThere, Running, Passes
<1> QED BY <1>2, <1>3, <1>4 DEF SourcesInv

\* Every step of the inventory, and every change, keeps its invariant.
LEMMA SourcesInvStep == SourcesInv /\ [SourcesNext]_sourceVars => SourcesInv'
<1> SUFFICES ASSUME SourcesInv, [SourcesNext]_sourceVars PROVE SourcesInv'
  OBVIOUS
<1>1. CASE \E f \in Files, c \in Contents \cup {"absent"} : Change(f, c)
  BY <1>1, ChangeKeeps
<1>2. CASE Collect
  BY <1>2, OpenDirKeeps, LookKeeps, ReadBeginsKeeps, ReadEndsKeeps, CloseDirKeeps,
     SecondPassKeeps, PublishKeeps, CollectFailsKeeps DEF Collect
<1>3. CASE UNCHANGED sourceVars
  BY <1>3, CollectFailsKeeps
<1> QED BY <1>1, <1>2, <1>3 DEF SourcesNext

\* A published inventory is the package as it was at one instant, whatever was
\* changed while it was taken (extractor_registry._package_sources).
THEOREM InventoryIsOfOneInstant == SourcesSpec => []SourcesWereThere
<1>1. SourcesInv => SourcesWereThere
  BY DEF SourcesInv
<1> QED BY <1>1, SourcesInvInit, SourcesInvStep, PTL DEF SourcesSpec
-----------------------------------------------------------------------------
Chunks == {"input", "reply", "extra"}

WorkerType ==
  /\ platform \in {"posix", "windows"}
  /\ run \in {"start", "loop", "wait", "judge", "cleanup", "done"}
  /\ position \in Nat /\ read \in Nat /\ replied \in Nat /\ total \in Nat
  /\ output \in Seq(Chunks)
  /\ written \in Seq(Chunks)
  /\ pipe \in [Streams -> Seq(Chunks)]
  /\ open \subseteq Streams
  /\ heir \in BOOLEAN
  /\ error \in BOOLEAN

\* What the thread can take for granted at each point.
Order ==
  /\ run \in {"start", "loop", "wait", "judge"} => outcome = "none"
  /\ run = "start" => child = "none"
  /\ child = "none" => run \in {"start", "done"} /\ ~heir /\ open = {} /\ position = 0
  /\ run \in {"wait", "judge"} => open = {} /\ ~error
  /\ run = "judge" => child = "exited"
  /\ error => ~Posix
  /\ outcome = "result" => child = "exited" /\ exit = 0 /\ ~heir /\ open = {} /\ ~error

\* Input is with the worker or in the pipe; a worker replies, and exits with 0,
\* only when it has had all of it.
Given ==
  /\ position = read + Len(pipe["stdin"])
  /\ Alive /\ "stdin" \notin open => position = Input
  /\ child = "writing" => read = Input
  /\ replied <= Reply
  /\ child = "exited" /\ exit = 0 => read = Input /\ replied = Reply

\* Output is with the thread or in the pipe, until the limit is reached.
Carried ==
  ~error /\ outcome # "overflow" =>
    /\ output \o pipe["stdout"] = written
    /\ total <= MaxOutput

\* The thread stops reading only when nobody can write any more.
Ended ==
  /\ run \in {"loop", "wait", "judge"} \/ outcome = "result"
  /\ "stdout" \notin open /\ ~error
  => ~Writers /\ pipe["stdout"] = <<>>

WorkerInv ==
  /\ WorkerType
  /\ Order
  /\ Given
  /\ Carried
  /\ Ended

HIDE SourcesAssumption

LEMMA NoChunks == <<>> \in Seq(Chunks)
BY EmptySeq

\* Nothing has been started or written.
LEMMA WorkerInvInit == Init => WorkerInv
<1> SUFFICES ASSUME Init PROVE WorkerInv
  OBVIOUS
<1> USE DEF Init, Streams, Outputs
<1>1. pipe["stdin"] = <<>> /\ pipe["stdout"] = <<>> /\ pipe \in [Streams -> Seq(Chunks)]
  OBVIOUS
<1>2. WorkerType
  BY <1>1, NoChunks DEF WorkerType
<1>3. Order /\ Given /\ Carried /\ Ended
  BY <1>1, WorkerAssumption DEF Order, Given, Carried, Ended, Alive, Posix
<1> QED BY <1>2, <1>3 DEF WorkerInv

\* A chunk is taken out of a pipe.
LEMMA PipeTail ==
  ASSUME pipe \in [Streams -> Seq(Chunks)], NEW s \in Streams, pipe[s] # <<>>,
         pipe' = [pipe EXCEPT ![s] = Tail(@)]
  PROVE  /\ pipe' \in [Streams -> Seq(Chunks)]
         /\ pipe'[s] = Tail(pipe[s]) /\ Len(pipe'[s]) = Len(pipe[s]) - 1
         /\ Head(pipe[s]) \in Chunks
         /\ \A r \in Streams : r # s => pipe'[r] = pipe[r]
<1>1. pipe[s] \in Seq(Chunks)
  OBVIOUS
<1>2. Tail(pipe[s]) \in Seq(Chunks) /\ Len(Tail(pipe[s])) = Len(pipe[s]) - 1
      /\ Head(pipe[s]) \in Chunks
  BY <1>1, HeadTailProperties
<1> QED BY <1>2

\* A chunk is put into a pipe.
LEMMA PipeAppend ==
  ASSUME pipe \in [Streams -> Seq(Chunks)], NEW s \in Streams, NEW c \in Chunks,
         pipe' = [pipe EXCEPT ![s] = Append(@, c)]
  PROVE  /\ pipe' \in [Streams -> Seq(Chunks)]
         /\ pipe'[s] = Append(pipe[s], c) /\ Len(pipe'[s]) = Len(pipe[s]) + 1
         /\ \A r \in Streams : r # s => pipe'[r] = pipe[r]
<1>1. Append(pipe[s], c) \in Seq(Chunks) /\ Len(Append(pipe[s], c)) = Len(pipe[s]) + 1
  BY AppendProperties
<1> QED BY <1>1

\* What moves from the pipe to what was kept leaves the whole as it was.
LEMMA CarryOver ==
  ASSUME NEW a \in Seq(Chunks), NEW b \in Seq(Chunks), b # <<>>
  PROVE  Append(a, Head(b)) \o Tail(b) = a \o b
OBVIOUS

\* What is put into the pipe comes last.
LEMMA PutIn ==
  ASSUME NEW a \in Seq(Chunks), NEW b \in Seq(Chunks), NEW c \in Chunks
  PROVE  a \o Append(b, c) = Append(a \o b, c)
<1>1. Append(b, c) \in Seq(Chunks) /\ a \o b \in Seq(Chunks)
  BY AppendProperties, ConcatProperties
<1>2. Append(b, c) = b \o <<c>> /\ Append(a \o b, c) = (a \o b) \o <<c>> /\ <<c>> \in Seq(Chunks)
  BY <1>1, AppendIsConcat
<1>3. (a \o b) \o <<c>> = a \o (b \o <<c>>)
  BY <1>2, ConcatAssociative
<1> QED BY <1>2, <1>3

\* The worker goes on, leaves a process behind, or hangs.
LEMMA ChildGoesKeeps ==
  ASSUME WorkerInv, ChildConfines \/ ChildHangs \/ ChildForks
         \/ (child = "setup" /\ ChildGoto("reading")), UNCHANGED platform
  PROVE  WorkerInv'
<1> USE DEF ChildConfines, ChildHangs, ChildForks, ChildGoto, parent, worker, Writers, Alive, Posix, Streams, Outputs
<1>1. WorkerType'
  BY DEF WorkerInv, WorkerType
<1>2. Order'
  BY DEF WorkerInv, Order, Ended
<1>3. Given'
  BY DEF WorkerInv, WorkerType, Order, Given
<1>4. Carried'
  BY DEF WorkerInv, WorkerType, Order, Carried
<1>5. Ended'
  BY DEF WorkerInv, WorkerType, Order, Ended
<1> QED BY <1>1, <1>2, <1>3, <1>4, <1>5 DEF WorkerInv

\* The worker fails.
LEMMA ChildFailsKeeps ==
  ASSUME WorkerInv, Alive, Exits(1), UNCHANGED platform
  PROVE  WorkerInv'
<1> USE DEF Exits, parent, worker, Writers, Alive, Posix, Streams, Outputs
<1>1. WorkerType'
  BY DEF WorkerInv, WorkerType
<1>2. Order'
  BY DEF WorkerInv, Order, Ended
<1>3. Given'
  BY DEF WorkerInv, WorkerType, Order, Given
<1>4. Carried'
  BY DEF WorkerInv, WorkerType, Order, Carried
<1>5. Ended'
  BY DEF WorkerInv, WorkerType, Order, Ended
<1> QED BY <1>1, <1>2, <1>3, <1>4, <1>5 DEF WorkerInv

\* The worker reads, and replies when it has all of the input.
LEMMA ChildReadsKeeps ==
  ASSUME WorkerInv, ChildReads, UNCHANGED platform
  PROVE  WorkerInv'
<1> USE DEF ChildReads, ChildGoto, parent, worker, Writers, Alive, Posix, Streams, Outputs
<1>0. CASE pipe["stdin"] # <<>>
  <2>1. /\ pipe' \in [Streams -> Seq(Chunks)]
        /\ Len(pipe'["stdin"]) = Len(pipe["stdin"]) - 1 /\ pipe'["stdout"] = pipe["stdout"]
    BY <1>0, PipeTail DEF WorkerInv, WorkerType
  <2>a. Len(pipe["stdin"]) \in Nat
    <3>1. pipe["stdin"] \in Seq(Chunks)
      BY DEF WorkerInv, WorkerType
    <3> QED BY <3>1, LenProperties
  <2>2. /\ read' = read + 1 /\ child' = child
        /\ UNCHANGED <<parent, exit, replied, heir, written, extra>>
    BY <1>0
  <2>3. WorkerType' /\ Given'
    BY <2>1, <2>a, <2>2 DEF WorkerInv, WorkerType, Given
  <2>4. Order' /\ Carried' /\ Ended'
    BY <2>1, <2>2 DEF WorkerInv, Order, Carried, Ended
  <2> QED BY <2>3, <2>4 DEF WorkerInv
<1>a. CASE pipe["stdin"] = <<>>
  <2>1. child' = "writing" /\ "stdin" \notin open /\ UNCHANGED <<parent, exit, read, replied, heir, pipe, written, extra>>
    BY <1>a
  <2>2. read = Input
    BY <1>a DEF WorkerInv, WorkerType, Given
  <2>3. WorkerType' /\ Order' /\ Given'
    BY <2>1, <2>2 DEF WorkerInv, WorkerType, Order, Given
  <2>4. Carried' /\ Ended'
    BY <2>1 DEF WorkerInv, Carried, Ended
  <2> QED BY <2>3, <2>4 DEF WorkerInv
<1> QED BY <1>0, <1>a

\* The worker replies, and exits with 0 when it has replied.
LEMMA ChildWritesKeeps ==
  ASSUME WorkerInv, ChildWrites, UNCHANGED platform
  PROVE  WorkerInv'
<1> USE DEF parent, worker, Writers, Alive, Posix
<1>1. CASE replied < Reply
  <2>1. /\ pipe' = [pipe EXCEPT !["stdout"] = Append(@, "reply")]
        /\ written' = Append(written, "reply")
        /\ replied' = replied + 1 /\ child = "writing"
        /\ UNCHANGED <<parent, child, exit, read, heir, extra>>
    BY <1>1 DEF ChildWrites, Writes
  <2> USE DEF WorkerInv, WorkerType
  <2>2. /\ pipe' \in [Streams -> Seq(Chunks)] /\ pipe'["stdin"] = pipe["stdin"]
        /\ pipe'["stdout"] = Append(pipe["stdout"], "reply")
    BY <2>1, PipeAppend DEF Streams, Outputs, Chunks
  <2>3. output \o pipe'["stdout"] = Append(output \o pipe["stdout"], "reply")
    BY <2>2, PutIn DEF Streams, Outputs, Chunks
  <2>4. WorkerType'
    BY <2>1, <2>2, AppendProperties DEF Chunks
  <2>5. Order' /\ Carried' /\ Ended'
    BY <2>1, <2>3 DEF Order, Carried, Ended
  <2>6. Given'
    BY <1>1, <2>1, <2>2, WorkerAssumption DEF Given
  <2> QED BY <2>4, <2>5, <2>6
<1>2. CASE ~(replied < Reply)
  <2>1. /\ child = "writing" /\ child' = "exited" /\ exit' = 0
        /\ UNCHANGED <<parent, read, replied, heir, pipe, written, extra>>
    BY <1>2 DEF ChildWrites, Exits
  <2>2. replied = Reply /\ read = Input
    BY <1>2, <2>1, WorkerAssumption DEF WorkerInv, WorkerType, Given
  <2>3. WorkerType' /\ Order' /\ Given'
    BY <2>1, <2>2 DEF WorkerInv, WorkerType, Order, Given
  <2>4. Carried' /\ Ended'
    BY <2>1 DEF WorkerInv, Carried, Ended
  <2> QED BY <2>3, <2>4 DEF WorkerInv
<1> QED BY <1>1, <1>2

\* Others write too, as long as they hold the pipes.
LEMMA ExtraKeeps ==
  ASSUME WorkerInv, ExtraOutput, UNCHANGED platform
  PROVE  WorkerInv'
<1> USE DEF parent, Writers, Alive, Posix
<1>1. PICK s \in Outputs :
        /\ Alive \/ heir
        /\ pipe' = [pipe EXCEPT ![s] = Append(@, "extra")]
        /\ written' = IF s = "stdout" THEN Append(written, "extra") ELSE written
  BY DEF ExtraOutput, Writes, Outputs
<1>2. UNCHANGED <<parent, child, exit, read, replied, heir>>
  BY DEF ExtraOutput
<1> USE DEF WorkerInv, WorkerType
<1>3. /\ pipe' \in [Streams -> Seq(Chunks)] /\ pipe'["stdin"] = pipe["stdin"]
      /\ s # "stdout" => pipe'["stdout"] = pipe["stdout"]
      /\ s = "stdout" => pipe'["stdout"] = Append(pipe["stdout"], "extra")
  BY <1>1, PipeAppend DEF Streams, Outputs, Chunks
<1>4. s = "stdout" => output \o pipe'["stdout"] = Append(output \o pipe["stdout"], "extra")
  <2>1. pipe["stdout"] \in Seq(Chunks) /\ output \in Seq(Chunks) /\ "extra" \in Chunks
    BY DEF Streams, Outputs, Chunks
  <2>2. output \o Append(pipe["stdout"], "extra") = Append(output \o pipe["stdout"], "extra")
    BY <2>1, PutIn
  <2> QED BY <1>3, <2>2
<1>5. WorkerType'
  BY <1>1, <1>2, <1>3, AppendProperties DEF Chunks
<1>6. Order' /\ Carried'
  BY <1>1, <1>2, <1>3, <1>4 DEF Order, Carried
<1>7. Given' /\ Ended'
  BY <1>1, <1>2, <1>3 DEF Given, Ended
<1> QED BY <1>5, <1>6, <1>7

\* The worker is started with its pipes open, or not at all.
LEMMA SpawnKeeps ==
  ASSUME WorkerInv, Spawn, UNCHANGED platform
  PROVE  WorkerInv'
<1> USE DEF Spawn, RunIs, parent, worker, Writers, Alive, Posix, Streams, Outputs
<1>1. WorkerType'
  BY DEF WorkerInv, WorkerType
<1>2. Order'
  BY DEF WorkerInv, Order, Ended
<1>3. Given'
  BY DEF WorkerInv, WorkerType, Order, Given
<1>4. Carried'
  BY DEF WorkerInv, WorkerType, Order, Carried
<1>5. Ended'
  BY DEF WorkerInv, WorkerType, Order, Ended
<1> QED BY <1>1, <1>2, <1>3, <1>4, <1>5 DEF WorkerInv

\* Input goes into the pipe.
LEMMA WriteInputKeeps ==
  ASSUME WorkerInv, WriteInput, UNCHANGED platform
  PROVE  WorkerInv'
<1> USE DEF Pumping, Closes, parent, worker, Writers, Alive, Posix, Streams, Outputs
<1>0. /\ UNCHANGED <<run, outcome, output, total, error, worker>>
      /\ open' \subseteq open /\ open \ {"stdin"} \subseteq open'
      /\ "stdin" \in open
      /\ \/ pipe' = pipe /\ position' = position /\ ~Writers
         \/ /\ pipe' = [pipe EXCEPT !["stdin"] = Append(@, "input")]
            /\ position' = position + 1
            /\ "stdin" \notin open' => position' = Input
  BY DEF WriteInput
<1>a. \/ pipe' = pipe
      \/ /\ pipe' \in [Streams -> Seq(Chunks)] /\ pipe'["stdout"] = pipe["stdout"]
         /\ Len(pipe'["stdin"]) = Len(pipe["stdin"]) + 1
  <2>1. "input" \in Chunks /\ "stdin" \in Streams
    BY DEF Chunks
  <2>2. pipe \in [Streams -> Seq(Chunks)]
    BY DEF WorkerInv, WorkerType
  <2> QED BY <1>0, <2>1, <2>2, PipeAppend
<1>b. Len(pipe["stdin"]) \in Nat
  <2>1. pipe["stdin"] \in Seq(Chunks)
    BY DEF WorkerInv, WorkerType
  <2> QED BY <2>1, LenProperties
<1>1. WorkerType'
  BY <1>0, <1>a DEF WorkerInv, WorkerType
<1>2. Order'
  BY <1>0 DEF WorkerInv, Order
<1>3. Given'
  BY <1>0, <1>a, <1>b DEF WorkerInv, WorkerType, Order, Given
<1>4. Carried' /\ Ended'
  BY <1>0, <1>a DEF WorkerInv, Carried, Ended
<1> QED BY <1>1, <1>2, <1>3, <1>4 DEF WorkerInv

\* Output is kept, in order, up to the limit.
LEMMA ReadOutputKeeps ==
  ASSUME WorkerInv, NEW s \in Outputs, ReadOutput(s), UNCHANGED platform
  PROVE  WorkerInv'
<1> USE DEF parent, worker, Writers, Alive, Posix, Streams, Outputs
<1>1. /\ pipe' \in [Streams -> Seq(Chunks)] /\ pipe'["stdin"] = pipe["stdin"]
      /\ pipe'[s] = Tail(pipe[s]) /\ Head(pipe[s]) \in Chunks
      /\ s # "stdout" => pipe'["stdout"] = pipe["stdout"]
  BY PipeTail DEF ReadOutput, WorkerInv, WorkerType
<1>2. /\ s \in open /\ (Posix => run = "loop")
      /\ UNCHANGED <<position, worker>> /\ total' = total + 1
      /\ \/ /\ total' <= MaxOutput
            /\ output' = IF s = "stdout" THEN Append(output, Head(pipe[s])) ELSE output
            /\ UNCHANGED <<run, outcome, open, error>>
         \/ /\ Posix /\ run' = "cleanup" /\ outcome' = "overflow"
            /\ UNCHANGED <<output, open, error>>
         \/ /\ ~Posix /\ error' = TRUE /\ open' = open \ {s}
            /\ UNCHANGED <<output, run, outcome>>
  BY DEF ReadOutput, Pumping, Closes
<1>3. Append(output, Head(pipe[s])) \in Seq(Chunks)
  BY <1>1, AppendProperties DEF WorkerInv, WorkerType
<1>4. pipe["stdout"] # <<>> =>
        Append(output, Head(pipe["stdout"])) \o Tail(pipe["stdout"]) = output \o pipe["stdout"]
  BY CarryOver DEF WorkerInv, WorkerType
<1>5. pipe[s] # <<>>
  BY DEF ReadOutput
<1>6. WorkerType'
  <2>1. /\ run' \in {run, "cleanup"} /\ open' \subseteq open /\ total' = total + 1
    BY <1>2
  <2>a. output \in Seq(Chunks)
    BY DEF WorkerInv, WorkerType
  <2>2. output' \in Seq(Chunks)
    BY <1>2, <1>3, <2>a
  <2>3. UNCHANGED <<position, read, replied, heir, written, platform>>
    BY <1>2
  <2>4. error' \in BOOLEAN
    <3>1. error' = error \/ error' = TRUE
      BY <1>2
    <3>2. error \in BOOLEAN
      BY DEF WorkerInv, WorkerType
    <3> QED BY <3>1, <3>2
  <2> QED BY <1>1, <2>1, <2>2, <2>3, <2>4 DEF WorkerInv, WorkerType
<1>7. Order' /\ Given'
  BY <1>1, <1>2 DEF WorkerInv, Order, Given
<1>8. Carried'
  <2>1. CASE ~(error' \/ outcome' = "overflow")
    <3>1. /\ output' = IF s = "stdout" THEN Append(output, Head(pipe[s])) ELSE output
          /\ total' <= MaxOutput /\ error' = error /\ outcome' = outcome /\ written' = written
      BY <1>2, <2>1
    <3>2. output' \o pipe'["stdout"] = output \o pipe["stdout"]
      BY <1>1, <1>4, <1>5, <3>1
    <3> QED BY <2>1, <3>1, <3>2 DEF WorkerInv, Carried
  <2> QED BY <2>1 DEF Carried
<1>9. Ended'
  BY <1>1, <1>2 DEF WorkerInv, Order, Ended
<1> QED BY <1>6, <1>7, <1>8, <1>9 DEF WorkerInv

\* A pipe ends when nobody can write to it.
LEMMA ReadEndKeeps ==
  ASSUME WorkerInv, NEW s \in Outputs, ReadEnd(s), UNCHANGED platform
  PROVE  WorkerInv'
<1> USE DEF ReadEnd, Pumping, Closes, EndOfFile, parent, worker, Writers, Alive, Posix, Streams, Outputs
<1>1. WorkerType'
  BY DEF WorkerInv, WorkerType
<1>2. Order'
  BY DEF WorkerInv, Order, Ended
<1>3. Given'
  BY DEF WorkerInv, WorkerType, Order, Given
<1>4. Carried'
  BY DEF WorkerInv, WorkerType, Order, Carried
<1>5. Ended'
  BY DEF WorkerInv, WorkerType, Order, Ended
<1> QED BY <1>1, <1>2, <1>3, <1>4, <1>5 DEF WorkerInv

\* The pipes are finished with.
LEMMA LoopEndsKeeps ==
  ASSUME WorkerInv, ReleasesPipes \/ LoopEnds \/ Waits, UNCHANGED platform
  PROVE  WorkerInv'
<1> USE DEF ReleasesPipes, LoopEnds, Waits, RunIs, parent, worker, Writers, Alive, Posix, Streams, Outputs
<1>1. WorkerType'
  BY DEF WorkerInv, WorkerType
<1>2. Order'
  BY DEF WorkerInv, Order, Ended
<1>3. Given'
  BY DEF WorkerInv, WorkerType, Order, Given
<1>4. Carried'
  BY DEF WorkerInv, WorkerType, Order, Carried
<1>5. Ended'
  BY DEF WorkerInv, WorkerType, Order, Ended
<1> QED BY <1>1, <1>2, <1>3, <1>4, <1>5 DEF WorkerInv

\* The exit code decides, unless the deadline has passed.
LEMMA JudgeKeeps ==
  ASSUME WorkerInv, Judge \/ Deadline, UNCHANGED platform
  PROVE  WorkerInv'
<1> USE DEF Judge, Deadline, RunIs, parent, worker, Writers, Alive, Posix, Streams, Outputs
<1>1. WorkerType'
  BY DEF WorkerInv, WorkerType
<1>2. Order'
  BY DEF WorkerInv, Order, Ended
<1>3. Given'
  BY DEF WorkerInv, WorkerType, Order, Given
<1>4. Carried'
  BY DEF WorkerInv, WorkerType, Order, Carried
<1>5. Ended'
  BY DEF WorkerInv, WorkerType, Order, Ended
<1> QED BY <1>1, <1>2, <1>3, <1>4, <1>5 DEF WorkerInv

\* Whatever is still running is killed.
LEMMA CleanUpKeeps ==
  ASSUME WorkerInv, CleanUp, UNCHANGED platform
  PROVE  WorkerInv'
<1> USE DEF CleanUp, parent, worker, Writers, Alive, Posix, Streams, Outputs
<1>1. WorkerType'
  BY DEF WorkerInv, WorkerType
<1>2. Order'
  BY DEF WorkerInv, Order, Ended
<1>3. Given'
  BY DEF WorkerInv, WorkerType, Order, Given
<1>4. Carried'
  BY DEF WorkerInv, WorkerType, Order, Carried
<1>5. Ended'
  BY DEF WorkerInv, WorkerType, Order, Ended
<1> QED BY <1>1, <1>2, <1>3, <1>4, <1>5 DEF WorkerInv
-----------------------------------------------------------------------------
\* Steps of the sources leave the worker alone, and the other way round.
LEMMA WorkerInvStep == WorkerInv /\ [Next]_vars => WorkerInv'
<1> SUFFICES ASSUME WorkerInv, [Next]_vars PROVE WorkerInv'
  OBVIOUS
<1>1. CASE ParentSteps
  BY <1>1, SpawnKeeps, WriteInputKeeps, ReadOutputKeeps, ReadEndKeeps, LoopEndsKeeps, JudgeKeeps,
     CleanUpKeeps DEF ParentSteps, ParentStep
<1>2. CASE ChildSteps
  <2>1. CASE ChildRegisters
    BY <1>2, <2>1, ChildGoesKeeps, ChildFailsKeeps DEF ChildSteps, ChildRegisters, Alive
  <2> QED BY <1>2, <2>1, ChildGoesKeeps, ChildReadsKeeps, ChildWritesKeeps
          DEF ChildSteps, ChildStep
<1>3. CASE Accidents
  BY <1>3, ChildGoesKeeps, ChildFailsKeeps, ExtraKeeps DEF Accidents, ChildFails
<1>4. CASE DeadlineStrikes
  BY <1>4, JudgeKeeps DEF DeadlineStrikes
<1>5. CASE Inventory \/ SourcesChange \/ UNCHANGED vars
  <2>1. UNCHANGED workerVars
    BY <1>5 DEF Inventory, SourcesChange, vars
  <2>2. WorkerType' /\ Order' /\ Given' /\ Carried' /\ Ended'
    BY <2>1 DEF workerVars, WorkerInv, WorkerType, Order, Given, Carried, Ended, Writers, Alive,
                Posix
  <2> QED BY <2>2 DEF WorkerInv
<1> QED BY <1>1, <1>2, <1>3, <1>4, <1>5 DEF Next

\* The inventory is taken while the worker sets itself up, and is over after that.
TakingInventory ==
  IF child \in {"none", "start", "setup"} THEN SourcesInv ELSE SourcesWereThere

LEMMA TakingInventoryInit == Init => TakingInventory
BY SourcesInvInit DEF Init, TakingInventory

\* A worker that has set itself up never does so again.
LEMMA WorkerMovesOn ==
  ASSUME WorkerInv, [Next]_vars
  PROVE  \/ child' = child \/ child' \in {"reading", "writing", "hung", "exited"}
         \/ child \in {"none", "start"}
<1>1. CASE ParentStep
  <2>1. CASE Spawn
    BY <2>1 DEF Spawn, WorkerInv, Order
  <2>2. CASE ~Spawn
    BY <1>1, <2>2 DEF ParentStep, WriteInput, ReadOutput, ReadEnd, ReleasesPipes, LoopEnds, Waits,
                      Judge, CleanUp, worker
  <2> QED BY <2>1, <2>2
<1>2. CASE ChildStep \/ ChildFails \/ ChildHangs \/ ChildForks \/ ExtraOutput \/ Deadline
  BY <1>2 DEF ChildStep, ChildFails, ChildHangs, ChildForks, ExtraOutput, Deadline, worker,
              ChildConfines, ChildRegisters, ChildReads, ChildWrites, ChildGoto, Exits
<1>3. CASE Inventory \/ SourcesChange \/ UNCHANGED vars
  BY <1>3 DEF Inventory, SourcesChange, vars, workerVars
<1> QED BY <1>1, <1>2, <1>3 DEF Next, ParentSteps, ChildSteps, Accidents, DeadlineStrikes

LEMMA TakingInventoryStep == TakingInventory /\ WorkerInv /\ [Next]_vars => TakingInventory'
<1> SUFFICES ASSUME TakingInventory, WorkerInv, [Next]_vars PROVE TakingInventory'
  OBVIOUS
<1>1. SourcesWereThere
  BY DEF TakingInventory, SourcesInv
<1>2. CASE Inventory \/ SourcesChange
  <2>1. child = "setup" /\ child' = child /\ [SourcesNext]_sourceVars
    BY <1>2 DEF Inventory, SourcesChange, SourcesNext, workerVars
  <2> QED BY <2>1, SourcesInvStep DEF TakingInventory
<1>3. CASE UNCHANGED vars
  <2>1. [SourcesNext]_sourceVars /\ child' = child /\ (SourcesWereThere => SourcesWereThere')
    BY <1>3 DEF vars, workerVars, sourceVars, SourcesWereThere
  <2> QED BY <2>1, SourcesInvStep DEF TakingInventory
<1>4. CASE Sources
  <2>1. \/ child' = child \/ child' \in {"reading", "writing", "hung", "exited"}
        \/ child \in {"none", "start"}
    BY WorkerMovesOn
  <2>2. CASE child = "setup" /\ child' # "setup"
    <3>1. SourcesWereThere'
      BY <1>4, <2>2 DEF Sources, Forget, SourcesWereThere
    <3> QED BY <2>1, <2>2, <3>1 DEF TakingInventory
  <2>3. CASE ~(child = "setup" /\ child' # "setup")
    <3>1. UNCHANGED sourceVars
      BY <1>4, <2>3 DEF Sources
    <3>2. SourcesWereThere'
      BY <1>1, <3>1 DEF sourceVars, SourcesWereThere
    <3>3. SourcesInv => SourcesInv'
      BY <3>1, SourcesInvStep
    <3> QED BY <2>1, <3>2, <3>3 DEF TakingInventory
  <2> QED BY <2>2, <2>3
<1> QED BY <1>2, <1>3, <1>4 DEF Next, ParentSteps, ChildSteps, Accidents, DeadlineStrikes

\* The bytes of a result are the whole reply to the whole input, however the reply,
\* the exit, the limit and the deadline come together (worker_process.run_worker).
THEOREM ResultsAreWhole == Spec => []ResultIsWhole
<1>1. WorkerInv => ResultIsWhole
  <2> SUFFICES ASSUME WorkerInv, outcome = "result" PROVE ResultIsWhole
    BY DEF ResultIsWhole
  <2>1. /\ child = "exited" /\ exit = 0 /\ open = {} /\ ~error
        /\ read = Input /\ replied = Reply /\ total <= MaxOutput
        /\ output \o pipe["stdout"] = written
    BY DEF WorkerInv, Order, Given, Carried
  <2>2. pipe["stdout"] = <<>>
    BY <2>1 DEF WorkerInv, Ended
  <2>3. output \o <<>> = output
    BY ConcatEmptySeq DEF WorkerInv, WorkerType
  <2> QED BY <2>1, <2>2, <2>3 DEF ResultIsWhole
<1> QED BY <1>1, WorkerInvInit, WorkerInvStep, PTL DEF Spec

\* So is the inventory that a worker takes of itself before it reads its input.
THEOREM WorkerInventory == Spec => []SourcesWereThere
<1>1. TakingInventory => SourcesWereThere
  BY DEF TakingInventory, SourcesInv
<1> QED BY <1>1, WorkerInvInit, WorkerInvStep, TakingInventoryInit, TakingInventoryStep, PTL DEF Spec
-----------------------------------------------------------------------------
(* The scan of a document *)

Past == {"searching", "complete"}

Parts == [text : Texts, hidden : BOOLEAN]

\* What was extracted of the first texts of the document is there.
Extracted ==
  scan \in {"extracting"} \cup Past =>
    \A k \in DOMAIN document.texts :
      k <= taken /\ document.texts[k].text \notin Blank =>
        \E i \in DOMAIN segments : segments[i] = document.texts[k]

\* Nothing is missing when the search begins.
WholeDocument ==
  /\ stopped => document.registered
  /\ scan \in Past => taken = Len(document.texts)

TextsOf(items) == {item.text : item \in items}

Typed ==
  /\ scan \in {"idle", "extracting"} \cup Past \cup Failures
  /\ taken \in Nat
  /\ scan # "idle" => document \in Documents
  /\ segments \in Seq(Parts)
  /\ segment \in 1..(Len(segments) + 1)
  /\ scan = "idle" => taken = 0 /\ ~stopped
  /\ scan \in {"idle", "extracting"} => segment = 1 /\ next = {}
  /\ scan \in Past => DOMAIN searched = DOMAIN segments
  /\ scan = "complete" => segment = Len(segments) + 1
  /\ TextsOf(level) \cup TextsOf(next) \subseteq Texts

Through == scan \in Past => \A i \in DOMAIN segments : i < segment => SearchedThrough(i)

Untouched == scan \in Past => \A i \in DOMAIN segments : i > segment => searched[i] = {}

\* Of the segment in hand, what was seen is searched or in the queue, and what
\* was searched is decoded and reported.
InHand ==
  scan \in Past /\ segment \in DOMAIN segments =>
    /\ segments[segment].text \in seen
    /\ seen \subseteq searched[segment] \cup TextsOf(level) \cup TextsOf(next)
    /\ \A t \in searched[segment] : Decodings(t) \subseteq seen /\ document.matches[t] \subseteq Scored

ScannerInv ==
  /\ Typed
  /\ Extracted
  /\ WholeDocument
  /\ Through
  /\ Untouched
  /\ InHand
-----------------------------------------------------------------------------
\* Every set of natural numbers with an element has a least one.
LEMMA Least ==
  ASSUME NEW S \in SUBSET Nat, S # {}
  PROVE  \E x \in S : \A y \in S : x <= y
<1> DEFINE R == {ss \in Nat \X Nat : ss[1] < ss[2]}
<1>1. IsWellFoundedOn(R, Nat)
  BY NatLessThanWellFounded DEF OpToRel
<1>2. \E x \in S : \A y \in S : ~(<<y, x>> \in R)
  <2> HIDE DEF R
  <2> QED BY <1>1, WFMin
<1>3. PICK x \in S : \A y \in S : ~(<<y, x>> \in R)
  BY <1>2
<1>4. ASSUME NEW y \in S PROVE x <= y
  <2>1. ~(<<y, x>> \in R)
    BY <1>3
  <2>2. <<y, x>> \in Nat \X Nat
    OBVIOUS
  <2> QED BY <2>1, <2>2
<1> QED BY <1>4

LEMMA ElementOf ==
  ASSUME NEW S, NEW s \in Seq(S), NEW i \in DOMAIN s
  PROVE  s[i] \in S
OBVIOUS

\* Every fresh decoding of a text is queued: there is a first one of it.
LEMMA FreshIsQueued ==
  ASSUME NEW item, Variants(item.text) \in Seq([text : Texts, encoding : STRING])
  PROVE  Fresh(item.text) \subseteq TextsOf(Queued(item)) /\ TextsOf(Queued(item)) \subseteq Texts
<1> DEFINE v == Variants(item.text)
<1>a. TextsOf(Queued(item)) \subseteq Texts
  <2> SUFFICES ASSUME NEW q \in Queued(item) PROVE q.text \in Texts
    BY DEF TextsOf
  <2>1. PICK i \in DOMAIN v : q.text = v[i].text
    BY DEF Queued
  <2>2. v[i] \in [text : Texts, encoding : STRING]
    BY <2>1, ElementOf
  <2> QED BY <2>1, <2>2
<1> SUFFICES ASSUME NEW u \in Fresh(item.text) PROVE u \in TextsOf(Queued(item))
  BY <1>a
<1> DEFINE S == {i \in DOMAIN v : v[i].text = u}
<1>1. S # {} /\ S \in SUBSET Nat
  BY DEF Fresh, Decodings
<1>2. PICK j \in S : \A k \in S : j <= k
  <2> HIDE DEF S
  <2> QED BY <1>1, Least
<1>3. j \in DOMAIN v /\ v[j].text = u
  BY <1>2
<1>4. \A k \in 1..(j - 1) : v[k].text # v[j].text
  <2> SUFFICES ASSUME NEW k \in 1..(j - 1), v[k].text = v[j].text PROVE FALSE
    OBVIOUS
  <2>1. k \in DOMAIN v /\ k < j
    BY <1>3
  <2>2. k \in S
    BY <2>1, <1>3
  <2> HIDE DEF S
  <2> QED BY <2>1, <2>2, <1>2, <1>1
<1>5. [text |-> v[j].text, under |-> Append(item.under, v[j].encoding)] \in Queued(item)
  BY <1>3, <1>4 DEF Queued
<1> QED BY <1>3, <1>5 DEF TextsOf

\* Nothing of the invariant depends on why a scan failed.
LEMMA FailureKeeps ==
  ASSUME ScannerInv, scan \in {"extracting", "searching"}, NEW f \in Failures, Fails(f)
  PROVE  ScannerInv'
<1> USE DEF ScannerInv, Fails, Failures, input, extraction, search, Past
<1>1. Typed'
  BY DEF Typed
<1>2. Extracted' /\ WholeDocument'
  BY DEF Extracted, WholeDocument
<1>3. Through' /\ Untouched' /\ InHand'
  BY DEF Through, Untouched, InHand
<1> QED BY <1>1, <1>2, <1>3

LEMMA ScannerInvInit == ScannerInit => ScannerInv
BY DEF ScannerInit, ScannerInv, Typed, Extracted, WholeDocument, Through, Untouched, InHand,
       Past, Failures, TextsOf, Parts

\* A scan begins with a document of which nothing is extracted.
LEMMA BeginKeeps ==
  ASSUME ScannerInv, BeginScan
  PROVE  ScannerInv'
<1> USE DEF ScannerInv, BeginScan, extraction, search, Past
<1>1. Typed'
  BY DEF Typed, TextsOf
<1>2. document' \in Documents
  OBVIOUS
<1>3. Extracted'
  <2>1. DOMAIN document'.texts \subseteq Nat \ {0}
    BY <1>2, ScannerAssumption
  <2> QED BY <2>1 DEF Extracted, Typed
<1>4. WholeDocument' /\ Through' /\ Untouched' /\ InHand'
  BY DEF Typed, WholeDocument, Through, Untouched, InHand
<1> QED BY <1>1, <1>3, <1>4

\* One text more of the document is a segment, or blank.
LEMMA ExtractKeeps ==
  ASSUME ScannerInv, Extracts
  PROVE  ScannerInv'
<1> USE DEF Past, Failures
<1> DEFINE text == document.texts[taken + 1]
<1>1. document.texts \in Seq(Parts)
  BY ScannerAssumption DEF ScannerInv, Typed, Extracts, Parts
<1>2. taken + 1 \in DOMAIN document.texts /\ text \in Parts
  <2>1. taken \in Nat /\ taken < Len(document.texts)
    BY DEF ScannerInv, Typed, Extracts
  <2> QED BY <1>1, <2>1
<1>3. CASE text.text \notin Blank /\ Len(segments) >= limits.segments
  <2>1. Fails("limit")
    BY <1>3 DEF Extracts
  <2> QED BY <2>1, FailureKeeps DEF Extracts
<1>4. CASE ~(text.text \notin Blank /\ Len(segments) >= limits.segments)
  <2>1. /\ scan = "extracting" /\ ~stopped /\ taken < Len(document.texts)
        /\ taken' = taken + 1
        /\ segments' = IF text.text \in Blank THEN segments ELSE Append(segments, text)
        /\ UNCHANGED <<input, scan, stopped, search>>
    BY <1>4 DEF Extracts
  <2> HIDE DEF text
  <2>2. Typed'
    <3>1. segments' \in Seq(Parts)
      BY <2>1, <1>2 DEF ScannerInv, Typed
    <3>2. segment' = 1 /\ next' = {} /\ scan' = "extracting" /\ document' = document
      BY <2>1 DEF ScannerInv, Typed, input, search
    <3>3. level' = level /\ next' = next
      BY <2>1 DEF search
    <3> QED BY <2>1, <3>1, <3>2, <3>3 DEF ScannerInv, Typed, TextsOf
  <2>3. Extracted'
    <3> SUFFICES ASSUME NEW k \in DOMAIN document.texts, k <= taken + 1,
                        document.texts[k].text \notin Blank
                 PROVE  \E i \in DOMAIN segments' : segments'[i] = document.texts[k]
      BY <2>1 DEF Extracted, input
    <3>1. CASE k <= taken
      <4>1. PICK i \in DOMAIN segments : segments[i] = document.texts[k]
        BY <3>1, <2>1 DEF ScannerInv, Extracted
      <4>2. i \in DOMAIN segments' /\ segments'[i] = segments[i]
        BY <4>1, <2>1, <1>2 DEF ScannerInv, Typed
      <4> QED BY <4>1, <4>2
    <3>2. CASE k = taken + 1
      <4>1. segments' = Append(segments, text) /\ text = document.texts[k]
        BY <3>2, <2>1 DEF text
      <4>2. Len(segments) + 1 \in DOMAIN segments' /\ segments'[Len(segments) + 1] = text
        BY <4>1, <1>2 DEF ScannerInv, Typed
      <4> QED BY <4>1, <4>2
    <3> QED BY <3>1, <3>2, <1>1 DEF ScannerInv, Typed
  <2>4. WholeDocument' /\ Through' /\ Untouched' /\ InHand'
    BY <2>1 DEF ScannerInv, WholeDocument, Through, Untouched, InHand, input, search
  <2> QED BY <2>2, <2>3, <2>4 DEF ScannerInv
<1> QED BY <1>3, <1>4

LEMMA StartsTyped ==
  ASSUME segments \in Seq(Parts), NEW i
  PROVE  TextsOf(Starts(i)) \subseteq Texts
<1> SUFFICES ASSUME i \in DOMAIN segments PROVE segments[i].text \in Texts
  BY DEF Starts, TextsOf
<1>1. segments[i] \in Parts
  OBVIOUS
<1> QED BY <1>1 DEF Parts

\* The search begins with the whole document: a part of it is never a result.
LEMMA SearchBegins ==
  ASSUME ScannerInv, ExtractionEnds
  PROVE  ScannerInv'
<1> USE DEF Past, Failures
<1>1. CASE Unusable
  <2>1. Fails("internal")
    BY <1>1 DEF ExtractionEnds
  <2> QED BY <2>1, FailureKeeps DEF ExtractionEnds
<1>2. CASE ~Unusable
  <2>1. /\ scan = "extracting" /\ scan' = "searching"
        /\ level' = Starts(1) /\ seen' = SeenFirst(1)
        /\ searched' = [i \in DOMAIN segments |-> {}]
        /\ UNCHANGED <<input, extraction, segment, depth, next, candidates, expanded, found>>
    BY <1>2 DEF ExtractionEnds
  <2>2. taken = Len(document.texts)
    BY <1>2 DEF ExtractionEnds, Unusable, ScannerInv, WholeDocument
  <2>3. Typed'
    <3>1. TextsOf(level') \subseteq Texts
      BY <2>1, StartsTyped DEF ScannerInv, Typed
    <3>2. TextsOf(next') \subseteq Texts
      BY <2>1 DEF ScannerInv, Typed
    <3> QED BY <2>1, <3>1, <3>2 DEF ScannerInv, Typed, input, extraction, TextsOf
  <2>4. Extracted' /\ WholeDocument'
    BY <2>1, <2>2 DEF ScannerInv, Extracted, WholeDocument, input, extraction
  <2>5. Through' /\ Untouched'
    BY <2>1 DEF ScannerInv, Typed, Through, Untouched, input, extraction
  <2>6. InHand'
    BY <2>1 DEF ScannerInv, Typed, InHand, Starts, SeenFirst, TextsOf, input, extraction
  <2> QED BY <2>3, <2>4, <2>5, <2>6 DEF ScannerInv
<1> QED BY <1>1, <1>2

\* The rules a text matches are among those that report on it.
LEMMA RulesReport == \A item : document.matches[item.text] \subseteq RulesOf(item)
BY DEF RulesOf

\* Segments that are searched through stay so while others are searched.
LEMMA ThroughStays ==
  ASSUME NEW i, SearchedThrough(i),
         segments' = segments, document' = document, searched'[i] = searched[i], found \subseteq found'
  PROVE  SearchedThrough(i)'
<1>1. Scored \subseteq Scored'
  BY DEF Scored
<1> QED BY <1>1 DEF SearchedThrough, Decodings, Variants

\* A text is searched: what it decodes to has been seen, or is queued now.
LEMMA SearchKeeps ==
  ASSUME ScannerInv, Search
  PROVE  ScannerInv'
<1> USE DEF Past, Failures
<1>0. scan = "searching"
  BY DEF Search
<1> DEFINE More(item) == found \cup Findings(item)
           Deepest == depth >= limits.depth
           Over(item) ==
             \/ Cardinality(More(item)) > limits.findings
             \/ Deepest /\ Pending(item.text)
             \/ ~Deepest /\ candidates + Len(Variants(item.text)) > limits.candidates
             \/ ~Deepest /\ expanded + Cardinality(Fresh(item.text)) > limits.expansion
<1>1. PICK item \in level :
        IF Over(item) THEN Fails("limit")
        ELSE /\ found' = More(item)
             /\ searched' = [searched EXCEPT ![segment] = @ \cup {item.text}]
             /\ level' = level \ {item}
             /\ IF Deepest
                THEN UNCHANGED <<next, seen, candidates, expanded>>
                ELSE /\ next' = next \cup Queued(item)
                     /\ seen' = seen \cup Fresh(item.text)
                     /\ candidates' = candidates + Len(Variants(item.text))
                     /\ expanded' = expanded + Cardinality(Fresh(item.text))
             /\ UNCHANGED <<input, scan, extraction, segment, depth>>
  BY Zenon DEF Search
<1>2. CASE Over(item)
  <2>1. Fails("limit")
    BY <1>1, <1>2
  <2> QED BY <2>1, <1>0, FailureKeeps
<1>3. CASE ~Over(item)
  <2> DEFINE t == item.text
  <2>1. /\ found' = found \cup Findings(item)
        /\ searched' = [searched EXCEPT ![segment] = @ \cup {t}]
        /\ level' = level \ {item}
        /\ UNCHANGED <<document, limits, scan, taken, stopped, segments, segment, depth>>
    BY <1>1, <1>3 DEF input, extraction
  <2>2. \/ Deepest /\ next' = next /\ seen' = seen
        \/ ~Deepest /\ next' = next \cup Queued(item) /\ seen' = seen \cup Fresh(t)
    BY <1>1, <1>3
  <2>3. Deepest => Fresh(t) = {}
    BY <1>3 DEF Pending
  <2>4. t \in Texts /\ Variants(t) \in Seq([text : Texts, encoding : STRING])
    <3>1. t \in Texts
      BY DEF ScannerInv, Typed, TextsOf
    <3>2. document.variants \in [Texts -> Seq([text : Texts, encoding : STRING])]
      BY <1>0, ScannerAssumption DEF ScannerInv, Typed
    <3> QED BY <3>1, <3>2 DEF Variants
  <2> HIDE DEF Deepest, Over, More
  <2>5. Fresh(t) \subseteq TextsOf(Queued(item)) /\ TextsOf(Queued(item)) \subseteq Texts
    BY <2>4, FreshIsQueued
  <2>6. Typed'
    <3>1. TextsOf(level') \cup TextsOf(next') \subseteq Texts
      BY <2>1, <2>2, <2>5 DEF ScannerInv, Typed, TextsOf
    <3>2. DOMAIN searched' = DOMAIN searched
      BY <2>1
    <3> QED BY <2>1, <1>0, <2>2, <3>1, <3>2 DEF ScannerInv, Typed, TextsOf
  <2>7. Extracted' /\ WholeDocument'
    BY <2>1 DEF ScannerInv, Extracted, WholeDocument
  <2>8. Through'
    <3> SUFFICES ASSUME NEW i \in DOMAIN segments, i < segment PROVE SearchedThrough(i)'
      BY <2>1 DEF Through
    <3>1. SearchedThrough(i) /\ searched'[i] = searched[i]
      BY <1>0, <2>1 DEF ScannerInv, Typed, Through
    <3> QED BY <3>1, <2>1, ThroughStays
  <2>9. Untouched'
    BY <1>0, <2>1 DEF ScannerInv, Typed, Untouched
  <2>10. InHand'
    <3> SUFFICES ASSUME segment \in DOMAIN segments
                 PROVE  /\ segments[segment].text \in seen'
                        /\ seen' \subseteq searched'[segment] \cup TextsOf(level') \cup TextsOf(next')
                        /\ \A u \in searched'[segment] :
                             Decodings(u) \subseteq seen' /\ document.matches[u] \subseteq Scored'
      <4>1. \A u : Decodings(u)' = Decodings(u)
        BY <2>1 DEF Decodings, Variants
      <4> QED BY <2>1, <4>1 DEF InHand
    <3>1. searched'[segment] = searched[segment] \cup {t}
      BY <1>0, <2>1 DEF ScannerInv, Typed
    <3>2. /\ segments[segment].text \in seen
          /\ seen \subseteq searched[segment] \cup TextsOf(level) \cup TextsOf(next)
          /\ \A u \in searched[segment] : Decodings(u) \subseteq seen /\ document.matches[u] \subseteq Scored
      BY <1>0 DEF ScannerInv, InHand
    <3>3. seen \subseteq seen' /\ Decodings(t) \subseteq seen'
      BY <2>2, <2>3 DEF Fresh
    <3>4. TextsOf(level) \subseteq TextsOf(level') \cup {t}
      BY <2>1 DEF TextsOf
    <3>5. seen' \subseteq seen \cup TextsOf(next') /\ TextsOf(next) \subseteq TextsOf(next')
      BY <2>2, <2>5 DEF TextsOf
    <3>6. Scored \subseteq Scored' /\ document.matches[t] \subseteq Scored'
      <4>1. \A r \in RulesOf(item) : \E f \in Findings(item) : f.rule = r
        <5>1. \A r \in RulesOf(item) :
                [rule |-> r, at |-> segment, under |-> item.under] \in Findings(item)
          BY DEF Findings
        <5> QED BY <5>1
      <4> QED BY <4>1, <2>1, RulesReport DEF Scored
    <3> QED BY <3>1, <3>2, <3>3, <3>4, <3>5, <3>6
  <2> QED BY <2>6, <2>7, <2>8, <2>9, <2>10 DEF ScannerInv
<1> QED BY <1>2, <1>3

\* The next level is what was queued.
LEMMA DescendKeeps ==
  ASSUME ScannerInv, Descend
  PROVE  ScannerInv'
<1> USE DEF Descend, ScannerInv, Past, input, extraction
<1>1. Typed'
  BY DEF Typed, TextsOf
<1>2. Extracted' /\ WholeDocument'
  BY DEF Extracted, WholeDocument
<1>3. Through' /\ Untouched'
  BY DEF Through, Untouched, SearchedThrough, Decodings, Variants, Scored
<1>4. InHand'
  <2>1. TextsOf(level) = {}
    BY DEF TextsOf
  <2>2. TextsOf(level') = TextsOf(next)
    BY DEF TextsOf
  <2>3. /\ \A t : Decodings(t)' = Decodings(t)
        /\ Scored' = Scored
    BY DEF Decodings, Variants, Scored
  <2> QED BY <2>1, <2>2, <2>3 DEF InHand
<1> QED BY <1>1, <1>2, <1>3, <1>4

\* With nothing in the queue the segment is searched through.
LEMMA NextSegmentKeeps ==
  ASSUME ScannerInv, NextSegment
  PROVE  ScannerInv'
<1> USE DEF NextSegment, Past, input, extraction
<1>1. SearchedThrough(segment)
  <2>1. TextsOf(level) = {} /\ TextsOf(next) = {}
    BY DEF TextsOf
  <2> QED BY <2>1 DEF ScannerInv, InHand, SearchedThrough
<1>2. Typed'
  <2>1. TextsOf(level') \subseteq Texts
    BY StartsTyped DEF ScannerInv, Typed
  <2>2. TextsOf(next') \subseteq Texts
    BY DEF ScannerInv, Typed
  <2> QED BY <2>1, <2>2 DEF ScannerInv, Typed, TextsOf
<1>3. Extracted' /\ WholeDocument'
  BY DEF ScannerInv, Extracted, WholeDocument
<1>4. Through'
  <2> SUFFICES ASSUME NEW i \in DOMAIN segments, i < segment + 1 PROVE SearchedThrough(i)'
    BY DEF Through
  <2>1. SearchedThrough(i)
    BY <1>1 DEF ScannerInv, Typed, Through
  <2> QED BY <2>1, ThroughStays
<1>5. Untouched'
  BY DEF ScannerInv, Typed, Untouched
<1>6. InHand'
  <2> SUFFICES ASSUME segment + 1 \in DOMAIN segments
               PROVE  /\ segments[segment + 1].text \in seen'
                      /\ seen' \subseteq TextsOf(level')
                      /\ searched[segment + 1] = {}
    BY DEF InHand
  <2>1. searched[segment + 1] = {}
    BY DEF ScannerInv, Typed, Untouched
  <2>2. seen' = {segments[segment + 1].text}
    BY DEF SeenFirst
  <2>3. level' = {[text |-> segments[segment + 1].text, under |-> <<>>]}
    BY DEF Starts
  <2>4. segments[segment + 1].text \in TextsOf(level')
    <3> DEFINE first == [text |-> segments[segment + 1].text, under |-> <<>>]
    <3>1. first \in level' /\ first.text = segments[segment + 1].text
      BY <2>3
    <3> HIDE DEF first
    <3> QED BY <3>1 DEF TextsOf
  <2> QED BY <2>1, <2>2, <2>4
<1> QED BY <1>2, <1>3, <1>4, <1>5, <1>6 DEF ScannerInv

\* Nothing that was found or searched changes at the end, or while nothing happens.
LEMMA EndKeeps ==
  ASSUME ScannerInv, Completes \/ ExtractorStops \/ UNCHANGED scanVars
  PROVE  ScannerInv'
<1> USE DEF Completes, ExtractorStops, scanVars, input, extraction, search, Past
<1>1. Typed'
  BY DEF ScannerInv, Typed, TextsOf
<1>2. Extracted' /\ WholeDocument'
  BY DEF ScannerInv, Extracted, WholeDocument
<1>3. Through' /\ Untouched' /\ InHand'
  BY DEF ScannerInv, Typed, Through, Untouched, InHand, TextsOf, SearchedThrough, Decodings,
         Variants, Scored
<1> QED BY <1>1, <1>2, <1>3 DEF ScannerInv

LEMMA ScannerInvStep == ScannerInv /\ [Scan]_scanVars => ScannerInv'
<1> SUFFICES ASSUME ScannerInv, [Scan]_scanVars PROVE ScannerInv'
  OBVIOUS
<1>1. CASE BeginScan
  BY <1>1, BeginKeeps
<1>2. CASE ScanFails
  <2>1. PICK f \in Failures : Fails(f)
    BY <1>2 DEF ScanFails
  <2> QED BY <2>1, <1>2, FailureKeeps DEF ScanFails
<1>3. CASE Extracts
  BY <1>3, ExtractKeeps
<1>4. CASE ExtractionEnds
  BY <1>4, SearchBegins
<1>5. CASE Search
  BY <1>5, SearchKeeps
<1>6. CASE Descend
  BY <1>6, DescendKeeps
<1>7. CASE NextSegment
  BY <1>7, NextSegmentKeeps
<1>8. CASE Completes \/ ExtractorStops \/ UNCHANGED scanVars
  BY <1>8, EndKeeps
<1> QED BY <1>1, <1>2, <1>3, <1>4, <1>5, <1>6, <1>7, <1>8 DEF Scan
-----------------------------------------------------------------------------
\* A report is clean only when it is complete and nothing was found.
LEMMA CleanMeansNothingFound ==
  ASSUME Clean(Report(ScanReport, RuleThresholds))
  PROVE  ScanReport.complete /\ ScanReport.findings = {}
BY DEF Clean, Report, Verdict, Incomplete, Accepted, BrokenOff, Valid, Reviewed, PolicyStatus

LEMMA InvImpliesComplete == ScannerInv => CompleteMeansSearched
<1> SUFFICES ASSUME ScannerInv PROVE CompleteMeansSearched
  OBVIOUS
<1>1. ScanReport.complete => scan = "complete"
  BY DEF ScanReport
<1>2. ASSUME scan = "complete"
      PROVE  /\ \A k \in DOMAIN document.texts :
                  document.texts[k].text \notin Blank =>
                    \E i \in DOMAIN segments : segments[i] = document.texts[k]
             /\ \A i \in DOMAIN segments : SearchedThrough(i)
  <2>1. \A i \in DOMAIN segments : SearchedThrough(i)
    BY <1>2 DEF ScannerInv, Typed, Through, Past
  <2>2. document.texts \in Seq(Parts)
    BY <1>2, ScannerAssumption DEF ScannerInv, Typed, Parts
  <2>3. \A k \in DOMAIN document.texts : k <= taken
    BY <1>2, <2>2 DEF ScannerInv, WholeDocument, Past
  <2>4. \A k \in DOMAIN document.texts :
          document.texts[k].text \notin Blank =>
            \E i \in DOMAIN segments : segments[i] = document.texts[k]
    BY <1>2, <2>3 DEF ScannerInv, Extracted, Past
  <2> QED BY <2>1, <2>4
<1>3. ASSUME Clean(Report(ScanReport, RuleThresholds)),
             NEW i \in DOMAIN segments, NEW t \in searched[i]
      PROVE  document.matches[t] = {}
  <2>1. ScanReport.complete /\ ScanReport.findings = {}
    BY <1>3, CleanMeansNothingFound
  <2>2. scan = "complete"
    BY <2>1, <1>1
  <2>3. Scored = {}
    BY <2>1, <2>2 DEF ScanReport
  <2>4. document.matches[t] \subseteq Scored
    BY <2>2, <1>2 DEF SearchedThrough
  <2> QED BY <2>3, <2>4
<1>4. Clean(Report(ScanReport, RuleThresholds)) => ScanReport.complete
  BY CleanMeansNothingFound
<1> QED BY <1>1, <1>2, <1>3, <1>4 DEF CompleteMeansSearched

\* The invariant of the scan holds for every document and every limit.
THEOREM ScannerInvariant == ScannerSpec => []ScannerInv
<1>1. ScannerInit => ScannerInv
  BY ScannerInvInit
<1>2. ScannerInv /\ [Scan]_scanVars => ScannerInv'
  BY ScannerInvStep
<1> QED BY <1>1, <1>2, PTL DEF ScannerSpec

\* A complete report rests on every text of the document and everything that can
\* be decoded from it, and a VALID one on texts that no rule matches: for all
\* documents, decodings, rules and limits.
THEOREM ScansAreComplete == ScannerSpec => []CompleteMeansSearched
<1>1. ScannerInv => CompleteMeansSearched
  BY InvImpliesComplete
<1> QED BY <1>1, ScannerInvariant, PTL
-----------------------------------------------------------------------------
(* The text of an HTML document *)

Shapes == {"letter", "white", "keptSpace", "keptNewline", "break"}
Characters == {"letter", "space", "newline"}

\* What is visible ends in whitespace that the next character makes a space.
SpaceWaits(s) == s # <<>> /\ s[Len(s)] = "white" /\ ~AtLineStart(s, Len(s) + 1)

\* The text is what is visible, as far as it goes, and its flags say how it ends.
TextInv ==
  /\ parts \in Seq(Characters) /\ visible \in Seq(Shapes)
  /\ lineStart \in BOOLEAN /\ pendingSpace \in BOOLEAN
  /\ lineStart <=> (parts = <<>> \/ parts[Len(parts)] = "newline")
  /\ lineStart <=> AtLineStart(visible, Len(visible) + 1)
  /\ pendingSpace <=> SpaceWaits(visible)
  /\ Selected(parts, Rendering(visible))

\* What the stack says of an element is true of the elements around it.
TreeInv ==
  /\ stack \in Seq([tag : Tags, omission : BOOLEAN])
  /\ around \in Seq([tag : Tags, omitted : BOOLEAN])
  /\ Len(stack) = Len(around)
  /\ \A i \in 1..Len(stack) :
       /\ stack[i].tag = around[i].tag
       /\ stack[i].omission <=> \E j \in 1..i : around[j].omitted

HtmlInv ==
  /\ TextInv
  /\ TreeInv
  /\ pendingSpace => ~Inherited /\ ~Preformatted
  /\ transform = "done" => Last(parts) = "newline"
-----------------------------------------------------------------------------
(* What is selected of a rendering that grows at its end *)

LEMMA FilledIsFinite ==
  ASSUME NEW n \in Nat, NEW r, DOMAIN r = 1..n
  PROVE  /\ Filled(r) \subseteq 1..n
         /\ \A S \in SUBSET Filled(r) : IsFiniteSet(S) /\ Cardinality(S) \in Nat
                                        /\ Cardinality(S) <= Cardinality(Filled(r))
<1>1. Filled(r) \subseteq 1..n
  BY DEF Filled
<1>2. IsFiniteSet(1..n)
  BY FS_Interval
<1>3. IsFiniteSet(Filled(r))
  BY <1>1, <1>2, FS_Subset
<1>. QED  BY <1>1, <1>3, FS_Subset, FS_CardinalityType

\* q has one more place than r.
Longer(q, r, n) ==
  /\ DOMAIN r = 1..n /\ DOMAIN q = 1..(n + 1)
  /\ \A i \in 1..n : q[i] = r[i]

LEMMA SelectNothing ==
  ASSUME NEW n \in Nat, NEW r, NEW q, Longer(q, r, n), q[n + 1] = "none", NEW p
  PROVE  Selected(p, q) <=> Selected(p, r)
<1>1. Filled(q) = Filled(r)
  BY DEF Longer, Filled
<1>2. \A i \in Filled(r) : q[i] = r[i]
  BY DEF Longer, Filled
<1>3. \A i : UpTo(q, i) = UpTo(r, i)
  BY <1>1 DEF UpTo
<1>. QED  BY <1>1, <1>2, <1>3 DEF Selected

LEMMA SelectMore ==
  ASSUME NEW n \in Nat, NEW r, NEW q, Longer(q, r, n), q[n + 1] # "none",
         NEW S, NEW p \in Seq(S), q[n + 1] \in S, Selected(p, r)
  PROVE  Selected(Append(p, q[n + 1]), q)
<1>. DEFINE t == Append(p, q[n + 1])
<1>1. Filled(q) = Filled(r) \cup {n + 1}
  BY DEF Longer, Filled
<1>2. DOMAIN r = 1..n /\ DOMAIN q = 1..(n + 1)
  BY DEF Longer
<1>3. n + 1 \notin Filled(r) /\ Filled(r) \subseteq 1..n
  BY <1>2, FilledIsFinite
<1>4. IsFiniteSet(Filled(r)) /\ Cardinality(Filled(r)) \in Nat
  BY <1>2, FilledIsFinite
<1>5. Cardinality(Filled(q)) = Cardinality(Filled(r)) + 1
  BY <1>1, <1>3, <1>4, FS_AddElement
<1>6. Len(p) = Cardinality(Filled(r))
  BY DEF Selected
<1>7. /\ Len(t) = Len(p) + 1 /\ t[Len(p) + 1] = q[n + 1]
      /\ \A k \in 1..Len(p) : t[k] = p[k]
  OBVIOUS
<1>8. ASSUME NEW i \in Filled(r)
      PROVE  t[UpTo(q, i)] = q[i]
  <2>. DEFINE T == {j \in Filled(r) : j <= i}
  <2>1. {j \in Filled(q) : j <= i} = T
    BY <1>1, <1>3
  <2>2. UpTo(q, i) = Cardinality(T) /\ UpTo(r, i) = Cardinality(T)
    BY <2>1 DEF UpTo
  <2>3. T \in SUBSET Filled(r) /\ i \in T
    BY <1>3
  <2>. HIDE DEF T, t
  <2>4. IsFiniteSet(T) /\ Cardinality(T) \in Nat /\ Cardinality(T) <= Len(p)
    BY <2>3, <1>2, <1>6, FilledIsFinite
  <2>5. Cardinality(T) # 0
    BY <2>3, <2>4, FS_EmptySet
  <2>6. UpTo(r, i) \in 1..Len(p) /\ UpTo(q, i) = UpTo(r, i)
    BY <2>2, <2>4, <2>5
  <2>7. p[UpTo(r, i)] = r[i] /\ q[i] = r[i]
    BY <1>3 DEF Selected, Longer
  <2>. QED  BY <1>7, <2>6, <2>7
<1>9. UpTo(q, n + 1) = Len(p) + 1
  <2>1. {j \in Filled(q) : j <= n + 1} = Filled(q)
    BY <1>1, <1>3
  <2>. QED  BY <2>1, <1>5, <1>6 DEF UpTo
<1>. QED  BY <1>1, <1>5, <1>6, <1>7, <1>8, <1>9 DEF Selected
-----------------------------------------------------------------------------
(* What a rendering becomes when something is visible next *)

LEMMA LineStartStays ==
  ASSUME NEW s \in Seq(Shapes), NEW c \in Shapes, NEW i \in 1..(Len(s) + 1)
  PROVE  AtLineStart(Append(s, c), i) <=> AtLineStart(s, i)
<1>1. \A j \in 1..(i - 1) : j \in 1..Len(s) /\ Append(s, c)[j] = s[j]
  OBVIOUS
<1>2. \A j \in 1..(i - 1) : \A k \in (j + 1)..(i - 1) : k \in 1..(i - 1)
  OBVIOUS
<1>. QED  BY <1>1, <1>2 DEF AtLineStart

LEMMA LineStartGoesOn ==
  ASSUME NEW s \in Seq(Shapes), NEW c \in Shapes
  PROVE  AtLineStart(Append(s, c), Len(s) + 2)
           <=> c \in {"break", "keptNewline"} \/ (c = "white" /\ AtLineStart(s, Len(s) + 1))
<1>. DEFINE t == Append(s, c)
            n == Len(s)
<1>1. n \in Nat /\ t[n + 1] = c /\ \A j \in 1..n : t[j] = s[j]
  OBVIOUS
<1>. HIDE DEF t, n
<1>2. AtLineStart(t, n + 2) <=>
        \A j \in 1..(n + 1) :
          t[j] \in {"letter", "keptSpace"} => \E k \in (j + 1)..(n + 1) : t[k] \in {"break", "keptNewline"}
  BY <1>1 DEF AtLineStart
<1>3. CASE c \in {"break", "keptNewline"}
  <2>1. ASSUME NEW j \in 1..(n + 1), t[j] \in {"letter", "keptSpace"}
        PROVE  \E k \in (j + 1)..(n + 1) : t[k] \in {"break", "keptNewline"}
    <3>1. j # n + 1
      BY <1>1, <1>3, <2>1
    <3>2. n + 1 \in (j + 1)..(n + 1)
      BY <3>1, <1>1
    <3>3. t[n + 1] \in {"break", "keptNewline"}
      BY <1>1, <1>3
    <3>. QED  BY <3>2, <3>3
  <2>. QED  BY <1>2, <1>3, <2>1 DEF n, t
<1>4. CASE c = "white"
  <2>1. AtLineStart(s, n + 1) <=>
          \A j \in 1..n :
            s[j] \in {"letter", "keptSpace"} => \E k \in (j + 1)..n : s[k] \in {"break", "keptNewline"}
    BY <1>1 DEF AtLineStart
  <2>2. ASSUME NEW j \in 1..n
        PROVE  (\E k \in (j + 1)..(n + 1) : t[k] \in {"break", "keptNewline"})
                 <=> (\E k \in (j + 1)..n : s[k] \in {"break", "keptNewline"})
    <3>1. ASSUME NEW k \in (j + 1)..(n + 1), t[k] \in {"break", "keptNewline"}
          PROVE  k \in (j + 1)..n /\ s[k] \in {"break", "keptNewline"}
      BY <1>1, <1>4, <3>1
    <3>2. ASSUME NEW k \in (j + 1)..n, s[k] \in {"break", "keptNewline"}
          PROVE  k \in (j + 1)..(n + 1) /\ t[k] \in {"break", "keptNewline"}
      BY <1>1, <3>2
    <3>. QED  BY <3>1, <3>2
  <2>3. AtLineStart(t, n + 2) <=> AtLineStart(s, n + 1)
    <3>1. ASSUME AtLineStart(t, n + 2), NEW j \in 1..n, s[j] \in {"letter", "keptSpace"}
          PROVE  \E k \in (j + 1)..n : s[k] \in {"break", "keptNewline"}
      BY <3>1, <1>1, <1>2, <2>2
    <3>2. ASSUME AtLineStart(s, n + 1), NEW j \in 1..(n + 1), t[j] \in {"letter", "keptSpace"}
          PROVE  \E k \in (j + 1)..(n + 1) : t[k] \in {"break", "keptNewline"}
      <4>1. j \in 1..n /\ s[j] \in {"letter", "keptSpace"}
        BY <3>2, <1>1, <1>4
      <4>. QED  BY <4>1, <3>2, <2>1, <2>2
    <3>. QED  BY <3>1, <3>2, <1>2, <2>1
  <2>. QED  BY <2>3, <1>4 DEF n, t
<1>5. CASE c \in {"letter", "keptSpace"}
  <2>1. t[n + 1] \in {"letter", "keptSpace"} /\ n + 1 \in 1..(n + 1) /\ (n + 2)..(n + 1) = {}
    BY <1>1, <1>5
  <2>2. ~AtLineStart(t, n + 2)
    BY <2>1, <1>2, <1>1
  <2>. QED  BY <2>2, <1>5 DEF n, t
<1>. QED  BY <1>3, <1>4, <1>5 DEF n, t, Shapes

LEMMA FrontIs ==
  ASSUME NEW S, NEW s \in Seq(S), s # <<>>
  PROVE  /\ Front(s) \in Seq(S) /\ Len(Front(s)) = Len(s) - 1 /\ Len(s) \in Nat \ {0}
         /\ \A i \in 1..(Len(s) - 1) : Front(s)[i] = s[i]
<1>. DEFINE m == Len(s) - 1
<1>1. m \in Nat /\ Len(s) = m + 1
  OBVIOUS
<1>2. \A i \in 1..m : s[i] \in S /\ 1 + i - 1 = i
  BY <1>1
<1>3. m - 1 + 1 = m /\ (IF 1 <= m THEN m - 1 + 1 ELSE 0) = m
  BY <1>1
<1>4. SubSeq(s, 1, m) \in Seq(S) /\ Len(SubSeq(s, 1, m)) = m /\ \A i \in 1..m : SubSeq(s, 1, m)[i] = s[i]
  <2>. HIDE DEF m
  <2>. QED  BY <1>1, <1>2, <1>3, SubSeqProperties
<1>. QED  BY <1>1, <1>4 DEF Front

LEMMA LineStartOverWhite ==
  ASSUME NEW s \in Seq(Shapes), s # <<>>, s[Len(s)] = "white"
  PROVE  AtLineStart(s, Len(s) + 1) <=> AtLineStart(s, Len(s))
<1>. DEFINE n == Len(s)
            f == Front(s)
<1>1. n \in Nat \ {0} /\ "white" \in Shapes
  BY DEF Shapes
<1>2. f \in Seq(Shapes) /\ Len(f) = n - 1 /\ s = Append(f, "white")
  <2>1. f \in Seq(Shapes) /\ Len(f) = n - 1 /\ \A i \in 1..(n - 1) : f[i] = s[i]
    BY FrontIs
  <2>2. Append(f, "white") \in Seq(Shapes) /\ Len(Append(f, "white")) = n
    BY <1>1, <2>1
  <2>3. \A i \in 1..n : Append(f, "white")[i] = s[i]
    BY <1>1, <2>1
  <2>. QED  BY <2>1, <2>2, <2>3, SeqEqual
<1>. HIDE DEF f
<1>3. AtLineStart(s, Len(f) + 2) <=> AtLineStart(f, Len(f) + 1)
  BY <1>1, <1>2, LineStartGoesOn
<1>4. AtLineStart(s, Len(f) + 1) <=> AtLineStart(f, Len(f) + 1)
  BY <1>1, <1>2, LineStartStays
<1>5. Len(f) + 2 = Len(s) + 1 /\ Len(f) + 1 = Len(s)
  BY <1>1, <1>2
<1>. QED  BY <1>3, <1>4, <1>5

\* What the last place of a rendering becomes.
Own(s, c) ==
  CASE c = "letter" -> "letter"
    [] c = "keptSpace" -> "space"
    [] c = "keptNewline" -> "newline"
    [] c = "break" -> IF AtLineStart(s, Len(s) + 1) THEN "none" ELSE "newline"
    [] c = "white" -> "none"

LEMMA LastPlace ==
  ASSUME NEW s \in Seq(Shapes), NEW c \in Shapes
  PROVE  Rendered(Append(s, c), Len(s) + 1) = Own(s, c)
<1>1. Append(s, c)[Len(s) + 1] = c /\ Len(Append(s, c)) = Len(s) + 1
  OBVIOUS
<1>2. AtLineStart(Append(s, c), Len(s) + 1) <=> AtLineStart(s, Len(s) + 1)
  BY LineStartStays
<1>. QED  BY <1>1, <1>2 DEF Rendered, Own, Shapes

LEMMA EarlierPlaces ==
  ASSUME NEW s \in Seq(Shapes), NEW c \in Shapes, NEW i \in 1..Len(s),
         i < Len(s) \/ s[i] # "white"
  PROVE  Rendered(Append(s, c), i) = Rendered(s, i)
<1>1. Append(s, c)[i] = s[i] /\ Len(Append(s, c)) = Len(s) + 1 /\ s[i] \in Shapes
  OBVIOUS
<1>2. i < Len(s) => Append(s, c)[i + 1] = s[i + 1]
  OBVIOUS
<1>3. AtLineStart(Append(s, c), i) <=> AtLineStart(s, i)
  BY LineStartStays
<1>4. i < Len(s) => i < Len(s) + 1
  OBVIOUS
<1>. QED  BY <1>1, <1>2, <1>3, <1>4 DEF Rendered, Shapes

LEMMA LastWhite ==
  ASSUME NEW s \in Seq(Shapes), NEW c \in Shapes, s # <<>>, s[Len(s)] = "white"
  PROVE  /\ Rendered(s, Len(s)) = "none"
         /\ Rendered(Append(s, c), Len(s)) =
              IF SpaceWaits(s) /\ c \notin {"white", "break"} THEN "space" ELSE "none"
<1>1. /\ Len(s) \in Nat \ {0}
      /\ Append(s, c)[Len(s)] = "white" /\ Len(Append(s, c)) = Len(s) + 1
      /\ Append(s, c)[Len(s) + 1] = c
  OBVIOUS
<1>2. AtLineStart(Append(s, c), Len(s)) <=> AtLineStart(s, Len(s) + 1)
  BY <1>1, LineStartStays, LineStartOverWhite
<1>3. Len(s) < Len(s) + 1 /\ ~(Len(s) < Len(s))
  BY <1>1
<1>. QED  BY <1>1, <1>2, <1>3 DEF Rendered, SpaceWaits

\* The text when c is visible next: with the space that waits for it, and with c.
Spaced(p, s, c) == IF SpaceWaits(s) /\ c \notin {"white", "break"} THEN Append(p, "space") ELSE p
Grown(p, s, c) ==
  IF Own(s, c) = "none" THEN Spaced(p, s, c) ELSE Append(Spaced(p, s, c), Own(s, c))

LEMMA TextGrows ==
  ASSUME NEW s \in Seq(Shapes), NEW c \in Shapes, NEW p \in Seq(Characters),
         Selected(p, Rendering(s))
  PROVE  Selected(Grown(p, s, c), Rendering(Append(s, c)))
<1>. DEFINE t == Append(s, c)
            n == Len(s)
            r == Rendering(s)
            q == Rendering(t)
<1>1. t \in Seq(Shapes) /\ Len(t) = n + 1 /\ n \in Nat
  OBVIOUS
<1>2. /\ DOMAIN r = 1..n /\ \A i \in 1..n : r[i] = Rendered(s, i)
      /\ DOMAIN q = 1..(n + 1) /\ \A i \in 1..(n + 1) : q[i] = Rendered(t, i)
  BY <1>1 DEF Rendering
<1>3. n + 1 \in 1..(n + 1) /\ \A i \in 1..n : i \in 1..(n + 1)
  BY <1>1
<1>4. q[n + 1] = Own(s, c)
  BY <1>2, <1>3, LastPlace
<1>5. Own(s, c) \in Characters \cup {"none"} /\ "space" \in Characters
  BY DEF Own, Characters, Shapes
<1>. HIDE DEF t, n, r, q
<1>6. CASE SpaceWaits(s) /\ c \notin {"white", "break"}
  <2>. DEFINE m == n - 1
              r0 == [i \in 1..m |-> Rendered(s, i)]
              q0 == [i \in 1..n |-> Rendered(t, i)]
  <2>1. n # 0 /\ s # <<>> /\ s[n] = "white"
    BY <1>6 DEF SpaceWaits, n
  <2>2. m \in Nat /\ n = m + 1 /\ n \in 1..n /\ (\A i \in 1..m : i \in 1..n /\ i < n)
    BY <2>1, <1>1
  <2>3. Rendered(s, n) = "none" /\ Rendered(t, n) = "space"
    BY <1>6, <2>1, LastWhite DEF n, t
  <2>4. \A i \in 1..m : Rendered(t, i) = Rendered(s, i)
    BY <2>2, EarlierPlaces DEF n, t
  <2>. HIDE DEF m
  <2>5. Longer(r, r0, m) /\ r[m + 1] = "none"
    BY <1>2, <2>2, <2>3 DEF Longer
  <2>6. Selected(p, r0)
    BY <2>2, <2>5, SelectNothing DEF r
  <2>7. Longer(q0, r0, m) /\ q0[m + 1] = "space"
    BY <2>2, <2>3, <2>4 DEF Longer
  <2>. HIDE DEF q0, r0
  <2>8. Selected(Append(p, "space"), q0)
    BY <1>5, <2>2, <2>6, <2>7, SelectMore
  <2>9. Longer(q, q0, n)
    BY <1>2, <1>3 DEF Longer, q0
  <2>10. Own(s, c) # "none" /\ Own(s, c) \in Characters
    BY <1>5, <1>6 DEF Own, Shapes
  <2>11. Append(p, "space") \in Seq(Characters)
    BY <1>5
  <2>12. Selected(Append(Append(p, "space"), Own(s, c)), q)
    BY <1>1, <1>4, <2>8, <2>9, <2>10, <2>11, SelectMore
  <2>. QED  BY <1>6, <2>10, <2>12 DEF Grown, Spaced, q, t
<1>7. CASE ~(SpaceWaits(s) /\ c \notin {"white", "break"})
  <2>1. \A i \in 1..n : Rendered(t, i) = Rendered(s, i)
    <3>1. ASSUME NEW i \in 1..n, i < n \/ s[i] # "white"
          PROVE  Rendered(t, i) = Rendered(s, i)
      BY <3>1, EarlierPlaces DEF n, t
    <3>2. ASSUME NEW i \in 1..n, ~(i < n), s[i] = "white"
          PROVE  Rendered(t, i) = Rendered(s, i)
      <4>1. i = n /\ s # <<>>
        BY <3>2, <1>1 DEF n
      <4>. QED  BY <4>1, <3>2, <1>7, LastWhite DEF n, t
    <3>. QED  BY <3>1, <3>2
  <2>2. Longer(q, r, n)
    BY <1>2, <1>3, <2>1 DEF Longer
  <2>3. Selected(p, r)
    BY DEF r
  <2>4. CASE Own(s, c) = "none"
    <3>1. Selected(p, q)
      BY <1>1, <1>4, <2>2, <2>3, <2>4, SelectNothing
    <3>. QED  BY <1>7, <2>4, <3>1 DEF Grown, Spaced, q, t
  <2>5. CASE Own(s, c) # "none"
    <3>1. Selected(Append(p, Own(s, c)), q)
      BY <1>1, <1>4, <1>5, <2>2, <2>3, <2>5, SelectMore
    <3>. QED  BY <1>7, <2>5, <3>1 DEF Grown, Spaced, q, t
  <2>. QED  BY <2>4, <2>5
<1>. QED  BY <1>6, <1>7
-----------------------------------------------------------------------------
(* The steps of the transformation *)

LEMMA GrownIs ==
  ASSUME NEW s \in Seq(Shapes), NEW c \in Shapes, NEW p \in Seq(Characters)
  PROVE  /\ Grown(p, s, c) \in Seq(Characters)
         /\ c = "white" => Grown(p, s, c) = p
         /\ c = "break" => Grown(p, s, c) = IF AtLineStart(s, Len(s) + 1) THEN p ELSE Append(p, "newline")
         /\ c \in {"letter", "keptSpace", "keptNewline"} =>
              /\ Grown(p, s, c) = Append(Spaced(p, s, c), Own(s, c))
              /\ Spaced(p, s, c) = IF SpaceWaits(s) THEN Append(p, "space") ELSE p
              /\ Own(s, c) = (IF c = "letter" THEN "letter"
                              ELSE IF c = "keptSpace" THEN "space" ELSE "newline")
         /\ Grown(p, s, c) # <<>> /\ c # "white" =>
              (Last(Grown(p, s, c)) = "newline"
                 <=> c = "keptNewline" \/ (c = "break" /\ (AtLineStart(s, Len(s) + 1) => Last(p) = "newline")))
<1>1. Spaced(p, s, c) \in Seq(Characters)
  BY DEF Spaced, Characters
<1>2. \A x \in Characters, w \in Seq(Characters) :
        Append(w, x) \in Seq(Characters) /\ Append(w, x) # <<>> /\ Last(Append(w, x)) = x
  BY SMTT(20) DEF Last
<1>3. CASE c = "white"
  BY <1>1, <1>3 DEF Grown, Spaced, Own
<1>4. CASE c = "break"
  BY <1>1, <1>2, <1>4 DEF Grown, Spaced, Own, Characters
<1>5. CASE c \in {"letter", "keptSpace", "keptNewline"}
  <2>1. Own(s, c) = (IF c = "letter" THEN "letter" ELSE IF c = "keptSpace" THEN "space" ELSE "newline")
    BY <1>5 DEF Own
  <2>2. Own(s, c) \in Characters /\ Own(s, c) # "none" /\ (Own(s, c) = "newline" <=> c = "keptNewline")
    BY <1>5, <2>1 DEF Characters
  <2>3. Grown(p, s, c) = Append(Spaced(p, s, c), Own(s, c))
    BY <2>2 DEF Grown
  <2>4. Spaced(p, s, c) = IF SpaceWaits(s) THEN Append(p, "space") ELSE p
    BY <1>5 DEF Spaced
  <2>. QED  BY <1>1, <1>2, <1>5, <2>1, <2>2, <2>3, <2>4
<1>. QED  BY <1>3, <1>4, <1>5 DEF Shapes

\* One place more is visible, and the text has grown by it.
LEMMA TextStep ==
  ASSUME TextInv, NEW c \in Shapes, visible' = Append(visible, c),
         parts' = Grown(parts, visible, c),
         lineStart' = (parts' = <<>> \/ Last(parts') = "newline"),
         pendingSpace' = (c = "white" /\ ~lineStart)
  PROVE  TextInv'
<1>1. /\ parts \in Seq(Characters) /\ visible \in Seq(Shapes)
      /\ lineStart <=> (parts = <<>> \/ Last(parts) = "newline")
      /\ lineStart <=> AtLineStart(visible, Len(visible) + 1)
  BY DEF TextInv, Last
<1>2. parts' \in Seq(Characters) /\ visible' \in Seq(Shapes)
  BY <1>1, GrownIs
<1>3. Len(visible') = Len(visible) + 1 /\ visible' # <<>> /\ visible'[Len(visible')] = c /\ Len(visible) \in Nat
  BY <1>1
<1>4. AtLineStart(visible', Len(visible') + 1) <=> c \in {"break", "keptNewline"} \/ (c = "white" /\ lineStart)
  <2>1. Len(visible') + 1 = Len(visible) + 2
    BY <1>3
  <2>. QED  BY <1>1, <2>1, LineStartGoesOn
<1>5. lineStart' <=> c \in {"break", "keptNewline"} \/ (c = "white" /\ lineStart)
  <2>1. lineStart' <=> (parts' = <<>> \/ Last(parts') = "newline")
    OBVIOUS
  <2>2. CASE c = "white"
    <3>1. parts' = parts
      BY <1>1, <2>2, GrownIs
    <3>. QED  BY <1>1, <2>1, <2>2, <3>1
  <2>3. CASE c = "break"
    <3>1. parts' = IF lineStart THEN parts ELSE Append(parts, "newline")
      BY <1>1, <2>3, GrownIs
    <3>2. CASE lineStart
      BY <1>1, <2>1, <2>3, <3>1, <3>2
    <3>3. CASE ~lineStart
      <4>1. parts' = Append(parts, "newline") /\ Last(Append(parts, "newline")) = "newline"
        BY <1>1, <3>1, <3>3 DEF Last, Characters
      <4>. QED  BY <2>1, <2>3, <4>1
    <3>. QED  BY <3>2, <3>3
  <2>4. CASE c \in {"letter", "keptSpace", "keptNewline"}
    <3>1. parts' # <<>>
      BY <1>1, <2>4, GrownIs
    <3>2. Last(parts') = "newline" <=> c = "keptNewline"
      BY <1>1, <2>4, <3>1, GrownIs
    <3>. QED  BY <2>1, <2>4, <3>1, <3>2
  <2>. QED  BY <2>2, <2>3, <2>4 DEF Shapes
<1>6. SpaceWaits(visible') <=> (c = "white" /\ ~lineStart)
  BY <1>3, <1>4 DEF SpaceWaits
<1>7. Selected(parts', Rendering(visible'))
  BY <1>1, TextGrows DEF TextInv
<1>. QED  BY <1>2, <1>4, <1>5, <1>6, <1>7 DEF TextInv, Last

LEMMA NothingIsVisible ==
  ASSUME TextInv, NoOutput, UNCHANGED visible
  PROVE  TextInv'
BY DEF TextInv, NoOutput

LEMMA BoundaryIsBreak ==
  ASSUME TextInv, Boundary, Breaks(TRUE)
  PROVE  TextInv' /\ ~pendingSpace' /\ (parts # <<>> => Last(parts') = "newline")
<1>1. /\ parts \in Seq(Characters) /\ visible \in Seq(Shapes)
      /\ lineStart <=> (parts = <<>> \/ Last(parts) = "newline")
      /\ lineStart <=> AtLineStart(visible, Len(visible) + 1)
  BY DEF TextInv, Last
<1>2. /\ parts' = Bounded(parts, lineStart) /\ pendingSpace' = FALSE
      /\ lineStart' = (parts' = <<>> \/ Last(parts') = "newline")
      /\ visible' = Append(visible, "break") /\ "break" \in Shapes
  BY DEF Boundary, Output, Breaks, Shapes
<1>3. parts' = Grown(parts, visible, "break")
  BY <1>1, <1>2, GrownIs DEF Bounded
<1>4. TextInv'
  BY <1>2, <1>3, TextStep
<1>5. parts # <<>> => Last(parts') = "newline"
  BY <1>1, <1>2 DEF Bounded, Last, Characters
<1>. QED  BY <1>2, <1>4, <1>5

LEMMA InheritedIsHidden ==
  TreeInv => (Inherited <=> ~Shown(around))
<1>. SUFFICES ASSUME TreeInv
              PROVE  Inherited <=> ~Shown(around)
  OBVIOUS
<1>1. /\ Len(stack) \in Nat /\ Len(around) = Len(stack) /\ DOMAIN around = 1..Len(stack)
      /\ stack # <<>> <=> Len(stack) # 0
  BY DEF TreeInv
<1>2. CASE stack = <<>>
  BY <1>1, <1>2 DEF Inherited, Shown
<1>3. CASE stack # <<>>
  <2>1. Len(stack) \in 1..Len(stack)
    BY <1>1, <1>3
  <2>2. stack[Len(stack)].omission <=> \E j \in 1..Len(stack) : around[j].omitted
    BY <2>1 DEF TreeInv
  <2>. QED  BY <1>1, <1>3, <2>2 DEF Inherited, Shown, Last
<1>. QED  BY <1>2, <1>3

LEMMA InnermostIs ==
  ASSUME TreeInv, stack # <<>>
  PROVE  /\ Last(stack).omission <=> ~Shown(Front(around)) \/ Last(around).omitted
         /\ (Len(stack) > 1 /\ stack[Len(stack) - 1].omission) <=> ~Shown(Front(around))
<1>1. /\ Len(stack) \in Nat \ {0} /\ Len(around) = Len(stack) /\ around # <<>>
      /\ around \in Seq([tag : Tags, omitted : BOOLEAN])
  BY DEF TreeInv
<1>2. /\ DOMAIN Front(around) = 1..(Len(stack) - 1)
      /\ \A j \in 1..(Len(stack) - 1) : Front(around)[j] = around[j]
  <2>1. Front(around) \in Seq([tag : Tags, omitted : BOOLEAN]) /\ Len(Front(around)) = Len(stack) - 1
    BY <1>1, FrontIs
  <2>. QED  BY <1>1, <2>1, FrontIs
<1>3. Shown(Front(around)) <=> \A j \in 1..(Len(stack) - 1) : ~around[j].omitted
  BY <1>2 DEF Shown
<1>4. Last(stack).omission <=> \E j \in 1..Len(stack) : around[j].omitted
  <2>1. Len(stack) \in 1..Len(stack)
    BY <1>1
  <2>. QED  BY <2>1 DEF TreeInv, Last
<1>5. \A j \in 1..Len(stack) : j \in 1..(Len(stack) - 1) \/ j = Len(stack)
  BY <1>1
<1>6. Len(stack) \in 1..Len(stack) /\ \A j \in 1..(Len(stack) - 1) : j \in 1..Len(stack)
  BY <1>1
<1>7. (\E j \in 1..Len(stack) : around[j].omitted)
        <=> (\E j \in 1..(Len(stack) - 1) : around[j].omitted) \/ around[Len(stack)].omitted
  BY <1>5, <1>6
<1>8. Last(around) = around[Len(stack)]
  BY <1>1 DEF Last
<1>9. (Len(stack) > 1 /\ stack[Len(stack) - 1].omission)
        <=> \E j \in 1..(Len(stack) - 1) : around[j].omitted
  <2>1. CASE Len(stack) > 1
    <3>1. Len(stack) - 1 \in 1..Len(stack)
      BY <1>1, <2>1
    <3>. QED  BY <2>1, <3>1 DEF TreeInv
  <2>2. CASE ~(Len(stack) > 1)
    <3>1. 1..(Len(stack) - 1) = {}
      BY <1>1, <2>2
    <3>. QED  BY <2>2, <3>1
  <2>. QED  BY <2>1, <2>2
<1>. QED  BY <1>3, <1>4, <1>7, <1>8, <1>9

\* An element starts inside of the others.
LEMMA TreePush ==
  ASSUME TreeInv, NEW tag \in Tags, NEW alone \in BOOLEAN, NEW omission \in BOOLEAN,
         omission <=> (Inherited \/ alone),
         stack' = Append(stack, [tag |-> tag, omission |-> omission]),
         around' = Append(around, [tag |-> tag, omitted |-> alone])
  PROVE  /\ TreeInv'
         /\ Inherited' <=> omission
         /\ Preformatted' <=> Preformatted \/ tag = "pre"
<1>. DEFINE n == Len(stack)
<1>1. /\ stack \in Seq([tag : Tags, omission : BOOLEAN])
      /\ around \in Seq([tag : Tags, omitted : BOOLEAN])
      /\ n \in Nat /\ Len(around) = n
  BY DEF TreeInv
<1>2. /\ stack' \in Seq([tag : Tags, omission : BOOLEAN]) /\ Len(stack') = n + 1
      /\ stack'[n + 1] = [tag |-> tag, omission |-> omission]
      /\ \A i \in 1..n : stack'[i] = stack[i]
  BY <1>1
<1>3. /\ around' \in Seq([tag : Tags, omitted : BOOLEAN]) /\ Len(around') = n + 1
      /\ around'[n + 1] = [tag |-> tag, omitted |-> alone]
      /\ \A i \in 1..n : around'[i] = around[i]
  BY <1>1
<1>4. (\E j \in 1..n : around[j].omitted) <=> Inherited
  BY <1>1, InheritedIsHidden DEF Shown
<1>. HIDE DEF n
<1>5. n + 1 \in 1..(n + 1) /\ (\A i \in 1..n : i \in 1..(n + 1)) /\ \A i \in 1..(n + 1) : i \in 1..n \/ i = n + 1
  BY <1>1
<1>6. (\E j \in 1..(n + 1) : around'[j].omitted) <=> omission
  <2>1. (\E j \in 1..(n + 1) : around'[j].omitted) <=> (\E j \in 1..n : around[j].omitted) \/ alone
    BY <1>3, <1>5
  <2>. QED  BY <1>4, <2>1
<1>7. ASSUME NEW i \in 1..n
      PROVE  /\ stack'[i].tag = around'[i].tag
             /\ stack'[i].omission <=> \E j \in 1..i : around'[j].omitted
  <2>1. \A j \in 1..i : j \in 1..n
    BY <1>1
  <2>2. stack[i].tag = around[i].tag /\ (stack[i].omission <=> \E j \in 1..i : around[j].omitted)
    BY DEF TreeInv, n
  <2>. QED  BY <1>2, <1>3, <2>1, <2>2
<1>8. /\ stack'[n + 1].tag = around'[n + 1].tag
      /\ stack'[n + 1].omission <=> \E j \in 1..(n + 1) : around'[j].omitted
  BY <1>2, <1>3, <1>6
<1>9. TreeInv'
  BY <1>2, <1>3, <1>5, <1>7, <1>8 DEF TreeInv
<1>10. Inherited' <=> omission
  <2>1. stack' # <<>> /\ Last(stack') = [tag |-> tag, omission |-> omission]
    BY <1>1, <1>2 DEF Last
  <2>. QED  BY <2>1 DEF Inherited
<1>11. Preformatted' <=> Preformatted \/ tag = "pre"
  <2>1. DOMAIN stack' = 1..(n + 1) /\ DOMAIN stack = 1..n
    BY <1>1, <1>2 DEF n
  <2>. QED  BY <1>2, <1>5, <2>1 DEF Preformatted
<1>. QED  BY <1>9, <1>10, <1>11

\* The innermost element ends.
LEMMA TreePop ==
  ASSUME TreeInv, stack # <<>>, stack' = Front(stack), around' = Front(around)
  PROVE  /\ TreeInv'
         /\ Inherited' <=> ~Shown(Front(around))
         /\ Preformatted' => Preformatted
<1>. DEFINE m == Len(stack) - 1
<1>1. /\ stack \in Seq([tag : Tags, omission : BOOLEAN])
      /\ around \in Seq([tag : Tags, omitted : BOOLEAN])
      /\ m \in Nat /\ Len(stack) = m + 1 /\ Len(around) = m + 1 /\ around # <<>>
  BY DEF TreeInv
<1>2. /\ stack' \in Seq([tag : Tags, omission : BOOLEAN]) /\ Len(stack') = m
      /\ \A i \in 1..m : stack'[i] = stack[i]
  BY <1>1, FrontIs
<1>3. /\ around' \in Seq([tag : Tags, omitted : BOOLEAN]) /\ Len(around') = m
      /\ \A i \in 1..m : around'[i] = around[i]
  <2>1. Len(around) - 1 = m
    BY <1>1
  <2>. QED  BY <1>1, <2>1, FrontIs
<1>. HIDE DEF m
<1>4. ASSUME NEW i \in 1..m
      PROVE  /\ stack'[i].tag = around'[i].tag
             /\ stack'[i].omission <=> \E j \in 1..i : around'[j].omitted
  <2>1. i \in 1..Len(stack) /\ \A j \in 1..i : j \in 1..m
    BY <1>1
  <2>2. stack[i].tag = around[i].tag /\ (stack[i].omission <=> \E j \in 1..i : around[j].omitted)
    BY <2>1 DEF TreeInv
  <2>. QED  BY <1>2, <1>3, <2>1, <2>2
<1>5. TreeInv'
  BY <1>2, <1>3, <1>4 DEF TreeInv
<1>6. Inherited' <=> ~Shown(Front(around))
  <2>1. (TreeInv => (Inherited <=> ~Shown(around)))'
    BY InheritedIsHidden, PTL
  <2>. QED  BY <1>5, <2>1 DEF Shown
<1>7. Preformatted' => Preformatted
  <2>1. DOMAIN stack' = 1..m /\ DOMAIN stack = 1..(m + 1) /\ \A i \in 1..m : i \in 1..(m + 1)
    BY <1>1, <1>2
  <2>. QED  BY <1>2, <2>1 DEF Preformatted
<1>. QED  BY <1>5, <1>6, <1>7

LEMMA HtmlInitially == HtmlInit => HtmlInv
<1>. SUFFICES ASSUME HtmlInit
              PROVE  HtmlInv
  OBVIOUS
<1>1. /\ stack = <<>> /\ parts = <<>> /\ pendingSpace = FALSE /\ lineStart = TRUE
      /\ transform = "running" /\ around = <<>> /\ visible = <<>>
  BY DEF HtmlInit
<1>2. AtLineStart(visible, Len(visible) + 1)
  BY <1>1 DEF AtLineStart
<1>3. Selected(parts, Rendering(visible))
  <2>1. DOMAIN Rendering(visible) = {}
    BY <1>1 DEF Rendering
  <2>2. Filled(Rendering(visible)) = {}
    BY <2>1 DEF Filled
  <2>3. Cardinality({}) = 0
    BY FS_EmptySet
  <2>. QED  BY <1>1, <2>2, <2>3 DEF Selected
<1>4. TextInv
  <2>1. parts \in Seq(Characters) /\ visible \in Seq(Shapes)
    BY <1>1
  <2>2. ~SpaceWaits(visible)
    BY <1>1 DEF SpaceWaits
  <2>. QED  BY <1>1, <1>2, <1>3, <2>1, <2>2, Zenon DEF TextInv
<1>5. TreeInv
  BY <1>1 DEF TreeInv
<1>. QED  BY <1>1, <1>4, <1>5 DEF HtmlInv

\* No step but the last one ends the transformation.
LEMMA StillOpen ==
  ASSUME Feeding, transform' \in {transform, "failed"}
  PROVE  ~(transform' = "done")
BY DEF Feeding

LEMMA StartTagKeeps ==
  ASSUME HtmlInv, NEW tag \in Tags, NEW hidden \in BOOLEAN, StartTag(tag, hidden)
  PROVE  HtmlInv'
<1>. DEFINE alone == tag \in NoText \/ hidden
            starts == alone \/ tag \in Block \/ tag = "br"
            omission == Omission(tag, hidden)
<1>1. TextInv /\ TreeInv /\ (pendingSpace => ~Inherited /\ ~Preformatted)
  BY DEF HtmlInv
<1>2. Inherited <=> ~Shown(around)
  BY <1>1, InheritedIsHidden
<1>3. omission <=> (Inherited \/ alone)
  BY DEF Omission
<1>4. /\ IF (~Inherited /\ omission) \/ (~omission /\ (tag \in Block \/ tag = "br")) THEN Boundary ELSE NoOutput
      /\ Breaks(Shown(around) /\ starts)
      /\ ~(transform' = "done")
  BY StillOpen DEF StartTag
<1>5. ((~Inherited /\ omission) \/ (~omission /\ (tag \in Block \/ tag = "br"))) <=> (Shown(around) /\ starts)
  BY <1>2, <1>3
<1>6. TextInv' /\ (pendingSpace' => pendingSpace /\ ~starts)
  <2>1. CASE Shown(around) /\ starts
    <3>1. Boundary /\ Breaks(TRUE)
      BY <1>4, <1>5, <2>1 DEF Breaks
    <3>. QED  BY <1>1, <3>1, BoundaryIsBreak
  <2>2. CASE ~(Shown(around) /\ starts)
    <3>1. NoOutput /\ UNCHANGED visible
      BY <1>4, <1>5, <2>2 DEF Breaks
    <3>2. TextInv'
      BY <1>1, <3>1, NothingIsVisible
    <3>. QED  BY <1>1, <1>2, <2>2, <3>1, <3>2 DEF NoOutput
  <2>. QED  BY <2>1, <2>2
<1>7. TreeInv' /\ (~starts /\ ~Inherited /\ ~Preformatted => ~Inherited' /\ ~Preformatted')
  <2>1. CASE UNCHANGED <<stack, around>>
    BY <1>1, <2>1 DEF TreeInv, Inherited, Preformatted
  <2>2. CASE /\ stack' = Append(stack, [tag |-> tag, omission |-> omission])
             /\ around' = Append(around, [tag |-> tag, omitted |-> alone])
    <3>1. alone \in BOOLEAN /\ omission \in BOOLEAN
      BY DEF Omission
    <3>2. TreeInv' /\ (Inherited' <=> omission) /\ (Preformatted' <=> Preformatted \/ tag = "pre")
      <4>. HIDE DEF alone, omission
      <4>. QED  BY <1>1, <1>3, <2>2, <3>1, TreePush
    <3>3. ~starts => tag # "pre"
      BY HtmlAssumption
    <3>. QED  BY <1>3, <3>2, <3>3
  <2>. QED  BY <2>1, <2>2 DEF StartTag
<1>. QED  BY <1>1, <1>4, <1>6, <1>7 DEF HtmlInv

LEMMA EndTagKeeps ==
  ASSUME HtmlInv, NEW tag \in Tags, EndTag(tag)
  PROVE  HtmlInv'
<1>. DEFINE outer == Len(stack) > 1 /\ stack[Len(stack) - 1].omission
            ends == (~Last(stack).omission /\ tag \in Block) \/ (Last(stack).omission /\ ~outer)
            hides == Last(around).omitted \/ tag \in Block
<1>1. TextInv /\ TreeInv /\ (pendingSpace => ~Inherited /\ ~Preformatted)
  BY DEF HtmlInv
<1>2. /\ stack # <<>> /\ stack' = Front(stack) /\ around' = Front(around)
      /\ IF ends THEN Boundary ELSE NoOutput
      /\ Breaks(Shown(Front(around)) /\ hides)
      /\ ~(transform' = "done")
  BY StillOpen DEF EndTag
<1>3. /\ Last(stack).omission <=> ~Shown(Front(around)) \/ Last(around).omitted
      /\ outer <=> ~Shown(Front(around))
  BY <1>1, <1>2, InnermostIs
<1>4. ends <=> Shown(Front(around)) /\ hides
  <2>. HIDE DEF outer
  <2>. QED  BY <1>3
<1>. HIDE DEF ends, hides, outer
<1>5. TextInv' /\ (pendingSpace' => pendingSpace)
  <2>1. CASE ends
    <3>1. Boundary /\ Breaks(TRUE)
      BY <1>2, <1>4, <2>1 DEF Breaks
    <3>. QED  BY <1>1, <3>1, BoundaryIsBreak
  <2>2. CASE ~ends
    <3>1. NoOutput /\ UNCHANGED visible
      BY <1>2, <1>4, <2>2 DEF Breaks
    <3>2. TextInv'
      BY <1>1, <3>1, NothingIsVisible
    <3>. QED  BY <3>1, <3>2 DEF NoOutput
  <2>. QED  BY <2>1, <2>2
<1>6. TreeInv' /\ (~Inherited => ~Inherited') /\ (Preformatted' => Preformatted)
  <2>1. TreeInv' /\ (Inherited' <=> ~Shown(Front(around))) /\ (Preformatted' => Preformatted)
    BY <1>1, <1>2, TreePop
  <2>2. Inherited <=> Last(stack).omission
    BY <1>2 DEF Inherited
  <2>. QED  BY <1>3, <2>1, <2>2
<1>. QED  BY <1>1, <1>2, <1>5, <1>6 DEF HtmlInv

\* Text leaves the elements as they are.
LEMMA TreeStays ==
  ASSUME TreeInv, UNCHANGED <<stack, around>>
  PROVE  TreeInv' /\ (Inherited' <=> Inherited) /\ (Preformatted' <=> Preformatted)
BY DEF TreeInv, Inherited, Preformatted

\* A space that waits never meets text of a pre, nor a line that is empty.
LEMMA DataKeeps ==
  ASSUME HtmlInv, NEW char \in Characters, Data(char)
  PROVE  HtmlInv'
<1>. DEFINE kept == \E i \in DOMAIN around : around[i].tag = "pre"
            shape == IF char = "letter" THEN char
                     ELSE IF kept THEN (IF char = "space" THEN "keptSpace" ELSE "keptNewline")
                     ELSE "white"
<1>1. TextInv /\ TreeInv /\ (pendingSpace => ~Inherited /\ ~Preformatted)
  BY DEF HtmlInv
<1>2. /\ parts \in Seq(Characters) /\ visible \in Seq(Shapes)
      /\ lineStart \in BOOLEAN /\ pendingSpace \in BOOLEAN
      /\ lineStart <=> (parts = <<>> \/ Last(parts) = "newline")
      /\ lineStart <=> AtLineStart(visible, Len(visible) + 1)
      /\ pendingSpace <=> SpaceWaits(visible)
  BY <1>1 DEF TextInv, Last
<1>3. Inherited <=> ~Shown(around)
  BY <1>1, InheritedIsHidden
<1>4. kept <=> Preformatted
  <2>1. DOMAIN around = 1..Len(stack) /\ DOMAIN stack = 1..Len(stack)
    BY <1>1 DEF TreeInv
  <2>. QED  BY <1>1, <2>1 DEF TreeInv, Preformatted
<1>5. TreeInv' /\ (Inherited' <=> Inherited) /\ (Preformatted' <=> Preformatted) /\ ~(transform' = "done")
  BY <1>1, TreeStays, StillOpen DEF Data
<1>6. visible' = IF ~Shown(around) THEN visible ELSE Append(visible, shape)
  BY DEF Data
<1>7. CASE Inherited
  <2>1. NoOutput /\ UNCHANGED visible
    BY <1>3, <1>6, <1>7 DEF Data
  <2>2. TextInv' /\ ~pendingSpace'
    BY <1>1, <1>7, <2>1, NothingIsVisible DEF NoOutput
  <2>. QED  BY <1>5, <2>2 DEF HtmlInv
<1>8. CASE ~Inherited
  <2>1. visible' = Append(visible, shape) /\ shape \in Shapes
    BY <1>3, <1>6, <1>8 DEF Characters, Shapes
  <2>2. CASE Preformatted
    <3>1. /\ parts' = Append(parts, char) /\ lineStart' = (parts' = <<>> \/ Last(parts') = "newline")
          /\ pendingSpace' = FALSE
      BY <1>8, <2>2 DEF Data, Output
    <3>2. /\ shape \in {"letter", "keptSpace", "keptNewline"}
          /\ char = IF shape = "letter" THEN "letter" ELSE IF shape = "keptSpace" THEN "space" ELSE "newline"
      BY <1>4, <2>2 DEF Characters
    <3>. HIDE DEF shape
    <3>3. parts' = Grown(parts, visible, shape)
      <4>1. ~SpaceWaits(visible)
        BY <1>1, <1>2, <2>2
      <4>. QED  BY <1>2, <2>1, <3>1, <3>2, <4>1, GrownIs
    <3>4. pendingSpace' = (shape = "white" /\ ~lineStart)
      BY <3>1, <3>2
    <3>5. TextInv'
      BY <1>1, <2>1, <3>1, <3>3, <3>4, TextStep
    <3>. QED  BY <1>5, <3>1, <3>5 DEF HtmlInv
  <2>3. CASE ~Preformatted /\ char \in {"space", "newline"}
    <3>1. parts' = parts /\ lineStart' = lineStart /\ pendingSpace' = ~lineStart
      BY <1>8, <2>3 DEF Data
    <3>2. shape = "white"
      BY <1>4, <2>3
    <3>3. parts' = Grown(parts, visible, shape)
      BY <1>2, <2>1, <3>1, <3>2, GrownIs
    <3>4. lineStart' = (parts' = <<>> \/ Last(parts') = "newline")
      BY <1>2, <3>1
    <3>5. pendingSpace' = (shape = "white" /\ ~lineStart)
      BY <3>1, <3>2
    <3>. HIDE DEF shape
    <3>6. TextInv'
      BY <1>1, <2>1, <3>3, <3>4, <3>5, TextStep
    <3>. QED  BY <1>5, <1>8, <2>3, <3>6 DEF HtmlInv
  <2>4. CASE ~Preformatted /\ char = "letter"
    <3>1. /\ parts' = IF pendingSpace /\ ~lineStart THEN parts \o <<"space", char>> ELSE Append(parts, char)
          /\ lineStart' = (parts' = <<>> \/ Last(parts') = "newline")
          /\ pendingSpace' = FALSE
      <4>1. char \notin {"space", "newline"}
        BY <2>4
      <4>2. Output(IF pendingSpace /\ ~lineStart THEN parts \o <<"space", char>> ELSE Append(parts, char))
            /\ pendingSpace' = FALSE
        BY <1>8, <2>4, <4>1, Zenon DEF Data
      <4>. QED  BY <4>2, Zenon DEF Output
    <3>2. shape = "letter" /\ char = "letter"
      BY <2>4
    <3>3. (pendingSpace /\ ~lineStart) <=> SpaceWaits(visible)
      BY <1>2 DEF SpaceWaits
    <3>4. parts \o <<"space", "letter">> = Append(Append(parts, "space"), "letter")
      BY <1>2
    <3>5. parts' = Append(IF SpaceWaits(visible) THEN Append(parts, "space") ELSE parts, "letter")
      BY <3>1, <3>2, <3>3, <3>4
    <3>6. parts' = Grown(parts, visible, shape)
      BY <1>2, <2>1, <3>2, <3>5, GrownIs
    <3>7. pendingSpace' = (shape = "white" /\ ~lineStart)
      BY <3>1, <3>2
    <3>. HIDE DEF shape
    <3>8. TextInv'
      BY <1>1, <2>1, <3>1, <3>6, <3>7, TextStep
    <3>. QED  BY <1>5, <3>1, <3>8 DEF HtmlInv
  <2>. QED  BY <2>2, <2>3, <2>4 DEF Characters
<1>. QED  BY <1>7, <1>8

LEMMA FinishKeeps ==
  ASSUME HtmlInv, Finish
  PROVE  HtmlInv'
<1>1. TextInv /\ TreeInv /\ Boundary /\ Breaks(TRUE) /\ UNCHANGED <<stack, around>>
  BY DEF HtmlInv, Finish
<1>2. parts # <<>>
  BY DEF Finish
<1>3. TextInv' /\ ~pendingSpace' /\ Last(parts') = "newline"
  BY <1>1, <1>2, BoundaryIsBreak
<1>. QED  BY <1>1, <1>3, TreeStays DEF HtmlInv

LEMMA HtmlStep == HtmlInv /\ [Transform]_htmlVars => HtmlInv'
<1>. SUFFICES ASSUME HtmlInv, [Transform]_htmlVars
              PROVE  HtmlInv'
  OBVIOUS
<1>1. ASSUME UNCHANGED <<stack, parts, pendingSpace, lineStart, around, visible>>,
             transform' \in {transform, "failed"}
      PROVE  HtmlInv'
  <2>1. TextInv'
    BY <1>1, NothingIsVisible DEF HtmlInv, NoOutput
  <2>2. TreeInv' /\ (Inherited' <=> Inherited) /\ (Preformatted' <=> Preformatted)
    BY <1>1, TreeStays DEF HtmlInv
  <2>3. transform' = "done" => Last(parts') = "newline"
    BY <1>1 DEF HtmlInv
  <2>4. pendingSpace' => ~Inherited' /\ ~Preformatted'
    BY <1>1, <2>2 DEF HtmlInv
  <2>. QED  BY <2>1, <2>2, <2>3, <2>4 DEF HtmlInv
<1>2. CASE HtmlFails
  BY <1>1, <1>2 DEF HtmlFails
<1>3. CASE \E tag \in Tags, hidden \in BOOLEAN : StartTag(tag, hidden)
  BY <1>3, StartTagKeeps
<1>4. CASE \E tag \in Tags : EndTag(tag)
  BY <1>4, EndTagKeeps
<1>5. CASE Comment
  BY <1>1, <1>5 DEF Comment
<1>6. CASE \E char \in {"letter", "space", "newline"} : Data(char)
  BY <1>6, DataKeeps DEF Characters
<1>7. CASE Finish
  BY <1>7, FinishKeeps
<1>8. CASE UNCHANGED htmlVars
  BY <1>1, <1>8 DEF htmlVars
<1>. QED  BY <1>2, <1>3, <1>4, <1>5, <1>6, <1>7, <1>8 DEF Transform

\* However tags, text and comments follow each other, text and flags are those of
\* what is visible, and an element is omitted as the ones around it are.
THEOREM HtmlInvariant == HtmlSpec => []HtmlInv
BY HtmlInitially, HtmlStep, PTL DEF HtmlSpec

\* The text is exactly what is visible, with its white space reduced, at every
\* point and for every size of document (html_text.py:4).
THEOREM TextIsVisibleText == HtmlSpec => []TextIsWhatIsVisible
<1>1. HtmlInv => TextIsWhatIsVisible
  BY DEF HtmlInv, TextInv, TextIsWhatIsVisible
<1>. QED  BY <1>1, HtmlInvariant, PTL
-----------------------------------------------------------------------------
(* The comparison of two values *)

Incomparable(x, y) == \E k \in DOMAIN x \cap DOMAIN y : x[k] # y[k]

OnTheWay(path) == \A n \in 0..(Len(path) - 1) : SameContainer(SubSeq(path, 1, n))

WalkInv ==
  /\ old \in Values /\ new \in Values /\ limit \in DiffLimits
  /\ changes \in Seq([path : Seq(Steps), severity : {"HIGH", "MEDIUM"},
                      operation : {"add", "remove", "replace"}])
  /\ todo \subseteq DOMAIN old \cup DOMAIN new
  /\ \A path \in todo : OnTheWay(path)
  /\ Paths(changes) \subseteq Changed
  /\ \A i \in DOMAIN changes : changes[i] = Difference(changes[i].path)
  \* No call is made for a path twice, nor for one below a path that changed.
  /\ todo \cap Paths(changes) = {}
  /\ \A x, y \in todo \cup Paths(changes) : x # y => Incomparable(x, y)
  /\ Cardinality(Paths(changes)) = Len(changes) /\ Len(changes) <= limit
  \* What changed is named, or on the way to it a call is still to be made.
  /\ Len(changes) < limit =>
       \A path \in Changed :
         path \in Paths(changes) \/ \E n \in 0..Len(path) : SubSeq(path, 1, n) \in todo

DiffInv ==
  /\ diff \in {"none", "walking", "returned"}
  /\ diff = "none" => changes = <<>>
  /\ diff = "walking" => WalkInv
  /\ DiffNamesEveryChange

LEMMA PrefixIs ==
  ASSUME NEW S, NEW s \in Seq(S), NEW n \in 0..Len(s)
  PROVE  /\ SubSeq(s, 1, n) \in Seq(S) /\ Len(SubSeq(s, 1, n)) = n
         /\ \A i \in 1..n : SubSeq(s, 1, n)[i] = s[i]
<1>1. n \in Nat /\ n \in Int /\ 1 \in Int /\ n - 1 + 1 = n /\ (IF 1 <= n THEN n - 1 + 1 ELSE 0) = n
  OBVIOUS
<1>2. \A i \in 1..n : s[i] \in S /\ 1 + i - 1 = i
  OBVIOUS
<1>. QED  BY <1>1, <1>2, SubSeqProperties

LEMMA PrefixOfPrefix ==
  ASSUME NEW S, NEW s \in Seq(S), NEW n \in 0..Len(s), NEW m \in 0..n
  PROVE  SubSeq(SubSeq(s, 1, n), 1, m) = SubSeq(s, 1, m)
<1>. DEFINE p == SubSeq(s, 1, n)
<1>1. p \in Seq(S) /\ Len(p) = n /\ \A i \in 1..n : p[i] = s[i]
  BY PrefixIs
<1>2. m \in 0..Len(p) /\ m \in 0..Len(s)
  BY <1>1
<1>. HIDE DEF p
<1>3. SubSeq(p, 1, m) \in Seq(S) /\ Len(SubSeq(p, 1, m)) = m /\ \A i \in 1..m : SubSeq(p, 1, m)[i] = p[i]
  BY <1>1, <1>2, PrefixIs
<1>4. SubSeq(s, 1, m) \in Seq(S) /\ Len(SubSeq(s, 1, m)) = m /\ \A i \in 1..m : SubSeq(s, 1, m)[i] = s[i]
  BY <1>2, PrefixIs
<1>5. \A i \in 1..m : SubSeq(p, 1, m)[i] = SubSeq(s, 1, m)[i]
  BY <1>1, <1>3, <1>4
<1>6. SubSeq(p, 1, m) = SubSeq(s, 1, m)
  BY <1>3, <1>4, <1>5, SeqEqual
<1>. QED  BY <1>6 DEF p

LEMMA PrefixBelow ==
  ASSUME NEW S, NEW s \in Seq(S), NEW n \in 0..(Len(s) - 1)
  PROVE  /\ SubSeq(s, 1, n + 1) # <<>> /\ Front(SubSeq(s, 1, n + 1)) = SubSeq(s, 1, n)
         /\ Len(SubSeq(s, 1, n + 1)) = n + 1 /\ SubSeq(s, 1, n + 1) \in Seq(S)
<1>1. n + 1 \in 0..Len(s) /\ n \in 0..(n + 1) /\ n + 1 - 1 = n /\ n + 1 # 0
  OBVIOUS
<1>2. Len(SubSeq(s, 1, n + 1)) = n + 1 /\ SubSeq(s, 1, n + 1) \in Seq(S)
  BY <1>1, PrefixIs
<1>3. SubSeq(SubSeq(s, 1, n + 1), 1, n) = SubSeq(s, 1, n)
  BY <1>1, PrefixOfPrefix
<1>4. SubSeq(s, 1, n + 1) # <<>>
  BY <1>1, <1>2
<1>. QED  BY <1>1, <1>2, <1>3, <1>4 DEF Front

\* What is on the way to a path of a tree is in it, and is a container.
LEMMA TreesAreClosed ==
  ASSUME NEW v, Tree(v), NEW path \in DOMAIN v, NEW n \in 0..Len(path)
  PROVE  /\ SubSeq(path, 1, n) \in DOMAIN v
         /\ n < Len(path) => v[SubSeq(path, 1, n)] \in Containers
<1>. DEFINE B == {k \in 0..Len(path) : SubSeq(path, 1, Len(path) - k) \notin DOMAIN v}
<1>1. path \in Seq(Steps) /\ Len(path) \in Nat /\ DOMAIN v \subseteq Seq(Steps)
  BY DEF Tree
<1>2. B = {}
  <2>. SUFFICES ASSUME B # {}
                PROVE  FALSE
    OBVIOUS
  <2>1. B \in SUBSET Nat
    OBVIOUS
  <2>2. PICK k \in B : \A m \in B : k <= m
    <3>. HIDE DEF B
    <3>. QED  BY <2>1, Least
  <2>3. k # 0
    <3>1. SubSeq(path, 1, Len(path)) = path /\ Len(path) - 0 = Len(path)
      BY <1>1, SubSeqFull
    <3>2. SubSeq(path, 1, Len(path) - k) \notin DOMAIN v
      BY <2>2
    <3>. QED  BY <3>1, <3>2
  <2>4. k - 1 \in 0..Len(path) /\ k - 1 \notin B
    <3>1. k \in 1..Len(path)
      BY <1>1, <2>2, <2>3
    <3>2. k - 1 \in 0..Len(path) /\ ~(k <= k - 1)
      BY <1>1, <3>1
    <3>. HIDE DEF B
    <3>. QED  BY <2>2, <3>2
  <2>. DEFINE m == Len(path) - k
  <2>5. m \in 0..(Len(path) - 1) /\ Len(path) - (k - 1) = m + 1
    BY <1>1, <2>2, <2>3
  <2>6. SubSeq(path, 1, m + 1) \in DOMAIN v
    BY <2>4, <2>5
  <2>7. SubSeq(path, 1, m + 1) # <<>> /\ Front(SubSeq(path, 1, m + 1)) = SubSeq(path, 1, m)
    BY <1>1, <2>5, PrefixBelow
  <2>8. SubSeq(path, 1, m) \in DOMAIN v
    BY <2>6, <2>7 DEF Tree
  <2>. QED  BY <2>2, <2>8
<1>3. \A j \in 0..Len(path) : SubSeq(path, 1, j) \in DOMAIN v
  <2>. SUFFICES ASSUME NEW j \in 0..Len(path)
                PROVE  SubSeq(path, 1, j) \in DOMAIN v
    OBVIOUS
  <2>1. Len(path) - j \in 0..Len(path) /\ Len(path) - (Len(path) - j) = j
    BY <1>1
  <2>. QED  BY <1>2, <2>1
<1>4. ASSUME n < Len(path)
      PROVE  v[SubSeq(path, 1, n)] \in Containers
  <2>1. n \in 0..(Len(path) - 1) /\ n + 1 \in 0..Len(path)
    BY <1>1, <1>4
  <2>2. SubSeq(path, 1, n + 1) \in DOMAIN v
    BY <1>3, <2>1
  <2>3. SubSeq(path, 1, n + 1) # <<>> /\ Front(SubSeq(path, 1, n + 1)) = SubSeq(path, 1, n)
    BY <1>1, <2>1, PrefixBelow
  <2>. QED  BY <2>2, <2>3 DEF Tree
<1>. QED  BY <1>3, <1>4

LEMMA ThereIs ==
  ASSUME NEW v \in Values, NEW path
  PROVE  There(v, path) # "missing" <=> path \in DOMAIN v
<1>1. Tree(v) /\ "missing" \notin Scalars
  BY DiffAssumption
<1>2. path \in DOMAIN v => v[path] \in Containers \cup Scalars
  BY <1>1 DEF Tree
<1>. QED  BY <1>1, <1>2 DEF There, Containers

\* Where nothing changed the values are the same.
LEMMA NothingChanged ==
  ASSUME old \in Values, new \in Values, Changed = {}
  PROVE  old = new
<1>1. Tree(old) /\ Tree(new)
  BY DiffAssumption
<1>2. ASSUME NEW path \in DOMAIN old \cup DOMAIN new, There(old, path) # There(new, path)
      PROVE  FALSE
  <2>. DEFINE D == {n \in 0..Len(path) : There(old, SubSeq(path, 1, n)) # There(new, SubSeq(path, 1, n))}
  <2>1. path \in Seq(Steps) /\ Len(path) \in Nat
    BY <1>1 DEF Tree
  <2>2. Len(path) \in D
    <3>1. SubSeq(path, 1, Len(path)) = path /\ Len(path) \in 0..Len(path)
      BY <2>1, SubSeqFull
    <3>. QED  BY <1>2, <3>1
  <2>3. D \in SUBSET Nat /\ D # {}
    BY <2>2
  <2>4. PICK n \in D : \A m \in D : n <= m
    <3>. HIDE DEF D
    <3>. QED  BY <2>3, Least
  <2>5. n \in 0..Len(path) /\ There(old, SubSeq(path, 1, n)) # There(new, SubSeq(path, 1, n))
    BY <2>4
  <2>6. \A m \in 0..(n - 1) : There(old, SubSeq(path, 1, m)) = There(new, SubSeq(path, 1, m))
    BY <2>1, <2>4
  <2>. HIDE DEF D
  <2>7. SubSeq(path, 1, n) \in DOMAIN old \cup DOMAIN new
    BY <1>1, <2>5, TreesAreClosed
  <2>8. ASSUME NEW m \in 0..(n - 1)
        PROVE  SameContainer(SubSeq(path, 1, m))
    <3>1. m \in 0..Len(path) /\ m < Len(path)
      BY <2>1, <2>5
    <3>2. \/ SubSeq(path, 1, m) \in DOMAIN old /\ old[SubSeq(path, 1, m)] \in Containers
          \/ SubSeq(path, 1, m) \in DOMAIN new /\ new[SubSeq(path, 1, m)] \in Containers
      BY <1>1, <3>1, TreesAreClosed
    <3>. QED  BY <2>6, <3>2 DEF SameContainer, There
  <2>9. Len(SubSeq(path, 1, n)) = n
    BY <2>1, <2>5, PrefixIs
  <2>10. \A m \in 0..(n - 1) : SubSeq(SubSeq(path, 1, n), 1, m) = SubSeq(path, 1, m)
    <3>1. \A m \in 0..(n - 1) : m \in 0..n
      BY <2>1, <2>5
    <3>. QED  BY <2>1, <2>5, <3>1, PrefixOfPrefix
  <2>11. SubSeq(path, 1, n) \in Changed
    BY <2>5, <2>7, <2>8, <2>9, <2>10 DEF Changed
  <2>. QED  BY <2>11
<1>3. DOMAIN old = DOMAIN new
  BY <1>2, ThereIs
<1>4. \A path \in DOMAIN old : old[path] = new[path]
  BY <1>2, <1>3 DEF There
<1>. QED  BY <1>1, <1>3, <1>4 DEF Tree

LEMMA ChangedIsFinite ==
  ASSUME old \in Values, new \in Values
  PROVE  IsFiniteSet(Changed)
<1>1. IsFiniteSet(DOMAIN old) /\ IsFiniteSet(DOMAIN new)
  BY DiffAssumption DEF Tree
<1>2. IsFiniteSet(DOMAIN old \cup DOMAIN new)
  BY <1>1, FS_Union
<1>3. Changed \subseteq DOMAIN old \cup DOMAIN new
  BY DEF Changed
<1>. QED  BY <1>2, <1>3, FS_Subset

-----------------------------------------------------------------------------
(* The steps of the walk *)

\* As long as the values stay, so does what they say.
LEMMA ValuesStay ==
  ASSUME UNCHANGED <<old, new>>
  PROVE  /\ Changed' = Changed
         /\ \A path : /\ SameContainer(path)' <=> SameContainer(path)
                      /\ OnTheWay(path)' <=> OnTheWay(path)
                      /\ Difference(path)' = Difference(path)
BY DEF Changed, SameContainer, OnTheWay, Difference, There

LEMMA DifferenceIs ==
  ASSUME NEW path \in Seq(Steps)
  PROVE  /\ Difference(path) \in [path : Seq(Steps), severity : {"HIGH", "MEDIUM"},
                              operation : {"add", "remove", "replace"}]
         /\ Difference(path).path = path
         /\ Difference(path) # Truncated
<1>1. Difference(path).operation \in {"add", "remove", "replace"}
  BY DEF Difference
<1>2. Truncated.operation = "truncated"
  BY DEF Truncated
<1>. QED  BY <1>1, <1>2 DEF Difference

\* One more path is named.
LEMMA NameOneMore ==
  ASSUME NEW named, NEW C, named \in Seq(C), NEW c \in C
  PROVE  Paths(Append(named, c)) = Paths(named) \cup {c.path}
<1>. DEFINE m == Append(named, c)
            n == Len(named)
<1>1. /\ n \in Nat /\ DOMAIN named = 1..n /\ DOMAIN m = 1..(n + 1)
      /\ m[n + 1] = c /\ \A i \in 1..n : m[i] = named[i]
  OBVIOUS
<1>2. n + 1 \in 1..(n + 1) /\ (\A i \in 1..n : i \in 1..(n + 1)) /\ \A i \in 1..(n + 1) : i \in 1..n \/ i = n + 1
  BY <1>1
<1>. HIDE DEF m, n
<1>3. Paths(m) = Paths(named) \cup {c.path}
  BY <1>1, <1>2 DEF Paths
<1>. QED  BY <1>3 DEF m

LEMMA CompareBegins ==
  ASSUME DiffInv, Compare
  PROVE  WalkInv'
<1>1. /\ old' \in Values /\ new' \in Values /\ limit' \in DiffLimits /\ todo' = {<<>>} /\ changes' = <<>>
  BY DEF DiffInv, Compare
<1>2. <<>> \in DOMAIN old' /\ <<>> \in Seq(Steps)
  BY <1>1, DiffAssumption DEF Tree
<1>3. Paths(<<>>) = {} /\ Cardinality({}) = 0
  BY FS_EmptySet DEF Paths
<1>4. OnTheWay(<<>>)'
  BY DEF OnTheWay
<1>5. limit' \in Nat \ {0}
  BY <1>1, DiffAssumption
<1>6. \A path \in Changed' : 0 \in 0..Len(path) /\ SubSeq(path, 1, 0) = <<>>
  <2>1. \A path \in Changed' : path \in Seq(Steps)
    BY <1>1, DiffAssumption DEF Tree, Changed
  <2>2. \A path \in Seq(Steps) : 0 \in 0..Len(path)
    OBVIOUS
  <2>. QED  BY <2>1, <2>2, SubSeqEmpty
<1>. QED  BY <1>1, <1>2, <1>3, <1>4, <1>5, <1>6 DEF WalkInv

LEMMA WalkTyped ==
  ASSUME WalkInv
  PROVE  /\ Tree(old) /\ Tree(new) /\ limit \in Nat \ {0} /\ Len(changes) \in Nat
         /\ \A path \in DOMAIN old \cup DOMAIN new : path \in Seq(Steps) /\ Len(path) \in Nat
BY DiffAssumption DEF WalkInv, Tree

\* A call that goes down into two containers.
LEMMA WalkDescends ==
  ASSUME WalkInv, NEW path \in todo, SameContainer(path), UNCHANGED <<old, new, limit, changes>>,
         todo' = (todo \ {path}) \cup Below(path)
  PROVE  WalkInv'
<1>1. /\ Tree(old) /\ Tree(new) /\ limit \in Nat \ {0} /\ Len(changes) \in Nat
      /\ path \in Seq(Steps) /\ Len(path) \in Nat /\ path \in DOMAIN old \cup DOMAIN new
  BY WalkTyped DEF WalkInv
<1>2. ASSUME NEW q \in Below(path)
      PROVE  /\ q \in DOMAIN old \cup DOMAIN new /\ q \in Seq(Steps)
             /\ q # <<>> /\ Front(q) = path /\ Len(q) = Len(path) + 1
             /\ \A i \in 1..Len(path) : q[i] = path[i]
  <2>1. q \in DOMAIN old \cup DOMAIN new /\ q # <<>> /\ Front(q) = path
    BY DEF Below
  <2>2. q \in Seq(Steps)
    BY <2>1, WalkTyped
  <2>3. Len(path) = Len(q) - 1 /\ Len(q) \in Nat \ {0} /\ \A i \in 1..(Len(q) - 1) : path[i] = q[i]
    BY <2>1, <2>2, FrontIs
  <2>. QED  BY <2>1, <2>2, <2>3
<1>3. ASSUME NEW q \in Below(path)
      PROVE  OnTheWay(q)
  <2>. SUFFICES ASSUME NEW n \in 0..(Len(q) - 1)
                PROVE  SameContainer(SubSeq(q, 1, n))
    BY DEF OnTheWay
  <2>1. q \in Seq(Steps) /\ Len(q) = Len(path) + 1 /\ q # <<>> /\ SubSeq(q, 1, Len(q) - 1) = path
    BY <1>2 DEF Front
  <2>2. Len(path) \in 0..Len(q) /\ n \in 0..Len(path) /\ Len(q) - 1 = Len(path)
    BY <1>1, <2>1
  <2>3. SubSeq(path, 1, n) = SubSeq(q, 1, n)
    <3>1. SubSeq(SubSeq(q, 1, Len(path)), 1, n) = SubSeq(q, 1, n)
      BY <2>1, <2>2, PrefixOfPrefix
    <3>. QED  BY <2>1, <2>2, <3>1
  <2>4. CASE n = Len(path)
    <3>1. SubSeq(path, 1, n) = path
      BY <1>1, <2>4, SubSeqFull
    <3>. QED  BY <2>3, <3>1
  <2>5. CASE n # Len(path)
    <3>1. n \in 0..(Len(path) - 1)
      BY <1>1, <2>2, <2>5
    <3>. QED  BY <2>3, <3>1 DEF WalkInv, OnTheWay
  <2>. QED  BY <2>4, <2>5
<1>4. ASSUME NEW q \in Below(path), NEW y \in todo \cup Paths(changes), y # path
      PROVE  q # y /\ Incomparable(q, y) /\ Incomparable(y, q)
  <2>1. Incomparable(path, y)
    BY <1>4 DEF WalkInv
  <2>2. PICK k \in DOMAIN path \cap DOMAIN y : path[k] # y[k]
    BY <2>1 DEF Incomparable
  <2>3. k \in DOMAIN q /\ q[k] = path[k]
    <3>1. k \in 1..Len(path) /\ DOMAIN q = 1..Len(q)
      BY <1>1, <1>2
    <3>. QED  BY <1>1, <1>2, <3>1
  <2>. QED  BY <2>2, <2>3 DEF Incomparable
<1>5. ASSUME NEW q \in Below(path), NEW z \in Below(path), q # z
      PROVE  Incomparable(q, z)
  <2>1. q \in Seq(Steps) /\ z \in Seq(Steps) /\ Len(q) = Len(path) + 1 /\ Len(z) = Len(path) + 1
    BY <1>2
  <2>2. PICK k \in 1..Len(q) : q[k] # z[k]
    BY <1>5, <2>1, SeqEqual
  <2>. QED  BY <2>1, <2>2 DEF Incomparable
<1>6. path \notin Paths(changes)
  BY DEF WalkInv
<1>7. todo' \cap Paths(changes) = {}
  BY <1>4, <1>6 DEF WalkInv
<1>8. \A x, y \in todo' \cup Paths(changes) : x # y => Incomparable(x, y)
  <2>. SUFFICES ASSUME NEW x \in todo' \cup Paths(changes), NEW y \in todo' \cup Paths(changes), x # y
                PROVE  Incomparable(x, y)
    OBVIOUS
  <2>1. \A w \in todo' \cup Paths(changes) :
          w \in Below(path) \/ (w \in todo \cup Paths(changes) /\ w # path)
    BY <1>6
  <2>2. CASE x \in Below(path) /\ y \in Below(path)
    BY <2>2, <1>5
  <2>3. CASE x \in Below(path) /\ y \notin Below(path)
    BY <2>1, <2>3, <1>4
  <2>4. CASE x \notin Below(path) /\ y \in Below(path)
    BY <2>1, <2>4, <1>4
  <2>5. CASE x \notin Below(path) /\ y \notin Below(path)
    BY <2>1, <2>5 DEF WalkInv
  <2>. QED  BY <2>2, <2>3, <2>4, <2>5
<1>9. ASSUME Len(changes) < limit, NEW d \in Changed
      PROVE  d \in Paths(changes) \/ \E n \in 0..Len(d) : SubSeq(d, 1, n) \in todo'
  <2>1. CASE d \in Paths(changes)
    BY <2>1
  <2>2. CASE d \notin Paths(changes)
    <3>1. PICK n \in 0..Len(d) : SubSeq(d, 1, n) \in todo
      BY <1>9, <2>2 DEF WalkInv
    <3>2. CASE SubSeq(d, 1, n) # path
      BY <3>1, <3>2
    <3>3. CASE SubSeq(d, 1, n) = path
      <4>1. d \in DOMAIN old \cup DOMAIN new /\ There(old, d) # There(new, d)
        BY DEF Changed
      <4>2. d \in Seq(Steps) /\ Len(d) \in Nat
        BY <4>1, WalkTyped
      <4>3. n # Len(d)
        <5>1. SubSeq(d, 1, Len(d)) = d
          BY <4>2, SubSeqFull
        <5>. QED  BY <3>3, <4>1, <5>1 DEF SameContainer
      <4>4. n \in 0..(Len(d) - 1) /\ n + 1 \in 0..Len(d)
        BY <4>2, <4>3
      <4>5. SubSeq(d, 1, n + 1) # <<>> /\ Front(SubSeq(d, 1, n + 1)) = path
        BY <3>3, <4>2, <4>4, PrefixBelow
      <4>6. SubSeq(d, 1, n + 1) \in DOMAIN old \cup DOMAIN new
        BY <1>1, <4>1, <4>4, TreesAreClosed
      <4>7. SubSeq(d, 1, n + 1) \in todo'
        BY <4>5, <4>6 DEF Below
      <4>. QED  BY <4>4, <4>7
    <3>. QED  BY <3>2, <3>3
  <2>. QED  BY <2>1, <2>2
<1>10. todo' \subseteq DOMAIN old \cup DOMAIN new /\ \A q \in todo' : OnTheWay(q)
  BY <1>2, <1>3 DEF WalkInv
<1>11. /\ Changed' = Changed
       /\ \A q : (OnTheWay(q)' <=> OnTheWay(q)) /\ Difference(q)' = Difference(q)
  BY ValuesStay
<1>. QED  BY <1>7, <1>8, <1>9, <1>10, <1>11 DEF WalkInv

\* A call that returns without having gone down.
LEMMA WalkLeaves ==
  ASSUME WalkInv, NEW path \in todo, UNCHANGED <<old, new, limit>>, todo' = todo \ {path},
         \/ Len(changes) >= limit /\ UNCHANGED changes
         \/ /\ Len(changes) < limit /\ ~SameContainer(path)
            /\ changes' = IF There(old, path) = There(new, path) THEN changes
                          ELSE Append(changes, Difference(path))
  PROVE  WalkInv'
<1>. DEFINE Kinds == [path : Seq(Steps), severity : {"HIGH", "MEDIUM"}, operation : {"add", "remove", "replace"}]
<1>1. /\ limit \in Nat \ {0} /\ Len(changes) \in Nat /\ changes \in Seq(Kinds)
      /\ path \in Seq(Steps) /\ Len(path) \in Nat /\ path \in DOMAIN old \cup DOMAIN new
  BY WalkTyped DEF WalkInv
<1>2. /\ Changed' = Changed
      /\ \A q : (OnTheWay(q)' <=> OnTheWay(q)) /\ Difference(q)' = Difference(q)
  BY ValuesStay
<1>3. path \notin Paths(changes)
  BY DEF WalkInv
<1>4. CASE Len(changes) >= limit /\ UNCHANGED changes
  <2>1. ~(Len(changes) < limit)
    BY <1>1, <1>4
  <2>. QED  BY <1>2, <1>4, <2>1 DEF WalkInv
<1>5. CASE Len(changes) < limit /\ ~SameContainer(path)
  <2>1. ASSUME NEW d \in Changed, NEW n \in 0..Len(d), SubSeq(d, 1, n) = path
        PROVE  d = path /\ There(old, path) # There(new, path)
    <3>1. /\ d \in DOMAIN old \cup DOMAIN new /\ There(old, d) # There(new, d)
          /\ \A m \in 0..(Len(d) - 1) : SameContainer(SubSeq(d, 1, m))
      BY DEF Changed
    <3>2. d \in Seq(Steps) /\ Len(d) \in Nat
      BY <3>1, WalkTyped
    <3>3. n \notin 0..(Len(d) - 1)
      BY <1>5, <2>1, <3>1
    <3>4. n = Len(d)
      BY <3>2, <3>3
    <3>5. SubSeq(d, 1, Len(d)) = d
      BY <3>2, SubSeqFull
    <3>. QED  BY <2>1, <3>1, <3>4, <3>5
  <2>2. \A d \in Changed : d # path =>
          d \in Paths(changes) \/ \E n \in 0..Len(d) : SubSeq(d, 1, n) \in todo'
    BY <1>5, <2>1 DEF WalkInv
  <2>3. CASE There(old, path) = There(new, path)
    <3>1. UNCHANGED changes
      BY <1>1, <1>5, <2>3
    <3>2. path \notin Changed
      BY <2>3 DEF Changed
    <3>. QED  BY <1>2, <2>2, <3>1, <3>2 DEF WalkInv
  <2>4. CASE There(old, path) # There(new, path)
    <3>1. changes' = Append(changes, Difference(path))
      BY <1>1, <1>5, <2>4
    <3>2. Difference(path) \in Kinds /\ Difference(path).path = path
      BY <1>1, DifferenceIs
    <3>3. Paths(changes') = Paths(changes) \cup {path}
      <4>. HIDE DEF Kinds
      <4>. QED  BY <1>1, <3>1, <3>2, NameOneMore
    <3>4. path \in Changed
      BY <1>1, <2>4 DEF Changed, WalkInv, OnTheWay
    <3>5. Paths(changes') \subseteq Changed
      BY <3>3, <3>4 DEF WalkInv
    <3>6. Cardinality(Paths(changes')) = Cardinality(Paths(changes)) + 1
      <4>1. IsFiniteSet(Paths(changes))
        BY ChangedIsFinite, FS_Subset DEF WalkInv
      <4>. QED  BY <1>3, <3>3, <4>1, FS_AddElement
    <3>7. changes' \in Seq(Kinds) /\ Len(changes') = Len(changes) + 1 /\ Len(changes') <= limit
      <4>. HIDE DEF Kinds
      <4>. QED  BY <1>1, <1>5, <3>1, <3>2
    <3>8. \A i \in DOMAIN changes' : changes'[i] = Difference(changes'[i].path)
      <4>1. \A i \in DOMAIN changes' :
              \/ i \in DOMAIN changes /\ changes'[i] = changes[i]
              \/ changes'[i] = Difference(path)
        <5>. HIDE DEF Kinds
        <5>. QED  BY <1>1, <3>1, <3>2
      <4>. QED  BY <3>2, <4>1 DEF WalkInv
    <3>9. todo' \cap Paths(changes') = {} /\ todo' \cup Paths(changes') = todo \cup Paths(changes)
      BY <3>3 DEF WalkInv
    <3>10. \A x, y \in todo' \cup Paths(changes') : x # y => Incomparable(x, y)
      BY <3>9 DEF WalkInv
    <3>11. \A d \in Changed : d \in Paths(changes') \/ \E n \in 0..Len(d) : SubSeq(d, 1, n) \in todo'
      BY <2>2, <3>3
    <3>12. /\ old' \in Values /\ new' \in Values /\ limit' \in DiffLimits
           /\ todo' \subseteq DOMAIN old' \cup DOMAIN new'
           /\ \A q \in todo' : OnTheWay(q)
           /\ Cardinality(Paths(changes')) = Len(changes') /\ Len(changes') <= limit'
      BY <3>6, <3>7 DEF WalkInv
    <3>. QED  BY <1>2, <3>5, <3>7, <3>8, <3>9, <3>10, <3>11, <3>12 DEF WalkInv
  <2>. QED  BY <2>3, <2>4
<1>. QED  BY <1>1, <1>4, <1>5

\* The return, which says so when the limit was reached.
LEMMA WalkEnds ==
  ASSUME WalkInv, WalkReturns
  PROVE  DiffNamesEveryChange'
<1>. DEFINE Kinds == [path : Seq(Steps), severity : {"HIGH", "MEDIUM"}, operation : {"add", "remove", "replace"}]
<1>1. /\ limit \in Nat \ {0} /\ Len(changes) \in Nat /\ changes \in Seq(Kinds) /\ Len(changes) <= limit
      /\ todo = {} /\ old \in Values /\ new \in Values
  BY WalkTyped DEF WalkInv, WalkReturns
<1>2. /\ UNCHANGED <<old, new, limit>> /\ Changed' = Changed
      /\ \A path : Difference(path)' = Difference(path)
  BY ValuesStay DEF WalkReturns
<1>3. IsFiniteSet(Changed) /\ Cardinality(Changed) \in Nat
  BY <1>1, ChangedIsFinite, FS_CardinalityType
<1>4. old = new => Changed = {}
  BY DEF Changed
<1>5. Changed = {} => old = new
  BY <1>1, NothingChanged
<1>6. /\ Paths(changes) \subseteq Changed /\ Cardinality(Paths(changes)) = Len(changes)
      /\ \A i \in DOMAIN changes : changes[i] = Difference(changes[i].path)
  BY DEF WalkInv
<1>7. Len(changes) <= Cardinality(Changed)
  BY <1>3, <1>6, FS_Subset
<1>8. CASE Len(changes) = limit
  <2>1. changes' = Append(changes, Truncated)
    BY <1>8 DEF WalkReturns
  <2>2. changes' # <<>> /\ Last(changes') = Truncated /\ Front(changes') = changes
    <3>1. DOMAIN changes = 1..Len(changes) /\ changes \in Seq(Kinds \cup {Truncated})
      <4>1. changes \in Seq(Kinds)
        BY <1>1
      <4>. HIDE DEF Kinds
      <4>. QED  BY <4>1
    <3>2. changes' \in Seq(Kinds \cup {Truncated}) /\ Len(changes') = Len(changes) + 1
      <4>. HIDE DEF Kinds
      <4>. QED  BY <2>1, <3>1, AppendProperties
    <3>3. changes'[Len(changes) + 1] = Truncated /\ \A i \in 1..Len(changes) : changes'[i] = changes[i]
      <4>. HIDE DEF Kinds
      <4>. QED  BY <2>1, <3>1, AppendProperties
    <3>4. changes' # <<>>
      BY <1>1, <3>2
    <3>5. /\ Front(changes') \in Seq(Kinds \cup {Truncated}) /\ Len(Front(changes')) = Len(changes)
          /\ \A i \in 1..Len(changes) : Front(changes')[i] = changes[i]
      <4>1. Len(changes') - 1 = Len(changes)
        BY <1>1, <3>2
      <4>. HIDE DEF Kinds
      <4>. QED  BY <3>2, <3>3, <3>4, <4>1, FrontIs
    <3>6. Front(changes') = changes
      <4>. HIDE DEF Kinds
      <4>. QED  BY <3>1, <3>5, SeqEqual
    <3>. QED  BY <3>2, <3>3, <3>4, <3>6 DEF Last
  <2>3. IsTruncated' /\ Named' = changes
    BY <2>2 DEF IsTruncated, Named
  <2>4. Cardinality(Changed) >= limit
    BY <1>1, <1>3, <1>7, <1>8
  <2>5. old # new
    <3>1. Cardinality(Changed) # 0
      BY <1>1, <1>3, <2>4
    <3>. QED  BY <1>4, <3>1, FS_EmptySet
  <2>6. Paths(Named)' = Paths(changes)
    BY <2>3 DEF Paths
  <2>. QED  BY <1>2, <1>6, <2>2, <2>3, <2>4, <2>5, <2>6 DEF DiffNamesEveryChange
<1>9. CASE Len(changes) # limit
  <2>1. changes' = changes /\ Len(changes) < limit
    BY <1>1, <1>9 DEF WalkReturns
  <2>2. ~IsTruncated
    <3>. SUFFICES ASSUME changes # <<>>
                  PROVE  Last(changes) # Truncated
      BY DEF IsTruncated
    <3>1. Len(changes) \in DOMAIN changes /\ changes[Len(changes)] \in Kinds
      <4>1. changes \in Seq(Kinds)
        BY <1>1
      <4>. HIDE DEF Kinds
      <4>. QED  BY <4>1
    <3>2. changes[Len(changes)].path \in Seq(Steps)
      BY <3>1
    <3>. QED  BY <1>6, <3>1, <3>2, DifferenceIs DEF Last
  <2>3. ~IsTruncated' /\ Named' = changes
    BY <2>1, <2>2 DEF IsTruncated, Named
  <2>4. Paths(changes) = Changed
    BY <1>1, <1>6, <2>1 DEF WalkInv
  <2>5. Cardinality(Changed) = Len(changes) /\ ~(Cardinality(Changed) >= limit)
    BY <1>1, <1>6, <2>1, <2>4
  <2>6. changes = <<>> <=> old = new
    <3>1. changes = <<>> <=> Len(changes) = 0
      BY <1>1
    <3>2. Changed = {} <=> Cardinality(Changed) = 0
      BY <1>3, FS_EmptySet
    <3>. QED  BY <1>4, <1>5, <2>5, <3>1, <3>2
  <2>7. Paths(Named)' = Paths(changes)
    BY <2>3 DEF Paths
  <2>. QED  BY <1>2, <1>6, <2>1, <2>3, <2>4, <2>5, <2>6, <2>7 DEF DiffNamesEveryChange
<1>. QED  BY <1>8, <1>9

LEMMA DiffStep ==
  ASSUME DiffInv, [Diff]_diffVars
  PROVE  DiffInv'
<1>1. CASE Compare
  <2>1. WalkInv'
    BY <1>1, CompareBegins
  <2>2. diff' = "walking"
    BY <1>1 DEF Compare
  <2>. QED  BY <2>1, <2>2 DEF DiffInv, DiffNamesEveryChange
<1>2. ASSUME NEW path \in todo, Visit(path)
      PROVE  DiffInv'
  <2>1. WalkInv /\ diff' = "walking" /\ UNCHANGED <<old, new, limit>>
    BY <1>2 DEF DiffInv, Visit
  <2>2. CASE Len(changes) >= limit
    <3>1. todo' = todo \ {path} /\ UNCHANGED changes
      BY <1>2, <2>2 DEF Visit
    <3>2. WalkInv'
      BY <2>1, <2>2, <3>1, WalkLeaves
    <3>. QED  BY <2>1, <3>2 DEF DiffInv, DiffNamesEveryChange
  <2>3. CASE ~(Len(changes) >= limit) /\ SameContainer(path)
    <3>1. todo' = (todo \ {path}) \cup Below(path) /\ UNCHANGED changes
      BY <1>2, <2>3 DEF Visit
    <3>2. WalkInv'
      BY <2>1, <2>3, <3>1, WalkDescends
    <3>. QED  BY <2>1, <3>2 DEF DiffInv, DiffNamesEveryChange
  <2>4. CASE ~(Len(changes) >= limit) /\ ~SameContainer(path)
    <3>1. /\ todo' = todo \ {path}
          /\ changes' = IF There(old, path) = There(new, path) THEN changes
                        ELSE Append(changes, Difference(path))
      BY <1>2, <2>4 DEF Visit
    <3>2. Len(changes) < limit
      BY <2>1, <2>4, WalkTyped
    <3>3. WalkInv'
      BY <2>1, <2>4, <3>1, <3>2, WalkLeaves
    <3>. QED  BY <2>1, <3>3 DEF DiffInv, DiffNamesEveryChange
  <2>. QED  BY <2>2, <2>3, <2>4
<1>3. CASE WalkReturns
  <2>1. WalkInv /\ diff' = "returned"
    BY <1>3 DEF DiffInv, WalkReturns
  <2>2. DiffNamesEveryChange'
    BY <1>3, <2>1, WalkEnds
  <2>. QED  BY <2>1, <2>2 DEF DiffInv
<1>4. CASE UNCHANGED diffVars
  <2>1. UNCHANGED <<old, new, limit, diff, todo, changes>>
    BY <1>4 DEF diffVars
  <2>2. /\ Changed' = Changed
        /\ \A path : (OnTheWay(path)' <=> OnTheWay(path)) /\ Difference(path)' = Difference(path)
    BY <2>1, ValuesStay
  <2>3. WalkInv => WalkInv'
    BY <2>1, <2>2 DEF WalkInv
  <2>4. DiffNamesEveryChange' <=> DiffNamesEveryChange
    BY <2>1, <2>2 DEF DiffNamesEveryChange, Named, IsTruncated, Paths
  <2>. QED  BY <2>1, <2>3, <2>4 DEF DiffInv
<1>. QED  BY <1>1, <1>2, <1>3, <1>4 DEF Diff

\* Nothing that changed is lost on the way: while the walk is under way and below
\* its limit, each path that changed is named or a call is still to be made for it
\* or for a path that leads to it, and the paths that are named or still to be
\* visited lead away from each other (canonical.py:410).
THEOREM DiffInvariant == DiffSpec => []DiffInv
<1>1. DiffInit => DiffInv
  BY DEF DiffInit, DiffInv, DiffNamesEveryChange
<1>2. DiffInv /\ [Diff]_diffVars => DiffInv'
  BY DiffStep
<1>. QED  BY <1>1, <1>2, PTL DEF DiffSpec

\* What semantic_diff returns names every path that changed, once, as what happened
\* there, and nothing else; where it stops at its limit it says so
\* (canonical.py:432).
THEOREM DiffsAreComplete == DiffSpec => []DiffNamesEveryChange
<1>1. DiffInv => DiffNamesEveryChange
  BY DEF DiffInv
<1>. QED  BY <1>1, DiffInvariant, PTL
=============================================================================
