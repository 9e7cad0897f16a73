------------------------ MODULE FileWatchCycleProofs ------------------------
(***************************************************************************)
(* Proofs about FileWatchCycle, for any tree, roots, files and bounds: the *)
(* types; that an entry of the index whose signature is that of its file   *)
(* is about the bytes of that file, which rests on what a pass holds       *)
(* between the stat of a file, its read and the end of its scan; and that  *)
(* a cycle which is reported COMPLETED has covered its root, which rests   *)
(* on how far each cycle has come in its tree and on what every pass of    *)
(* any root will still write to the entries it relies on.                  *)
(***************************************************************************)
EXTENDS FileWatchCycle, TLAPS

\* A pass that deals with a file has it in hand, and no other one.
HandsFull ==
  \A r \in Roots :
    /\ job[r].pc \in {"check", "record", "look", "read", "scan", "save"} =>
         cursor[r].pending # {}
    /\ \A p, q \in cursor[r].pending : p = q

\* No signature is newer than the last change.
SignaturesAreOld ==
  /\ \A f \in Files : file[f].stamp <= edits /\ index[f].signature <= edits
  /\ \A r \in Roots : job[r].cached.signature <= edits
  /\ \A r \in Roots : \A p \in cursor[r].pending : p.signature <= edits

\* What a pass has read is what the file contains, while it has not changed since
\* it was listed.
ReadsMatch ==
  \A r \in Roots : \A p \in cursor[r].pending :
    /\ job[r].pc \in {"scan", "save"}
    /\ Exists(p.file)
    /\ file[p.file].stamp = p.signature
    => job[r].content = file[p.file].content

\* What SignaturesNameContents asks of one entry.
Truthful(f, entry) ==
  \/ entry.error
  \/ ~Exists(f)
  \/ entry.signature # file[f].stamp
  \/ entry.content = file[f].content

\* TypeOK without the passes and their cursors.
TablesTyped ==
  /\ file \in [Files -> [content : Bytes, stamp : Nat]]
  /\ broken \subseteq Dirs /\ watched \subseteq Roots
  /\ policy \in Nat /\ edits \in Nat /\ trouble \in Nat
  /\ walk \in [Roots -> [Dirs -> {"none", "PENDING", "DONE", "FAILED"}]]
  /\ context \in [Roots -> Nat]
  /\ finalized \in [Roots -> BOOLEAN]
  /\ result \in [Roots -> Statuses]
  /\ seen \in [Roots -> SUBSET Files] /\ old \in [Roots -> SUBSET Files]
  /\ index \in [Files -> EntryType]
  /\ since \in [Roots -> SUBSET (Files \X Bytes)]
  /\ steady \in [Roots -> SUBSET Files]

\* The inductive invariant.
IndexInv == TypeOK /\ HandsFull /\ SignaturesAreOld /\ ReadsMatch /\ SignaturesNameContents

\* The types of the constant records.
LEMMA RecordTypes ==
  /\ NoEntry \in EntryType
  /\ NoCursor \in CursorType
  /\ NoPass \in PassType
  /\ Gone \in [content : Bytes, stamp : Nat]
BY TreeAssumption
   DEF NoEntry, NoCursor, NoPass, Gone, EntryType, CursorType, PassType, HandType, Bytes,
       JobPcs, Statuses

\* The file in hand has the type of one, and is the one that is pending.
LEMMA HandTyped ==
  ASSUME TypeOK, HandsFull, NEW r \in Roots,
         job[r].pc \in {"check", "record", "look", "read", "scan", "save"}
  PROVE  InHand(r) \in HandType /\ InHand(r) \in cursor[r].pending
<1>1. \E p \in cursor[r].pending : TRUE
  BY DEF HandsFull
<1>2. InHand(r) \in cursor[r].pending
  BY <1>1 DEF InHand
<1>3. cursor[r].pending \subseteq HandType
  BY DEF TypeOK, CursorType
<1>4. QED BY <1>2, <1>3

\* The index after some rows have gone.
LEMMA PrunedTyped ==
  ASSUME TypeOK, NEW rows
  PROVE  Pruned(rows) \in [Files -> EntryType]
BY RecordTypes DEF Pruned, TypeOK

\* Initially nothing is indexed and nothing is in hand.
LEMMA IndexInvInit == Init => IndexInv
<1> SUFFICES ASSUME Init PROVE IndexInv
  OBVIOUS
<1>1. file \in [Files -> [content : Bytes, stamp : Nat]]
  <2>1. {Gone} \cup [content : Contents, stamp : {1}] \subseteq [content : Bytes, stamp : Nat]
    BY RecordTypes DEF Bytes
  <2>2. QED BY <2>1 DEF Init
<1>2. \A f \in Files : file[f].stamp <= edits
  <2>1. \A x \in {Gone} \cup [content : Contents, stamp : {1}] : x.stamp <= 1
    BY DEF Gone
  <2>2. QED BY <2>1 DEF Init
<1>3. TypeOK
  BY <1>1, RecordTypes, TreeAssumption DEF Init, TypeOK, Statuses
<1>4. HandsFull /\ ReadsMatch
  BY DEF Init, HandsFull, ReadsMatch, NoPass, NoCursor
<1>5. SignaturesAreOld
  BY <1>2 DEF Init, SignaturesAreOld, NoEntry, NoCursor, NoPass
<1>6. SignaturesNameContents
  BY DEF Init, SignaturesNameContents
<1>7. QED BY <1>3, <1>4, <1>5, <1>6 DEF IndexInv

\* What a pass becomes in its steps.
LEMMA PassUpdates ==
  \A j \in PassType, pc \in JobPcs :
    /\ [j EXCEPT !.pc = pc] \in PassType
    /\ \A b \in BOOLEAN :
         /\ [j EXCEPT !.pc = pc, !.failed = b] \in PassType
         /\ [j EXCEPT !.pc = pc, !.drained = b] \in PassType
         /\ [j EXCEPT !.pc = pc, !.limited = b] \in PassType
    /\ \A st \in Statuses :
         /\ [j EXCEPT !.pc = pc, !.status = st] \in PassType
         /\ \A b \in BOOLEAN : [j EXCEPT !.pc = pc, !.status = st, !.limited = b] \in PassType
    /\ \A k \in 0..PassEntries :
         /\ [j EXCEPT !.visited = k, !.pc = pc] \in PassType
         /\ [j EXCEPT !.visited = k, !.failed = TRUE] \in PassType
    /\ \A e \in EntryType : [j EXCEPT !.pc = pc, !.cached = e] \in PassType
    /\ \A bytes \in Bytes : [j EXCEPT !.pc = pc, !.content = bytes] \in PassType
    /\ \A n \in Nat :
         /\ [j EXCEPT !.pc = pc, !.report = n] \in PassType
         /\ [j EXCEPT !.pc = pc, !.context = n] \in PassType
<1> TAKE j \in PassType, pc \in JobPcs
<1>1. [j EXCEPT !.pc = pc] \in PassType
  BY DEF PassType
<1>2. ASSUME NEW b \in BOOLEAN
      PROVE  /\ [j EXCEPT !.pc = pc, !.failed = b] \in PassType
             /\ [j EXCEPT !.pc = pc, !.drained = b] \in PassType
             /\ [j EXCEPT !.pc = pc, !.limited = b] \in PassType
  BY DEF PassType
<1>3. ASSUME NEW st \in Statuses
      PROVE  /\ [j EXCEPT !.pc = pc, !.status = st] \in PassType
             /\ \A b \in BOOLEAN : [j EXCEPT !.pc = pc, !.status = st, !.limited = b] \in PassType
  BY DEF PassType
<1>4. ASSUME NEW k \in 0..PassEntries
      PROVE  /\ [j EXCEPT !.visited = k, !.pc = pc] \in PassType
             /\ [j EXCEPT !.visited = k, !.failed = TRUE] \in PassType
  BY DEF PassType
<1>5. \A e \in EntryType : [j EXCEPT !.pc = pc, !.cached = e] \in PassType
  BY DEF PassType
<1>6. \A bytes \in Bytes : [j EXCEPT !.pc = pc, !.content = bytes] \in PassType
  BY DEF PassType
<1>7. \A n \in Nat : /\ [j EXCEPT !.pc = pc, !.report = n] \in PassType
                     /\ [j EXCEPT !.pc = pc, !.context = n] \in PassType
  BY DEF PassType
<1>8. QED BY <1>1, <1>2, <1>3, <1>4, <1>5, <1>6, <1>7

\* What a cursor becomes in its steps.
LEMMA CursorUpdates ==
  \A c \in CursorType :
    /\ [c EXCEPT !.pending = {}] \in CursorType
    /\ \A todo \in SUBSET (Files \cup Dirs) :
         /\ [c EXCEPT !.todo = todo] \in CursorType
         /\ [c EXCEPT !.todo = todo, !.failed = TRUE] \in CursorType
         /\ \A p \in HandType : [c EXCEPT !.todo = todo, !.pending = {p}] \in CursorType
         /\ \A d \in Dirs : [c EXCEPT !.dir = d, !.todo = todo] \in CursorType
<1> TAKE c \in CursorType
<1>1. [c EXCEPT !.pending = {}] \in CursorType
  BY DEF CursorType
<1>2. ASSUME NEW todo \in SUBSET (Files \cup Dirs)
      PROVE  /\ [c EXCEPT !.todo = todo] \in CursorType
             /\ [c EXCEPT !.todo = todo, !.failed = TRUE] \in CursorType
             /\ \A d \in Dirs : [c EXCEPT !.dir = d, !.todo = todo] \in CursorType
  BY DEF CursorType
<1>3. ASSUME NEW todo \in SUBSET (Files \cup Dirs), NEW p \in HandType
      PROVE  [c EXCEPT !.todo = todo, !.pending = {p}] \in CursorType
  <2>1. {p} \in SUBSET HandType
    OBVIOUS
  <2>2. QED BY <2>1 DEF CursorType
<1>4. QED BY <1>1, <1>2, <1>3

\* A step of the pass of one root keeps the invariant if what the pass holds then
\* is sound, and every new entry of the index is.
LEMMA PassStep ==
  ASSUME IndexInv, NEW r \in Roots, NEW j \in PassType, NEW c \in CursorType,
         job' = [job EXCEPT ![r] = j], cursor' = [cursor EXCEPT ![r] = c],
         UNCHANGED <<file, edits>>, TablesTyped',
         j.pc \in {"check", "record", "look", "read", "scan", "save"} => c.pending # {},
         \A p, q \in c.pending : p = q,
         j.cached.signature <= edits,
         \A p \in c.pending :
           /\ p.signature <= edits
           /\ j.pc \in {"scan", "save"} /\ Exists(p.file) /\ file[p.file].stamp = p.signature
                => j.content = file[p.file].content,
         \A f \in Files :
           \/ index'[f] = index[f]
           \/ index'[f] = NoEntry
           \/ index'[f].signature <= edits /\ Truthful(f, index'[f])
  PROVE  IndexInv'
<1>1. job' \in [Roots -> PassType] /\ cursor' \in [Roots -> CursorType]
  BY DEF IndexInv, TypeOK
<1>2. \A x \in Roots : /\ job'[x] = IF x = r THEN j ELSE job[x]
                       /\ cursor'[x] = IF x = r THEN c ELSE cursor[x]
  BY DEF IndexInv, TypeOK
<1>3. HandsFull'
  BY <1>2 DEF IndexInv, HandsFull
<1>4. SignaturesAreOld'
  <2>1. 0 <= edits
    BY DEF IndexInv, TypeOK
  <2>2. \A f \in Files : file'[f].stamp <= edits' /\ index'[f].signature <= edits'
    BY <2>1 DEF IndexInv, SignaturesAreOld, NoEntry
  <2>3. QED BY <1>2, <2>2 DEF IndexInv, SignaturesAreOld
<1>5. ReadsMatch'
  BY <1>2 DEF IndexInv, ReadsMatch, Exists
<1>6. SignaturesNameContents'
  BY DEF IndexInv, SignaturesNameContents, Truthful, Exists
<1>7. TypeOK'
  BY <1>1 DEF TypeOK, TablesTyped
<1>8. QED BY <1>3, <1>4, <1>5, <1>6, <1>7 DEF IndexInv

\* The same for a step that changes neither the cursor nor a table.
LEMMA JobStep ==
  ASSUME IndexInv, NEW r \in Roots, NEW j \in PassType, PassIs(r, j),
         UNCHANGED <<disk, rootsTable, rootFiles, walk, index, cursor, history>>,
         UNCHANGED trouble \/ Strikes,
         j.pc \in {"check", "record", "look", "read", "scan", "save"} =>
           cursor[r].pending # {},
         j.cached = job[r].cached \/ j.cached = NoEntry,
         j.pc \in {"scan", "save"} => job[r].pc \in {"scan", "save"} /\ j.content = job[r].content
  PROVE  IndexInv'
<1> USE DEF disk, rootsTable, rootFiles, history
<1>1. cursor[r] \in CursorType /\ cursor' = [cursor EXCEPT ![r] = cursor[r]]
  BY DEF IndexInv, TypeOK
<1>2. j.cached.signature <= edits
  <2>1. NoEntry.signature = 0 /\ edits \in Nat
    BY DEF NoEntry, IndexInv, TypeOK
  <2>2. job[r].cached.signature <= edits
    BY DEF IndexInv, SignaturesAreOld
  <2>3. QED BY <2>1, <2>2
<1>3. \A p \in cursor[r].pending :
        /\ p.signature <= edits
        /\ j.pc \in {"scan", "save"} /\ Exists(p.file) /\ file[p.file].stamp = p.signature
             => j.content = file[p.file].content
  BY DEF IndexInv, SignaturesAreOld, ReadsMatch
<1>4. \A p, q \in cursor[r].pending : p = q
  BY DEF IndexInv, HandsFull
<1>5. TablesTyped'
  BY DEF IndexInv, TypeOK, TablesTyped, Strikes
<1>6. job' = [job EXCEPT ![r] = j]
  BY DEF PassIs
<1>7. QED BY <1>1, <1>2, <1>3, <1>4, <1>5, <1>6, PassStep

\* The types of the parts of a pass and a cursor.
LEMMA PartTypes ==
  ASSUME IndexInv, NEW r \in Roots
  PROVE  /\ job[r] \in PassType /\ cursor[r] \in CursorType
         /\ cursor[r].dir \in Dirs \cup {"none"} /\ cursor[r].failed \in BOOLEAN
         /\ cursor[r].todo \subseteq Files \cup Dirs
         /\ job[r].visited \in 0..PassEntries /\ job[r].failed \in BOOLEAN
         /\ job[r].cached \in EntryType /\ job[r].content \in Bytes /\ job[r].report \in Nat
         /\ job[r].context \in Nat /\ job[r].pc \in JobPcs
         /\ edits \in Nat /\ policy \in Nat /\ index \in [Files -> EntryType]
<1>1. job[r] \in PassType /\ cursor[r] \in CursorType
  BY DEF IndexInv, TypeOK
<1>2. edits \in Nat /\ policy \in Nat /\ index \in [Files -> EntryType]
  BY DEF IndexInv, TypeOK
<1>3. QED BY <1>1, <1>2 DEF PassType, CursorType

\* The queue of a root keeps its type when a directory is finished.
LEMMA FinishTyped ==
  ASSUME IndexInv, NEW r \in Roots, NEW d, NEW failed, FinishDirectory(r, d, failed)
  PROVE  walk' \in [Roots -> [Dirs -> {"none", "PENDING", "DONE", "FAILED"}]]
BY DEF IndexInv, TypeOK, FinishDirectory

\* The tables keep their types when only the queue and the index change.
LEMMA TablesKept ==
  ASSUME IndexInv, UNCHANGED <<disk, rootsTable, rootFiles, history>>,
         UNCHANGED trouble \/ Strikes,
         walk' \in [Roots -> [Dirs -> {"none", "PENDING", "DONE", "FAILED"}]],
         index' \in [Files -> EntryType]
  PROVE  TablesTyped'
BY DEF IndexInv, TypeOK, TablesTyped, Strikes, disk, rootsTable, rootFiles, history

\* A pass goes to another phase and holds what it held.
LEMMA JumpKept ==
  ASSUME IndexInv, NEW r \in Roots, NEW pc \in JobPcs, Goto(r, pc) \/ Fails(r, pc),
         UNCHANGED <<disk, rootsTable, rootFiles, walk, index, cursor, history>>,
         UNCHANGED trouble \/ Strikes,
         pc \in {"check", "record", "look", "read", "scan", "save"} => cursor[r].pending # {},
         pc \notin {"scan", "save"}
  PROVE  IndexInv'
<1>0. job[r] \in PassType
  BY PartTypes
<1>1. CASE Goto(r, pc)
  <2> DEFINE j == [job[r] EXCEPT !.pc = pc]
  <2>1. j \in PassType
    BY <1>0, PassUpdates
  <2>2. j.pc = pc /\ j.cached = job[r].cached
    BY <1>0 DEF PassType
  <2>3. QED BY <1>1, <2>1, <2>2, JobStep DEF Goto
<1>2. CASE Fails(r, pc)
  <2> DEFINE j == [job[r] EXCEPT !.pc = pc, !.failed = TRUE]
  <2>1. j \in PassType
    BY <1>0, PassUpdates
  <2>2. j.pc = pc /\ j.cached = job[r].cached
    BY <1>0 DEF PassType
  <2>3. QED BY <1>2, <2>1, <2>2, JobStep DEF Fails
<1>3. QED BY <1>1, <1>2

\* A pass has nothing in hand after a step.
LEMMA ReleaseKept ==
  ASSUME IndexInv, NEW r \in Roots, NEW j \in PassType, NEW c \in CursorType,
         PassIs(r, j), CursorIs(r, c), UNCHANGED <<disk, rootsTable, rootFiles, history>>,
         UNCHANGED trouble \/ Strikes,
         walk' \in [Roots -> [Dirs -> {"none", "PENDING", "DONE", "FAILED"}]],
         index' \in [Files -> EntryType],
         j.cached = job[r].cached, j.pc = "walk", c.pending = {},
         \A f \in Files :
           \/ index'[f] = index[f]
           \/ index'[f].signature <= edits /\ Truthful(f, index'[f])
  PROVE  IndexInv'
<1>1. TablesTyped'
  BY TablesKept
<1>2. j.cached.signature <= edits
  BY DEF IndexInv, SignaturesAreOld
<1>3. job' = [job EXCEPT ![r] = j] /\ cursor' = [cursor EXCEPT ![r] = c]
  BY DEF PassIs, CursorIs
<1>4. UNCHANGED <<file, edits>>
  BY DEF disk
<1>5. QED BY <1>1, <1>2, <1>3, <1>4, PassStep

\* Every step that begins a pass keeps the invariant.
LEMMA BeginKept ==
  ASSUME IndexInv, NEW r \in Roots,
         \/ Begin(r) \/ BeginFails(r) \/ NewCycle(r) \/ ContinueCycle(r) \/ CycleGone(r)
         \/ EnterRoot(r) \/ RootUnavailable(r)
  PROVE  IndexInv'
<1>0. job[r] \in PassType /\ policy \in Nat
  BY PartTypes
<1>1. CASE Begin(r)
  <2> DEFINE j == [NoPass EXCEPT !.pc = "cycle", !.context = policy]
  <2>1. j \in PassType
    BY <1>0, PassUpdates, RecordTypes DEF JobPcs
  <2>2. j.cached = NoEntry /\ j.pc = "cycle"
    BY DEF NoPass
  <2>3. QED BY <1>1, <2>1, <2>2, JobStep DEF Begin
<1>2. CASE BeginFails(r)
  <2> DEFINE j == [NoPass EXCEPT !.pc = "publish", !.failed = TRUE]
  <2>1. j \in PassType
    BY PassUpdates, RecordTypes DEF JobPcs
  <2>2. j.cached = NoEntry /\ j.pc = "publish"
    BY DEF NoPass
  <2>3. QED BY <1>2, <2>1, <2>2, JobStep DEF BeginFails
<1>3. CASE NewCycle(r)
  <2> DEFINE j == [job[r] EXCEPT !.pc = "enter"]
  <2>1. j \in PassType /\ NoCursor \in CursorType
    BY <1>0, PassUpdates, RecordTypes DEF JobPcs
  <2>2. j.pc = "enter" /\ j.cached = job[r].cached /\ NoCursor.pending = {}
    BY <1>0 DEF PassType, NoCursor
  <2>3. job[r].cached.signature <= edits
    BY DEF IndexInv, SignaturesAreOld
  <2>4. /\ job' = [job EXCEPT ![r] = j] /\ cursor' = [cursor EXCEPT ![r] = NoCursor]
        /\ UNCHANGED <<file, edits, index>>
    BY <1>3 DEF NewCycle, Goto, PassIs, CursorIs, disk
  <2>5. TablesTyped'
    <3>1. \A f \in Files : file[f].content \in Bytes
      BY DEF IndexInv, TypeOK
    <3>2. {<<f, file[f].content>> : f \in {g \in Files : Exists(g)}} \subseteq Files \X Bytes
      BY <3>1
    <3>3. since' \in [Roots -> SUBSET (Files \X Bytes)]
      BY <1>3, <3>2 DEF NewCycle, IndexInv, TypeOK
    <3>4. /\ steady' \in [Roots -> SUBSET Files]
          /\ seen' \in [Roots -> SUBSET Files] /\ old' \in [Roots -> SUBSET Files]
      BY <1>3 DEF NewCycle, IndexInv, TypeOK
    <3>5. walk' \in [Roots -> [Dirs -> {"none", "PENDING", "DONE", "FAILED"}]]
      BY <1>3 DEF NewCycle, IndexInv, TypeOK
    <3>6. context' \in [Roots -> Nat] /\ finalized' \in [Roots -> BOOLEAN]
      BY <1>3, PartTypes DEF NewCycle, IndexInv, TypeOK
    <3>7. QED
      BY <1>3, <3>3, <3>4, <3>5, <3>6 DEF NewCycle, IndexInv, TypeOK, TablesTyped, disk
  <2>6. QED BY <2>1, <2>2, <2>3, <2>4, <2>5, PassStep
<1>4. CASE ContinueCycle(r) \/ EnterRoot(r)
  BY <1>4, JumpKept DEF ContinueCycle, EnterRoot, JobPcs
<1>5. CASE CycleGone(r) \/ RootUnavailable(r)
  BY <1>5, JumpKept DEF CycleGone, RootUnavailable, JobPcs
<1>6. QED BY <1>1, <1>2, <1>3, <1>4, <1>5

\* Every step of the walk keeps the invariant.
LEMMA WalkKept ==
  ASSUME IndexInv, NEW r \in Roots,
         \/ \E d \in Dirs : OpenDirectory(r, d) \/ DirectoryUnreadable(r, d) \/ NextDirectory(r, d)
         \/ DirectoryChanged(r) \/ EndDirectory(r) \/ Drained(r)
         \/ EntryLimit(r) \/ TimeLimit(r) \/ YieldPending(r)
         \/ \E f \in Files : NextFile(r, f)
         \/ \E x \in Files \cup Dirs : EntryVanished(r, x)
  PROVE  IndexInv'
<1>0. /\ job[r] \in PassType /\ cursor[r] \in CursorType /\ index \in [Files -> EntryType]
      /\ cursor[r].todo \subseteq Files \cup Dirs /\ cursor[r].failed \in BOOLEAN
      /\ job[r].visited \in 0..PassEntries
  BY PartTypes
<1>1. walk \in [Roots -> [Dirs -> {"none", "PENDING", "DONE", "FAILED"}]]
  BY DEF IndexInv, TypeOK
<1>2. NoCursor \in CursorType /\ NoCursor.pending = {}
  BY RecordTypes DEF NoCursor
<1>3. UNCHANGED job => PassIs(r, job[r])
  BY <1>0 DEF PassIs, IndexInv, TypeOK
<1>4. CASE \E d \in Dirs : OpenDirectory(r, d)
  <2> PICK d \in Dirs : OpenDirectory(r, d)
    BY <1>4
  <2> DEFINE c == [NoCursor EXCEPT !.dir = d, !.todo = Entries(r, d)]
  <2>1. Entries(r, d) \in SUBSET (Files \cup Dirs)
    BY DEF Entries
  <2>2. c \in CursorType
    BY <1>2, <2>1, CursorUpdates
  <2>3. c.pending = {}
    BY DEF NoCursor
  <2>4. job[r].pc = "walk" /\ PassIs(r, job[r]) /\ CursorIs(r, c)
    BY <1>3 DEF OpenDirectory, At
  <2>5. QED BY <1>0, <1>1, <2>2, <2>3, <2>4, ReleaseKept DEF OpenDirectory
<1>5. ASSUME NEW d, NEW b \in BOOLEAN, FinishDirectory(r, d, b), job[r].pc = "walk",
             Fails(r, "walk") \/ UNCHANGED job,
             UNCHANGED <<disk, rootsTable, rootFiles, index, history, trouble>>
      PROVE  IndexInv'
  <2> DEFINE j == [job[r] EXCEPT !.pc = "walk", !.failed = TRUE]
  <2>1. j \in PassType /\ j.pc = "walk" /\ j.cached = job[r].cached
    <3>1. j \in PassType
      BY <1>0, PassUpdates DEF JobPcs
    <3>2. QED BY <1>0, <3>1 DEF PassType
  <2>2. walk' \in [Roots -> [Dirs -> {"none", "PENDING", "DONE", "FAILED"}]]
    BY <1>5, FinishTyped
  <2>3. CursorIs(r, NoCursor)
    BY <1>5 DEF FinishDirectory
  <2>4. PassIs(r, j) \/ PassIs(r, job[r])
    BY <1>3, <1>5 DEF Fails
  <2>5. CASE PassIs(r, j)
    BY <1>0, <1>2, <1>5, <2>1, <2>2, <2>3, <2>5, ReleaseKept
  <2>6. CASE PassIs(r, job[r])
    BY <1>0, <1>2, <1>5, <2>2, <2>3, <2>6, ReleaseKept
  <2>7. QED BY <2>4, <2>5, <2>6
<1>6. CASE \E d \in Dirs : DirectoryUnreadable(r, d)
  BY <1>5, <1>6 DEF DirectoryUnreadable, At
<1>7. CASE DirectoryChanged(r)
  BY <1>5, <1>7 DEF DirectoryChanged, At
<1>8. CASE EndDirectory(r)
  BY <1>0, <1>5, <1>8 DEF EndDirectory, Visit, Listing, At
<1>9. CASE \E d \in Dirs : NextDirectory(r, d)
  <2> PICK d \in Dirs : NextDirectory(r, d)
    BY <1>9
  <2> DEFINE j == [job[r] EXCEPT !.visited = @ + 1, !.pc = "walk"]
             c == [cursor[r] EXCEPT !.todo = @ \ {d}]
  <2>1. job[r].visited + 1 \in 0..PassEntries /\ cursor[r].pending = {}
    BY <1>0, TreeAssumption DEF NextDirectory, Lists, Visit
  <2>2. j \in PassType
    BY <1>0, <2>1, PassUpdates DEF JobPcs
  <2>3. c \in CursorType
    BY <1>0, CursorUpdates
  <2>4. j.pc = "walk" /\ j.cached = job[r].cached /\ c.pending = {}
    BY <1>0, <2>1 DEF PassType, CursorType
  <2>5. walk' \in [Roots -> [Dirs -> {"none", "PENDING", "DONE", "FAILED"}]]
    BY <1>1 DEF NextDirectory
  <2>6. PassIs(r, j) /\ CursorIs(r, c)
    BY DEF NextDirectory, Visited
  <2>7. QED BY <1>0, <2>2, <2>3, <2>4, <2>5, <2>6, ReleaseKept DEF NextDirectory
<1>10. CASE \E x \in Files \cup Dirs : EntryVanished(r, x)
  <2> PICK x \in Files \cup Dirs : EntryVanished(r, x)
    BY <1>10
  <2> DEFINE j == [job[r] EXCEPT !.visited = @ + 1, !.failed = TRUE]
             c == [cursor[r] EXCEPT !.todo = @ \ {x}]
             b == [cursor[r] EXCEPT !.todo = @ \ {x}, !.failed = TRUE]
  <2>1. job[r].visited + 1 \in 0..PassEntries /\ cursor[r].pending = {} /\ job[r].pc = "walk"
    <3>1. job[r].visited < PassEntries /\ cursor[r].pending = {} /\ job[r].pc = "walk"
      BY DEF EntryVanished, Lists, Visit, Listing, At
    <3>2. QED BY <1>0, <3>1, TreeAssumption
  <2>2. j \in PassType
    BY <1>0, <2>1, PassUpdates, PartTypes
  <2>3. c \in CursorType /\ b \in CursorType
    BY <1>0, CursorUpdates
  <2>4. /\ j.pc = "walk" /\ j.cached = job[r].cached
        /\ c.pending = {} /\ b.pending = {}
    BY <1>0, <2>1 DEF PassType, CursorType
  <2>5. \/ PassIs(r, job[r]) /\ CursorIs(r, c)
        \/ PassIs(r, j) /\ CursorIs(r, b)
    BY <1>3 DEF EntryVanished
  <2>6. UNCHANGED <<disk, rootsTable, rootFiles, walk, index, history, trouble>>
    BY DEF EntryVanished
  <2>7. CASE PassIs(r, job[r]) /\ CursorIs(r, c)
    BY <1>0, <1>1, <2>1, <2>3, <2>4, <2>6, <2>7, ReleaseKept
  <2>8. CASE PassIs(r, j) /\ CursorIs(r, b)
    BY <1>0, <1>1, <2>2, <2>3, <2>4, <2>6, <2>8, ReleaseKept
  <2>9. QED BY <2>5, <2>7, <2>8
<1>11. CASE \E f \in Files : NextFile(r, f)
  <2> PICK f \in Files : NextFile(r, f)
    BY <1>11
  <2> DEFINE hand == [file |-> f, signature |-> file[f].stamp,
                      large |-> file[f].content = "large"]
             j == [job[r] EXCEPT !.visited = @ + 1, !.pc = "check"]
             c == [cursor[r] EXCEPT !.todo = @ \ {f}, !.pending = {hand}]
  <2>1. job[r].visited + 1 \in 0..PassEntries
    <3>1. job[r].visited < PassEntries
      BY DEF NextFile, Lists, Visit
    <3>2. QED BY <1>0, <3>1, TreeAssumption
  <2>2. j \in PassType /\ j.pc = "check" /\ j.cached = job[r].cached
    <3>1. j \in PassType
      BY <1>0, <2>1, PassUpdates DEF JobPcs
    <3>2. QED BY <1>0, <3>1 DEF PassType
  <2>3. hand \in HandType
    BY DEF HandType, IndexInv, TypeOK
  <2>4. c \in CursorType
    BY <1>0, <2>3, CursorUpdates
  <2>5. c.pending = {hand} /\ hand.signature = file[f].stamp
    BY <1>0 DEF CursorType
  <2>6. \A p \in c.pending : p.signature <= edits
    BY <2>5 DEF IndexInv, SignaturesAreOld
  <2>7. job' = [job EXCEPT ![r] = j] /\ cursor' = [cursor EXCEPT ![r] = c]
    BY DEF NextFile, Visited, PassIs, CursorIs
  <2>8. TablesTyped'
    BY <1>0, <1>1, TablesKept DEF NextFile
  <2>9. UNCHANGED <<file, edits, index>> /\ j.cached.signature <= edits
    BY <2>2 DEF NextFile, disk, IndexInv, SignaturesAreOld
  <2>10. QED BY <2>2, <2>4, <2>5, <2>6, <2>7, <2>8, <2>9, PassStep
<1>12. CASE Drained(r)
  <2> DEFINE j == [job[r] EXCEPT !.pc = "publish", !.drained = TRUE]
  <2>1. j \in PassType /\ j.pc = "publish" /\ j.cached = job[r].cached
    <3>1. j \in PassType
      BY <1>0, PassUpdates DEF JobPcs
    <3>2. QED BY <1>0, <3>1 DEF PassType
  <2>2. QED BY <1>12, <2>1, JobStep DEF Drained
<1>13. CASE EntryLimit(r) \/ TimeLimit(r)
  <2> DEFINE j == [job[r] EXCEPT !.pc = "publish", !.limited = TRUE]
  <2>1. j \in PassType /\ j.pc = "publish" /\ j.cached = job[r].cached
    <3>1. j \in PassType
      BY <1>0, PassUpdates DEF JobPcs
    <3>2. QED BY <1>0, <3>1 DEF PassType
  <2>2. QED BY <1>13, <2>1, JobStep DEF EntryLimit, TimeLimit
<1>14. CASE YieldPending(r)
  <2> DEFINE j == [job[r] EXCEPT !.visited = @ + 1, !.pc = "check"]
  <2>1. job[r].visited + 1 \in 0..PassEntries /\ cursor[r].pending # {}
    BY <1>0, <1>14, TreeAssumption DEF YieldPending, Visit
  <2>2. j \in PassType /\ j.pc = "check" /\ j.cached = job[r].cached
    <3>1. j \in PassType
      BY <1>0, <2>1, PassUpdates DEF JobPcs
    <3>2. QED BY <1>0, <3>1 DEF PassType
  <2>3. QED BY <1>14, <2>1, <2>2, JobStep DEF YieldPending, Visited
<1>15. QED
  BY <1>4, <1>6, <1>7, <1>8, <1>9, <1>10, <1>11, <1>12, <1>13, <1>14

\* Every step of a pass with a file keeps the invariant: what it read is about the
\* signature it has in hand, unless the file has changed since it was listed.
LEMMA FileKept ==
  ASSUME IndexInv, NEW r \in Roots,
         \/ Pause(r) \/ RootGone(r) \/ Wanted(r) \/ Record(r) \/ Look(r) \/ Read(r)
         \/ ReadFails(r) \/ Scan(r) \/ ScanFails(r) \/ Save(r) \/ Abort(r)
  PROVE  IndexInv'
<1>0. /\ job[r] \in PassType /\ cursor[r] \in CursorType /\ index \in [Files -> EntryType]
      /\ job[r].failed \in BOOLEAN /\ policy \in Nat /\ edits \in Nat
      /\ job[r].cached \in EntryType /\ job[r].content \in Bytes /\ job[r].context \in Nat
      /\ job[r].report \in Nat
  BY PartTypes
<1>1. walk \in [Roots -> [Dirs -> {"none", "PENDING", "DONE", "FAILED"}]]
  BY DEF IndexInv, TypeOK
<1> DEFINE f == InHand(r).file
           p == InHand(r)
           c == [cursor[r] EXCEPT !.pending = {}]
<1>2. c \in CursorType /\ c.pending = {}
  BY <1>0, CursorUpdates DEF CursorType
<1>3. job[r].pc \in {"look", "read", "scan", "save"} =>
        /\ p \in cursor[r].pending /\ f \in Files
        /\ p.signature \in Nat /\ p.signature <= edits
  <2>1. SUFFICES ASSUME job[r].pc \in {"look", "read", "scan", "save"}
                 PROVE  p \in HandType /\ p \in cursor[r].pending
    BY DEF HandType, IndexInv, SignaturesAreOld
  <2>2. QED BY <2>1, HandTyped DEF IndexInv
<1>4. CASE Pause(r)
  <2> PICK status \in {"RUNNING", "CANCELLED"} :
             PassIs(r, [job[r] EXCEPT !.pc = "publish", !.status = status,
                                      !.limited = (status = "RUNNING")])
    BY <1>4 DEF Pause
  <2> DEFINE j == [job[r] EXCEPT !.pc = "publish", !.status = status,
                                 !.limited = (status = "RUNNING")]
  <2>1. j \in PassType
    <3>1. (status = "RUNNING") \in BOOLEAN /\ status \in Statuses /\ "publish" \in JobPcs
      BY DEF Statuses, JobPcs
    <3>2. QED BY <1>0, <3>1, PassUpdates
  <2>2. j.pc = "publish" /\ j.cached = job[r].cached
    BY <1>0 DEF PassType
  <2>3. QED BY <1>4, <2>1, <2>2, JobStep DEF Pause
<1>5. CASE RootGone(r)
  <2> DEFINE j == [job[r] EXCEPT !.pc = "publish", !.status = "CANCELLED"]
  <2>1. j \in PassType
    BY <1>0, PassUpdates DEF JobPcs, Statuses
  <2>2. j.pc = "publish" /\ j.cached = job[r].cached
    BY <1>0 DEF PassType
  <2>3. QED BY <1>5, <2>1, <2>2, JobStep DEF RootGone
<1>6. CASE Wanted(r)
  <2>1. cursor[r].pending # {}
    BY <1>6 DEF Wanted, At, IndexInv, HandsFull
  <2>2. QED BY <1>6, <2>1, JumpKept DEF Wanted, JobPcs
<1>7. CASE Abort(r)
  BY <1>7, JumpKept DEF Abort, JobPcs
<1>8. CASE Record(r)
  <2> DEFINE j == [job[r] EXCEPT !.pc = "look"]
  <2>1. j \in PassType
    BY <1>0, PassUpdates DEF JobPcs
  <2>2. j.pc = "look" /\ j.cached = job[r].cached
    BY <1>0 DEF PassType
  <2>3. job[r].pc = "record" /\ cursor[r].pending # {}
    BY <1>8 DEF Record, At, IndexInv, HandsFull
  <2>4. f \in Files
    BY <2>3, HandTyped DEF HandType, IndexInv
  <2>5. seen' \in [Roots -> SUBSET Files] /\ old' \in [Roots -> SUBSET Files]
    BY <1>8, <2>4 DEF Record, IndexInv, TypeOK
  <2>6. TablesTyped'
    BY <1>8, <2>5 DEF Record, IndexInv, TypeOK, TablesTyped, disk, rootsTable, history
  <2>7. cursor' = [cursor EXCEPT ![r] = cursor[r]] /\ job' = [job EXCEPT ![r] = j]
    BY <1>8 DEF Record, Goto, PassIs, IndexInv, TypeOK
  <2>8. UNCHANGED <<file, edits, index>> /\ j.cached.signature <= edits
    BY <1>8, <2>2 DEF Record, disk, IndexInv, SignaturesAreOld
  <2>9. /\ \A q \in cursor[r].pending : q.signature <= edits
        /\ \A q, q2 \in cursor[r].pending : q = q2
    BY DEF IndexInv, SignaturesAreOld, HandsFull
  <2>10. QED BY <1>0, <2>1, <2>2, <2>3, <2>6, <2>7, <2>8, <2>9, PassStep
\* A failure is recorded: the entry says nothing of the bytes.
<1>9. ASSUME NEW retry \in {"never", "wait", "due"}, RecordFailure(r, retry),
             job[r].pc \in {"look", "read", "scan", "save"},
             UNCHANGED <<disk, rootsTable, rootFiles, walk, history>>,
             UNCHANGED trouble \/ Strikes
      PROVE  IndexInv'
  <2> DEFINE j == [job[r] EXCEPT !.pc = "walk", !.failed = TRUE]
             e == Failure(r, retry)
  <2>1. j \in PassType
    BY <1>0, PassUpdates DEF JobPcs
  <2>2. j.pc = "walk" /\ j.cached = job[r].cached
    BY <1>0 DEF PassType
  <2>3. e \in EntryType /\ e.error /\ e.signature <= edits
    BY <1>0, <1>3, <1>9, RecordTypes DEF Failure, EntryType, NoEntry
  <2>4. index' = [index EXCEPT ![f] = e] /\ PassIs(r, j) /\ CursorIs(r, c)
    BY <1>9 DEF RecordFailure, Fails, Release
  <2>5. index' \in [Files -> EntryType]
    BY <1>0, <2>3, <2>4
  <2>6. \A g \in Files : \/ index'[g] = index[g]
                         \/ index'[g].signature <= edits /\ Truthful(g, index'[g])
    BY <1>0, <2>3, <2>4 DEF Truthful
  <2>7. QED BY <1>1, <1>2, <1>9, <2>1, <2>2, <2>4, <2>5, <2>6, ReleaseKept
<1>10. CASE ReadFails(r)
  BY <1>9, <1>10 DEF ReadFails, At
<1>11. CASE ScanFails(r)
  BY <1>9, <1>11 DEF ScanFails, At
<1>12. CASE Look(r)
  <2> DEFINE entry == index[f]
  <2>1. job[r].pc = "look" /\ Consult(r)
    BY <1>12 DEF Look, At
  <2>2. f \in Files /\ entry \in EntryType /\ entry.signature <= edits
    BY <1>0, <1>3, <2>1 DEF IndexInv, SignaturesAreOld
  <2>3. CASE Unchanged(r, entry)
    <3> DEFINE j == [job[r] EXCEPT !.pc = "walk", !.failed = @ \/ entry.error]
    <3>1. (job[r].failed \/ entry.error) \in BOOLEAN
      OBVIOUS
    <3>2. j \in PassType
      BY <1>0, <3>1, PassUpdates DEF JobPcs
    <3>3. j.pc = "walk" /\ j.cached = job[r].cached
      BY <1>0 DEF PassType
    <3>4. PassIs(r, j) /\ CursorIs(r, c) /\ UNCHANGED index
      BY <2>1, <2>3 DEF Consult, Release
    <3>5. UNCHANGED <<disk, rootsTable, rootFiles, walk, history, trouble>>
      BY <2>1 DEF Consult
    <3>6. QED BY <1>0, <1>1, <1>2, <3>2, <3>3, <3>4, <3>5, ReleaseKept
  <2>4. CASE ~Unchanged(r, entry) /\ p.large
    BY <1>9, <2>1, <2>4 DEF Consult
  <2>5. CASE ~Unchanged(r, entry) /\ ~p.large
    <3> DEFINE j == [job[r] EXCEPT !.pc = "read", !.cached = entry]
    <3>1. j \in PassType
      BY <1>0, <2>2, PassUpdates DEF JobPcs
    <3>2. j.pc = "read" /\ j.cached = entry
      BY <1>0 DEF PassType
    <3>3. PassIs(r, j) /\ UNCHANGED <<index, cursor>>
      BY <2>1, <2>5 DEF Consult
    <3>4. UNCHANGED <<disk, rootsTable, rootFiles, walk, history, trouble>>
      BY <2>1 DEF Consult
    <3>5. cursor' = [cursor EXCEPT ![r] = cursor[r]] /\ job' = [job EXCEPT ![r] = j]
      BY <3>3 DEF PassIs, IndexInv, TypeOK
    <3>6. TablesTyped'
      BY <1>0, <1>1, <3>3, <3>4, TablesKept
    <3>7. /\ cursor[r].pending # {}
          /\ \A q \in cursor[r].pending : q.signature <= edits
          /\ \A q, q2 \in cursor[r].pending : q = q2
      BY <1>3, <2>1 DEF IndexInv, SignaturesAreOld, HandsFull
    <3>8. UNCHANGED <<file, edits, index>>
      BY <3>3, <3>4 DEF disk
    <3>9. QED BY <1>0, <2>2, <3>1, <3>2, <3>5, <3>6, <3>7, <3>8, PassStep
  <2>6. QED BY <2>3, <2>4, <2>5
<1>13. CASE Read(r)
  <2> DEFINE cached == job[r].cached
  <2>1. /\ job[r].pc = "read" /\ f \in Files
        /\ UNCHANGED <<disk, rootsTable, rootFiles, walk, history, trouble>>
    BY <1>3, <1>13 DEF Read, At
  <2>2. file[f].content \in Bytes
    BY <2>1 DEF IndexInv, TypeOK
  <2>3. CASE Usable(r, cached) /\ ~cached.error /\ cached.content = file[f].content
    <3> DEFINE j == [job[r] EXCEPT !.pc = "walk"]
               e == [cached EXCEPT !.signature = p.signature]
    <3>1. j \in PassType
      BY <1>0, PassUpdates DEF JobPcs
    <3>2. j.pc = "walk" /\ j.cached = job[r].cached
      BY <1>0 DEF PassType
    <3>3. e \in EntryType /\ e.content = file[f].content /\ e.signature <= edits
      BY <1>0, <1>3, <2>1, <2>3 DEF EntryType
    <3>4. index' = [index EXCEPT ![f] = e] /\ PassIs(r, j) /\ CursorIs(r, c)
      BY <1>13, <2>3 DEF Read, Release, Goto
    <3>5. index' \in [Files -> EntryType]
      BY <1>0, <3>3, <3>4
    <3>6. \A g \in Files : \/ index'[g] = index[g]
                           \/ index'[g].signature <= edits /\ Truthful(g, index'[g])
      BY <1>0, <3>3, <3>4 DEF Truthful
    <3>7. QED BY <1>1, <1>2, <2>1, <3>1, <3>2, <3>4, <3>5, <3>6, ReleaseKept
  <2>4. CASE ~(Usable(r, cached) /\ ~cached.error /\ cached.content = file[f].content)
    <3> DEFINE j == [job[r] EXCEPT !.pc = "scan", !.content = file[f].content]
    <3>1. j \in PassType
      BY <1>0, <2>2, PassUpdates DEF JobPcs
    <3>2. j.pc = "scan" /\ j.cached = job[r].cached /\ j.content = file[f].content
      BY <1>0 DEF PassType
    <3>3. PassIs(r, j) /\ UNCHANGED <<index, cursor>>
      BY <1>13, <2>4 DEF Read
    <3>4. cursor' = [cursor EXCEPT ![r] = cursor[r]] /\ job' = [job EXCEPT ![r] = j]
      BY <3>3 DEF PassIs, IndexInv, TypeOK
    <3>5. TablesTyped'
      BY <1>0, <1>1, <2>1, <3>3, TablesKept
    <3>6. UNCHANGED <<file, edits, index>> /\ j.cached.signature <= edits
      BY <2>1, <3>2, <3>3 DEF disk, IndexInv, SignaturesAreOld
    <3>7. cursor[r].pending = {p}
      BY <1>3, <2>1 DEF IndexInv, HandsFull
    <3>8. \A q, q2 \in cursor[r].pending :
            /\ q.signature <= edits /\ q = q2
            /\ file[q.file].stamp = q.signature => j.content = file[q.file].content
      BY <1>3, <2>1, <3>2, <3>7
    <3>9. QED BY ZenonT(60), <1>0, <3>1, <3>2, <3>4, <3>5, <3>6, <3>7, <3>8, PassStep
  <2>5. QED BY <2>3, <2>4
<1>14. CASE Scan(r)
  <2> DEFINE j == [job[r] EXCEPT !.pc = "save", !.report = policy]
  <2>1. j \in PassType
    BY <1>0, PassUpdates DEF JobPcs
  <2>2. j.pc = "save" /\ j.cached = job[r].cached /\ j.content = job[r].content
    BY <1>0 DEF PassType
  <2>3. job[r].pc = "scan" /\ cursor[r].pending # {}
    BY <1>14 DEF Scan, At, IndexInv, HandsFull
  <2>4. QED BY <1>14, <2>1, <2>2, <2>3, JobStep DEF Scan
<1>15. CASE Save(r)
  <2> DEFINE j == [job[r] EXCEPT !.pc = "walk"]
             e == [signature |-> p.signature, content |-> job[r].content,
                   policy |-> job[r].report, error |-> FALSE, retry |-> "never",
                   context |-> job[r].context]
  <2>1. j \in PassType
    BY <1>0, PassUpdates DEF JobPcs
  <2>2. j.pc = "walk" /\ j.cached = job[r].cached
    BY <1>0 DEF PassType
  <2>3. /\ job[r].pc = "save" /\ index' = [index EXCEPT ![f] = e]
        /\ PassIs(r, j) /\ CursorIs(r, c)
        /\ UNCHANGED <<disk, rootsTable, rootFiles, walk, history, trouble>>
    BY <1>15 DEF Save, SaveAs, At, Release, Goto
  <2>4. e \in EntryType /\ e.signature <= edits
    BY <1>0, <1>3, <2>3 DEF EntryType
  <2>5. Truthful(f, e)
    BY <1>3, <2>3 DEF Truthful, IndexInv, ReadsMatch
  <2>6. index' \in [Files -> EntryType]
    BY <1>0, <2>3, <2>4
  <2>7. \A g \in Files : \/ index'[g] = index[g]
                         \/ index'[g].signature <= edits /\ Truthful(g, index'[g])
    BY <1>0, <2>3, <2>4, <2>5
  <2>8. QED BY <1>1, <1>2, <2>1, <2>2, <2>3, <2>6, <2>7, ReleaseKept
<1>16. QED
  BY <1>4, <1>5, <1>6, <1>7, <1>8, <1>10, <1>11, <1>12, <1>13, <1>14, <1>15

\* The end of a pass keeps the invariant: entries only go away.
LEMMA EndKept ==
  ASSUME IndexInv, NEW r \in Roots, Publish(r) \/ PublishNothing(r)
  PROVE  IndexInv'
<1>1. NoPass \in PassType /\ NoPass.pc = "idle" /\ NoPass.cached = NoEntry
  BY RecordTypes DEF NoPass
<1>2. NoPass.cached.signature <= edits
  BY <1>1, PartTypes DEF NoEntry
<1>3. cursor[r] \in CursorType /\ NoCursor \in CursorType /\ NoCursor.pending = {}
  BY RecordTypes, PartTypes DEF NoCursor
<1>4. \A q, q2 \in cursor[r].pending : q.signature <= edits /\ q = q2
  BY DEF IndexInv, SignaturesAreOld, HandsFull
<1>5. job' = [job EXCEPT ![r] = NoPass] /\ UNCHANGED <<file, edits>>
  BY DEF Publish, PublishNothing, PassIs, disk
<1>6. CASE Publish(r)
  <2>1. cursor' = [cursor EXCEPT ![r] = cursor[r]]
    BY <1>6 DEF Publish, IndexInv, TypeOK
  <2>2. index' \in [Files -> EntryType]
    <3>1. UNCHANGED index \/ \E rows : index' = Pruned(rows)
      BY <1>6 DEF Publish
    <3>2. QED BY <3>1, PartTypes, PrunedTyped DEF IndexInv
  <2>3. \A f \in Files : index'[f] = index[f] \/ index'[f] = NoEntry
    BY <1>6 DEF Publish, Pruned
  <2>4. Status(r) \in Statuses /\ CycleComplete(r) \in BOOLEAN
    BY PartTypes DEF Status, Statuses, PassType, CycleComplete
  <2>5. result' \in [Roots -> Statuses] /\ finalized' \in [Roots -> BOOLEAN]
    BY <1>6, <2>4 DEF Publish, IndexInv, TypeOK
  <2>6. old' \in [Roots -> SUBSET Files]
    BY <1>6 DEF Publish, IndexInv, TypeOK
  <2>7. TablesTyped'
    BY <1>6, <2>2, <2>5, <2>6 DEF Publish, IndexInv, TypeOK, TablesTyped, disk, history
  <2>8. QED BY ZenonT(30), <1>1, <1>2, <1>3, <1>4, <1>5, <2>1, <2>3, <2>7, PassStep
<1>7. CASE PublishNothing(r)
  <2>1. cursor' = [cursor EXCEPT ![r] = NoCursor] /\ UNCHANGED index
    BY <1>7 DEF PublishNothing, CursorIs
  <2>2. TablesTyped'
    BY <1>7 DEF PublishNothing, IndexInv, TypeOK, TablesTyped, disk, rootsTable, rootFiles, history
  <2>3. QED BY <1>1, <1>2, <1>3, <1>5, <2>1, <2>2, PassStep
<1>8. QED BY <1>6, <1>7

\* What happens beside the passes keeps the invariant: a new stamp is newer than
\* every signature, and cursors are closed only where no pass is.
LEMMA OthersKept ==
  ASSUME IndexInv,
         \/ \E r \in Roots : RemoveRoot(r)
         \/ Stop \/ Restart \/ SetPolicy
         \/ \E f \in Files : RetryDue(f) \/ DeleteFile(f)
         \/ \E f \in Files, content \in Contents : WriteFile(f, content)
         \/ \E d \in Dirs : BreakDirectory(d) \/ RepairDirectory(d)
  PROVE  IndexInv'
<1>1. /\ NoCursor \in CursorType /\ NoCursor.pending = {}
      /\ NoPass \in PassType /\ NoPass.pc = "idle" /\ NoPass.cached.signature = 0
  BY RecordTypes DEF NoCursor, NoPass, NoEntry
<1>2. edits \in Nat /\ trouble \in Nat /\ policy \in Nat
  BY DEF IndexInv, TypeOK
<1>3. CASE \E r \in Roots : RemoveRoot(r)
  <2> PICK r \in Roots : RemoveRoot(r)
    BY <1>3
  <2>1. /\ cursor' \in [Roots -> CursorType]
        /\ \A x \in Roots : \/ cursor'[x] = cursor[x]
                            \/ cursor'[x] = NoCursor /\ job[x].pc = "idle"
    BY <1>1 DEF RemoveRoot, At, IndexInv, TypeOK
  <2>2. index' \in [Files -> EntryType]
    BY PrunedTyped DEF RemoveRoot, IndexInv
  <2>3. \A f \in Files : index'[f] = index[f] \/ index'[f] = NoEntry
    BY DEF RemoveRoot, Pruned
  <2>4. UNCHANGED <<file, edits, job>>
    BY DEF RemoveRoot, disk
  <2>5. TypeOK'
    <3>1. walk' \in [Roots -> [Dirs -> {"none", "PENDING", "DONE", "FAILED"}]]
      BY DEF RemoveRoot, IndexInv, TypeOK
    <3>2. seen' \in [Roots -> SUBSET Files] /\ old' \in [Roots -> SUBSET Files]
      BY DEF RemoveRoot, IndexInv, TypeOK
    <3>3. watched' \subseteq Roots /\ trouble' \in Nat
      BY <1>2 DEF RemoveRoot, IndexInv, TypeOK, Strikes
    <3>4. UNCHANGED <<disk, context, finalized, result, job, history>>
      BY DEF RemoveRoot
    <3>5. QED BY <2>1, <2>2, <3>1, <3>2, <3>3, <3>4 DEF IndexInv, TypeOK, disk, history
  <2>6. HandsFull' /\ ReadsMatch'
    BY <1>1, <2>1, <2>4 DEF IndexInv, HandsFull, ReadsMatch, Exists
  <2>7. SignaturesAreOld'
    BY <1>1, <1>2, <2>1, <2>3, <2>4 DEF IndexInv, SignaturesAreOld, NoEntry
  <2>8. SignaturesNameContents'
    BY <2>3, <2>4 DEF IndexInv, SignaturesNameContents, Exists
  <2>9. QED BY <2>5, <2>6, <2>7, <2>8 DEF IndexInv
<1>4. CASE Stop \/ Restart
  <2>1. \A x \in Roots : /\ cursor'[x] = NoCursor
                         /\ job'[x].pc = "idle"
                         /\ job'[x].cached = job[x].cached \/ job'[x] = NoPass
    BY <1>1, <1>4 DEF Stop, Restart, At
  <2>2. UNCHANGED <<file, edits, index>>
    BY <1>4 DEF Stop, Restart, disk
  <2>3. cursor' \in [Roots -> CursorType] /\ job' \in [Roots -> PassType]
    BY <1>1, <1>4 DEF Stop, Restart, IndexInv, TypeOK
  <2>4. TypeOK'
    BY <1>4, <2>3 DEF Stop, Restart, IndexInv, TypeOK, Strikes, disk, rootsTable, rootFiles,
                      history
  <2>5. HandsFull' /\ ReadsMatch'
    BY <1>1, <2>1 DEF HandsFull, ReadsMatch
  <2>6. SignaturesAreOld'
    BY <1>1, <1>2, <2>1, <2>2 DEF IndexInv, SignaturesAreOld
  <2>7. SignaturesNameContents'
    BY <2>2 DEF IndexInv, SignaturesNameContents, Exists
  <2>8. QED BY <2>4, <2>5, <2>6, <2>7 DEF IndexInv
<1>5. CASE \E f \in Files : RetryDue(f)
  <2> PICK f \in Files : RetryDue(f)
    BY <1>5
  <2> DEFINE e == [index[f] EXCEPT !.retry = "due"]
  <2>1. index[f] \in EntryType /\ index[f] # NoEntry
    BY DEF RetryDue, IndexInv, TypeOK, NoEntry
  <2>2. e \in EntryType /\ e.signature = index[f].signature /\ e.error = index[f].error
        /\ e.content = index[f].content
    BY <2>1 DEF EntryType
  <2>3. index' = [index EXCEPT ![f] = e] /\ index' \in [Files -> EntryType]
    BY <2>2 DEF RetryDue, IndexInv, TypeOK
  <2>4. TypeOK'
    BY <2>3 DEF RetryDue, IndexInv, TypeOK, disk, rootsTable, rootFiles, history
  <2>5. UNCHANGED <<file, edits, job, cursor>>
    BY DEF RetryDue, disk
  <2>6. HandsFull' /\ ReadsMatch'
    BY <2>5 DEF IndexInv, HandsFull, ReadsMatch, Exists
  <2>7. \A g \in Files : /\ index'[g].signature = index[g].signature
                         /\ index'[g].error = index[g].error
                         /\ index'[g].content = index[g].content
                         /\ index'[g] # NoEntry => index[g] # NoEntry
    BY <2>1, <2>2, <2>3 DEF IndexInv, TypeOK
  <2>8. SignaturesAreOld'
    BY <2>5, <2>7 DEF IndexInv, SignaturesAreOld
  <2>9. SignaturesNameContents'
    BY <2>5, <2>7 DEF IndexInv, SignaturesNameContents, Exists
  <2>10. QED BY <2>4, <2>6, <2>8, <2>9 DEF IndexInv
<1>6. CASE \/ SetPolicy
           \/ \E d \in Dirs : BreakDirectory(d) \/ RepairDirectory(d)
  <2>1. UNCHANGED <<file, job, cursor, index>> /\ edits <= edits' /\ edits' \in Nat
    BY <1>2, <1>6 DEF SetPolicy, BreakDirectory, RepairDirectory
  <2>2. broken' \subseteq Dirs /\ policy' \in Nat /\ steady' \in [Roots -> SUBSET Files]
    BY <1>2, <1>6 DEF SetPolicy, BreakDirectory, RepairDirectory, IndexInv, TypeOK, history
  <2>3. UNCHANGED <<walk, rootsTable, rootFiles, since, trouble>>
    BY <1>6 DEF SetPolicy, BreakDirectory, RepairDirectory, history
  <2>4. TypeOK'
    BY <2>1, <2>2, <2>3 DEF IndexInv, TypeOK, rootsTable, rootFiles
  <2>5. HandsFull' /\ ReadsMatch' /\ SignaturesNameContents'
    BY <2>1 DEF IndexInv, HandsFull, ReadsMatch, SignaturesNameContents, Exists
  <2>6. SignaturesAreOld'
    <3>1. /\ \A f \in Files : file[f].stamp \in Nat /\ index[f].signature \in Nat
          /\ \A r \in Roots : /\ job[r].cached.signature \in Nat
                              /\ \A p \in cursor[r].pending : p.signature \in Nat
      BY DEF IndexInv, TypeOK, EntryType, CursorType, PassType, HandType
    <3>2. QED BY <1>2, <2>1, <3>1 DEF IndexInv, SignaturesAreOld
  <2>7. QED BY <2>4, <2>5, <2>6 DEF IndexInv
<1>7. CASE \E f \in Files : DeleteFile(f) \/ \E content \in Contents : WriteFile(f, content)
  <2> PICK f \in Files : DeleteFile(f) \/ \E content \in Contents : WriteFile(f, content)
    BY <1>7
  <2>1. /\ edits' = edits + 1 /\ UNCHANGED <<index, job>>
        /\ \A r \in Roots : /\ cursor'[r].pending = cursor[r].pending
                            /\ cursor'[r] \in CursorType
    <3>1. \A r \in Roots :
            /\ cursor[r] \in CursorType
            /\ [cursor[r] EXCEPT !.todo = @ \cup {f}] \in CursorType
            /\ [cursor[r] EXCEPT !.todo = @ \cup {f}].pending = cursor[r].pending
      BY ZenonT(30), CursorUpdates, PartTypes DEF CursorType
    <3>2. QED BY <3>1 DEF DeleteFile, WriteFile
  <2>2. \E content \in Bytes, stamp \in Nat :
          /\ file' = [file EXCEPT ![f] = [content |-> content, stamp |-> stamp]]
          /\ stamp = edits' \/ [content |-> content, stamp |-> stamp] = Gone
          /\ stamp <= edits'
    <3>1. CASE DeleteFile(f)
      <4>1. "gone" \in Bytes /\ 0 \in Nat /\ 0 <= edits'
        BY <1>2, <2>1 DEF Bytes
      <4>2. file' = [file EXCEPT ![f] = [content |-> "gone", stamp |-> 0]]
        BY <3>1 DEF DeleteFile, Gone
      <4>3. QED BY <4>1, <4>2 DEF Gone
    <3>2. CASE \E content \in Contents : WriteFile(f, content)
      <4> PICK content \in Contents : WriteFile(f, content)
        BY <3>2
      <4>1. content \in Bytes /\ edits' \in Nat /\ edits' <= edits'
        BY <1>2, <2>1 DEF Bytes
      <4>2. file' = [file EXCEPT ![f] = [content |-> content, stamp |-> edits']]
        BY DEF WriteFile
      <4>3. QED BY <4>1, <4>2
    <3>3. QED BY <3>1, <3>2
  <2>3. file' \in [Files -> [content : Bytes, stamp : Nat]]
    BY <2>2 DEF IndexInv, TypeOK
  <2>4. /\ \A g \in Files : file[g].stamp \in Nat /\ index[g].signature \in Nat
        /\ \A r \in Roots : /\ job[r].cached.signature \in Nat
                            /\ \A p \in cursor[r].pending : p.signature \in Nat /\ p.file \in Files
    BY DEF IndexInv, TypeOK, EntryType, CursorType, PassType, HandType
  <2>5. TypeOK'
    <3>1. cursor' \in [Roots -> CursorType]
      BY <2>1 DEF DeleteFile, WriteFile, IndexInv, TypeOK
    <3>2. since' \in [Roots -> SUBSET (Files \X Bytes)] /\ steady' \in [Roots -> SUBSET Files]
      BY DEF DeleteFile, WriteFile, IndexInv, TypeOK, Bytes
    <3>3. QED
      BY <1>2, <2>1, <2>3, <3>1, <3>2
         DEF DeleteFile, WriteFile, IndexInv, TypeOK, rootsTable, rootFiles
  <2>6. HandsFull'
    BY <2>1 DEF IndexInv, HandsFull
  <2>7. SignaturesAreOld'
    BY <1>2, <2>1, <2>2, <2>4 DEF IndexInv, SignaturesAreOld, TypeOK
  \* No signature is that of the changed file.
  <2>8. /\ ~Exists(f)' \/ file'[f].stamp = edits + 1
        /\ \A g \in Files : g # f => file'[g] = file[g]
        /\ \A g \in Files : index[g].signature # edits + 1
        /\ \A r \in Roots : \A p \in cursor[r].pending : p.signature # edits + 1
    <3>1. ~Exists(f)' \/ file'[f].stamp = edits + 1
      BY <2>1, <2>2 DEF Exists, IndexInv, TypeOK
    <3>2. \A g \in Files : g # f => file'[g] = file[g]
      BY <2>2 DEF IndexInv, TypeOK
    <3>3. QED BY <1>2, <2>4, <3>1, <3>2 DEF IndexInv, SignaturesAreOld
  <2>9. ReadsMatch'
    BY <2>1, <2>4, <2>8 DEF IndexInv, ReadsMatch, Exists
  <2>10. SignaturesNameContents'
    BY <2>1, <2>8 DEF IndexInv, SignaturesNameContents, Exists
  <2>11. QED BY <2>5, <2>6, <2>7, <2>9, <2>10 DEF IndexInv
<1>8. QED BY <1>3, <1>4, <1>5, <1>6, <1>7

\* Every step keeps the invariant.
LEMMA IndexInvStep == IndexInv /\ [Next]_vars => IndexInv'
<1> SUFFICES ASSUME IndexInv, [Next]_vars PROVE IndexInv'
  OBVIOUS
<1>1. ASSUME NEW r \in Roots, Pass(r) PROVE IndexInv'
  BY <1>1, BeginKept, WalkKept, FileKept, EndKept DEF Pass
<1>2. CASE UNCHANGED vars
  BY <1>2 DEF IndexInv, TypeOK, HandsFull, SignaturesAreOld, ReadsMatch, SignaturesNameContents,
              Exists, vars, disk, rootsTable, rootFiles, history
<1>3. QED BY <1>1, <1>2, OthersKept DEF Next

\* The inductive invariant of the index.
THEOREM IndexInvariant == Spec => []IndexInv
BY IndexInvInit, IndexInvStep, PTL DEF Spec

\* Every variable keeps its type.
THEOREM IndexTyped == Spec => []TypeOK
<1>1. IndexInv => TypeOK
  BY DEF IndexInv
<1>2. QED BY IndexInvariant, <1>1, PTL

\* An entry whose signature is the one of the file is about the bytes of the file.
THEOREM SignaturesHold == Spec => []SignaturesNameContents
<1>1. IndexInv => SignaturesNameContents
  BY DEF IndexInv
<1>2. QED BY IndexInvariant, <1>1, PTL

-----------------------------------------------------------------------------
(* A completed cycle has covered its root. *)

\* The history of the cycle of r knows f.
Known(r, f) == \E c \in Contents : <<f, c>> \in since[r]

\* A pass that has begun belongs to the cycle of its root.
PassBelongs(r, pass) ==
  /\ pass.status \in {"RUNNING", "CANCELLED"}
  /\ pass.drained => pass.pc = "publish"
  /\ pass.pc = "cycle" => pass.context # 0
  /\ \/ pass.pc \in {"enter", "walk", "check", "record", "look", "read", "scan", "save"}
     \/ pass.drained
     => pass.context = context[r] /\ context[r] # 0
  /\ pass.context <= policy
  /\ pass.pc = "save" => pass.report >= pass.context

\* From the look at the index on, the cycle has the file in hand among its files.
PassesBelong ==
  \A r \in Roots :
    /\ PassBelongs(r, job[r])
    /\ context[r] <= policy
    /\ job[r].pc \in {"look", "read", "scan", "save"} /\ r \in watched
         => InHand(r).file \in seen[r]

\* An entry was made under a policy that is not older than its context.
EntriesAreOfTheirTime ==
  /\ policy # 0
  /\ \A f \in Files : index[f].error \/ index[f].policy >= index[f].context
  /\ \A r \in Roots : job[r].cached.error \/ job[r].cached.policy >= job[r].cached.context

\* The history of a cycle knows what the files contain, and every file the cycle knows.
HistoryKnows ==
  /\ \A f \in Files : Exists(f) => file[f].content \in Contents
  /\ \A r \in Roots :
       /\ context[r] # 0 => \A f \in Files : Exists(f) => <<f, file[f].content>> \in since[r]
       /\ steady[r] # {} \/ cursor[r].pending # {} => context[r] # 0
       /\ \A f \in seen[r] : Known(r, f)
       /\ \A p \in cursor[r].pending : Known(r, p.file)

\* What has been read or recorded of the file in hand, at the signature in hand, is of
\* the time of the cycle.
HandsKnown ==
  \A r \in Roots : \A p \in cursor[r].pending :
    /\ \/ index[p.file] = NoEntry \/ index[p.file].error
       \/ index[p.file].signature # p.signature
       \/ <<p.file, index[p.file].content>> \in since[r]
    /\ \A s \in Roots : \A q \in cursor[s].pending :
         job[s].pc \in {"scan", "save"} /\ q.file = p.file /\ q.signature = p.signature
           => <<p.file, job[s].content>> \in since[r]

\* No two passes are at one file at a time.
FilesAreLocked ==
  \A r, s \in Roots : \A p \in cursor[r].pending, q \in cursor[s].pending :
    /\ r # s
    /\ job[r].pc \in {"read", "scan", "save"} /\ job[s].pc \in {"read", "scan", "save"}
    => p.file # q.file

\* The cycle of r is done with f.
Handled(r, f) ==
  \/ walk[r][DirOf[f]] = "DONE"
  \/ /\ cursor[r].dir = DirOf[f]
     /\ f \notin cursor[r].todo
     /\ \A p \in cursor[r].pending : p.file # f

\* The entry of f is a failure, or as good as a cycle of r asks.
Serves(r, f) ==
  /\ index[f] # NoEntry
  /\ index[f].error \/ (<<f, index[f].content>> \in since[r] /\ index[f].policy >= context[r])

\* A pass of any root that is at f will leave an entry that serves r.
WillServe(r, f, s) ==
  \A q \in cursor[s].pending : q.file = f =>
    /\ job[s].pc = "read" /\ Usable(s, job[s].cached) /\ ~job[s].cached.error
         => job[s].cached.policy >= context[r]
    /\ job[s].pc \in {"scan", "save"} => <<f, job[s].content>> \in since[r]
    /\ job[s].pc = "save" => job[s].report >= context[r]

HandledFilesServed ==
  \A r \in watched : \A f \in steady[r] :
    Handled(r, f) => /\ f \in seen[r] /\ Serves(r, f)
                     /\ \A s \in Roots : WillServe(r, f, s)

\* The way to a file that was there all the time is queued step by step.
WaysAreQueued ==
  \A r \in watched :
    /\ context[r] # 0 => walk[r][TopOf[r]] # "none"
    /\ r \in Recursive =>
         \A f \in steady[r], y \in Dirs :
           /\ DirOf[f] \in Under(y)
           /\ ParentOf[y] \in Dirs
           /\ \/ walk[r][ParentOf[y]] = "DONE"
              \/ cursor[r].dir = ParentOf[y] /\ y \notin cursor[r].todo
           => walk[r][y] # "none"

\* A file that was there all the time is there.
SteadyFilesAreThere ==
  \A r \in Roots : \A f \in steady[r] :
    Exists(f) /\ DirOf[f] \in InTree(r) /\ Reachable(DirOf[f])

CoverInv ==
  /\ PassesBelong /\ EntriesAreOfTheirTime /\ HistoryKnows /\ HandsKnown /\ FilesAreLocked
  /\ HandledFilesServed /\ WaysAreQueued /\ SteadyFilesAreThere

\* Initially there is no cycle.
LEMMA CoverInit == Init => CoverInv
<1> SUFFICES ASSUME Init PROVE CoverInv
  OBVIOUS
<1>1. PassesBelong
  BY DEF Init, PassesBelong, PassBelongs, NoPass
<1>2. EntriesAreOfTheirTime
  BY DEF Init, EntriesAreOfTheirTime, NoPass, NoEntry
<1>3. HistoryKnows
  <2>1. \A x \in {Gone} \cup [content : Contents, stamp : {1}] : x # Gone => x.content \in Contents
    OBVIOUS
  <2>2. \A f \in Files : Exists(f) => file[f].content \in Contents
    BY <2>1 DEF Init, Exists
  <2>3. QED BY <2>2 DEF Init, HistoryKnows, NoCursor
<1>4. HandsKnown /\ FilesAreLocked
  BY DEF Init, HandsKnown, FilesAreLocked, NoCursor
<1>5. HandledFilesServed /\ SteadyFilesAreThere
  BY DEF Init, HandledFilesServed, SteadyFilesAreThere
<1>6. WaysAreQueued
  BY DEF Init, WaysAreQueued
<1>7. QED BY <1>1, <1>2, <1>3, <1>4, <1>5, <1>6 DEF CoverInv

\* A file that has just been listed.
Listed(p) == Exists(p.file) /\ p.signature = file[p.file].stamp

\* A pass that deals with no file.
BetweenFiles(r, pass) ==
  /\ PassBelongs(r, pass)
  /\ pass.pc \notin {"look", "read", "scan", "save"}
  /\ pass.cached \in {job[r].cached, NoEntry}

\* What it has in hand it had before, or has just listed.
HandInOrder(r, c) ==
  \A p \in c.pending : p \in cursor[r].pending \/ (context[r] # 0 /\ Listed(p))

\* The cycle has been done before with what it is done with then.
HandlesNoMore(r) == r \in watched => \A f \in steady[r] : Handled(r, f)' => Handled(r, f)

StaysInPlace ==
  UNCHANGED <<file, broken, policy, watched, context, seen, index, since, steady>>

OneMoves(r, pass, c) ==
  job' = [job EXCEPT ![r] = pass] /\ cursor' = [cursor EXCEPT ![r] = c]

\* A step of a pass that deals with no file keeps the invariant, if it is in order
\* what it then has in hand and how far it has come.
LEMMA WalkCovers ==
  ASSUME IndexInv, CoverInv, NEW r \in Roots, NEW j \in PassType, NEW c \in CursorType,
         OneMoves(r, j, c), StaysInPlace,
         \A x \in Roots : x # r => walk'[x] = walk[x],
         BetweenFiles(r, j), HandInOrder(r, c), HandlesNoMore(r), WaysAreQueued'
  PROVE  CoverInv'
<1> USE DEF OneMoves, StaysInPlace, BetweenFiles, HandInOrder, HandlesNoMore
<1>1. \A x \in Roots : /\ job'[x] = IF x = r THEN j ELSE job[x]
                       /\ cursor'[x] = IF x = r THEN c ELSE cursor[x]
  BY DEF IndexInv, TypeOK
<1>2. \A x \in Roots : x # r => InHand(x)' = InHand(x)
  BY <1>1 DEF InHand
<1>3. \A p \in c.pending : p \in HandType
  BY DEF CursorType
<1>4. PassesBelong'
  <2>1. PassBelongs(r, j)'
    BY DEF PassBelongs
  <2>2. \A x \in Roots : x # r => PassBelongs(x, job[x])'
    BY <1>1 DEF CoverInv, PassesBelong, PassBelongs
  <2>3. QED BY <1>1, <1>2, <2>1, <2>2 DEF CoverInv, PassesBelong, PassBelongs
<1>5. EntriesAreOfTheirTime'
  <2>1. NoEntry.error \/ NoEntry.policy >= NoEntry.context
    BY DEF NoEntry
  <2>2. QED BY <1>1, <2>1 DEF CoverInv, EntriesAreOfTheirTime
<1>6. HistoryKnows'
  <2>1. \A x \in Roots, f \in Files : Known(x, f)' = Known(x, f) /\ Exists(f)' = Exists(f)
    BY DEF Known, Exists
  <2>2. \A p \in c.pending : Known(r, p.file) /\ context[r] # 0
    <3> TAKE p \in c.pending
    <3>1. CASE p \in cursor[r].pending
      BY <3>1 DEF CoverInv, HistoryKnows
    <3>2. CASE context[r] # 0 /\ Listed(p)
      <4>1. p.file \in Files /\ Exists(p.file)
        BY <1>3, <3>2 DEF Listed, HandType
      <4>2. QED BY <3>2, <4>1 DEF CoverInv, HistoryKnows, Known
    <3>3. QED BY <3>1, <3>2
  <2>3. \A x \in Roots : seen[x] \subseteq Files /\ \A p \in cursor[x].pending : p.file \in Files
    BY DEF IndexInv, TypeOK, CursorType, HandType
  <2>4. \A x \in Roots : steady'[x] # {} \/ cursor'[x].pending # {} => context'[x] # 0
    BY <1>1, <2>2 DEF CoverInv, HistoryKnows
  <2>5. \A x \in Roots : \A p \in cursor'[x].pending : Known(x, p.file)'
    <3>1. \A p \in c.pending : p.file \in Files
      BY <1>3 DEF HandType
    <3>2. QED BY <1>1, <2>1, <2>2, <2>3, <3>1 DEF CoverInv, HistoryKnows
  <2>6. \A x \in Roots : \A f \in seen'[x] : Known(x, f)'
    BY <2>1, <2>3 DEF CoverInv, HistoryKnows
  <2>7. QED BY <2>1, <2>4, <2>5, <2>6 DEF CoverInv, HistoryKnows
<1>7. HandsKnown'
  <2> SUFFICES ASSUME NEW x \in Roots, NEW p \in cursor'[x].pending
               PROVE  /\ \/ index[p.file] = NoEntry \/ index[p.file].error
                         \/ index[p.file].signature # p.signature
                         \/ <<p.file, index[p.file].content>> \in since[x]
                      /\ \A s \in Roots : \A q \in cursor'[s].pending :
                           job'[s].pc \in {"scan", "save"} /\ q.file = p.file /\ q.signature = p.signature
                             => <<p.file, job'[s].content>> \in since[x]
    BY DEF HandsKnown
  <2>1. \A s \in Roots : job'[s].pc \in {"scan", "save"} =>
          job'[s] = job[s] /\ cursor'[s] = cursor[s]
    BY <1>1
  <2>2. CASE p \in cursor[x].pending
    BY <2>1, <2>2 DEF CoverInv, HandsKnown
  <2>3. CASE x = r /\ context[r] # 0 /\ Listed(p)
    <3>1. p.file \in Files /\ Exists(p.file) /\ p.signature = file[p.file].stamp
      BY <1>1, <1>3, <2>3 DEF Listed, HandType
    <3>2. <<p.file, file[p.file].content>> \in since[x]
      BY <2>3, <3>1 DEF CoverInv, HistoryKnows
    <3>3. index[p.file] # NoEntry /\ ~index[p.file].error /\ index[p.file].signature = p.signature
            => index[p.file].content = file[p.file].content
      BY <3>1 DEF IndexInv, SignaturesNameContents
    <3>4. \A s \in Roots : \A q \in cursor[s].pending :
            job[s].pc \in {"scan", "save"} /\ q.file = p.file /\ q.signature = p.signature
              => job[s].content = file[p.file].content
      BY <3>1 DEF IndexInv, ReadsMatch
    <3>5. QED BY <2>1, <3>2, <3>3, <3>4
  <2>4. QED BY <1>1, <2>2, <2>3
<1>8. FilesAreLocked'
  BY <1>1 DEF CoverInv, FilesAreLocked
<1>9. HandledFilesServed'
  <2> SUFFICES ASSUME NEW x \in watched, NEW f \in steady[x], Handled(x, f)'
               PROVE  f \in seen[x] /\ Serves(x, f)' /\ \A s \in Roots : WillServe(x, f, s)'
    BY DEF HandledFilesServed
  <2>1. x \in Roots
    BY DEF IndexInv, TypeOK
  <2>2. Handled(x, f)
    <3>1. CASE x = r
      BY <3>1
    <3>2. CASE x # r
      <4>1. cursor'[x] = cursor[x] /\ walk'[x] = walk[x]
        BY <1>1, <2>1, <3>2
      <4>2. QED BY <4>1 DEF Handled
    <3>3. QED BY <3>1, <3>2
  <2>3. Serves(x, f)'
    BY <2>2 DEF CoverInv, HandledFilesServed, Serves
  <2>4. \A s \in Roots : WillServe(x, f, s)'
    <3> TAKE s \in Roots
    <3>1. CASE s = r
      BY <1>1, <3>1 DEF WillServe
    <3>2. CASE s # r
      <4>1. cursor'[s] = cursor[s] /\ job'[s] = job[s]
        BY <1>1, <2>1, <3>2
      <4>2. WillServe(x, f, s)
        BY <2>2 DEF CoverInv, HandledFilesServed
      <4>3. QED BY <4>1, <4>2 DEF WillServe, Usable
    <3>3. QED BY <3>1, <3>2
  <2>5. QED BY <2>2, <2>3, <2>4 DEF CoverInv, HandledFilesServed
<1>10. SteadyFilesAreThere'
  BY DEF CoverInv, SteadyFilesAreThere, Exists, Reachable, InTree
<1>11. QED BY <1>4, <1>5, <1>6, <1>7, <1>8, <1>9, <1>10 DEF CoverInv

\* The same for a step that changes the pass alone.
LEMMA MoveCovers ==
  ASSUME IndexInv, CoverInv, NEW r \in Roots, NEW j \in PassType, PassIs(r, j),
         UNCHANGED <<disk, rootsTable, rootFiles, walk, index, cursor, history>>,
         BetweenFiles(r, j)
  PROVE  CoverInv'
<1>1. cursor[r] \in CursorType /\ cursor' = [cursor EXCEPT ![r] = cursor[r]]
  BY DEF IndexInv, TypeOK
<1>2. UNCHANGED <<file, broken, policy, watched, context, seen, index, since, steady, walk, cursor>>
  BY DEF disk, rootsTable, rootFiles, history
<1>3. WaysAreQueued'
  BY <1>2 DEF CoverInv, WaysAreQueued
<1>4. \A f \in steady[r] : Handled(r, f)' => Handled(r, f)
  BY <1>2 DEF Handled
<1>5. OneMoves(r, j, cursor[r]) /\ HandInOrder(r, cursor[r]) /\ HandlesNoMore(r) /\ StaysInPlace
  BY <1>1, <1>2, <1>4 DEF PassIs, OneMoves, HandInOrder, HandlesNoMore, StaysInPlace
<1>6. QED BY <1>1, <1>2, <1>3, <1>5, WalkCovers

\* The steps of a pass that only go from one phase to another.
LEMMA MovesCovered ==
  ASSUME IndexInv, CoverInv, NEW r \in Roots,
         \/ Begin(r) \/ BeginFails(r) \/ ContinueCycle(r) \/ CycleGone(r) \/ EnterRoot(r)
         \/ RootUnavailable(r) \/ Drained(r) \/ EntryLimit(r) \/ TimeLimit(r)
         \/ YieldPending(r) \/ Pause(r) \/ RootGone(r) \/ Wanted(r) \/ Abort(r)
  PROVE  CoverInv'
<1>0. /\ job[r] \in PassType /\ policy \in Nat /\ policy # 0 /\ PassBelongs(r, job[r])
      /\ job[r].visited \in 0..PassEntries /\ job[r].failed \in BOOLEAN
      /\ job[r].context \in Nat
  BY PartTypes DEF CoverInv, PassesBelong, EntriesAreOfTheirTime
<1>1. CASE Begin(r)
  <2> DEFINE j == [NoPass EXCEPT !.pc = "cycle", !.context = policy]
  <2>1. j \in PassType
    BY <1>0, PassUpdates, RecordTypes DEF JobPcs
  <2>2. PassBelongs(r, j) /\ j.cached = NoEntry /\ j.pc = "cycle"
    BY <1>0 DEF NoPass, PassBelongs
  <2>3. QED BY <1>1, <2>1, <2>2, MoveCovers DEF Begin, BetweenFiles
<1>2. CASE BeginFails(r)
  <2> DEFINE j == [NoPass EXCEPT !.pc = "publish", !.failed = TRUE]
  <2>1. j \in PassType
    BY PassUpdates, RecordTypes DEF JobPcs
  <2>2. PassBelongs(r, j) /\ j.cached = NoEntry /\ j.pc = "publish"
    BY <1>0 DEF NoPass, PassBelongs
  <2>3. QED BY <1>2, <2>1, <2>2, MoveCovers DEF BeginFails, BetweenFiles
<1> DEFINE Same(pc, st, a, b, d, k) == [job[r] EXCEPT !.pc = pc, !.status = st, !.failed = a,
                                          !.limited = b, !.drained = d, !.visited = k]
           st0 == job[r].status  a0 == job[r].failed  b0 == job[r].limited
           d0 == job[r].drained  k0 == job[r].visited
<1>3. ASSUME NEW pc \in JobPcs, pc \notin {"look", "read", "scan", "save", "cycle"},
             NEW st \in {"RUNNING", "CANCELLED"}, NEW a \in BOOLEAN, NEW b \in BOOLEAN,
             NEW d \in BOOLEAN, NEW k \in 0..PassEntries,
             PassIs(r, Same(pc, st, a, b, d, k)),
             d => pc = "publish",
             pc # "publish" \/ d => job[r].context = context[r] /\ context[r] # 0,
             UNCHANGED <<disk, rootsTable, rootFiles, walk, index, cursor, history>>
      PROVE  CoverInv'
  <2> DEFINE j == Same(pc, st, a, b, d, k)
  <2>1. j \in PassType
    <3>1. st \in Statuses
      BY DEF Statuses
    <3>2. QED BY <1>0, <1>3, <3>1 DEF PassType
  <2>2. /\ j.pc = pc /\ j.status = st /\ j.drained = d /\ j.context = job[r].context
        /\ j.cached = job[r].cached
    BY <1>0 DEF PassType
  <2>3. PassBelongs(r, j)
    BY <1>0, <1>3, <2>2 DEF PassBelongs
  <2> HIDE DEF j
  <2>4. QED BY <1>3, <2>1, <2>2, <2>3, MoveCovers DEF j, BetweenFiles
<1>4. /\ st0 \in {"RUNNING", "CANCELLED"} /\ a0 \in BOOLEAN /\ b0 \in BOOLEAN
      /\ d0 \in BOOLEAN /\ k0 \in 0..PassEntries
      /\ d0 => job[r].pc = "publish"
  BY <1>0 DEF PassType, PassBelongs
<1>5. /\ \A pc \in JobPcs : [job[r] EXCEPT !.pc = pc] = Same(pc, st0, a0, b0, d0, k0)
      /\ \A pc \in JobPcs :
           [job[r] EXCEPT !.pc = pc, !.failed = TRUE] = Same(pc, st0, TRUE, b0, d0, k0)
      /\ [job[r] EXCEPT !.pc = "publish", !.drained = TRUE]
            = Same("publish", st0, a0, b0, TRUE, k0)
      /\ [job[r] EXCEPT !.pc = "publish", !.limited = TRUE]
            = Same("publish", st0, a0, TRUE, d0, k0)
      /\ [job[r] EXCEPT !.pc = "publish", !.status = "CANCELLED"]
            = Same("publish", "CANCELLED", a0, b0, d0, k0)
      /\ \A st, b : [job[r] EXCEPT !.pc = "publish", !.status = st, !.limited = b]
                      = Same("publish", st, a0, b, d0, k0)
      /\ [job[r] EXCEPT !.visited = k0 + 1, !.pc = "check"]
            = Same("check", st0, a0, b0, d0, k0 + 1)
  <2>1. \A pc \in JobPcs : [job[r] EXCEPT !.pc = pc] = Same(pc, st0, a0, b0, d0, k0)
    BY <1>0 DEF PassType
  <2>2. \A pc \in JobPcs :
           [job[r] EXCEPT !.pc = pc, !.failed = TRUE] = Same(pc, st0, TRUE, b0, d0, k0)
    BY <1>0 DEF PassType
  <2>3. /\ [job[r] EXCEPT !.pc = "publish", !.drained = TRUE]
             = Same("publish", st0, a0, b0, TRUE, k0)
        /\ [job[r] EXCEPT !.pc = "publish", !.limited = TRUE]
             = Same("publish", st0, a0, TRUE, d0, k0)
        /\ [job[r] EXCEPT !.pc = "publish", !.status = "CANCELLED"]
             = Same("publish", "CANCELLED", a0, b0, d0, k0)
    BY <1>0 DEF PassType
  <2>4. \A st, b : [job[r] EXCEPT !.pc = "publish", !.status = st, !.limited = b]
                     = Same("publish", st, a0, b, d0, k0)
    BY <1>0 DEF PassType
  <2>5. [job[r] EXCEPT !.visited = k0 + 1, !.pc = "check"]
          = Same("check", st0, a0, b0, d0, k0 + 1)
    BY <1>0 DEF PassType
  <2>6. QED BY <2>1, <2>2, <2>3, <2>4, <2>5
<1>6. job[r].pc \in {"enter", "walk", "check", "record", "look", "read", "scan", "save"} =>
        job[r].context = context[r] /\ context[r] # 0
  BY <1>0 DEF PassBelongs
<1> HIDE DEF Same, st0, a0, b0, d0, k0
<1>7. CASE ContinueCycle(r)
  <2>1. job[r].context = context[r] /\ context[r] # 0 /\ job[r].pc = "cycle"
    BY <1>7 DEF ContinueCycle, BeginsAnew, At
  <2>2. PassIs(r, Same("enter", st0, a0, b0, d0, k0))
    BY <1>5, <1>7 DEF ContinueCycle, Goto, JobPcs
  <2>3. UNCHANGED <<disk, rootsTable, rootFiles, walk, index, cursor, history>>
    BY <1>7 DEF ContinueCycle
  <2>4. QED BY <1>3, <1>4, <2>1, <2>2, <2>3 DEF JobPcs
<1>8. CASE CycleGone(r) \/ RootUnavailable(r) \/ Abort(r)
  <2>1. PassIs(r, Same("publish", st0, TRUE, b0, d0, k0)) /\ job[r].pc # "publish"
    BY <1>5, <1>8 DEF CycleGone, RootUnavailable, Abort, Fails, JobPcs, At
  <2>2. UNCHANGED <<disk, rootsTable, rootFiles, walk, index, cursor, history>>
    BY <1>8 DEF CycleGone, RootUnavailable, Abort
  <2>3. QED BY <1>3, <1>4, <2>1, <2>2 DEF JobPcs
<1>9. CASE EnterRoot(r) \/ Wanted(r)
  <2>1. PICK pc \in {"walk", "record"} : Goto(r, pc)
    BY <1>9 DEF EnterRoot, Wanted
  <2>2. PassIs(r, Same(pc, st0, a0, b0, d0, k0)) /\ job[r].pc \in {"enter", "check"}
    <3>1. pc \in JobPcs
      BY <2>1 DEF JobPcs
    <3>2. QED BY <1>5, <1>9, <2>1, <3>1 DEF EnterRoot, Wanted, Goto, At
  <2>3. UNCHANGED <<disk, rootsTable, rootFiles, walk, index, cursor, history>>
    BY <1>9 DEF EnterRoot, Wanted
  <2>4. QED BY <1>3, <1>4, <1>6, <2>1, <2>2, <2>3 DEF JobPcs
<1>10. CASE Drained(r)
  <2>1. PassIs(r, Same("publish", st0, a0, b0, TRUE, k0)) /\ job[r].pc = "walk"
    BY <1>5, <1>10 DEF Drained, JobPcs, At
  <2>2. UNCHANGED <<disk, rootsTable, rootFiles, walk, index, cursor, history>>
    BY <1>10 DEF Drained
  <2>3. QED BY <1>3, <1>4, <1>6, <2>1, <2>2 DEF JobPcs
<1>11. CASE EntryLimit(r) \/ TimeLimit(r)
  <2>1. PassIs(r, Same("publish", st0, a0, TRUE, d0, k0)) /\ job[r].pc = "walk"
    BY <1>5, <1>11 DEF EntryLimit, TimeLimit, Listing, JobPcs, At
  <2>2. UNCHANGED <<disk, rootsTable, rootFiles, walk, index, cursor, history>>
    BY <1>11 DEF EntryLimit, TimeLimit
  <2>3. QED BY <1>3, <1>4, <2>1, <2>2 DEF JobPcs
<1>12. CASE YieldPending(r)
  <2>1. PassIs(r, Same("check", st0, a0, b0, d0, k0 + 1)) /\ job[r].pc = "walk"
    BY <1>5, <1>12 DEF YieldPending, Visit, Visited, Listing, At, k0
  <2>2. k0 + 1 \in 0..PassEntries
    BY <1>4, <1>12, TreeAssumption DEF YieldPending, Visit, k0
  <2>3. UNCHANGED <<disk, rootsTable, rootFiles, walk, index, cursor, history>>
    BY <1>12 DEF YieldPending
  <2>4. QED BY <1>3, <1>4, <1>6, <2>1, <2>2, <2>3 DEF JobPcs
<1>13. CASE Pause(r)
  <2>1. PICK st \in {"RUNNING", "CANCELLED"} :
          PassIs(r, [job[r] EXCEPT !.pc = "publish", !.status = st, !.limited = (st = "RUNNING")])
    BY <1>13 DEF Pause
  <2> DEFINE b == (st = "RUNNING")
  <2>5. b \in BOOLEAN /\ PassIs(r, Same("publish", st, a0, b, d0, k0))
    BY ZenonT(30), <1>5, <2>1
  <2> HIDE DEF b
  <2>2. job[r].pc = "check"
    BY <1>13 DEF Pause, At
  <2>3. UNCHANGED <<disk, rootsTable, rootFiles, walk, index, cursor, history>>
    BY <1>13 DEF Pause
  <2>4. QED BY <1>3, <1>4, <2>2, <2>3, <2>5 DEF JobPcs
<1>14. CASE RootGone(r)
  <2>1. PassIs(r, Same("publish", "CANCELLED", a0, b0, d0, k0)) /\ job[r].pc = "check"
    BY <1>5, <1>14 DEF RootGone, JobPcs, At
  <2>2. UNCHANGED <<disk, rootsTable, rootFiles, walk, index, cursor, history>>
    BY <1>14 DEF RootGone
  <2>3. QED BY <1>3, <1>4, <2>1, <2>2 DEF JobPcs
<1>15. QED BY <1>1, <1>2, <1>7, <1>8, <1>9, <1>10, <1>11, <1>12, <1>13, <1>14

\* A directory on the way to a file that was there all the time.
OnWay(r, y) == \E f \in steady[r] : DirOf[f] \in Under(y)

\* What a root's cursor and queue may become in one step: the cursor is done with
\* nothing but what has been dealt with, and only what it was done with is DONE.
QueueInOrder(r, c, w) ==
  /\ \A d \in Dirs : w[d] = "none" => walk[r][d] = "none"
  /\ r \in watched => \A d \in Dirs : w[d] = "DONE" =>
       \/ walk[r][d] = "DONE"
       \/ cursor[r].dir = d /\ cursor[r].todo = {} /\ cursor[r].pending = {}
  /\ \A f \in steady[r] :
       c.dir = DirOf[f] /\ f \notin c.todo /\ (\A p \in c.pending : p.file # f) =>
         /\ cursor[r].dir = DirOf[f] /\ f \notin cursor[r].todo
         /\ \A p \in cursor[r].pending : p.file # f
  /\ \A y \in Dirs :
       /\ r \in Recursive /\ OnWay(r, y)
       /\ ParentOf[y] \in Dirs /\ c.dir = ParentOf[y] /\ y \notin c.todo
       => w[y] # "none" \/ (cursor[r].dir = ParentOf[y] /\ y \notin cursor[r].todo)

\* A step of the walk keeps the invariant.
LEMMA ListingCovers ==
  ASSUME IndexInv, CoverInv, NEW r \in Roots, NEW j \in PassType, NEW c \in CursorType, NEW w,
         OneMoves(r, j, c), walk' = [walk EXCEPT ![r] = w],
         UNCHANGED <<disk, rootsTable, rootFiles, index, history>>,
         BetweenFiles(r, j), HandInOrder(r, c), QueueInOrder(r, c, w)
  PROVE  CoverInv'
<1>0. UNCHANGED <<file, broken, policy, watched, context, seen, index, since, steady>>
  BY DEF disk, rootsTable, rootFiles, history
<1>1. \A x \in Roots : /\ cursor'[x] = IF x = r THEN c ELSE cursor[x]
                       /\ walk'[x] = IF x = r THEN w ELSE walk[x]
  BY DEF OneMoves, IndexInv, TypeOK
<1>2. r \in watched => \A f \in steady[r] : Handled(r, f)' => Handled(r, f)
  <2> SUFFICES ASSUME r \in watched, NEW f \in steady[r], Handled(r, f)' PROVE Handled(r, f)
    OBVIOUS
  <2>1. f \in Files /\ DirOf[f] \in Dirs
    BY TreeAssumption DEF IndexInv, TypeOK
  <2>2. CASE w[DirOf[f]] = "DONE"
    BY <2>1, <2>2 DEF Handled, QueueInOrder
  <2>3. CASE c.dir = DirOf[f] /\ f \notin c.todo /\ \A p \in c.pending : p.file # f
    BY <2>3 DEF Handled, QueueInOrder
  <2>4. QED BY <1>1, <2>2, <2>3 DEF Handled
<1>3. WaysAreQueued'
  <2> SUFFICES ASSUME NEW x \in watched
               PROVE  /\ context[x] # 0 => walk'[x][TopOf[x]] # "none"
                      /\ x \in Recursive =>
                           \A f \in steady[x], y \in Dirs :
                             /\ DirOf[f] \in Under(y)
                             /\ ParentOf[y] \in Dirs
                             /\ \/ walk'[x][ParentOf[y]] = "DONE"
                                \/ cursor'[x].dir = ParentOf[y] /\ y \notin cursor'[x].todo
                             => walk'[x][y] # "none"
    BY <1>0 DEF WaysAreQueued
  <2>1. x \in Roots /\ TopOf[x] \in Dirs
    BY TreeAssumption DEF IndexInv, TypeOK
  <2>2. CASE x # r
    BY <1>1, <2>1, <2>2 DEF CoverInv, WaysAreQueued
  <2>3. CASE x = r
    <3>1. context[x] # 0 => walk'[x][TopOf[x]] # "none"
      BY <1>1, <2>1, <2>3 DEF CoverInv, WaysAreQueued, QueueInOrder
    <3>2. ASSUME x \in Recursive, NEW f \in steady[x], NEW y \in Dirs,
                 DirOf[f] \in Under(y), ParentOf[y] \in Dirs,
                 \/ walk'[x][ParentOf[y]] = "DONE"
                 \/ cursor'[x].dir = ParentOf[y] /\ y \notin cursor'[x].todo
          PROVE  walk'[x][y] # "none"
      <4>1. OnWay(r, y)
        BY <2>3, <3>2 DEF OnWay
      <4>2. CASE \/ walk[r][ParentOf[y]] = "DONE"
                 \/ cursor[r].dir = ParentOf[y] /\ y \notin cursor[r].todo
        <5>1. walk[r][y] # "none"
          BY <2>3, <3>2, <4>2 DEF CoverInv, WaysAreQueued
        <5>2. QED BY <1>1, <2>1, <2>3, <5>1 DEF QueueInOrder
      <4>3. CASE w[ParentOf[y]] = "DONE"
        <5>1. \/ walk[r][ParentOf[y]] = "DONE"
              \/ cursor[r].dir = ParentOf[y] /\ cursor[r].todo = {}
          BY <2>3, <3>2, <4>3 DEF QueueInOrder
        <5>2. QED BY <4>2, <5>1
      <4>4. CASE c.dir = ParentOf[y] /\ y \notin c.todo
        <5>1. w[y] # "none" \/ (cursor[r].dir = ParentOf[y] /\ y \notin cursor[r].todo)
          BY <2>3, <3>2, <4>1, <4>4 DEF QueueInOrder
        <5>2. QED BY <1>1, <2>1, <2>3, <4>2, <5>1
      <4>5. QED BY <1>1, <2>1, <2>3, <3>2, <4>2, <4>3, <4>4
    <3>3. QED BY <3>1, <3>2
  <2>4. QED BY <2>2, <2>3
<1>4. HandlesNoMore(r) /\ StaysInPlace /\ \A x \in Roots : x # r => walk'[x] = walk[x]
  BY <1>0, <1>1, <1>2 DEF HandlesNoMore, StaysInPlace
<1>5. QED BY <1>3, <1>4, WalkCovers

\* The walk passes over nothing that was there all the time: files wait to be listed
\* or are in hand, directories on the way to one join the queue.
LEMMA WalkStepsCovered ==
  ASSUME IndexInv, CoverInv, NEW r \in Roots,
         \/ \E d \in Dirs : OpenDirectory(r, d) \/ DirectoryUnreadable(r, d) \/ NextDirectory(r, d)
         \/ \E f \in Files : NextFile(r, f)
         \/ \E x \in Files \cup Dirs : EntryVanished(r, x)
         \/ DirectoryChanged(r) \/ EndDirectory(r) \/ PublishNothing(r)
  PROVE  CoverInv'
<1>0. /\ job[r] \in PassType /\ cursor[r] \in CursorType /\ PassBelongs(r, job[r])
      /\ job[r].visited \in 0..PassEntries /\ job[r].pc \in JobPcs
      /\ cursor[r].todo \subseteq Files \cup Dirs /\ cursor[r].dir \in Dirs \cup {"none"}
      /\ broken \subseteq Dirs /\ walk[r] \in [Dirs -> {"none", "PENDING", "DONE", "FAILED"}]
  BY PartTypes DEF CoverInv, PassesBelong, IndexInv, TypeOK
<1>1. /\ NoCursor \in CursorType /\ NoCursor.dir = "none" /\ NoCursor.pending = {}
      /\ NoPass \in PassType /\ PassBelongs(r, NoPass) /\ NoPass.pc = "idle"
      /\ NoPass.cached = NoEntry
  <2>1. 0 <= policy
    BY DEF IndexInv, TypeOK
  <2>2. QED BY <2>1, RecordTypes DEF NoCursor, NoPass, PassBelongs
<1>2. \A f \in steady[r] :
        f \in Files /\ DirOf[f] \in Dirs /\ DirOf[f] # "none" /\ f \notin Dirs /\ Exists(f)
  BY TreeAssumption DEF IndexInv, TypeOK, CoverInv, SteadyFilesAreThere
<1>3. \A y \in Dirs : OnWay(r, y) => y \notin broken
  BY DEF OnWay, CoverInv, SteadyFilesAreThere, Reachable
<1>4. \A y \in Dirs : y \notin Files /\ y # "none"
  BY TreeAssumption
<1>5. cursor' = [cursor EXCEPT ![r] = cursor[r]] <=> UNCHANGED cursor
  BY DEF IndexInv, TypeOK
<1>6. /\ walk = [walk EXCEPT ![r] = walk[r]] /\ job = [job EXCEPT ![r] = job[r]]
      /\ cursor = [cursor EXCEPT ![r] = cursor[r]]
  BY DEF IndexInv, TypeOK
\* How the pass goes on: with another entry counted, or a failure noted.
<1>7. ASSUME At(r, "walk"), NEW j,
             \/ j = job[r]
             \/ j = [job[r] EXCEPT !.pc = "walk", !.failed = TRUE]
             \/ job[r].visited < PassEntries /\ j = [job[r] EXCEPT !.visited = @ + 1, !.failed = TRUE]
             \/ job[r].visited < PassEntries /\ j = [job[r] EXCEPT !.visited = @ + 1, !.pc = "walk"]
             \/ job[r].visited < PassEntries /\ j = [job[r] EXCEPT !.visited = @ + 1, !.pc = "check"]
      PROVE  j \in PassType /\ PassBelongs(r, j) /\ j.pc \in {"walk", "check"} /\ j.cached = job[r].cached
  <2>1. job[r].visited < PassEntries => job[r].visited + 1 \in 0..PassEntries
    BY <1>0, TreeAssumption
  <2>2. j \in PassType
    <3>1. "walk" \in JobPcs /\ "check" \in JobPcs /\ TRUE \in BOOLEAN
      BY DEF JobPcs
    <3>2. \A k \in 0..PassEntries :
            /\ [job[r] EXCEPT !.visited = k, !.failed = TRUE] \in PassType
            /\ [job[r] EXCEPT !.visited = k, !.pc = "walk"] \in PassType
            /\ [job[r] EXCEPT !.visited = k, !.pc = "check"] \in PassType
      BY <1>0, <3>1, PassUpdates
    <3>3. [job[r] EXCEPT !.pc = "walk", !.failed = TRUE] \in PassType
      BY <1>0, <3>1, PassUpdates
    <3>4. job[r].visited < PassEntries =>
            /\ [job[r] EXCEPT !.visited = @ + 1, !.failed = TRUE] \in PassType
            /\ [job[r] EXCEPT !.visited = @ + 1, !.pc = "walk"] \in PassType
            /\ [job[r] EXCEPT !.visited = @ + 1, !.pc = "check"] \in PassType
      BY ZenonT(30), <2>1, <3>2
    <3>5. QED BY ZenonT(30), <1>0, <1>7, <3>3, <3>4
  <2>3. /\ j.context = job[r].context /\ j.status = job[r].status /\ j.drained = job[r].drained
        /\ j.pc \in {"walk", "check"} /\ j.cached = job[r].cached
    BY <1>0, <1>7 DEF PassType, At
  <2>4. QED BY <1>0, <1>7, <2>2, <2>3 DEF PassBelongs, At
<1>8. At(r, "walk") => context[r] # 0
  BY <1>0 DEF PassBelongs, At
<1>9. ASSUME NEW d \in Dirs, OpenDirectory(r, d) PROVE CoverInv'
  <2> DEFINE c == [NoCursor EXCEPT !.dir = d, !.todo = Entries(r, d)]
  <2>1. /\ cursor' = [cursor EXCEPT ![r] = c] /\ At(r, "walk") /\ UNCHANGED <<job, walk>>
        /\ UNCHANGED <<disk, rootsTable, rootFiles, index, history>>
    BY <1>9 DEF OpenDirectory, CursorIs
  <2>2. Entries(r, d) \subseteq Files \cup Dirs
    BY DEF Entries
  <2>3. c \in CursorType /\ c.dir = d /\ c.todo = Entries(r, d) /\ c.pending = {}
    BY <1>1, <2>2, CursorUpdates DEF NoCursor
  <2>4. \A f \in steady[r] : DirOf[f] = d => f \in c.todo
    BY <1>2, <2>3 DEF Entries
  <2>5. \A y \in Dirs : ParentOf[y] = d => y \in c.todo
    BY <2>3 DEF Entries
  <2> HIDE DEF c
  <2>6. BetweenFiles(r, job[r])
    BY <1>0, <2>1 DEF At, BetweenFiles
  <2>7. HandInOrder(r, c) /\ QueueInOrder(r, c, walk[r])
    BY <2>3, <2>4, <2>5 DEF HandInOrder, QueueInOrder
  <2>8. OneMoves(r, job[r], c) /\ walk' = [walk EXCEPT ![r] = walk[r]]
    BY <1>6, <2>1 DEF OneMoves
  <2>9. QED BY <1>0, <2>1, <2>3, <2>6, <2>7, <2>8, ListingCovers
<1>10. ASSUME NEW d, NEW failed \in BOOLEAN, FinishDirectory(r, d, failed),
              NEW j \in PassType, PassBelongs(r, j), j.pc \in {"walk", "check"},
              j.cached = job[r].cached, job' = [job EXCEPT ![r] = j],
              ~failed => cursor[r].dir = d /\ cursor[r].todo = {} /\ cursor[r].pending = {},
              UNCHANGED <<disk, rootsTable, rootFiles, index, history>>
       PROVE  CoverInv'
  <2> DEFINE w == [walk[r] EXCEPT ![d] = IF @ = "none" THEN @ ELSE IF failed THEN "FAILED" ELSE "DONE"]
  <2>1. cursor' = [cursor EXCEPT ![r] = NoCursor] /\ walk' = [walk EXCEPT ![r] = w]
    BY <1>10 DEF FinishDirectory, CursorIs
  <2>2. \A x \in Dirs : w[x] = IF x # d \/ walk[r][x] = "none" THEN walk[r][x]
                               ELSE IF failed THEN "FAILED" ELSE "DONE"
    BY <1>0
  <2> HIDE DEF w
  <2>3. \A x \in Dirs : /\ w[x] = "none" => walk[r][x] = "none"
                        /\ w[x] = "DONE" => \/ walk[r][x] = "DONE"
                                            \/ x = d /\ ~failed
    BY <2>2
  <2>4. HandInOrder(r, NoCursor) /\ QueueInOrder(r, NoCursor, w)
    BY <1>1, <1>2, <1>4, <1>10, <2>3 DEF HandInOrder, QueueInOrder
  <2>5. OneMoves(r, j, NoCursor) /\ BetweenFiles(r, j)
    BY <1>10, <2>1 DEF OneMoves, BetweenFiles
  <2>6. QED BY <1>1, <1>10, <2>1, <2>4, <2>5, ListingCovers
<1>11. ASSUME NEW d \in Dirs, DirectoryUnreadable(r, d) PROVE CoverInv'
  <2> DEFINE j == [job[r] EXCEPT !.pc = "walk", !.failed = TRUE]
  <2>1. /\ At(r, "walk") /\ FinishDirectory(r, d, TRUE) /\ job' = [job EXCEPT ![r] = j]
        /\ UNCHANGED <<disk, rootsTable, rootFiles, index, history>>
    BY <1>11 DEF DirectoryUnreadable, Fails, PassIs
  <2>2. j \in PassType /\ PassBelongs(r, j) /\ j.pc \in {"walk", "check"} /\ j.cached = job[r].cached
    BY <1>7, <2>1
  <2> HIDE DEF j
  <2>3. QED BY <1>10, <2>1, <2>2 DEF DirectoryUnreadable
<1>12. ASSUME DirectoryChanged(r) PROVE CoverInv'
  <2> DEFINE j == [job[r] EXCEPT !.pc = "walk", !.failed = TRUE]
             d == cursor[r].dir
  <2>1. /\ At(r, "walk") /\ FinishDirectory(r, d, TRUE) /\ job' = [job EXCEPT ![r] = j]
        /\ UNCHANGED <<disk, rootsTable, rootFiles, index, history>>
    BY <1>12 DEF DirectoryChanged, Fails, PassIs
  <2>2. j \in PassType /\ PassBelongs(r, j) /\ j.pc \in {"walk", "check"} /\ j.cached = job[r].cached
    BY <1>7, <2>1
  <2> HIDE DEF j, d
  <2>3. QED BY <1>10, <2>1, <2>2
<1>13. ASSUME EndDirectory(r) PROVE CoverInv'
  <2> DEFINE d == cursor[r].dir
             failed == cursor[r].failed
  <2>1. /\ At(r, "walk") /\ FinishDirectory(r, d, failed) /\ job' = [job EXCEPT ![r] = job[r]]
        /\ cursor[r].todo = {} /\ cursor[r].pending = {}
        /\ UNCHANGED <<disk, rootsTable, rootFiles, index, history>>
    BY <1>6, <1>13 DEF EndDirectory, Visit, Listing
  <2>2. failed \in BOOLEAN
    BY PartTypes
  <2>3. job[r].pc = "walk" /\ cursor[r].dir = d
    BY <2>1 DEF At
  <2> HIDE DEF d, failed
  <2>4. QED BY <1>0, <1>10, <2>1, <2>2, <2>3
<1>14. ASSUME NEW f \in Files, NextFile(r, f) PROVE CoverInv'
  <2> DEFINE hand == [file |-> f, signature |-> file[f].stamp, large |-> file[f].content = "large"]
             c == [cursor[r] EXCEPT !.todo = @ \ {f}, !.pending = {hand}]
             j == [job[r] EXCEPT !.visited = @ + 1, !.pc = "check"]
  <2>1. /\ At(r, "walk") /\ job[r].visited < PassEntries /\ Exists(f) /\ cursor[r].pending = {}
        /\ cursor' = [cursor EXCEPT ![r] = c] /\ job' = [job EXCEPT ![r] = j]
        /\ UNCHANGED <<walk, disk, rootsTable, rootFiles, index, history>>
    BY <1>14 DEF NextFile, Lists, Visit, Listing, CursorIs, Visited, PassIs
  <2>2. j \in PassType /\ PassBelongs(r, j) /\ j.pc \in {"walk", "check"} /\ j.cached = job[r].cached
    BY <1>7, <2>1
  <2>3. hand \in HandType /\ Listed(hand) /\ hand.file = f
    BY <2>1 DEF HandType, Listed, IndexInv, TypeOK
  <2>4. /\ c \in CursorType /\ c.dir = cursor[r].dir /\ c.todo = cursor[r].todo \ {f}
        /\ c.pending = {hand}
    <3>1. cursor[r].todo \ {f} \in SUBSET (Files \cup Dirs)
      BY <1>0
    <3>2. c \in CursorType
      BY <1>0, <2>3, <3>1, CursorUpdates
    <3>3. QED BY <1>0, <3>2 DEF CursorType
  <2> HIDE DEF c, j, hand
  <2>5. HandInOrder(r, c) /\ QueueInOrder(r, c, walk[r])
    BY <1>4, <1>8, <2>1, <2>3, <2>4 DEF HandInOrder, QueueInOrder
  <2>6. OneMoves(r, j, c) /\ BetweenFiles(r, j) /\ walk' = [walk EXCEPT ![r] = walk[r]]
    BY <1>6, <2>1, <2>2 DEF OneMoves, BetweenFiles
  <2>7. QED BY <2>1, <2>2, <2>4, <2>5, <2>6, ListingCovers
<1>15. ASSUME NEW x \in Files \cup Dirs, NEW j, NEW c, NEW w,
              At(r, "walk"), j \in PassType, PassBelongs(r, j), j.pc \in {"walk", "check"},
              j.cached = job[r].cached,
              c \in CursorType, c.dir = cursor[r].dir, c.todo = cursor[r].todo \ {x},
              c.pending = cursor[r].pending,
              job' = [job EXCEPT ![r] = j], cursor' = [cursor EXCEPT ![r] = c],
              walk' = [walk EXCEPT ![r] = w],
              UNCHANGED <<disk, rootsTable, rootFiles, index, history>>,
              \A d \in Dirs : w[d] = "none" => walk[r][d] = "none",
              \A d \in Dirs : w[d] = "DONE" => walk[r][d] = "DONE",
              x \in Files => ~Exists(x),
              x \in Dirs /\ r \in Recursive => w[x] # "none" \/ x \in broken
       PROVE  CoverInv'
  <2>1. \A f \in steady[r] : f # x
    BY <1>2, <1>15
  <2>2. \A y \in Dirs : r \in Recursive /\ OnWay(r, y) /\ y = x => w[y] # "none"
    BY <1>3, <1>4, <1>15
  <2>3. OneMoves(r, j, c) /\ BetweenFiles(r, j) /\ HandInOrder(r, c)
    BY <1>15 DEF OneMoves, BetweenFiles, HandInOrder
  <2>4. QueueInOrder(r, c, w)
    BY <1>15, <2>1, <2>2 DEF QueueInOrder
  <2>5. QED BY <1>15, <2>3, <2>4, ListingCovers
<1>16. \A x \in Files \cup Dirs :
         LET c == [cursor[r] EXCEPT !.todo = @ \ {x}]
             e == [cursor[r] EXCEPT !.todo = @ \ {x}, !.failed = TRUE]
         IN  /\ c \in CursorType /\ e \in CursorType
             /\ c.dir = cursor[r].dir /\ e.dir = cursor[r].dir
             /\ c.todo = cursor[r].todo \ {x} /\ e.todo = cursor[r].todo \ {x}
             /\ c.pending = cursor[r].pending /\ e.pending = cursor[r].pending
  <2> TAKE x \in Files \cup Dirs
  <2>1. cursor[r].todo \ {x} \in SUBSET (Files \cup Dirs)
    BY <1>0
  <2>2. QED BY <1>0, <2>1, CursorUpdates DEF CursorType
<1>17. ASSUME NEW x \in Files \cup Dirs, EntryVanished(r, x) PROVE CoverInv'
  <2>1. /\ At(r, "walk") /\ job[r].visited < PassEntries
        /\ x \in broken \/ (x \in Files /\ ~Exists(x))
        /\ UNCHANGED <<walk, disk, rootsTable, rootFiles, index, history>>
    BY <1>17 DEF EntryVanished, Lists, Visit, Listing
  <2>2. (x \in Files => ~Exists(x)) /\ (x \in Dirs => x \in broken)
    BY <1>0, <1>4, <2>1
  <2> DEFINE c1 == [cursor[r] EXCEPT !.todo = @ \ {x}]
             c2 == [cursor[r] EXCEPT !.todo = @ \ {x}, !.failed = TRUE]
             j2 == [job[r] EXCEPT !.visited = @ + 1, !.failed = TRUE]
  <2>8. \/ job' = job /\ cursor' = [cursor EXCEPT ![r] = c1]
        \/ job' = [job EXCEPT ![r] = j2] /\ cursor' = [cursor EXCEPT ![r] = c2]
    BY <1>17 DEF EntryVanished, CursorIs, PassIs
  <2>3. PICK j, c :
          /\ (c = c1 /\ j = job[r]) \/ (c = c2 /\ j = j2)
          /\ job' = [job EXCEPT ![r] = j] /\ cursor' = [cursor EXCEPT ![r] = c]
    <3> HIDE DEF c1, c2, j2
    <3>1. CASE job' = job /\ cursor' = [cursor EXCEPT ![r] = c1]
      BY <1>6, <3>1
    <3>2. CASE job' = [job EXCEPT ![r] = j2] /\ cursor' = [cursor EXCEPT ![r] = c2]
      BY <3>2
    <3>3. QED BY <2>8, <3>1, <3>2
  <2>4. j \in PassType /\ PassBelongs(r, j) /\ j.pc \in {"walk", "check"} /\ j.cached = job[r].cached
    BY <1>7, <2>1, <2>3
  <2>5. /\ c \in CursorType /\ c.dir = cursor[r].dir /\ c.todo = cursor[r].todo \ {x}
        /\ c.pending = cursor[r].pending
    BY <1>16, <2>3
  <2>6. walk' = [walk EXCEPT ![r] = walk[r]]
    BY <1>6, <2>1
  <2>7. QED BY <1>15, <2>1, <2>2, <2>3, <2>4, <2>5, <2>6
<1>18. ASSUME NEW d \in Dirs, NextDirectory(r, d) PROVE CoverInv'
  <2> DEFINE c == [cursor[r] EXCEPT !.todo = @ \ {d}]
             j == [job[r] EXCEPT !.visited = @ + 1, !.pc = "walk"]
             v == [walk[r] EXCEPT ![d] = IF @ = "none" THEN "PENDING" ELSE @]
  <2>1. /\ At(r, "walk") /\ job[r].visited < PassEntries
        /\ job' = [job EXCEPT ![r] = j] /\ cursor' = [cursor EXCEPT ![r] = c]
        /\ UNCHANGED <<disk, rootsTable, rootFiles, index, history>>
    BY <1>18 DEF NextDirectory, Lists, Visit, Listing, CursorIs, Visited, PassIs
  <2>2. PICK w : /\ walk' = [walk EXCEPT ![r] = w]
                 /\ \/ w = v
                    \/ w = walk[r] /\ (r \notin Recursive \/ d \in broken)
    BY <1>6, <1>18 DEF NextDirectory
  <2>3. /\ \A x \in Dirs : w[x] = "none" => walk[r][x] = "none"
        /\ \A x \in Dirs : w[x] = "DONE" => walk[r][x] = "DONE"
        /\ r \in Recursive => w[d] # "none" \/ d \in broken
    BY <1>0, <2>2
  <2>4. j \in PassType /\ PassBelongs(r, j) /\ j.pc \in {"walk", "check"} /\ j.cached = job[r].cached
    BY <1>7, <2>1
  <2>5. /\ c \in CursorType /\ c.dir = cursor[r].dir /\ c.todo = cursor[r].todo \ {d}
        /\ c.pending = cursor[r].pending
    BY <1>16
  <2> HIDE DEF c, j, v
  <2>6. d \notin Files
    BY <1>4
  <2>7. QED BY <1>15, <2>1, <2>2, <2>3, <2>4, <2>5, <2>6
<1>19. ASSUME PublishNothing(r) PROVE CoverInv'
  <2>1. /\ job' = [job EXCEPT ![r] = NoPass] /\ cursor' = [cursor EXCEPT ![r] = NoCursor]
        /\ r \notin watched /\ UNCHANGED <<disk, rootsTable, rootFiles, walk, index, history>>
    BY <1>19 DEF PublishNothing, PassIs, CursorIs
  <2>2. HandInOrder(r, NoCursor) /\ QueueInOrder(r, NoCursor, walk[r])
    BY <1>1, <1>2, <1>4, <2>1 DEF HandInOrder, QueueInOrder
  <2>3. /\ OneMoves(r, NoPass, NoCursor) /\ BetweenFiles(r, NoPass)
        /\ walk' = [walk EXCEPT ![r] = walk[r]]
    BY <1>1, <1>6, <2>1 DEF OneMoves, BetweenFiles
  <2>4. QED BY <1>1, <2>1, <2>2, <2>3, ListingCovers
<1>20. QED
  BY <1>9, <1>11, <1>12, <1>13, <1>14, <1>17, <1>18, <1>19

\* What a pass that goes on with its file must satisfy.
FileInOrder(r, j) ==
  /\ PassBelongs(r, j)
  /\ j.pc \in {"look", "read", "scan", "save"}
  /\ j.cached.error \/ j.cached.policy >= j.cached.context
  /\ r \in watched => InHand(r).file \in seen'[r]
  /\ \A p \in cursor[r].pending, s \in Roots : \A q \in cursor[s].pending :
       j.pc \in {"scan", "save"} /\ q.file = p.file /\ q.signature = p.signature
         => <<p.file, j.content>> \in since[s]
  /\ \A p \in cursor[r].pending, s \in Roots : \A q \in cursor[s].pending :
       s # r /\ j.pc \in {"read", "scan", "save"} /\ job[s].pc \in {"read", "scan", "save"}
         => p.file # q.file

\* A step that goes on with the file in hand keeps the invariant.
LEMMA FileCovers ==
  ASSUME IndexInv, CoverInv, NEW r \in Roots, NEW j \in PassType, PassIs(r, j),
         UNCHANGED <<disk, rootsTable, walk, index, cursor, history>>,
         \A x \in Roots : seen[x] \subseteq seen'[x] /\ \A f \in seen'[x] : Known(x, f),
         FileInOrder(r, j),
         \A x \in watched : \A f \in steady[x] : Handled(x, f) => WillServe(x, f, r)'
  PROVE  CoverInv'
<1>0. UNCHANGED <<file, broken, policy, watched, context, index, since, steady, walk, cursor>>
  BY DEF disk, rootsTable, history
<1>1. \A x \in Roots : job'[x] = IF x = r THEN j ELSE job[x]
  BY DEF PassIs, IndexInv, TypeOK
<1>2. \A x \in Roots : InHand(x)' = InHand(x)
  BY <1>0 DEF InHand
<1>3. PassesBelong'
  <2>1. \A x \in Roots : PassBelongs(x, job[x])' = PassBelongs(x, job'[x])
    BY <1>0 DEF PassBelongs
  <2>2. QED BY <1>0, <1>1, <1>2, <2>1 DEF CoverInv, PassesBelong, FileInOrder
<1>4. EntriesAreOfTheirTime'
  BY <1>0, <1>1 DEF CoverInv, EntriesAreOfTheirTime, FileInOrder
<1>5. HistoryKnows'
  <2>1. \A x \in Roots : \A f : Known(x, f)' = Known(x, f) /\ Exists(f)' = Exists(f)
    BY <1>0 DEF Known, Exists
  <2>2. QED BY <1>0, <2>1 DEF CoverInv, HistoryKnows
<1>6. HandsKnown'
  BY <1>0, <1>1 DEF CoverInv, HandsKnown, FileInOrder
<1>7. FilesAreLocked'
  BY <1>0, <1>1 DEF CoverInv, FilesAreLocked, FileInOrder
<1>8. HandledFilesServed'
  <2> SUFFICES ASSUME NEW x \in watched, NEW f \in steady[x], Handled(x, f)'
               PROVE  f \in seen'[x] /\ Serves(x, f)' /\ \A s \in Roots : WillServe(x, f, s)'
    BY <1>0 DEF HandledFilesServed
  <2>1. x \in Roots /\ Handled(x, f)
    BY <1>0 DEF IndexInv, TypeOK, Handled
  <2>2. f \in seen[x] /\ Serves(x, f) /\ \A s \in Roots : WillServe(x, f, s)
    BY <2>1 DEF CoverInv, HandledFilesServed
  <2>3. f \in seen'[x] /\ Serves(x, f)'
    BY <1>0, <2>1, <2>2 DEF Serves
  <2>4. ASSUME NEW s \in Roots PROVE WillServe(x, f, s)'
    <3>1. CASE s = r
      BY <2>1, <3>1
    <3>2. CASE s # r
      BY <1>0, <1>1, <2>2, <3>2 DEF WillServe, Usable
    <3>3. QED BY <3>1, <3>2
  <2>5. QED BY <2>3, <2>4
<1>9. WaysAreQueued' /\ SteadyFilesAreThere'
  BY <1>0 DEF CoverInv, WaysAreQueued, SteadyFilesAreThere, Exists, Reachable, InTree
<1>10. QED BY <1>3, <1>4, <1>5, <1>6, <1>7, <1>8, <1>9 DEF CoverInv

\* What is known of the file in hand.
LEMMA HandFacts ==
  ASSUME IndexInv, CoverInv, NEW r \in Roots,
         job[r].pc \in {"record", "look", "read", "scan", "save"}
  PROVE  /\ InHand(r) \in cursor[r].pending /\ InHand(r) \in HandType
         /\ InHand(r).file \in Files /\ InHand(r).signature \in Nat
         /\ cursor[r].pending = {InHand(r)}
         /\ job[r].context = context[r] /\ context[r] # 0
         /\ \A x \in Roots : steady[x] # {} \/ cursor[x].pending # {} => context[x] # 0
         /\ Exists(InHand(r).file) =>
              \A x \in Roots : context[x] # 0 =>
                <<InHand(r).file, file[InHand(r).file].content>> \in since[x]
<1>1. InHand(r) \in cursor[r].pending /\ InHand(r) \in HandType
  BY HandTyped DEF IndexInv
<1>2. InHand(r).file \in Files /\ InHand(r).signature \in Nat
  BY <1>1 DEF HandType
<1>3. cursor[r].pending = {InHand(r)}
  BY <1>1 DEF IndexInv, HandsFull
<1>4. job[r].context = context[r] /\ context[r] # 0
  BY DEF CoverInv, PassesBelong, PassBelongs
<1>5. \A x \in Roots : steady[x] # {} \/ cursor[x].pending # {} => context[x] # 0
  BY DEF CoverInv, HistoryKnows
<1>6. Exists(InHand(r).file) =>
        \A x \in Roots : context[x] # 0 =>
          <<InHand(r).file, file[InHand(r).file].content>> \in since[x]
  BY <1>2 DEF CoverInv, HistoryKnows
<1>7. QED BY <1>1, <1>2, <1>3, <1>4, <1>5, <1>6

\* The row of a file, the decision to read it, its bytes and its report keep the
\* invariant.
LEMMA FileStepsCovered ==
  ASSUME IndexInv, CoverInv, NEW r \in Roots,
         \/ Record(r)
         \/ Look(r) /\ UNCHANGED cursor
         \/ Read(r) /\ UNCHANGED cursor
         \/ Scan(r)
  PROVE  CoverInv'
<1> DEFINE p == InHand(r)
           f == p.file
<1>0. /\ job[r] \in PassType /\ PassBelongs(r, job[r]) /\ policy \in Nat
      /\ job[r].cached \in EntryType
      /\ index[f] \in EntryType \/ f \notin Files
      /\ job[r].cached.error \/ job[r].cached.policy >= job[r].cached.context
  BY PartTypes DEF CoverInv, PassesBelong, EntriesAreOfTheirTime
<1>1. job[r].pc \in {"record", "look", "read", "scan"}
  BY DEF Record, Look, Read, Scan, At
<1>2. /\ p \in cursor[r].pending /\ f \in Files /\ p.signature \in Nat
      /\ cursor[r].pending = {p}
      /\ job[r].context = context[r] /\ context[r] # 0
      /\ \A x \in Roots : steady[x] # {} \/ cursor[x].pending # {} => context[x] # 0
      /\ Exists(f) => \A x \in Roots : context[x] # 0 => <<f, file[f].content>> \in since[x]
  BY <1>1, HandFacts
<1>3. \A x \in Roots : \A g \in seen[x] : Known(x, g)
  BY DEF CoverInv, HistoryKnows
<1>4. watched \subseteq Roots
  BY DEF IndexInv, TypeOK
<1>5. r \in watched /\ job[r].pc # "record" => f \in seen[r]
  BY <1>1 DEF CoverInv, PassesBelong
<1> HIDE DEF p, f
<1>6. CASE Record(r)
  <2> DEFINE j == [job[r] EXCEPT !.pc = "look"]
  <2>1. j \in PassType
    BY <1>0, PassUpdates DEF JobPcs
  <2>2. /\ j.pc = "look" /\ j.cached = job[r].cached /\ j.context = job[r].context
        /\ j.status = job[r].status /\ j.drained = job[r].drained
    BY <1>0 DEF PassType
  <2>3. /\ PassIs(r, j) /\ seen' = [seen EXCEPT ![r] = @ \cup {f}]
        /\ UNCHANGED <<disk, rootsTable, walk, index, cursor, history>> /\ job[r].pc = "record"
    BY <1>6 DEF Record, Goto, At, f, p
  <2> HIDE DEF j
  <2>4. PassBelongs(r, j)
    BY <1>0, <2>2, <2>3 DEF PassBelongs
  <2>5. f \in seen'[r] /\ \A x \in Roots : seen'[x] = IF x = r THEN seen[r] \cup {f} ELSE seen[x]
    BY <2>3 DEF IndexInv, TypeOK
  <2>6. Known(r, f)
    BY <1>2 DEF CoverInv, HistoryKnows, f
  <2>7. \A x \in Roots : seen[x] \subseteq seen'[x] /\ \A g \in seen'[x] : Known(x, g)
    BY <1>3, <2>5, <2>6
  <2>8. FileInOrder(r, j)
    BY <1>0, <2>2, <2>4, <2>5 DEF FileInOrder, f, p
  <2>9. job'[r].pc = "look"
    BY <2>2, <2>3 DEF PassIs, IndexInv, TypeOK
  <2>10. \A x \in watched : \A g \in steady[x] : Handled(x, g) => WillServe(x, g, r)'
    BY <2>9 DEF WillServe
  <2>11. QED BY <2>1, <2>3, <2>7, <2>8, <2>10, FileCovers
<1>7. CASE Look(r) /\ UNCHANGED cursor
  <2> DEFINE j == [job[r] EXCEPT !.pc = "read", !.cached = index[f]]
  <2>0. index[f] \in EntryType
    BY <1>0, <1>2
  <2>1. j \in PassType
    BY <1>0, <2>0, PassUpdates DEF JobPcs
  <2>2. /\ j.pc = "read" /\ j.cached = index[f] /\ j.context = job[r].context
        /\ j.status = job[r].status /\ j.drained = job[r].drained
    BY <1>0 DEF PassType
  <2>3. /\ job[r].pc = "look" /\ ~Locked(f) /\ PassIs(r, j)
        /\ UNCHANGED <<disk, rootsTable, rootFiles, walk, index, cursor, history>>
    <3>1. cursor[r].pending # {} /\ cursor'[r].pending # {}
      BY <1>2, <1>7
    <3>2. ~Release(r)
      <4>1. Release(r) => cursor'[r].pending = {}
        <5>1. cursor[r] \in CursorType /\ cursor \in [Roots -> CursorType]
          BY DEF IndexInv, TypeOK
        <5>2. QED BY <5>1 DEF Release, CursorIs, CursorType
      <4>2. QED BY <3>1, <4>1
    <3>3. QED BY <1>7, <3>2 DEF Look, Consult, RecordFailure, At, f, p
  <2> HIDE DEF j
  <2>4. PassBelongs(r, j)
    BY <1>0, <2>2, <2>3 DEF PassBelongs
  <2>5. \A s \in Roots : \A q \in cursor[s].pending :
          job[s].pc \in {"read", "scan", "save"} => q.file # f
    <3> TAKE s \in Roots
    <3>1. CASE job[s].pc \in {"read", "scan", "save"}
      <4>1. cursor[s].pending = {InHand(s)}
        BY <3>1, HandFacts
      <4>2. QED BY <2>3, <3>1, <4>1 DEF Locked
    <3>2. QED BY <3>1
  <2>6. UNCHANGED seen
    BY <2>3 DEF rootFiles
  <2>7. FileInOrder(r, j)
    BY <1>2, <1>5, <2>2, <2>3, <2>4, <2>5, <2>6 DEF FileInOrder, f, p, CoverInv, EntriesAreOfTheirTime
  <2>8. job'[r] = j /\ cursor'[r] = cursor[r] /\ UNCHANGED context
    BY <1>7, <2>3 DEF PassIs, IndexInv, TypeOK, rootsTable
  <2>9. ASSUME NEW x \in watched, NEW g \in steady[x], Handled(x, g) PROVE WillServe(x, g, r)'
    <3>1. Serves(x, g)
      BY <2>9 DEF CoverInv, HandledFilesServed
    <3>2. QED BY <1>2, <2>2, <2>8, <3>1 DEF WillServe, Serves, f
  <2>10. QED BY <1>3, <2>1, <2>3, <2>6, <2>7, <2>9, FileCovers
<1>8. CASE Read(r) /\ UNCHANGED cursor
  <2> DEFINE j == [job[r] EXCEPT !.pc = "scan", !.content = file[f].content]
  <2>0. file[f].content \in Bytes
    BY <1>2 DEF IndexInv, TypeOK
  <2>1. j \in PassType
    BY <1>0, <2>0, PassUpdates DEF JobPcs
  <2>2. /\ j.pc = "scan" /\ j.cached = job[r].cached /\ j.context = job[r].context
        /\ j.status = job[r].status /\ j.drained = job[r].drained /\ j.content = file[f].content
    BY <1>0 DEF PassType
  <2>3. /\ job[r].pc = "read" /\ Exists(f) /\ PassIs(r, j)
        /\ UNCHANGED <<disk, rootsTable, rootFiles, walk, index, cursor, history>>
    <3>1. cursor[r].pending # {} /\ cursor'[r].pending # {}
      BY <1>2, <1>8
    <3>2. ~Release(r)
      <4>1. Release(r) => cursor'[r].pending = {}
        <5>1. cursor[r] \in CursorType /\ cursor \in [Roots -> CursorType]
          BY DEF IndexInv, TypeOK
        <5>2. QED BY <5>1 DEF Release, CursorIs, CursorType
      <4>2. QED BY <3>1, <4>1
    <3>3. QED BY <1>8, <3>2 DEF Read, Readable, At, f, p
  <2> HIDE DEF j
  <2>4. PassBelongs(r, j)
    BY <1>0, <2>2, <2>3 DEF PassBelongs
  <2>5. UNCHANGED seen
    BY <2>3 DEF rootFiles
  <2>6. \A x \in Roots : context[x] # 0 => <<f, j.content>> \in since[x]
    BY <1>2, <2>2, <2>3
  <2>7. FileInOrder(r, j)
    <3>1. \A s \in Roots : cursor[s].pending # {} => <<f, j.content>> \in since[s]
      BY <1>2, <2>6
    <3>2. \A s \in Roots : \A q \in cursor[s].pending :
            s # r /\ job[s].pc \in {"read", "scan", "save"} => f # q.file
      BY <1>2, <2>3 DEF CoverInv, FilesAreLocked, f
    <3>3. QED BY <1>0, <1>2, <1>5, <2>2, <2>3, <2>4, <2>5, <3>1, <3>2 DEF FileInOrder, f, p
  <2>8. job'[r] = j /\ cursor'[r] = cursor[r] /\ UNCHANGED <<context, since>>
    BY <1>8, <2>3 DEF PassIs, IndexInv, TypeOK, rootsTable, history
  <2>9. ASSUME NEW x \in watched, NEW g \in steady[x], Handled(x, g) PROVE WillServe(x, g, r)'
    <3>1. g = f => <<g, j.content>> \in since[x]
      BY <1>2, <1>4, <2>6
    <3>2. QED BY <1>2, <2>2, <2>8, <3>1 DEF WillServe, f
  <2>10. QED BY <1>3, <2>1, <2>3, <2>5, <2>7, <2>9, FileCovers
<1>9. CASE Scan(r)
  <2> DEFINE j == [job[r] EXCEPT !.pc = "save", !.report = policy]
  <2>1. j \in PassType
    BY <1>0, PassUpdates DEF JobPcs
  <2>2. /\ j.pc = "save" /\ j.cached = job[r].cached /\ j.context = job[r].context
        /\ j.status = job[r].status /\ j.drained = job[r].drained /\ j.content = job[r].content
        /\ j.report = policy
    BY <1>0 DEF PassType
  <2>3. /\ job[r].pc = "scan" /\ PassIs(r, j)
        /\ UNCHANGED <<disk, rootsTable, rootFiles, walk, index, cursor, history>>
    BY <1>9 DEF Scan, At
  <2> HIDE DEF j
  <2>4. PassBelongs(r, j)
    BY <1>0, <2>2, <2>3 DEF PassBelongs
  <2>5. UNCHANGED seen
    BY <2>3 DEF rootFiles
  <2>7. FileInOrder(r, j)
    <3>1. \A q \in cursor[r].pending, s \in Roots : \A q2 \in cursor[s].pending :
            q2.file = q.file /\ q2.signature = q.signature => <<q.file, j.content>> \in since[s]
      BY <2>2, <2>3 DEF CoverInv, HandsKnown
    <3>2. \A q \in cursor[r].pending, s \in Roots : \A q2 \in cursor[s].pending :
            s # r /\ job[s].pc \in {"read", "scan", "save"} => q.file # q2.file
      BY <2>3 DEF CoverInv, FilesAreLocked
    <3>3. QED BY <1>0, <1>5, <2>2, <2>3, <2>4, <2>5, <3>1, <3>2 DEF FileInOrder, f, p
  <2>8. job'[r] = j /\ cursor'[r] = cursor[r] /\ UNCHANGED <<context, since>>
    BY <2>3 DEF PassIs, IndexInv, TypeOK, rootsTable, history
  <2>9. ASSUME NEW x \in watched, NEW g \in steady[x], Handled(x, g) PROVE WillServe(x, g, r)'
    <3>1. WillServe(x, g, r)
      BY <2>9 DEF CoverInv, HandledFilesServed
    <3>2. policy >= context[x]
      BY <1>4 DEF CoverInv, PassesBelong, IndexInv, TypeOK
    <3>3. QED BY <2>2, <2>3, <2>8, <3>1, <3>2 DEF WillServe
  <2>10. QED BY <1>3, <2>1, <2>3, <2>5, <2>7, <2>9, FileCovers
<1>10. QED BY <1>6, <1>7, <1>8, <1>9

\* What a new entry e of f must satisfy, when the pass of r has made it.
EntryInOrder(r, f, e) ==
  /\ e.error \/ e.policy >= e.context
  /\ \A x \in Roots : \A p \in cursor[x].pending :
       p.file = f => \/ e = NoEntry \/ e.error \/ e.signature # p.signature
                     \/ <<f, e.content>> \in since[x]
  /\ \A x \in watched : f \in steady[x] /\ (x = r \/ Handled(x, f)) =>
       /\ e # NoEntry
       /\ e.error \/ (<<f, e.content>> \in since[x] /\ e.policy >= context[x])

\* The file in hand gets its entry, and is left.
Leaves(r, e) ==
  /\ index' = [index EXCEPT ![InHand(r).file] = e]
  /\ Release(r)

\* No other pass is at the file in hand.
HasAlone(r) ==
  \A s \in Roots : \A q \in cursor[s].pending :
    s # r /\ job[s].pc \in {"read", "scan", "save"} => q.file # InHand(r).file

\* A pass that leaves its file behind, with an entry that is in order, keeps the
\* invariant.
LEMMA ReleaseCovers ==
  ASSUME IndexInv, CoverInv, NEW r \in Roots, NEW j \in PassType, NEW e,
         job[r].pc \in {"look", "read", "scan", "save"},
         PassIs(r, j), Leaves(r, e), HasAlone(r),
         UNCHANGED <<disk, rootsTable, rootFiles, walk, history>>,
         BetweenFiles(r, j), j.pc = "walk",
         EntryInOrder(r, InHand(r).file, e)
  PROVE  CoverInv'
<1> DEFINE p == InHand(r)
           f == p.file
           c == [cursor[r] EXCEPT !.pending = {}]
<1>0. UNCHANGED <<file, broken, policy, watched, context, seen, since, steady, walk>>
  BY DEF disk, rootsTable, rootFiles, history
<1>1. /\ cursor[r].pending = {p} /\ f \in Files /\ job[r].context = context[r] /\ context[r] # 0
      /\ p \in cursor[r].pending
  BY HandFacts
<1>2. c.pending = {} /\ c.dir = cursor[r].dir /\ c.todo = cursor[r].todo
  BY PartTypes DEF CursorType
<1>3. \A x \in Roots : /\ job'[x] = IF x = r THEN j ELSE job[x]
                       /\ cursor'[x] = IF x = r THEN c ELSE cursor[x]
  BY DEF Leaves, Release, CursorIs, PassIs, IndexInv, TypeOK
<1>4. \A g \in Files : index'[g] = IF g = f THEN e ELSE index[g]
  BY DEF Leaves, IndexInv, TypeOK
<1>5. EntryInOrder(r, f, e)
  OBVIOUS
<1>6. \A s \in Roots : \A q \in cursor[s].pending :
        s # r /\ job[s].pc \in {"read", "scan", "save"} => q.file # f
  BY DEF HasAlone
<1>7. \A x \in Roots : seen[x] \subseteq Files /\ steady[x] \subseteq Files
        /\ \A q \in cursor[x].pending : q.file \in Files
  BY DEF IndexInv, TypeOK, CursorType, HandType
<1>8. r \in watched => f \in seen[r]
  BY DEF CoverInv, PassesBelong
<1> HIDE DEF f, c, p
<1>9. PassesBelong'
  <2>1. \A x \in Roots : PassBelongs(x, job[x])' = PassBelongs(x, job'[x])
    BY <1>0 DEF PassBelongs
  <2>2. \A x \in Roots : x # r => InHand(x)' = InHand(x)
    BY <1>3 DEF InHand
  <2>3. QED BY <1>0, <1>3, <2>1, <2>2 DEF CoverInv, PassesBelong, BetweenFiles
<1>10. EntriesAreOfTheirTime'
  <2>1. NoEntry.error \/ NoEntry.policy >= NoEntry.context
    BY DEF NoEntry
  <2>2. \A g \in Files : index'[g].error \/ index'[g].policy >= index'[g].context
    BY <1>4, <1>5 DEF EntryInOrder, CoverInv, EntriesAreOfTheirTime
  <2>3. \A x \in Roots : job'[x].cached.error \/ job'[x].cached.policy >= job'[x].cached.context
    BY <1>3, <2>1 DEF BetweenFiles, CoverInv, EntriesAreOfTheirTime
  <2>4. QED BY <1>0, <2>2, <2>3 DEF CoverInv, EntriesAreOfTheirTime
<1>11. HistoryKnows'
  <2>1. \A x \in Roots : \A g : Known(x, g)' = Known(x, g) /\ Exists(g)' = Exists(g)
    BY <1>0 DEF Known, Exists
  <2>2. \A x \in Roots : cursor'[x].pending \subseteq cursor[x].pending
    BY <1>2, <1>3
  <2>3. QED BY <1>0, <2>1, <2>2 DEF CoverInv, HistoryKnows
<1>12. HandsKnown'
  <2> SUFFICES ASSUME NEW x \in Roots, NEW q \in cursor'[x].pending
               PROVE  /\ \/ index'[q.file] = NoEntry \/ index'[q.file].error
                         \/ index'[q.file].signature # q.signature
                         \/ <<q.file, index'[q.file].content>> \in since[x]
                      /\ \A s \in Roots : \A q2 \in cursor'[s].pending :
                           job'[s].pc \in {"scan", "save"} /\ q2.file = q.file
                             /\ q2.signature = q.signature
                             => <<q.file, job'[s].content>> \in since[x]
    BY <1>0 DEF HandsKnown
  <2>1. q \in cursor[x].pending
    BY <1>2, <1>3
  <2>2. \/ index'[q.file] = NoEntry \/ index'[q.file].error
        \/ index'[q.file].signature # q.signature
        \/ <<q.file, index'[q.file].content>> \in since[x]
    <3>1. CASE q.file = f
      BY <1>1, <1>4, <1>5, <2>1, <3>1 DEF EntryInOrder
    <3>2. CASE q.file # f
      BY <1>4, <1>7, <2>1, <3>2 DEF CoverInv, HandsKnown
    <3>3. QED BY <3>1, <3>2
  <2>3. \A s \in Roots : \A q2 \in cursor'[s].pending :
          job'[s].pc \in {"scan", "save"} /\ q2.file = q.file /\ q2.signature = q.signature
            => <<q.file, job'[s].content>> \in since[x]
    BY <1>2, <1>3, <2>1 DEF CoverInv, HandsKnown
  <2>4. QED BY <2>2, <2>3
<1>13. FilesAreLocked'
  BY <1>2, <1>3 DEF CoverInv, FilesAreLocked
<1>14. HandledFilesServed'
  <2> SUFFICES ASSUME NEW x \in watched, NEW g \in steady[x], Handled(x, g)'
               PROVE  g \in seen[x] /\ Serves(x, g)' /\ \A s \in Roots : WillServe(x, g, s)'
    BY <1>0 DEF HandledFilesServed
  <2>1. x \in Roots /\ g \in Files
    BY <1>7 DEF IndexInv, TypeOK
  <2>2. Handled(x, g) \/ (x = r /\ g = f)
    <3>1. CASE x = r
      BY <1>0, <1>1, <1>2, <1>3, <3>1 DEF Handled, f
    <3>2. CASE x # r
      BY <1>0, <1>3, <2>1, <3>2 DEF Handled
    <3>3. QED BY <3>1, <3>2
  <2>3. ASSUME NEW s \in Roots, Handled(x, g) PROVE WillServe(x, g, s)'
    <3>1. CASE s = r
      BY <1>2, <1>3, <3>1 DEF WillServe
    <3>2. CASE s # r
      <4>1. WillServe(x, g, s)
        BY <2>3 DEF CoverInv, HandledFilesServed
      <4>2. QED BY <1>0, <1>3, <3>2, <4>1 DEF WillServe, Usable
    <3>3. QED BY <3>1, <3>2
  <2>4. CASE g = f
    <3>1. g \in seen[x]
      BY <1>8, <2>2, <2>4 DEF CoverInv, HandledFilesServed
    <3>2. index'[g] = e
      BY <1>4, <2>1, <2>4
    <3>3. /\ e # NoEntry
          /\ e.error \/ (<<g, e.content>> \in since[x] /\ e.policy >= context[x])
      BY <1>5, <2>2, <2>4 DEF EntryInOrder
    <3>4. Serves(x, g)'
      BY <1>0, <3>2, <3>3 DEF Serves
    <3>5. ASSUME NEW s \in Roots PROVE WillServe(x, g, s)'
      <4>1. CASE s = r
        BY <1>2, <1>3, <4>1 DEF WillServe
      <4>2. CASE s # r
        BY <1>3, <1>6, <2>4, <4>2 DEF WillServe
      <4>3. QED BY <4>1, <4>2
    <3>6. QED BY <3>1, <3>4, <3>5
  <2>5. CASE g # f
    <3>1. Handled(x, g)
      BY <2>2, <2>5
    <3>2. g \in seen[x] /\ Serves(x, g)
      BY <3>1 DEF CoverInv, HandledFilesServed
    <3>3. Serves(x, g)'
      BY <1>0, <1>4, <2>1, <2>5, <3>2 DEF Serves
    <3>4. QED BY <2>3, <3>1, <3>2, <3>3
  <2>6. QED BY <2>4, <2>5
<1>15. WaysAreQueued'
  <2>1. \A x \in Roots : cursor'[x].dir = cursor[x].dir /\ cursor'[x].todo = cursor[x].todo
    BY <1>2, <1>3
  <2>2. watched \subseteq Roots
    BY DEF IndexInv, TypeOK
  <2>3. QED BY <1>0, <2>1, <2>2 DEF CoverInv, WaysAreQueued
<1>16. SteadyFilesAreThere'
  BY <1>0 DEF CoverInv, SteadyFilesAreThere, Exists, Reachable, InTree
<1>17. QED
  BY <1>9, <1>10, <1>11, <1>12, <1>13, <1>14, <1>15, <1>16 DEF CoverInv

\* A failure is in order as an entry.
LEMMA FailuresInOrder ==
  ASSUME NEW r \in Roots, NEW f, NEW retry
  PROVE  EntryInOrder(r, f, Failure(r, retry))
BY DEF EntryInOrder, Failure, NoEntry

\* The steps that are done with a file keep the invariant.
LEMMA ReleasesCovered ==
  ASSUME IndexInv, CoverInv, NEW r \in Roots,
         \/ Look(r) /\ ~UNCHANGED cursor
         \/ Read(r) /\ ~UNCHANGED cursor
         \/ ReadFails(r) \/ ScanFails(r) \/ Save(r)
  PROVE  CoverInv'
<1> DEFINE p == InHand(r)
           f == p.file
<1>0. /\ job[r] \in PassType /\ PassBelongs(r, job[r]) /\ policy \in Nat
      /\ job[r].cached \in EntryType /\ job[r].failed \in BOOLEAN
  BY PartTypes DEF CoverInv, PassesBelong, EntriesAreOfTheirTime
<1>1. job[r].pc \in {"look", "read", "scan", "save"}
  BY DEF Look, Read, ReadFails, ScanFails, Save, SaveAs, Consult, At
<1>2. /\ p \in cursor[r].pending /\ f \in Files /\ p.signature \in Nat
      /\ cursor[r].pending = {p}
      /\ job[r].context = context[r] /\ context[r] # 0
      /\ \A x \in Roots : steady[x] # {} \/ cursor[x].pending # {} => context[x] # 0
      /\ Exists(f) => \A x \in Roots : context[x] # 0 => <<f, file[f].content>> \in since[x]
  BY <1>1, HandFacts
<1>3. watched \subseteq Roots /\ index[f] \in EntryType
  BY <1>2 DEF IndexInv, TypeOK
<1>4. \A b \in BOOLEAN :
        LET j == [job[r] EXCEPT !.pc = "walk", !.failed = b]
        IN  j \in PassType /\ BetweenFiles(r, j) /\ j.pc = "walk"
  <2> TAKE b \in BOOLEAN
  <2> DEFINE j == [job[r] EXCEPT !.pc = "walk", !.failed = b]
  <2>1. j \in PassType
    BY <1>0, PassUpdates DEF JobPcs
  <2>2. /\ j.pc = "walk" /\ j.cached = job[r].cached /\ j.context = job[r].context
        /\ j.status = job[r].status /\ j.drained = job[r].drained
    BY <1>0 DEF PassType
  <2> HIDE DEF j
  <2>3. PassBelongs(r, j)
    BY <1>0, <1>2, <2>2, <1>1 DEF PassBelongs
  <2>4. QED BY <2>1, <2>2, <2>3 DEF BetweenFiles, j
<1>5. [job[r] EXCEPT !.pc = "walk"] = [job[r] EXCEPT !.pc = "walk", !.failed = job[r].failed]
  BY <1>0 DEF PassType
<1>6. job[r].pc \in {"read", "scan", "save"} \/ ~Locked(f) =>
        \A s \in Roots : \A q \in cursor[s].pending :
          s # r /\ job[s].pc \in {"read", "scan", "save"} => q.file # f
  <2>1. \A s \in Roots : job[s].pc \in {"read", "scan", "save"} => cursor[s].pending = {InHand(s)}
    BY HandFacts
  <2>2. QED BY <1>2, <2>1 DEF Locked, CoverInv, FilesAreLocked
<1> HIDE DEF p, f
\* With its entry in order, the file can be left.
<1>7. ASSUME NEW e, NEW b \in BOOLEAN, EntryInOrder(r, f, e), index' = [index EXCEPT ![f] = e],
             PassIs(r, [job[r] EXCEPT !.pc = "walk", !.failed = b]), Release(r),
             job[r].pc \in {"read", "scan", "save"} \/ ~Locked(f),
             UNCHANGED <<disk, rootsTable, rootFiles, walk, history>>
      PROVE  CoverInv'
  <2> DEFINE j == [job[r] EXCEPT !.pc = "walk", !.failed = b]
  <2>1. j \in PassType /\ BetweenFiles(r, j) /\ j.pc = "walk"
    BY <1>4, <1>7
  <2>2. PassIs(r, j)
    BY <1>7
  <2> HIDE DEF j
  <2>3. \A s \in Roots : \A q \in cursor[s].pending :
          s # r /\ job[s].pc \in {"read", "scan", "save"} => q.file # f
    BY <1>6, <1>7
  <2>4. f = InHand(r).file
    BY DEF f, p
  <2> HIDE DEF f
  <2>5. EntryInOrder(r, InHand(r).file, e) /\ Leaves(r, e) /\ HasAlone(r)
    BY <1>7, <2>3, <2>4 DEF Leaves, HasAlone
  <2>6. QED BY <1>1, <1>7, <2>1, <2>2, <2>5, ReleaseCovers
\* The entry of another pass or cycle serves as before.
<1>8. /\ index[f].error \/ index[f].policy >= index[f].context
      /\ \A x \in Roots : \A q \in cursor[x].pending :
           q.file = f => \/ index[f] = NoEntry \/ index[f].error \/ index[f].signature # q.signature
                         \/ <<f, index[f].content>> \in since[x]
      /\ \A x \in watched : f \in steady[x] /\ Handled(x, f) => Serves(x, f) /\ WillServe(x, f, r)
  <2>1. index[f].error \/ index[f].policy >= index[f].context
    BY <1>2 DEF CoverInv, EntriesAreOfTheirTime
  <2>2. \A x \in Roots : \A q \in cursor[x].pending :
           q.file = f => \/ index[f] = NoEntry \/ index[f].error \/ index[f].signature # q.signature
                         \/ <<f, index[f].content>> \in since[x]
    BY DEF CoverInv, HandsKnown
  <2>3. \A x \in watched : f \in steady[x] /\ Handled(x, f) => Serves(x, f) /\ WillServe(x, f, r)
    BY DEF CoverInv, HandledFilesServed
  <2>4. QED BY <2>1, <2>2, <2>3
<1>9. ASSUME NEW retry, RecordFailure(r, retry),
             job[r].pc \in {"read", "scan", "save"} \/ ~Locked(f),
             UNCHANGED <<disk, rootsTable, rootFiles, walk, history>>
      PROVE  CoverInv'
  <2>1. EntryInOrder(r, f, Failure(r, retry))
    BY FailuresInOrder
  <2>2. TRUE \in BOOLEAN
    OBVIOUS
  <2>3. QED BY <1>7, <1>9, <2>1, <2>2 DEF RecordFailure, Fails, f, p
<1>10. CASE Look(r) /\ ~UNCHANGED cursor
  <2>1. /\ job[r].pc = "look" /\ ~Locked(f)
        /\ UNCHANGED <<disk, rootsTable, rootFiles, walk, history>>
    BY <1>10 DEF Look, Consult, At, f, p
  <2>2. CASE Unchanged(r, index[f])
    <3> DEFINE b == job[r].failed \/ index[f].error
    <3>1. /\ PassIs(r, [job[r] EXCEPT !.pc = "walk", !.failed = b]) /\ Release(r)
          /\ UNCHANGED index
      BY <1>10, <2>2 DEF Look, Consult, f, p
    <3>2. b \in BOOLEAN
      BY <1>0, <1>3 DEF EntryType
    <3>3. index' = [index EXCEPT ![f] = index[f]]
      BY <3>1 DEF IndexInv, TypeOK
    <3>4. /\ index[f] # NoEntry /\ index[f].context = context[r]
          /\ index[f].signature = p.signature
      BY <1>2, <2>2 DEF Unchanged, Usable, p
    <3>5. index[f].error \/ (<<f, index[f].content>> \in since[r] /\ index[f].policy >= context[r])
      BY <1>2, <1>8, <3>4 DEF f
    <3>6. EntryInOrder(r, f, index[f])
      BY <1>8, <3>4, <3>5 DEF EntryInOrder, Serves
    <3> HIDE DEF b
    <3>7. QED BY <1>7, <2>1, <3>1, <3>2, <3>3, <3>6
  <2>3. CASE ~Unchanged(r, index[f]) /\ p.large
    <3>1. RecordFailure(r, "never")
      BY <1>10, <2>3 DEF Look, Consult, f, p
    <3>2. QED BY <1>9, <2>1, <3>1
  <2>4. CASE ~Unchanged(r, index[f]) /\ ~p.large
    <3>1. FALSE
      BY <1>10, <2>4 DEF Look, Consult, f, p
    <3>2. QED BY <3>1
  <2>5. QED BY <2>2, <2>3, <2>4
<1>11. CASE Read(r) /\ ~UNCHANGED cursor
  <2> DEFINE cached == job[r].cached
             e == [cached EXCEPT !.signature = p.signature]
  <2>1. /\ job[r].pc = "read" /\ UNCHANGED <<disk, rootsTable, rootFiles, walk, history>>
        /\ Exists(f)
        /\ Usable(r, cached) /\ ~cached.error /\ cached.content = file[f].content
        /\ index' = [index EXCEPT ![f] = e] /\ Release(r)
        /\ PassIs(r, [job[r] EXCEPT !.pc = "walk", !.failed = job[r].failed])
    BY <1>5, <1>11 DEF Read, Readable, At, Goto, f, p
  <2>2. /\ e.error = cached.error /\ e.content = cached.content /\ e.policy = cached.policy
        /\ e.context = cached.context
    BY <1>0 DEF EntryType
  <2>3. e.context = context[r] /\ e # NoEntry
    BY <1>2, <2>1, <2>2 DEF Usable, NoEntry
  <2>4. e.policy >= e.context
    BY <2>1, <2>2 DEF CoverInv, EntriesAreOfTheirTime
  <2> HIDE DEF e
  <2>5. \A x \in Roots : context[x] # 0 => <<f, e.content>> \in since[x]
    BY <1>2, <2>1, <2>2
  <2>6. \A x \in watched : f \in steady[x] /\ Handled(x, f) => e.policy >= context[x]
    BY <1>2, <1>8, <2>1, <2>2 DEF WillServe, f
  <2>7. EntryInOrder(r, f, e)
    <3>1. \A x \in Roots : \A q \in cursor[x].pending : <<f, e.content>> \in since[x]
      BY <1>2, <2>5
    <3>2. \A x \in watched : f \in steady[x] => <<f, e.content>> \in since[x]
      BY <1>2, <1>3, <2>5
    <3>3. QED BY <2>3, <2>4, <2>6, <3>1, <3>2 DEF EntryInOrder
  <2>8. QED BY <1>0, <1>7, <2>1, <2>7
<1>12. CASE ReadFails(r) \/ ScanFails(r)
  <2>1. /\ RecordFailure(r, "wait") /\ job[r].pc \in {"read", "scan", "save"}
        /\ UNCHANGED <<disk, rootsTable, rootFiles, walk, history>>
    BY <1>12 DEF ReadFails, ScanFails, At
  <2>2. QED BY <1>9, <2>1
<1>13. CASE Save(r)
  <2> DEFINE e == [signature |-> p.signature, content |-> job[r].content,
                   policy |-> job[r].report, error |-> FALSE, retry |-> "never",
                   context |-> job[r].context]
  <2>1. /\ job[r].pc = "save" /\ UNCHANGED <<disk, rootsTable, rootFiles, walk, history>>
        /\ index' = [index EXCEPT ![f] = e] /\ Release(r)
        /\ PassIs(r, [job[r] EXCEPT !.pc = "walk", !.failed = job[r].failed])
    BY <1>5, <1>13 DEF Save, SaveAs, At, Goto, f, p
  <2>2. /\ e.signature = p.signature /\ e.content = job[r].content /\ e.policy = job[r].report
        /\ e.context = context[r] /\ e # NoEntry
    BY <1>2 DEF NoEntry
  <2>3. e.policy >= context[r]
    BY <1>0, <1>2, <2>1, <2>2 DEF PassBelongs
  <2> HIDE DEF e
  <2>4. \A x \in Roots : \A q \in cursor[x].pending :
          q.file = f /\ q.signature = p.signature => <<f, e.content>> \in since[x]
    BY <1>2, <2>1, <2>2 DEF CoverInv, HandsKnown, f
  <2>5. \A x \in watched : f \in steady[x] /\ Handled(x, f) =>
          <<f, e.content>> \in since[x] /\ e.policy >= context[x]
    BY <1>2, <1>8, <2>1, <2>2 DEF WillServe, f
  <2>6. <<f, e.content>> \in since[r]
    BY <1>2, <2>4 DEF f
  <2>7. EntryInOrder(r, f, e)
    BY <2>2, <2>3, <2>4, <2>5, <2>6 DEF EntryInOrder
  <2>8. QED BY <1>0, <1>7, <2>1, <2>7
<1>14. QED BY <1>10, <1>11, <1>12, <1>13

\* A new cycle starts from nothing.
LEMMA NewCycleCovered ==
  ASSUME IndexInv, CoverInv, NEW r \in Roots, NewCycle(r)
  PROVE  CoverInv'
<1> DEFINE j == [job[r] EXCEPT !.pc = "enter"]
<1>0. /\ job[r] \in PassType /\ PassBelongs(r, job[r]) /\ job[r].pc = "cycle"
  BY PartTypes DEF CoverInv, PassesBelong, NewCycle, At
<1>1. /\ j.pc = "enter" /\ j.cached = job[r].cached /\ j.context = job[r].context
      /\ j.status = job[r].status /\ j.drained = job[r].drained
  BY <1>0 DEF PassType
<1>2. job' = [job EXCEPT ![r] = j]
  BY DEF NewCycle, Goto, PassIs
<1> HIDE DEF j
<1>3. \A x \in Roots :
        /\ job'[x] = IF x = r THEN j ELSE job[x]
        /\ cursor'[x] = IF x = r THEN NoCursor ELSE cursor[x]
        /\ context'[x] = IF x = r THEN job[r].context ELSE context[x]
        /\ seen'[x] = IF x = r THEN {} ELSE seen[x]
  BY <1>2 DEF NewCycle, CursorIs, IndexInv, TypeOK
<1>4. \A x \in Roots :
        /\ x # r => walk'[x] = walk[x] /\ since'[x] = since[x] /\ steady'[x] = steady[x]
        /\ x = r => /\ walk'[x] = [d \in Dirs |-> IF d = TopOf[r] THEN "PENDING" ELSE "none"]
                    /\ since'[x] = {<<f, file[f].content>> : f \in {g \in Files : Exists(g)}}
                    /\ steady'[x] = {f \in Files : /\ Exists(f) /\ DirOf[f] \in InTree(r)
                                                   /\ Reachable(DirOf[f])}
  BY DEF NewCycle, IndexInv, TypeOK
<1>5. UNCHANGED <<file, broken, policy, watched, index>>
  BY DEF NewCycle, disk
<1>6. NoCursor.pending = {} /\ NoCursor.dir = "none" /\ NoCursor.todo = {}
  BY DEF NoCursor
<1>7. watched \subseteq Roots /\ policy \in Nat /\ context \in [Roots -> Nat]
  BY DEF IndexInv, TypeOK
<1>8. PassesBelong'
  <2>1. job[r].context # 0 /\ job[r].context <= policy
    BY <1>0 DEF PassBelongs
  <2>2. PassBelongs(r, job[r])'
    BY <1>0, <1>1, <1>3, <1>5, <2>1 DEF PassBelongs
  <2>3. ASSUME NEW x \in Roots, x # r
        PROVE  /\ PassBelongs(x, job[x])'
               /\ context'[x] <= policy'
               /\ job'[x].pc \in {"look", "read", "scan", "save"} /\ x \in watched'
                    => InHand(x)'.file \in seen'[x]
    <3>1. job'[x] = job[x] /\ context'[x] = context[x] /\ seen'[x] = seen[x]
          /\ InHand(x)' = InHand(x)
      BY <1>3, <2>3 DEF InHand
    <3>2. QED BY <1>5, <3>1 DEF CoverInv, PassesBelong, PassBelongs
  <2>4. QED BY <1>1, <1>3, <1>5, <2>1, <2>2, <2>3 DEF PassesBelong
<1>9. EntriesAreOfTheirTime'
  BY <1>1, <1>3, <1>5 DEF CoverInv, EntriesAreOfTheirTime
<1>10. HistoryKnows'
  <2>1. \A f \in Files : Exists(f)' = Exists(f) /\ (Exists(f) => file[f].content \in Contents)
    BY <1>5 DEF Exists, CoverInv, HistoryKnows
  <2>2. job[r].context # 0
    BY <1>0 DEF PassBelongs
  <2>3. ASSUME NEW x \in Roots
        PROVE  /\ context'[x] # 0 => \A f \in Files : Exists(f)' => <<f, file'[f].content>> \in since'[x]
               /\ steady'[x] # {} \/ cursor'[x].pending # {} => context'[x] # 0
               /\ \A f \in seen'[x] : Known(x, f)'
               /\ \A p \in cursor'[x].pending : Known(x, p.file)'
    <3>1. CASE x = r
      BY <1>3, <1>4, <1>5, <1>6, <2>1, <2>2, <3>1
    <3>2. CASE x # r
      <4>1. \A f : Known(x, f)' = Known(x, f)
        BY <1>4, <3>2 DEF Known
      <4>2. QED BY <1>3, <1>4, <1>5, <2>1, <3>2, <4>1 DEF CoverInv, HistoryKnows
    <3>3. QED BY <3>1, <3>2
  <2>4. QED BY <1>5, <2>1, <2>3 DEF HistoryKnows
<1>11. HandsKnown'
  BY <1>1, <1>3, <1>4, <1>5, <1>6 DEF CoverInv, HandsKnown
<1>12. FilesAreLocked'
  BY <1>3, <1>6 DEF CoverInv, FilesAreLocked
<1>13. HandledFilesServed'
  <2> SUFFICES ASSUME NEW x \in watched, NEW f \in steady'[x], Handled(x, f)'
               PROVE  f \in seen'[x] /\ Serves(x, f)' /\ \A s \in Roots : WillServe(x, f, s)'
    BY <1>5 DEF HandledFilesServed
  <2>1. x # r
    <3>1. CASE x = r
      <4>1. f \in Files /\ DirOf[f] \in Dirs /\ DirOf[f] # "none"
        <5>1. steady'[r] \subseteq Files
          BY <1>4
        <5>2. QED BY <3>1, <5>1, TreeAssumption
      <4>2. QED BY <1>3, <1>4, <1>6, <1>7, <3>1, <4>1 DEF Handled
    <3>2. QED BY <3>1
  <2>2. /\ x \in Roots /\ f \in steady[x] /\ Handled(x, f)
        /\ seen'[x] = seen[x] /\ since'[x] = since[x] /\ context'[x] = context[x]
    BY <1>3, <1>4, <1>7, <2>1 DEF Handled
  <2>3. f \in seen[x] /\ Serves(x, f) /\ \A s \in Roots : WillServe(x, f, s)
    BY <2>2 DEF CoverInv, HandledFilesServed
  <2>4. Serves(x, f)'
    BY <1>5, <2>2, <2>3 DEF Serves
  <2>5. ASSUME NEW s \in Roots PROVE WillServe(x, f, s)'
    BY <1>3, <1>6, <2>2, <2>3 DEF WillServe, Usable
  <2>6. QED BY <2>2, <2>3, <2>4, <2>5
<1>14. WaysAreQueued'
  <2>1. TopOf[r] \in Dirs
    BY TreeAssumption
  <2>2. \A y \in Dirs : y # "none"
    BY TreeAssumption
  <2>3. r \in watched =>
          /\ walk'[r][TopOf[r]] # "none"
          /\ \A y \in Dirs : walk'[r][y] # "DONE" /\ cursor'[r].dir # y
    BY ZenonT(30), <1>3, <1>4, <1>6, <2>1, <2>2
  <2>4. ASSUME NEW x \in watched
        PROVE  /\ context'[x] # 0 => walk'[x][TopOf[x]] # "none"
               /\ x \in Recursive =>
                    \A f \in steady'[x], y \in Dirs :
                      /\ DirOf[f] \in Under(y)
                      /\ ParentOf[y] \in Dirs
                      /\ \/ walk'[x][ParentOf[y]] = "DONE"
                         \/ cursor'[x].dir = ParentOf[y] /\ y \notin cursor'[x].todo
                      => walk'[x][y] # "none"
    <3>1. CASE x = r
      BY <2>3, <3>1
    <3>2. CASE x # r
      <4>1. /\ context'[x] = context[x] /\ walk'[x] = walk[x] /\ steady'[x] = steady[x]
            /\ cursor'[x] = cursor[x]
        BY <1>3, <1>4, <1>7, <3>2
      <4>2. QED BY <4>1 DEF CoverInv, WaysAreQueued
    <3>3. QED BY <3>1, <3>2
  <2>5. QED BY <1>5, <2>4 DEF WaysAreQueued
<1>15. SteadyFilesAreThere'
  <2>1. \A f : Exists(f)' = Exists(f) /\ Reachable(DirOf[f])' = Reachable(DirOf[f])
    BY <1>5 DEF Exists, Reachable
  <2>2. \A x \in Roots : InTree(x)' = InTree(x)
    BY DEF InTree
  <2>3. QED BY <1>4, <2>1, <2>2 DEF CoverInv, SteadyFilesAreThere
<1>16. QED
  BY <1>8, <1>9, <1>10, <1>11, <1>12, <1>13, <1>14, <1>15 DEF CoverInv

\* What may happen to an entry outside the steps on its file.
EntryStays(f, e) ==
  /\ e.error = index[f].error /\ e.signature = index[f].signature
  /\ e.content = index[f].content /\ e.policy = index[f].policy
  /\ e.context = index[f].context
  /\ e = NoEntry <=> index[f] = NoEntry

\* A pass stays where it is, or it ends; its cursor stays or is closed with its pass.
PassStays(x) ==
  /\ job'[x] \in {job[x], NoPass}
  /\ \/ cursor'[x].pending = cursor[x].pending
     \/ /\ cursor'[x].pending = {}
        /\ job'[x].pc \notin {"check", "record", "look", "read", "scan", "save"}

\* The tables keep what they say of the roots that are still watched.
TablesStay ==
  /\ context' = context /\ watched' \subseteq watched /\ policy <= policy' /\ policy' \in Nat
  /\ \A x \in Roots : /\ seen'[x] \subseteq seen[x] /\ since[x] \subseteq since'[x]
                      /\ steady'[x] \subseteq steady[x]
                      /\ x \in watched' => walk'[x] = walk[x] /\ seen'[x] = seen[x]
  /\ \A f \in Files : \/ EntryStays(f, index'[f])
                      \/ /\ index'[f] = NoEntry
                         /\ \A x \in watched' : f \notin seen'[x]

\* The disk stays known to the history, and no cycle comes further.
DiskStays ==
  /\ \A f \in Files : Exists(f)' =>
       /\ file'[f].content \in Contents
       /\ \A x \in Roots : context[x] # 0 => <<f, file'[f].content>> \in since'[x]
  /\ \A x \in Roots : \A f \in steady'[x] : Exists(f)' /\ Reachable(DirOf[f])'
  /\ \A x \in watched' : /\ cursor'[x].dir \in {cursor[x].dir, "none"}
                         /\ cursor'[x].dir # "none" => cursor[x].todo \subseteq cursor'[x].todo
                                                       /\ cursor'[x].pending = cursor[x].pending

\* A step outside the cycles keeps the invariant.
LEMMA OutsideCovers ==
  ASSUME IndexInv, CoverInv, \A x \in Roots : PassStays(x), TablesStay, DiskStays
  PROVE  CoverInv'
<1>0. /\ watched \subseteq Roots /\ watched' \subseteq watched /\ policy \in Nat
      /\ context' = context /\ context \in [Roots -> Nat]
      /\ policy <= policy' /\ policy' \in Nat /\ policy # 0
  BY DEF IndexInv, TypeOK, TablesStay, CoverInv, EntriesAreOfTheirTime
<1>1. /\ NoPass.pc = "idle" /\ NoPass.cached = NoEntry /\ NoPass.context = 0
      /\ NoPass.status = "RUNNING" /\ NoPass.drained = FALSE
      /\ NoEntry.error = FALSE /\ NoEntry.policy = 0 /\ NoEntry.context = 0
  BY DEF NoPass, NoEntry
<1>2. \A x \in Roots : cursor'[x].pending \subseteq cursor[x].pending
  BY DEF PassStays
<1>3. \A x \in Roots : job'[x].pc # "idle" => job'[x] = job[x]
  BY <1>1 DEF PassStays
<1>4. \A x \in Roots : \A p \in cursor[x].pending : p \in HandType /\ p.file \in Files
  BY DEF IndexInv, TypeOK, CursorType, HandType
<1>5. PassesBelong'
  <2> SUFFICES ASSUME NEW x \in Roots
               PROVE  /\ PassBelongs(x, job[x])'
                      /\ context'[x] <= policy'
                      /\ job'[x].pc \in {"look", "read", "scan", "save"} /\ x \in watched'
                           => InHand(x)'.file \in seen'[x]
    BY DEF PassesBelong
  <2>1. context'[x] <= policy'
    BY <1>0 DEF CoverInv, PassesBelong
  <2>2. PassBelongs(x, job'[x])
    <3>1. CASE job'[x] = job[x]
      BY <3>1 DEF CoverInv, PassesBelong
    <3>2. CASE job'[x] = NoPass
      BY <1>0, <1>1, <3>2 DEF PassBelongs
    <3>3. QED BY <3>1, <3>2 DEF PassStays
  <2>3. job'[x].context \in Nat
    <3>1. job[x].context \in Nat
      BY PartTypes
    <3>2. QED BY <1>1, <3>1 DEF PassStays
  <2>4. PassBelongs(x, job[x])'
    BY <1>0, <2>2, <2>3 DEF PassBelongs
  <2>5. ASSUME job'[x].pc \in {"look", "read", "scan", "save"}, x \in watched'
        PROVE  InHand(x)'.file \in seen'[x]
    <3>1. job'[x] = job[x] /\ cursor'[x].pending = cursor[x].pending
      BY <1>3, <2>5 DEF PassStays
    <3>2. InHand(x)' = InHand(x)
      BY <3>1 DEF InHand
    <3>3. InHand(x).file \in seen[x]
      BY <1>0, <2>5, <3>1 DEF CoverInv, PassesBelong
    <3>4. QED BY <2>5, <3>2, <3>3 DEF TablesStay
  <2>6. QED BY <2>1, <2>4, <2>5
<1>6. EntriesAreOfTheirTime'
  <2>1. \A f \in Files : index'[f].error \/ index'[f].policy >= index'[f].context
    BY <1>1 DEF TablesStay, EntryStays, CoverInv, EntriesAreOfTheirTime
  <2>2. \A x \in Roots : job'[x].cached.error \/ job'[x].cached.policy >= job'[x].cached.context
    BY <1>1 DEF PassStays, CoverInv, EntriesAreOfTheirTime
  <2>3. QED BY <1>0, <2>1, <2>2 DEF EntriesAreOfTheirTime
<1>7. HistoryKnows'
  <2>1. \A x \in Roots : \A f : Known(x, f) => Known(x, f)'
    BY DEF Known, TablesStay
  <2>2. ASSUME NEW x \in Roots
        PROVE  /\ context'[x] # 0 => \A f \in Files : Exists(f)' => <<f, file'[f].content>> \in since'[x]
               /\ steady'[x] # {} \/ cursor'[x].pending # {} => context'[x] # 0
               /\ \A f \in seen'[x] : Known(x, f)'
               /\ \A p \in cursor'[x].pending : Known(x, p.file)'
    <3>1. /\ steady[x] # {} \/ cursor[x].pending # {} => context[x] # 0
          /\ \A f \in seen[x] : Known(x, f)
          /\ \A p \in cursor[x].pending : Known(x, p.file)
      BY DEF CoverInv, HistoryKnows
    <3>2. seen'[x] \subseteq seen[x] /\ steady'[x] \subseteq steady[x]
      BY DEF TablesStay
    <3>3. QED BY <1>0, <1>2, <2>1, <3>1, <3>2 DEF DiskStays
  <2>3. \A f \in Files : Exists(f)' => file'[f].content \in Contents
    BY DEF DiskStays
  <2>4. QED BY <2>2, <2>3 DEF HistoryKnows
<1>8. HandsKnown'
  <2> SUFFICES ASSUME NEW x \in Roots, NEW p \in cursor'[x].pending
               PROVE  /\ \/ index'[p.file] = NoEntry \/ index'[p.file].error
                         \/ index'[p.file].signature # p.signature
                         \/ <<p.file, index'[p.file].content>> \in since'[x]
                      /\ \A s \in Roots : \A q \in cursor'[s].pending :
                           job'[s].pc \in {"scan", "save"} /\ q.file = p.file /\ q.signature = p.signature
                             => <<p.file, job'[s].content>> \in since'[x]
    BY DEF HandsKnown
  <2>1. p \in cursor[x].pending /\ p.file \in Files /\ since[x] \subseteq since'[x]
    BY <1>2, <1>4 DEF TablesStay
  <2>2. \/ index'[p.file] = NoEntry \/ index'[p.file].error
        \/ index'[p.file].signature # p.signature
        \/ <<p.file, index'[p.file].content>> \in since'[x]
    BY <2>1 DEF TablesStay, EntryStays, CoverInv, HandsKnown
  <2>3. ASSUME NEW s \in Roots, NEW q \in cursor'[s].pending,
               job'[s].pc \in {"scan", "save"}, q.file = p.file, q.signature = p.signature
        PROVE  <<p.file, job'[s].content>> \in since'[x]
    <3>1. q \in cursor[s].pending /\ job'[s] = job[s]
      BY <1>2, <1>3, <2>3
    <3>2. QED BY <2>1, <2>3, <3>1 DEF CoverInv, HandsKnown
  <2>4. QED BY <2>2, <2>3
<1>9. FilesAreLocked'
  BY <1>2, <1>3 DEF CoverInv, FilesAreLocked
<1>10. HandledFilesServed'
  <2> SUFFICES ASSUME NEW x \in watched', NEW f \in steady'[x], Handled(x, f)'
               PROVE  f \in seen'[x] /\ Serves(x, f)' /\ \A s \in Roots : WillServe(x, f, s)'
    BY DEF HandledFilesServed
  <2>1. /\ x \in Roots /\ x \in watched /\ f \in steady[x] /\ f \in Files
        /\ walk'[x] = walk[x] /\ seen'[x] = seen[x] /\ since[x] \subseteq since'[x]
    BY <1>0 DEF TablesStay, IndexInv, TypeOK
  <2>2. Handled(x, f)
    <3>1. DirOf[f] # "none"
      BY <2>1, TreeAssumption
    <3>2. QED BY <2>1, <3>1 DEF Handled, DiskStays
  <2>3. f \in seen[x] /\ Serves(x, f) /\ \A s \in Roots : WillServe(x, f, s)
    BY <2>1, <2>2 DEF CoverInv, HandledFilesServed
  <2>4. EntryStays(f, index'[f])
    BY <2>1, <2>3 DEF TablesStay
  <2>5. Serves(x, f)'
    BY <1>0, <2>1, <2>3, <2>4 DEF Serves, EntryStays
  <2>6. ASSUME NEW s \in Roots PROVE WillServe(x, f, s)'
    <3>1. job'[s].pc \in {"read", "scan", "save"} => job'[s] = job[s]
      BY <1>1, <1>3
    <3>2. WillServe(x, f, s)
      BY <2>3
    <3>3. QED BY <1>0, <1>2, <2>1, <3>1, <3>2 DEF WillServe, Usable
  <2>7. QED BY <2>1, <2>3, <2>5, <2>6
<1>11. WaysAreQueued'
  <2> SUFFICES ASSUME NEW x \in watched'
               PROVE  /\ context'[x] # 0 => walk'[x][TopOf[x]] # "none"
                      /\ x \in Recursive =>
                           \A f \in steady'[x], y \in Dirs :
                             /\ DirOf[f] \in Under(y)
                             /\ ParentOf[y] \in Dirs
                             /\ \/ walk'[x][ParentOf[y]] = "DONE"
                                \/ cursor'[x].dir = ParentOf[y] /\ y \notin cursor'[x].todo
                             => walk'[x][y] # "none"
    BY DEF WaysAreQueued
  <2>1. x \in Roots /\ x \in watched /\ walk'[x] = walk[x] /\ steady'[x] \subseteq steady[x]
    BY <1>0 DEF TablesStay
  <2>2. \A y \in Dirs : cursor'[x].dir = y /\ y # "none" =>
          cursor[x].dir = y /\ cursor[x].todo \subseteq cursor'[x].todo
    BY DEF DiskStays
  <2>3. "none" \notin Dirs
    BY TreeAssumption
  <2>4. QED BY <1>0, <2>1, <2>2, <2>3 DEF CoverInv, WaysAreQueued
<1>12. SteadyFilesAreThere'
  BY DEF CoverInv, SteadyFilesAreThere, DiskStays, TablesStay, InTree
<1>13. QED
  BY <1>5, <1>6, <1>7, <1>8, <1>9, <1>10, <1>11, <1>12 DEF CoverInv

\* Entries are the same, or no row names their file.
LEMMA PrunedStay ==
  ASSUME NEW rows, NEW f \in Files, \A x \in watched' : x \in Roots /\ seen'[x] \subseteq rows[x],
         index' = Pruned(rows)
  PROVE  EntryStays(f, index'[f]) \/ (index'[f] = NoEntry /\ \A x \in watched' : f \notin seen'[x])
BY DEF Pruned, EntryStays

\* The end of a pass, and what happens beside the passes, keep the invariant.
LEMMA OutsideCovered ==
  ASSUME IndexInv, CoverInv,
         \/ \E r \in Roots : Publish(r) \/ RemoveRoot(r)
         \/ Stop \/ Restart \/ SetPolicy
         \/ \E f \in Files : RetryDue(f) \/ DeleteFile(f)
         \/ \E f \in Files, content \in Contents : WriteFile(f, content)
         \/ \E d \in Dirs : BreakDirectory(d) \/ RepairDirectory(d)
  PROVE  CoverInv'
<1>0. /\ watched \subseteq Roots /\ policy \in Nat /\ policy <= policy
      /\ context \in [Roots -> Nat] /\ seen \in [Roots -> SUBSET Files]
      /\ old \in [Roots -> SUBSET Files] /\ DOMAIN since = Roots
      /\ job \in [Roots -> PassType] /\ cursor \in [Roots -> CursorType]
      /\ index \in [Files -> EntryType] /\ steady \in [Roots -> SUBSET Files]
  BY DEF IndexInv, TypeOK
<1>1. NoCursor.pending = {} /\ NoCursor.dir = "none" /\ NoPass.pc = "idle"
  BY DEF NoCursor, NoPass
<1>2. \A f \in Files : Exists(f) =>
        /\ file[f].content \in Contents
        /\ \A x \in Roots : context[x] # 0 => <<f, file[f].content>> \in since[x]
  BY DEF CoverInv, HistoryKnows
<1>3. \A x \in Roots : \A f \in steady[x] : Exists(f) /\ Reachable(DirOf[f])
  BY DEF CoverInv, SteadyFilesAreThere
<1>4. UNCHANGED <<file, broken, context, since, steady>> =>
        /\ \A f \in Files : Exists(f)' =>
             /\ file'[f].content \in Contents
             /\ \A x \in Roots : context[x] # 0 => <<f, file'[f].content>> \in since'[x]
        /\ \A x \in Roots : \A f \in steady'[x] : Exists(f)' /\ Reachable(DirOf[f])'
  <2> SUFFICES ASSUME UNCHANGED <<file, broken, context, since, steady>>
               PROVE  /\ \A f \in Files : Exists(f)' =>
                           /\ file'[f].content \in Contents
                           /\ \A x \in Roots : context[x] # 0 => <<f, file'[f].content>> \in since'[x]
                      /\ \A x \in Roots : \A f \in steady'[x] : Exists(f)' /\ Reachable(DirOf[f])'
    OBVIOUS
  <2>1. \A f : Exists(f)' = Exists(f) /\ Reachable(DirOf[f])' = Reachable(DirOf[f])
    BY DEF Exists, Reachable
  <2>2. QED BY <1>2, <1>3, <2>1
<1>5. \A f \in Files : index'[f] = index[f] => EntryStays(f, index'[f])
  BY DEF EntryStays
<1>6. UNCHANGED cursor \/ cursor' = [r \in Roots |-> NoCursor] =>
        \A x \in watched' : x \in Roots =>
          /\ cursor'[x].dir \in {cursor[x].dir, "none"}
          /\ cursor'[x].dir # "none" => cursor[x].todo \subseteq cursor'[x].todo
                                         /\ cursor'[x].pending = cursor[x].pending
  BY <1>1
<1>7. ASSUME NEW r \in Roots, Publish(r) PROVE CoverInv'
  <2>1. /\ UNCHANGED <<file, broken, policy, watched, context, since, steady, seen, walk, cursor>>
        /\ job' = [job EXCEPT ![r] = NoPass]
    BY <1>7 DEF Publish, disk, history, PassIs
  <2>2. \A x \in Roots : PassStays(x)
    BY <1>0, <2>1 DEF PassStays
  <2>3. \A f \in Files : \/ EntryStays(f, index'[f])
                         \/ index'[f] = NoEntry /\ \A x \in watched' : f \notin seen'[x]
    <3>1. CASE UNCHANGED index
      BY <1>5, <3>1
    <3>2. CASE ~UNCHANGED index
      <4> DEFINE rows == [x \in Roots |-> seen[x] \cup old'[x]]
      <4>1. index' = Pruned(rows)
        BY <1>7, <3>2 DEF Publish
      <4>2. \A x \in watched' : x \in Roots /\ seen'[x] \subseteq rows[x]
        BY <1>0, <2>1
      <4> HIDE DEF rows
      <4>3. QED BY <4>1, <4>2, PrunedStay
    <3>3. QED BY <3>1, <3>2
  <2>4. TablesStay
    BY <1>0, <2>1, <2>3 DEF TablesStay
  <2>5. DiskStays
    BY <1>0, <1>4, <1>6, <2>1 DEF DiskStays
  <2>6. QED BY <2>2, <2>4, <2>5, OutsideCovers
<1>8. ASSUME NEW r \in Roots, RemoveRoot(r) PROVE CoverInv'
  <2>1. /\ UNCHANGED <<file, broken, policy, context, since, steady, job>>
        /\ watched' = watched \ {r}
    BY <1>8 DEF RemoveRoot, disk, history
  <2>2. \A x \in Roots : /\ seen'[x] = IF x = r THEN {} ELSE seen[x]
                         /\ x # r => walk'[x] = walk[x]
                         /\ \/ cursor'[x] = cursor[x]
                            \/ x = r /\ cursor'[x] = NoCursor /\ job[x].pc = "idle"
    BY <1>0, <1>8 DEF RemoveRoot, At, IndexInv, TypeOK
  <2>3. \A x \in Roots : PassStays(x)
    BY <1>1, <2>1, <2>2 DEF PassStays
  <2>4. \A f \in Files : \/ EntryStays(f, index'[f])
                         \/ index'[f] = NoEntry /\ \A x \in watched' : f \notin seen'[x]
    <3> DEFINE rows == [x \in Roots |-> seen'[x] \cup old'[x]]
    <3>1. index' = Pruned(rows)
      BY <1>8 DEF RemoveRoot
    <3>2. \A x \in watched' : x \in Roots /\ seen'[x] \subseteq rows[x]
      BY <1>0, <2>1
    <3> HIDE DEF rows
    <3>3. QED BY <3>1, <3>2, PrunedStay
  <2>5. TablesStay
    BY <1>0, <2>1, <2>2, <2>4 DEF TablesStay
  <2>6. DiskStays
    BY <1>0, <1>4, <2>1, <2>2 DEF DiskStays
  <2>7. QED BY <2>3, <2>5, <2>6, OutsideCovers
<1>9. CASE Stop \/ Restart
  <2>1. /\ UNCHANGED <<file, broken, policy, watched, context, since, steady, seen, walk, index>>
        /\ cursor' = [x \in Roots |-> NoCursor]
    BY <1>9 DEF Stop, Restart, disk, rootsTable, rootFiles, history
  <2>2. \A x \in Roots : PassStays(x)
    BY <1>1, <1>9, <2>1 DEF Stop, Restart, At, PassStays
  <2>3. TablesStay
    BY <1>0, <1>5, <2>1 DEF TablesStay
  <2>4. DiskStays
    BY <1>0, <1>4, <1>6, <2>1 DEF DiskStays
  <2>5. QED BY <2>2, <2>3, <2>4, OutsideCovers
<1>10. ASSUME NEW g \in Files, RetryDue(g) PROVE CoverInv'
  <2>1. /\ UNCHANGED <<file, broken, policy, watched, context, since, steady, seen, walk, cursor, job>>
        /\ index' = [index EXCEPT ![g].retry = "due"] /\ index[g].retry = "wait"
    BY <1>10 DEF RetryDue, disk, rootsTable, rootFiles, history
  <2>2. \A x \in Roots : PassStays(x)
    BY <2>1 DEF PassStays
  <2>3. \A f \in Files : EntryStays(f, index'[f])
    <3>1. EntryStays(g, index'[g])
      BY <1>0, <2>1 DEF EntryStays, EntryType, NoEntry
    <3>2. \A f \in Files : f # g => index'[f] = index[f]
      BY <1>0, <2>1
    <3>3. QED BY <1>5, <3>1, <3>2
  <2>4. TablesStay
    BY <1>0, <2>1, <2>3 DEF TablesStay
  <2>5. DiskStays
    BY <1>0, <1>4, <1>6, <2>1 DEF DiskStays
  <2>6. QED BY <2>2, <2>4, <2>5, OutsideCovers
<1>11. CASE SetPolicy
  <2>1. /\ UNCHANGED <<file, broken, watched, context, since, steady, seen, walk, cursor, job, index>>
        /\ policy' = policy + 1
    BY <1>11 DEF SetPolicy, rootsTable, rootFiles, history
  <2>2. \A x \in Roots : PassStays(x)
    BY <2>1 DEF PassStays
  <2>3. TablesStay
    BY <1>0, <1>5, <2>1 DEF TablesStay
  <2>4. DiskStays
    BY <1>0, <1>4, <1>6, <2>1 DEF DiskStays
  <2>5. QED BY <2>2, <2>3, <2>4, OutsideCovers
<1>12. ASSUME NEW g \in Files, DeleteFile(g) PROVE CoverInv'
  <2>1. /\ UNCHANGED <<broken, policy, watched, context, since, seen, walk, cursor, job, index>>
        /\ file' = [file EXCEPT ![g] = Gone]
        /\ \A x \in Roots : steady'[x] = steady[x] \ {g}
    BY <1>12 DEF DeleteFile, rootsTable, rootFiles
  <2>2. \A x \in Roots : PassStays(x)
    BY <2>1 DEF PassStays
  <2>3. TablesStay
    BY <1>0, <1>5, <2>1 DEF TablesStay
  <2>4. \A f \in Files : /\ f # g => file'[f] = file[f] /\ Exists(f)' = Exists(f)
                         /\ f = g => ~Exists(f)'
    BY <2>1 DEF Exists, IndexInv, TypeOK
  <2>5. \A f : Reachable(DirOf[f])' = Reachable(DirOf[f])
    BY <2>1 DEF Reachable
  <2>6. DiskStays
    BY <1>0, <1>2, <1>3, <1>6, <2>1, <2>4, <2>5 DEF DiskStays
  <2>7. QED BY <2>2, <2>3, <2>6, OutsideCovers
<1>13. ASSUME NEW g \in Files, NEW content \in Contents, WriteFile(g, content) PROVE CoverInv'
  <2>1. /\ UNCHANGED <<broken, policy, watched, context, steady, seen, walk, job, index>>
        /\ file' = [file EXCEPT ![g] = [content |-> content, stamp |-> edits']]
        /\ \A x \in Roots : since'[x] = since[x] \cup {<<g, content>>}
    BY <1>13 DEF WriteFile, rootsTable, rootFiles
  <2>2. \A x \in Roots : /\ cursor'[x].pending = cursor[x].pending
                         /\ cursor'[x].dir = cursor[x].dir
                         /\ cursor[x].todo \subseteq cursor'[x].todo
    <3>1. \A x \in Roots :
            LET c == [cursor[x] EXCEPT !.todo = @ \cup {g}]
            IN  c.pending = cursor[x].pending /\ c.dir = cursor[x].dir
                /\ c.todo = cursor[x].todo \cup {g}
      BY <1>0 DEF CursorType
    <3>2. QED BY <1>13, <3>1 DEF WriteFile
  <2>3. \A x \in Roots : PassStays(x)
    BY <2>1, <2>2 DEF PassStays
  <2>4. TablesStay
    BY <1>0, <1>5, <2>1 DEF TablesStay
  <2>5. /\ \A f \in Files : f # g => file'[f] = file[f] /\ Exists(f)' = Exists(f)
        /\ file'[g].content = content /\ Exists(g)'
    <3>1. content # "gone"
      BY TreeAssumption
    <3>2. QED BY <2>1, <3>1 DEF Exists, Gone, IndexInv, TypeOK
  <2>6. \A f : Reachable(DirOf[f])' = Reachable(DirOf[f])
    BY <2>1 DEF Reachable
  <2>7. DiskStays
    BY <1>0, <1>2, <1>3, <2>1, <2>2, <2>5, <2>6 DEF DiskStays
  <2>8. QED BY <2>3, <2>4, <2>7, OutsideCovers
<1>14. ASSUME NEW d \in Dirs, BreakDirectory(d) \/ RepairDirectory(d) PROVE CoverInv'
  <2>1. /\ UNCHANGED <<file, policy, watched, context, since, seen, walk, cursor, job, index>>
        /\ \/ /\ broken' = broken \cup {d}
              /\ \A x \in Roots : steady'[x] = {f \in steady[x] : DirOf[f] \notin Under(d)}
           \/ broken' = broken \ {d} /\ UNCHANGED steady
    BY <1>14 DEF BreakDirectory, RepairDirectory, rootsTable, rootFiles, history
  <2>2. \A x \in Roots : PassStays(x)
    BY <2>1 DEF PassStays
  <2>3. TablesStay
    BY <1>0, <1>5, <2>1 DEF TablesStay
  <2>4. \A f \in Files : Exists(f)' = Exists(f)
    BY <2>1 DEF Exists
  <2>5. \A x \in Roots : \A f \in steady'[x] : Reachable(DirOf[f])'
    BY <1>3, <2>1 DEF Reachable
  <2>6. DiskStays
    BY <1>0, <1>2, <1>3, <1>6, <2>1, <2>4, <2>5 DEF DiskStays
  <2>7. QED BY <2>2, <2>3, <2>6, OutsideCovers
<1>15. QED BY <1>7, <1>8, <1>9, <1>10, <1>11, <1>12, <1>13, <1>14

\* Every step keeps the invariant of the cycles.
LEMMA CoverStep == IndexInv /\ CoverInv /\ [Next]_vars => CoverInv'
<1> SUFFICES ASSUME IndexInv, CoverInv, [Next]_vars PROVE CoverInv'
  OBVIOUS
<1>1. ASSUME NEW r \in Roots, Pass(r) PROVE CoverInv'
  <2>1. CASE \/ Begin(r) \/ BeginFails(r) \/ ContinueCycle(r) \/ CycleGone(r) \/ EnterRoot(r)
             \/ RootUnavailable(r) \/ Drained(r) \/ EntryLimit(r) \/ TimeLimit(r)
             \/ YieldPending(r) \/ Pause(r) \/ RootGone(r) \/ Wanted(r) \/ Abort(r)
    BY <2>1, MovesCovered
  <2>2. CASE \/ \E d \in Dirs : OpenDirectory(r, d) \/ DirectoryUnreadable(r, d) \/ NextDirectory(r, d)
             \/ \E f \in Files : NextFile(r, f)
             \/ \E x \in Files \cup Dirs : EntryVanished(r, x)
             \/ DirectoryChanged(r) \/ EndDirectory(r) \/ PublishNothing(r)
    BY <2>2, WalkStepsCovered
  <2>3. CASE \/ Record(r) \/ Look(r) \/ Read(r) \/ ReadFails(r) \/ Scan(r) \/ ScanFails(r) \/ Save(r)
    BY <2>3, FileStepsCovered, ReleasesCovered
  <2>4. CASE NewCycle(r) \/ Publish(r)
    BY <2>4, NewCycleCovered, OutsideCovered
  <2>5. QED BY <1>1, <2>1, <2>2, <2>3, <2>4 DEF Pass
<1>2. CASE UNCHANGED vars
  <2>1. /\ UNCHANGED <<file, broken, policy, watched, walk, context, seen, index, cursor, job>>
        /\ UNCHANGED <<since, steady>>
    BY <1>2 DEF vars
  <2>2. PassesBelong' /\ EntriesAreOfTheirTime'
    BY <2>1 DEF CoverInv, PassesBelong, PassBelongs, EntriesAreOfTheirTime, InHand
  <2>3. HistoryKnows' /\ HandsKnown' /\ FilesAreLocked'
    BY SMTT(20), <2>1 DEF CoverInv, HistoryKnows, HandsKnown, FilesAreLocked, Known, Exists
  <2>4. HandledFilesServed' /\ WaysAreQueued'
    BY <2>1 DEF CoverInv, HandledFilesServed, WaysAreQueued, Handled, Serves, WillServe, Usable
  <2>5. SteadyFilesAreThere'
    BY <2>1 DEF CoverInv, SteadyFilesAreThere, Exists, Reachable, InTree
  <2>6. QED BY <2>2, <2>3, <2>4, <2>5 DEF CoverInv
<1>3. QED BY <1>1, <1>2, OutsideCovered DEF Next

\* When all of its directories are done, so is the directory of every file that was
\* there during the cycle.
LEMMA DoneAllTheWay ==
  ASSUME IndexInv, CoverInv, NEW r \in watched, NEW f \in steady[r],
         context[r] # 0, Pending(r) = {}, FailedDirs(r) = {}
  PROVE  walk[r][DirOf[f]] = "DONE"
<1>1. /\ r \in Roots /\ f \in Files /\ DirOf[f] \in Dirs /\ TopOf[r] \in Dirs
      /\ ParentOf \in [Dirs -> Dirs \cup {"none"}] /\ "none" \notin Dirs
  BY TreeAssumption DEF IndexInv, TypeOK
<1>2. \A d \in Dirs : walk[r][d] \in {"none", "DONE"}
  BY <1>1 DEF Pending, FailedDirs, IndexInv, TypeOK
<1>3. walk[r][TopOf[r]] = "DONE"
  BY <1>1, <1>2 DEF CoverInv, WaysAreQueued
<1>4. DirOf[f] \in InTree(r)
  BY <1>1 DEF CoverInv, SteadyFilesAreThere
<1>5. CASE r \notin Recursive
  BY <1>3, <1>4, <1>5 DEF InTree
<1>6. CASE r \in Recursive
  <2> DEFINE S == {x \in Dirs : DirOf[f] \in Under(x) => walk[r][x] = "DONE"}
  <2>1. ASSUME NEW y \in Dirs, ParentOf[y] \in S PROVE y \in S
    <3> SUFFICES ASSUME DirOf[f] \in Under(y) PROVE walk[r][y] = "DONE"
      OBVIOUS
    <3>1. ParentOf[y] \in Dirs
      BY <2>1
    <3>2. DirOf[f] \in Under(ParentOf[y])
      BY <3>1 DEF Under
    <3>3. walk[r][ParentOf[y]] = "DONE"
      BY <2>1, <3>2
    <3>4. walk[r][y] # "none"
      BY <1>6, <3>1, <3>3 DEF CoverInv, WaysAreQueued
    <3>5. QED BY <1>2, <3>4
  <2>2. TopOf[r] \in S /\ S \in SUBSET Dirs
    BY <1>1, <1>3
  <2>3. DirOf[f] \in Under(TopOf[r])
    BY <1>4, <1>6 DEF InTree
  <2> HIDE DEF S
  <2>4. DirOf[f] \in S
    BY <2>1, <2>2, <2>3 DEF Under
  <2>5. DirOf[f] \in Under(DirOf[f])
    BY <1>1 DEF Under
  <2>6. QED BY <2>4, <2>5 DEF S
<1>7. QED BY <1>5, <1>6

\* What a pass that reports COMPLETED has found.
LEMMA CompletedFacts ==
  ASSUME IndexInv, CoverInv, NEW r \in Roots, PublishesComplete(r)
  PROVE  /\ r \in watched /\ Complete(r)
         /\ job[r].context = context[r] /\ context[r] # 0
<1>1. r \in watched /\ result'[r] = Status(r) /\ result'[r] = "COMPLETED"
  BY DEF PublishesComplete, Publish, IndexInv, TypeOK
<1>2. PassBelongs(r, job[r])
  BY DEF CoverInv, PassesBelong
<1>3. Complete(r)
  BY <1>1, <1>2 DEF Status, PassBelongs
<1>4. job[r].drained
  BY <1>3 DEF Complete, CycleComplete
<1>5. QED BY <1>1, <1>2, <1>3, <1>4 DEF PassBelongs

\* The inductive invariant of the cycles.
THEOREM CoverInvariant == Spec => [](IndexInv /\ CoverInv)
BY IndexInvInit, CoverInit, IndexInvStep, CoverStep, PTL DEF Spec

\* A root is reported COMPLETED only when its cycle has covered every file that was
\* there all the time (the promise in the docstring of filewatch.py), for any tree,
\* any number of roots, limits, failures, edits and restarts.
THEOREM CompletedCoversTheTree == Spec => CompletedMeansCovered
<1> DEFINE Covers == \A r \in Roots : PublishesComplete(r) => \A f \in steady[r] : CoveredBy(r, f)
<1>1. IndexInv /\ CoverInv /\ [Next]_vars => [Covers]_vars
  <2> SUFFICES ASSUME IndexInv, CoverInv, NEW r \in Roots, PublishesComplete(r),
                      NEW f \in steady[r]
               PROVE  CoveredBy(r, f)
    OBVIOUS
  <2>1. r \in watched /\ Complete(r) /\ job[r].context = context[r] /\ context[r] # 0
    BY CompletedFacts
  <2>2. Pending(r) = {} /\ FailedDirs(r) = {} /\ FailedFiles(r) = {}
    BY <2>1 DEF Complete, CycleComplete
  <2>3. walk[r][DirOf[f]] = "DONE"
    BY <2>1, <2>2, DoneAllTheWay
  <2>4. f \in seen[r] /\ Serves(r, f)
    BY <2>1, <2>3 DEF Handled, CoverInv, HandledFilesServed
  <2>5. ~index[f].error
    BY <2>2, <2>4 DEF FailedFiles
  <2>6. QED BY <2>1, <2>4, <2>5 DEF CoveredBy, Serves
<1>2. Spec => [][Covers]_vars
  BY <1>1, CoverInvariant, PTL DEF Spec
<1>3. QED BY <1>2 DEF CompletedMeansCovered

\* What a root lists after a completed cycle was there since the cycle began.
THEOREM CompletedListsTheLiving == Spec => CompletedForgetsTheGone
<1> DEFINE Forgets == \A r \in Roots : PublishesComplete(r) =>
                        \A f \in seen'[r] \cup old'[r] : \E c \in Contents : <<f, c>> \in since[r]
<1>1. IndexInv /\ CoverInv /\ [Next]_vars => [Forgets]_vars
  <2> SUFFICES ASSUME IndexInv, CoverInv, NEW r \in Roots, PublishesComplete(r),
                      NEW f \in seen'[r] \cup old'[r]
               PROVE  \E c \in Contents : <<f, c>> \in since[r]
    OBVIOUS
  <2>1. CycleComplete(r) /\ FailedDirs(r) = {}
    BY CompletedFacts DEF Complete
  <2>2. seen' = seen /\ old'[r] = {}
    BY <2>1 DEF PublishesComplete, Publish, IndexInv, TypeOK
  <2>3. Known(r, f)
    BY <2>2 DEF CoverInv, HistoryKnows
  <2>4. QED BY <2>3 DEF Known
<1>2. Spec => [][Forgets]_vars
  BY <1>1, CoverInvariant, PTL DEF Spec
<1>3. QED BY <1>2 DEF CompletedForgetsTheGone
=============================================================================
