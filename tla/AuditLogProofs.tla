--------------------------- MODULE AuditLogProofs ---------------------------
(***************************************************************************)
(* The safety properties of AuditLog for any payloads and any bounds.  All *)
(* follow from one inductive invariant, AuditInv: a proof (cached, kept by *)
(* a batch, or being confirmed) is true of the log as long as the counters *)
(* it was made under stand still.                                          *)
(***************************************************************************)
EXTENDS AuditLog, TLAPS

LEMMA HeadType ==
  ASSUME NEW log \in Rows
  PROVE  HashOf(log) \in Digests /\ HeadOf(log) \in Heads
<1>1. Genesis \in Digests
  BY DEF Genesis, Digests
<1>2. log # <<>> => log[Len(log)] \in RowSet
  BY DEF Rows
<1>3. HashOf(log) \in Digests
  BY <1>1, <1>2 DEF RowSet, HashOf
<1>4. QED
  BY <1>3 DEF HeadOf, Heads, Rows

\* Appending a linked row keeps the chain, the type and every earlier row.
LEMMA AppendLinked ==
  ASSUME NEW log \in Rows, ChainOK(log), NEW event \in Events
  PROVE  LET longer == Append(log, NewRow(HashOf(log), event))
         IN  /\ longer \in Rows
             /\ ChainOK(longer)
             /\ Extends(longer, log)
             /\ HeadOf(longer) = [sequence |-> Len(log) + 1,
                                  hash |-> NewRow(HashOf(log), event).hash]
<1> DEFINE row == NewRow(HashOf(log), event)
           longer == Append(log, row)
<1>1. HashOf(log) \in Digests
  BY HeadType
<1>2. row \in RowSet
  BY <1>1 DEF NewRow, Digest, Digests, RowSet
<1>3. longer \in Rows
  BY <1>2 DEF Rows
<1>4. /\ Len(longer) = Len(log) + 1
      /\ Len(log) \in Nat
      /\ longer[Len(log) + 1] = row
      /\ \A i \in 1..Len(log) : longer[i] = log[i]
      /\ DOMAIN longer = 1..(Len(log) + 1)
      /\ DOMAIN log = 1..Len(log)
  BY <1>2 DEF Rows
<1>5. row.hash = Digest(row.previous, row.event) /\ row.previous = HashOf(log)
  BY DEF NewRow
<1> HIDE DEF row, longer
<1>6. Extends(longer, log)
  BY <1>4 DEF Extends
<1>7. HashOf(log) = IF Len(log) + 1 = 1 THEN Genesis ELSE longer[Len(log)].hash
  <2>1. CASE log = <<>>
    BY <2>1, <1>4 DEF HashOf
  <2>2. CASE log # <<>>
    <3>1. Len(log) \in 1..Len(log)
      BY <2>2, <1>4 DEF Rows
    <3>2. QED
      BY <2>2, <3>1, <1>4 DEF HashOf
  <2>3. QED
    BY <2>1, <2>2
<1>8. ChainOK(longer)
  <2> SUFFICES ASSUME NEW i \in 1..(Len(log) + 1)
               PROVE  /\ longer[i].hash = Digest(longer[i].previous, longer[i].event)
                      /\ longer[i].previous
                           = IF i = 1 THEN Genesis ELSE longer[i - 1].hash
    BY <1>4 DEF ChainOK
  <2>1. CASE i \in 1..Len(log)
    <3>1. /\ log[i].hash = Digest(log[i].previous, log[i].event)
          /\ log[i].previous = IF i = 1 THEN Genesis ELSE log[i - 1].hash
      BY <2>1, <1>4 DEF ChainOK
    <3>2. longer[i] = log[i] /\ (i # 1 => longer[i - 1] = log[i - 1])
      BY <2>1, <1>4
    <3>3. QED
      BY <3>1, <3>2
  <2>2. CASE i = Len(log) + 1
    BY <2>2, <1>4, <1>5, <1>7
  <2>3. QED
    BY <2>1, <2>2, <1>4
<1>9. HeadOf(longer) = [sequence |-> Len(log) + 1, hash |-> row.hash]
  <2>1. longer # <<>>
    BY <1>4
  <2>2. QED
    BY <2>1, <1>4 DEF HeadOf, HashOf
<1>10. QED
  BY <1>3, <1>6, <1>8, <1>9 DEF row, longer

LEMMA ExtendsReflexive ==
  ASSUME NEW log \in Rows
  PROVE  Extends(log, log)
BY DEF Extends, Rows

LEMMA ExtendsTransitive ==
  ASSUME NEW a \in Rows, NEW b \in Rows, NEW c \in Rows,
         Extends(b, a), Extends(c, b)
  PROVE  Extends(c, a)
BY DEF Extends, Rows

LEMMA ChainEmpty == ChainOK(<<>>)
BY DEF ChainOK
-----------------------------------------------------------------------------
LEMMA ConstantTypes ==
  /\ Head0 \in Heads
  /\ NoEvidence \in EvidenceSet
  /\ Idle \in Calls
<1>1. Head0 \in Heads
  BY DEF Head0, Heads, Genesis, Digests
<1>2. NoEvidence \in EvidenceSet
  BY DEF NoEvidence, EvidenceSet, Contents
<1>3. QED
  BY <1>1, <1>2 DEF Idle, Calls, Caches

LEMMA InitInv == Init => AuditInv
<1> SUFFICES ASSUME Init PROVE AuditInv
  OBVIOUS
<1> USE DEF Init
<1>1. Head0 \in Heads /\ Idle \in Calls
  BY ConstantTypes
<1>4. TypeOK
  <2>1. <<>> \in Rows
    BY DEF Rows
  <2>2. QED
    BY <1>1, <2>1 DEF TypeOK, Contents, Caches
<1>5. ProofsHold /\ ScanHolds /\ ViewInv /\ CommittedInv /\ SealInv /\ DamageInv
  BY DEF ProofsHold, ScanHolds, ViewInv, CommittedInv, SealInv, DamageInv, Idle
<1>6. QED
  BY <1>4, <1>5 DEF AuditInv
-----------------------------------------------------------------------------
LEMMA EvidenceType == TypeOK => Evidence \in EvidenceSet
BY DEF TypeOK, Evidence, EvidenceSet

\* The fields of the call in flight, one by one.
LEMMA CallFields ==
  ASSUME TypeOK
  PROVE  /\ call.before \in EvidenceSet
         /\ call.base \in Heads
         /\ call.base.sequence \in Nat
         /\ call.base.hash \in Digests
         /\ call.kept \in Caches
         /\ call.appended \in BOOLEAN
         /\ call.before.changes \in Nat
         /\ call.before.dataVersion \in Nat
         /\ [evidence |-> call.before, head |-> call.base] \in Proofs
         /\ [evidence |-> Evidence, head |-> call.base] \in Proofs
<1>1. /\ call.before \in EvidenceSet
      /\ call.base \in Heads
      /\ call.kept \in Caches
      /\ call.appended \in BOOLEAN
  BY DEF TypeOK, Calls
<1>2. QED
  BY <1>1, EvidenceType DEF Heads, EvidenceSet, Proofs

\* A pc change leaves the call well formed; so does each local it sets.
LEMMA CallUpdates ==
  ASSUME TypeOK, NEW pc \in {"idle", "scan", "confirm", "ready", "commit", "committed",
                             "seal", "sealed", "batchSeal", "batchKeep"},
         NEW head \in Heads
  PROVE  /\ [call EXCEPT !.pc = pc] \in Calls
         /\ [call EXCEPT !.pc = pc, !.base = head] \in Calls
         /\ [call EXCEPT !.pc = pc, !.after = Evidence] \in Calls
         /\ [call EXCEPT !.appended = TRUE, !.base = head] \in Calls
         /\ \A ok \in BOOLEAN :
              [call EXCEPT !.pc = pc, !.scanOK = ok, !.base = head] \in Calls
BY EvidenceType DEF TypeOK, Calls

LEMMA AppendType ==
  ASSUME NEW log \in Rows, NEW previous \in Digests, NEW event \in Events
  PROVE  /\ Append(log, NewRow(previous, event)) \in Rows
         /\ NewRow(previous, event).hash \in Digests
<1>1. Digest(previous, event) \in Digests
  BY DEF Digest, Digests
<1>2. NewRow(previous, event) \in RowSet
  BY <1>1 DEF NewRow, RowSet
<1>3. QED
  BY <1>1, <1>2 DEF Rows, NewRow

\* Editing a payload or cutting the last row leaves a well formed table.
LEMMA OutsideRowsType ==
  ASSUME NEW log \in Rows, log # <<>>
  PROVE  /\ \A i \in DOMAIN log, event \in Events : [log EXCEPT ![i].event = event] \in Rows
         /\ SubSeq(log, 1, Len(log) - 1) \in Rows
<1>1. ASSUME NEW i \in DOMAIN log, NEW event \in Events
      PROVE  [log EXCEPT ![i].event = event] \in Rows
  <2>1. log[i] \in RowSet
    BY DEF Rows
  <2>2. [log[i] EXCEPT !.event = event] \in RowSet
    BY <2>1 DEF RowSet
  <2>3. QED
    BY <2>2 DEF Rows
<1>2. SubSeq(log, 1, Len(log) - 1) \in Rows
  BY DEF Rows
<1>3. QED
  BY <1>1, <1>2

LEMMA TypeStep == TypeOK /\ [Next]_vars => TypeOK'
<1> SUFFICES ASSUME TypeOK, [Next]_vars PROVE TypeOK'
  OBVIOUS
<1> USE DEF Contents, Caches
<1>a. /\ Head0 \in Heads
      /\ NoEvidence \in EvidenceSet
      /\ Idle \in Calls
      /\ Evidence \in EvidenceSet
  BY ConstantTypes, EvidenceType
<1>b. /\ call.base \in Heads
      /\ call.base.sequence \in Nat
      /\ call.base.hash \in Digests
      /\ call.kept \in Caches
      /\ [evidence |-> call.before, head |-> call.base] \in Proofs
      /\ [evidence |-> Evidence, head |-> call.base] \in Proofs
  BY CallFields
<1>1. CASE FastVerify
  BY <1>1 DEF TypeOK, storage, history, FastVerify
<1>2. CASE StartVerify
  <2>1. call' \in Calls
    BY <1>2, <1>a, <1>b DEF Calls, Idle, StartVerify
  <2>2. QED
    BY <2>1, <1>2, <1>a, <1>b DEF TypeOK, storage, history, StartVerify
<1>3. CASE Scan
  <2>1. /\ HeadOf(rows) \in Heads
        /\ HeadOf(view) \in Heads
    BY HeadType DEF TypeOK
  <2>2. \A log, c : ScanAccepts(log, c) \in BOOLEAN
    BY DEF ScanAccepts, Verifies
  <2>3. call' \in Calls
    BY <1>3, <2>1, <2>2, CallUpdates DEF Scan
  <2>4. QED
    BY <2>3, <1>3 DEF TypeOK, storage, history, Scan
<1>4. CASE ConfirmVerify
  BY <1>4, <1>a, <1>b DEF TypeOK, storage, history, ConfirmVerify, Return
<1>5. CASE ConfirmSettled
  BY <1>5, <1>a, <1>b DEF TypeOK, storage, history, ConfirmSettled, Return
<1>6. CASE DataWrite
  BY <1>6 DEF TypeOK, storage, history, DataWrite
<1>7. ASSUME NEW kind \in {"append", "batch"}, BeginUpdate(kind)
      PROVE  TypeOK'
  <2>1. \A proof \in cache : proof.head \in Heads
    BY DEF TypeOK, Proofs
  <2>2. \A proof \in cache :
          [Idle EXCEPT !.pc = "ready", !.op = kind, !.before = Evidence,
                       !.base = proof.head,
                       !.kept = IF kind = "batch" THEN cache ELSE {}] \in Calls
    BY ZenonT(30), <2>1, <1>a DEF TypeOK, Calls, Idle
  <2>3. [Idle EXCEPT !.pc = "scan", !.op = kind, !.before = Evidence] \in Calls
    BY <1>a DEF Calls, Idle
  <2>4. call' \in Calls
    BY <1>7, <2>2, <2>3 DEF BeginUpdate
  <2>5. QED
    BY <2>4, <1>7 DEF TypeOK, storage, history, BeginUpdate
<1>8. CASE ConfirmUpdate
  <2>1. call' \in Calls
    BY <1>8, <1>b, CallUpdates DEF ConfirmUpdate
  <2>2. QED
    BY <2>1, <1>8 DEF TypeOK, storage, history, ConfirmUpdate
<1>9. ASSUME Raise
      PROVE  TypeOK'
  BY <1>9, <1>a, <1>b DEF TypeOK, Raise, Return
<1>10. ASSUME NEW event \in Events, Insert(event)
       PROVE  TypeOK'
  <2>1. /\ view' \in Rows
        /\ NewRow(call.base.hash, event).hash \in Digests
    BY <1>10, <1>b, AppendType DEF Insert, TypeOK
  <2>2. [sequence |-> call.base.sequence + 1,
         hash |-> NewRow(call.base.hash, event).hash] \in Heads
    BY <2>1, <1>b DEF Heads
  <2>3. call' \in Calls
    BY <1>10, <2>2, CallUpdates DEF Insert
  <2>4. QED
    BY <2>1, <2>3, <1>10 DEF TypeOK, storage, history, Insert
<1>11. CASE Commit
  <2>1. call' \in Calls
    BY <1>11, <1>b, CallUpdates DEF Commit
  <2>2. QED
    BY <2>1, <1>11, <1>b DEF TypeOK, storage, history, Commit
<1>12. CASE ReadCommitted
  <2>1. call' \in Calls
    BY <1>12, <1>b, CallUpdates DEF ReadCommitted
  <2>2. QED
    BY <2>1, <1>12 DEF TypeOK, storage, history, ReadCommitted
<1>13. CASE Seal
  <2>1. call' \in Calls
    BY <1>13, <1>b, CallUpdates DEF Seal
  <2>2. QED
    BY <2>1, <1>13, <1>b DEF TypeOK, storage, history, Seal, WriteCheckpoint
<1>14. CASE Promote
  BY <1>14, <1>a, <1>b DEF TypeOK, storage, history, Promote, Return
<1>15. CASE Settle
  <2>1. call' \in Calls
    BY <1>15, <1>a, <1>b DEF Calls, Idle, Settle
  <2>2. QED
    BY <2>1, <1>15, <1>a, <1>b DEF TypeOK, storage, history, Settle
<1>16. CASE BatchWrite
  BY <1>16 DEF TypeOK, storage, history, BatchWrite
<1>17. ASSUME NEW event \in Events, BatchAppend(event)
       PROVE  TypeOK'
  <2>1. view' \in Rows
    BY <1>17, AppendType, HeadType DEF BatchAppend, TypeOK
  <2>2. call' \in Calls
    BY <1>17, <2>1, HeadType, CallUpdates DEF BatchAppend
  <2>3. QED
    BY <2>1, <2>2, <1>17 DEF TypeOK, storage, history, BatchAppend
<1>18. CASE BatchCommit
  <2>1. call' \in Calls
    BY <1>18, <1>a, CallUpdates DEF BatchCommit, Return
  <2>2. answer' \in {"none", "ok", "done", "error"}
    BY <1>18 DEF BatchCommit, Return, TypeOK
  <2>3. QED
    BY <2>1, <2>2, <1>18, <1>b DEF TypeOK, BatchCommit
<1>19. CASE BatchSeal
  BY <1>19, <1>a, <1>b DEF TypeOK, storage, history, BatchSeal, Return, WriteCheckpoint
<1>20. CASE BatchKeep
  BY <1>20, <1>a, <1>b DEF TypeOK, storage, history, BatchKeep, Return
<1>21. CASE Fail
  <2>1. CASE Raise
    BY <2>1, <1>9
  <2>2. CASE ~Raise
    BY <2>2, <1>21, <1>a DEF TypeOK, storage, history, Fail, Return
  <2>3. QED
    BY <2>1, <2>2
<1>22. CASE Restart
  BY <1>22, <1>a, <1>b DEF TypeOK, Restart, Return
<1>23. CASE OutsideWrite
  <2>1. rows \in Rows /\ rows # <<>>
    BY <1>23 DEF TypeOK, OutsideWrite
  <2>2. rows' = SubSeq(rows, 1, Len(rows) - 1) => rows' \in Rows
    BY <2>1, OutsideRowsType
  <2>3. (\E i \in DOMAIN rows, event \in Events :
           rows' = [rows EXCEPT ![i].event = event]) => rows' \in Rows
    <3> SUFFICES ASSUME NEW i \in DOMAIN rows, NEW event \in Events,
                        rows' = [rows EXCEPT ![i].event = event]
                 PROVE  rows' \in Rows
      OBVIOUS
    <3>1. [rows EXCEPT ![i].event = event] \in Rows
      BY <2>1, OutsideRowsType
    <3>2. QED
      BY <3>1
  <2>4. rows' \in Rows
    BY <1>23, <2>2, <2>3 DEF OutsideWrite
  <2>5. /\ view' = rows'
        /\ dataVersion' = dataVersion + 1
        /\ outside' = outside + 1
        /\ damaged' = FALSE
        /\ UNCHANGED <<inTxn, checkpoint, changes, cache, call, answer, signed, durable>>
    BY <1>23 DEF OutsideWrite
  <2>6. damaged' \in BOOLEAN
    BY <2>5
  <2>7. /\ view' \in Rows
        /\ dataVersion' \in Nat
        /\ outside' \in Nat
    BY <2>4, <2>5 DEF TypeOK
  <2>8. QED
    BY <2>4, <2>5, <2>6, <2>7 DEF TypeOK
<1>24. CASE OutsideCheckpoint
  <2>1. checkpoint' \in SUBSET Heads
    BY <1>24 DEF TypeOK, OutsideCheckpoint
  <2>2. /\ outside' = outside + 1
        /\ damaged' = FALSE
        /\ UNCHANGED <<storage, changes, dataVersion, cache, call, answer, signed, durable>>
    BY <1>24 DEF OutsideCheckpoint
  <2>3. damaged' \in BOOLEAN
    BY <2>2
  <2>4. outside' \in Nat
    BY <2>2 DEF TypeOK
  <2>5. QED
    BY <2>1, <2>2, <2>3, <2>4 DEF TypeOK, storage
<1>25. CASE UNCHANGED vars
  BY <1>25 DEF vars, TypeOK
<1>26. CASE Refuse
  BY <1>26, <1>9 DEF Refuse
<1>27. QED
  BY <1>1, <1>2, <1>3, <1>4, <1>5, <1>6, <1>7, <1>8, <1>10, <1>11, <1>12, <1>13,
     <1>14, <1>15, <1>16, <1>17, <1>18, <1>19, <1>20, <1>21, <1>22, <1>23, <1>24,
     <1>25, <1>26 DEF Next, BeginAppend, BeginBatch


\* A chain that is intact loses nothing by an append through the connection.
LEMMA AppendInView ==
  ASSUME NEW log \in Rows, NEW old \in Rows, NEW event \in Events,
         ChainOK(log), Extends(log, old)
  PROVE  LET longer == Append(log, NewRow(HashOf(log), event))
         IN  /\ longer \in Rows
             /\ ChainOK(longer)
             /\ Extends(longer, old)
             /\ HeadOf(longer) = [sequence |-> HeadOf(log).sequence + 1,
                                  hash |-> NewRow(HeadOf(log).hash, event).hash]
BY AppendLinked, ExtendsTransitive DEF HeadOf

StateInv == ProofsHold /\ ScanHolds /\ ViewInv /\ CommittedInv /\ SealInv /\ DamageInv

\* The call fields an EXCEPT of an action leaves alone are those of `call'.
LEMMA InvStep == AuditInv /\ TypeOK' /\ [Next]_vars => StateInv'
<1> SUFFICES ASSUME AuditInv, TypeOK', [Next]_vars PROVE StateInv'
  OBVIOUS
<1> USE DEF AuditInv, TypeOK, Calls, EvidenceSet, Proofs, Caches, storage, history,
            StateInv, ProofsHold, ScanHolds, ViewInv, CommittedInv, SealInv, DamageInv,
            ProofHolds, CountersUnmoved, Idle, NoEvidence, Evidence, LogVerifies, Verifies
<1>1. CASE FastVerify
  BY <1>1 DEF FastVerify
<1>2. CASE StartVerify
  BY <1>2 DEF StartVerify
<1>3. CASE Scan
  <2>1. view = rows
    BY <1>3 DEF Scan
  <2>2. /\ call'.pc = "confirm"
        /\ call'.scanOK = ScanAccepts(rows, call.before.checkpoint)
        /\ call'.base = HeadOf(rows)
        /\ call'.op = call.op
        /\ call'.before = call.before
        /\ call'.kept = call.kept
        /\ call'.appended = call.appended
    BY <1>3, <2>1 DEF Scan
  <2>3. call'.scanOK => ChainOK(rows) /\ call.before.checkpoint = {HeadOf(rows)}
    BY <2>2 DEF ScanAccepts
  <2>4. QED
    BY <1>3, <2>1, <2>2, <2>3 DEF Scan
<1>4. CASE ConfirmVerify
  BY <1>4 DEF ConfirmVerify, Return, Confirmed
<1>5. CASE ConfirmSettled
  BY <1>5 DEF ConfirmSettled, Return, Confirmed
<1>6. CASE DataWrite
  BY <1>6 DEF DataWrite
<1>7. ASSUME NEW kind \in {"append", "batch"}, BeginUpdate(kind) PROVE StateInv'
  <2>1. call.pc = "idle" /\ ~call.appended /\ view = rows
    BY <1>7 DEF BeginUpdate
  <2>2. view' = rows /\ Extends(rows, rows) /\ inTxn' = TRUE
    BY <1>7, <2>1, ExtendsReflexive DEF BeginUpdate
  <2>3. ASSUME NEW proof \in cache, ProofStands(proof),
               call' = [Idle EXCEPT !.pc = "ready", !.op = kind, !.before = Evidence,
                                    !.base = proof.head,
                                    !.kept = IF kind = "batch" THEN cache ELSE {}],
               UNCHANGED cache
        PROVE  StateInv'
    <3>1. /\ call'.pc = "ready" /\ call'.op = kind /\ ~call'.appended
          /\ call'.before = Evidence /\ call'.base = proof.head
          /\ call'.kept \subseteq cache /\ (kind = "batch" \/ call'.kept = {})
      BY <2>3
    <3>2. UNCHANGED <<rows, checkpoint, changes, dataVersion, history>>
      BY <1>7 DEF BeginUpdate
    <3>3. proof.evidence = Evidence
      BY <2>3 DEF ProofStands
    <3>4. ProofsHold' /\ ScanHolds' /\ CommittedInv' /\ SealInv' /\ DamageInv'
      BY <2>1, <2>2, <2>3, <3>1, <3>2
    <3>5. ViewInv'
      BY <2>1, <2>2, <3>1, <3>2, <3>3
    <3>6. QED
      BY <3>4, <3>5
  <2>4. ASSUME call' = [Idle EXCEPT !.pc = "scan", !.op = kind, !.before = Evidence],
               cache' = {}
        PROVE  StateInv'
    <3>1. /\ call'.pc = "scan" /\ call'.op = kind /\ ~call'.appended
          /\ call'.before = Evidence /\ call'.kept = {}
      BY <2>4
    <3>2. UNCHANGED <<rows, checkpoint, changes, dataVersion, history>>
      BY <1>7 DEF BeginUpdate
    <3>3. QED
      BY <2>1, <2>2, <2>4, <3>1, <3>2
  <2>5. QED
    BY <1>7, <2>3, <2>4 DEF BeginUpdate
<1>8. CASE ConfirmUpdate
  <2>1. view = rows /\ Extends(rows, rows)
    BY <1>8, ExtendsReflexive DEF ConfirmUpdate
  <2>2. QED
    BY <1>8, <2>1 DEF ConfirmUpdate, Confirmed
<1>9. CASE Refuse
  BY <1>9 DEF Refuse, Raise, Return, Confirmed
<1>10. ASSUME NEW event \in Events, Insert(event) PROVE StateInv'
  <2>1. /\ view' = Append(view, NewRow(HashOf(view), event))
        /\ ChainOK(view') /\ Extends(view', rows)
        /\ call'.base = HeadOf(view')
    BY SMTT(20), <1>10, AppendInView DEF Insert, HeadOf
  <2>2. ProofsHold' /\ ScanHolds' /\ CommittedInv' /\ SealInv' /\ DamageInv'
    BY SMTT(20), <1>10, <2>1 DEF Insert
  <2>3. /\ call'.pc = "commit" /\ call'.op = "append" /\ ~call'.appended
        /\ call'.before = call.before /\ call'.kept = call.kept
        /\ UNCHANGED <<rows, inTxn, dataVersion>> /\ changes' = changes + 1
    BY <1>10 DEF Insert
  <2>4. inTxn /\ ChainOK(rows) /\ call.before.changes <= changes
        /\ call.before.dataVersion = dataVersion /\ call.kept = {}
    BY <1>10 DEF Insert
  <2>5. ViewInv'
    BY <2>1, <2>3, <2>4
  <2>6. QED
    BY <2>2, <2>5
<1>11. CASE Commit
  BY <1>11 DEF Commit
<1>12. CASE ReadCommitted
  BY <1>12 DEF ReadCommitted
<1>13. CASE Seal
  BY <1>13 DEF Seal, WriteCheckpoint
<1>14. CASE Promote
  BY <1>14 DEF Promote, Return, Promotable
<1>15. CASE Settle
  BY <1>15 DEF Settle
<1>16. CASE BatchWrite
  BY <1>16 DEF BatchWrite
<1>17. ASSUME NEW event \in Events, BatchAppend(event) PROVE StateInv'
  <2>1. /\ view' = Append(view, NewRow(HashOf(view), event))
        /\ ChainOK(view') /\ Extends(view', rows)
        /\ call'.base = HeadOf(view')
    BY <1>17, AppendInView DEF BatchAppend
  <2>2. ProofsHold' /\ ScanHolds' /\ CommittedInv' /\ SealInv' /\ DamageInv'
    BY SMTT(20), <1>17, <2>1 DEF BatchAppend
  <2>3. ViewInv'
    BY SMTT(20), <1>17, <2>1 DEF BatchAppend
  <2>4. QED
    BY <2>2, <2>3
<1>18. CASE BatchCommit
  BY <1>18 DEF BatchCommit, Return
<1>19. CASE BatchSeal
  BY <1>19 DEF BatchSeal, Return, WriteCheckpoint
<1>20. CASE BatchKeep
  BY <1>20 DEF BatchKeep, Return
<1>21. CASE Fail
  BY <1>21 DEF Fail, Raise, Return
<1>22. CASE Restart
  BY <1>22 DEF Restart, Return
<1>23. CASE OutsideWrite
  BY <1>23 DEF OutsideWrite
<1>24. CASE OutsideCheckpoint
  BY <1>24 DEF OutsideCheckpoint
<1>25. CASE UNCHANGED vars
  BY <1>25 DEF vars
<1>26. QED
  BY <1>1, <1>2, <1>3, <1>4, <1>5, <1>6, <1>7, <1>8, <1>9, <1>10, <1>11, <1>12, <1>13,
     <1>14, <1>15, <1>16, <1>17, <1>18, <1>19, <1>20, <1>21, <1>22, <1>23, <1>24, <1>25
     DEF Next, BeginAppend, BeginBatch
-----------------------------------------------------------------------------
\* Every variable keeps its type in every reachable state, for any payloads
\* and any bounds.
THEOREM TypeCorrect == Spec => []TypeOK
<1>1. Init => TypeOK
  BY InitInv DEF AuditInv
<1>2. QED
  BY <1>1, TypeStep, PTL DEF Spec

\* The inductive invariant holds in every reachable state.
THEOREM AuditInvariant == Spec => []AuditInv
<1>1. AuditInv /\ [Next]_vars => AuditInv'
  BY TypeStep, InvStep DEF AuditInv, StateInv
<1>2. QED
  BY InitInv, <1>1, PTL DEF Spec

\* The fast path of verify_audit accepts only what a full verification would:
\* a cached proof with unchanged evidence is true of the log and checkpoint on
\* disk (verify_audit, _begin_verified_update).
THEOREM CacheIsSound == Spec => []CacheSound
<1>1. AuditInv => CacheSound
  BY DEF AuditInv, ProofsHold, ProofHolds, CountersUnmoved, CacheSound, Evidence,
         LogVerifies, Verifies
<1>2. QED
  BY <1>1, AuditInvariant, PTL

\* The signed checkpoint never runs ahead of the committed table: whatever the
\* stops and errors, append_audit and _atomic_updates sign only durable heads.
THEOREM CheckpointFollowsCommit == Spec => []CheckpointNamesDurableHead
<1>1. AuditInv => CheckpointNamesDurableHead
  BY DEF AuditInv, SealInv, CheckpointNamesDurableHead
<1>2. QED
  BY <1>1, AuditInvariant, PTL

\* A log left unverifiable by a stop or an error of this program is never
\* sealed over by a later call.
THEOREM DamageIsNotHidden == Spec => []DamageStaysRefused
<1>1. AuditInv => DamageStaysRefused
  BY DEF AuditInv, DamageInv, DamageStaysRefused
<1>2. QED
  BY <1>1, AuditInvariant, PTL

\* A commit of ours changes the table only when its whole chain is intact, and
\* then only extends it (append_audit, _atomic_updates).
THEOREM AppendsAreVerified == Spec => AppendsOnlyToVerifiedLog
<1> DEFINE Step == rows' # rows /\ dataVersion' = dataVersion
                     => ChainOK(rows) /\ ChainOK(rows') /\ Extends(rows', rows)
<1>1. AuditInv /\ [Next]_vars => [Step]_vars
  <2> SUFFICES ASSUME AuditInv, Next, rows' # rows, dataVersion' = dataVersion
               PROVE  ChainOK(rows) /\ ChainOK(rows') /\ Extends(rows', rows)
    BY DEF vars
  <2>1. CASE Commit
    BY <2>1 DEF AuditInv, ViewInv, Commit
  <2>2. CASE BatchCommit
    BY <2>2 DEF AuditInv, ViewInv, BatchCommit
  <2>3. ~OutsideWrite
    BY DEF OutsideWrite, AuditInv, TypeOK
  <2>4. QED
    BY <2>1, <2>2, <2>3 DEF Next, storage, history, FastVerify, StartVerify, Scan,
       ConfirmVerify, ConfirmSettled, DataWrite, BeginAppend, BeginBatch, BeginUpdate,
       ConfirmUpdate, Refuse, Insert, ReadCommitted, Seal, Promote, Settle, BatchWrite,
       BatchAppend, BatchSeal, BatchKeep, Fail, Raise, Restart, OutsideCheckpoint
<1>2. QED
  BY <1>1, AuditInvariant, PTL DEF Spec, AppendsOnlyToVerifiedLog

\* When append_audit returns or verify_audit answers valid, the table and the
\* checkpoint on disk verify at that moment.
THEOREM AnswersHold == Spec => AnswersAreTrue
<1> DEFINE Step == answer # "ok" /\ answer' = "ok" => LogVerifies'
<1>1. AuditInv /\ [Next]_vars => [Step]_vars
  <2> SUFFICES ASSUME AuditInv, Next, answer # "ok", answer' = "ok"
               PROVE  LogVerifies'
    BY DEF vars
  <2> USE DEF AuditInv, TypeOK, Calls, EvidenceSet, LogVerifies, Verifies, Evidence,
              storage
  <2>1. CASE FastVerify
    BY <2>1 DEF FastVerify, ProofsHold, ProofHolds, CountersUnmoved
  <2>2. CASE ConfirmVerify
    BY <2>2 DEF ConfirmVerify, Return, Confirmed, ScanHolds, ProofHolds, CountersUnmoved
  <2>3. CASE ConfirmSettled
    BY <2>3 DEF ConfirmSettled, Return, Confirmed, ScanHolds, ProofHolds, CountersUnmoved
  <2>4. CASE Promote
    BY <2>4 DEF Promote, Return, Promotable, CommittedInv
  <2>5. QED
    BY <2>1, <2>2, <2>3, <2>4 DEF Next, history, StartVerify, Scan, DataWrite,
       BeginAppend, BeginBatch, BeginUpdate, ConfirmUpdate, Refuse, Insert, Commit,
       ReadCommitted, Seal, Settle, BatchWrite, BatchAppend, BatchCommit, BatchSeal,
       BatchKeep, Fail, Raise, Restart, Return, OutsideWrite, OutsideCheckpoint
<1>2. QED
  BY <1>1, AuditInvariant, PTL DEF Spec, AnswersAreTrue
=============================================================================
