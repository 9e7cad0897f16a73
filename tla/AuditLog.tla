------------------------------ MODULE AuditLog ------------------------------
(***************************************************************************)
(* The hash-chained audit table of GuardStore, its signed head checkpoint  *)
(* and the cache of the last verification (core.py 419-670).               *)
(*                                                                         *)
(* GuardStore runs every call under one re-entrant lock, so one call is in *)
(* flight at a time; `call' holds its local variables.  Other SQLite       *)
(* connections and other programs can change the database file (unless our *)
(* connection holds SQLite's write lock) and the checkpoint file (always), *)
(* and the process can stop between any two steps.                         *)
(*                                                                         *)
(* Abstractions.  A digest is the sequence of events it covers: it         *)
(* determines the payload and the previous digest, as a collision-free     *)
(* hash does, and its length is the sequence number.  A row whose payload  *)
(* was edited cannot be signed again without the key, so the hash check    *)
(* stands for hash and signature.  Evidence leaves out file metadata and   *)
(* schema counters, which can only make two evidences differ more often.   *)
(***************************************************************************)
EXTENDS Naturals, Sequences

CONSTANTS Events,      \* payloads of audit events
          MaxLen,      \* bound: rows of the audit table
          MaxChanges,  \* bound: rows written by one connection
          MaxOutside   \* bound: changes made by other programs

ASSUME BoundsAssumption ==
  /\ MaxLen \in Nat
  /\ MaxChanges \in Nat
  /\ MaxOutside \in Nat

VARIABLES
  rows,         \* committed audit table, in sequence order
  view,         \* audit table as our connection sees it
  inTxn,        \* our connection has a transaction open
  checkpoint,   \* content of audit-head.json: {head}, {} if it cannot be read
  changes,      \* total_changes of our connection
  dataVersion,  \* PRAGMA data_version: commits of other connections
  cache,        \* _audit_cache: {proof} or {} for None
  call,         \* the call in flight
  answer,       \* how the last finished call ended
  outside,      \* number of outside changes so far
  signed,       \* history: every checkpoint the key has signed
  durable,      \* history: every head a commit of ours made durable
  damaged       \* history: a stop or an error left a log that fails to verify

vars == <<rows, view, inTxn, checkpoint, changes, dataVersion, cache, call,
          answer, outside, signed, durable, damaged>>

storage == <<rows, view, inTxn>>
history == <<signed, durable, damaged>>
-----------------------------------------------------------------------------
Genesis == <<>>

\* sha256 of the canonical payload, which contains the previous digest.
Digest(previous, event) == Append(previous, event)

HashOf(log) == IF log = <<>> THEN Genesis ELSE log[Len(log)].hash

Head0 == [sequence |-> 0, hash |-> Genesis]

HeadOf(log) == [sequence |-> Len(log), hash |-> HashOf(log)]

NewRow(previous, event) ==
  [event |-> event, previous |-> previous, hash |-> Digest(previous, event)]

\* Every row carries the digest of its payload and links to its predecessor.
ChainOK(log) ==
  \A i \in DOMAIN log :
    /\ log[i].hash = Digest(log[i].previous, log[i].event)
    /\ log[i].previous = IF i = 1 THEN Genesis ELSE log[i - 1].hash

\* What a full verification of `log' against checkpoint content `c' accepts.
Verifies(log, c) == ChainOK(log) /\ c = {HeadOf(log)}

LogVerifies == Verifies(rows, checkpoint)

Evidence ==
  [changes |-> changes, dataVersion |-> dataVersion, checkpoint |-> checkpoint]

NoEvidence == [changes |-> 0, dataVersion |-> 0, checkpoint |-> {}]

Idle == [pc |-> "idle", op |-> "none", before |-> NoEvidence, base |-> Head0,
         scanOK |-> FALSE, after |-> NoEvidence, kept |-> {}, appended |-> FALSE]
-----------------------------------------------------------------------------
Init ==
  /\ rows = <<>>
  /\ view = <<>>
  /\ inTxn = FALSE
  /\ checkpoint = {Head0}
  /\ changes = 0
  /\ dataVersion = 0
  /\ cache = {}
  /\ call = Idle
  /\ answer = "none"
  /\ outside = 0
  /\ signed = {Head0}
  /\ durable = {Head0}
  /\ damaged = FALSE

\* A call returns or raises; its local variables are gone.
Return(result) == call' = Idle /\ answer' = result

\* The exit of a failing update: drop the proof and roll back.
Raise ==
  /\ Return("error")
  /\ cache' = {}
  /\ view' = rows
  /\ inTxn' = FALSE
  /\ damaged' = (damaged \/ ~LogVerifies)
  /\ UNCHANGED <<rows, checkpoint, changes, dataVersion, outside, signed, durable>>
-----------------------------------------------------------------------------
(* Verification *)

\* verify_audit(fast=True) finds its proof unchanged.
FastVerify ==
  /\ call = Idle
  /\ ~inTxn
  /\ \E proof \in cache : proof.evidence = Evidence
  /\ answer' = "ok"
  /\ UNCHANGED <<storage, checkpoint, changes, dataVersion, cache, call,
                 outside, history>>

\* A full verification starts by dropping the cached proof and reading the
\* evidence it will be compared with afterwards.
StartVerify ==
  /\ call = Idle
  /\ call' = [Idle EXCEPT !.pc = "scan", !.op = "verify", !.before = Evidence]
  /\ cache' = {}
  /\ answer' = "none"
  /\ UNCHANGED <<storage, checkpoint, changes, dataVersion, outside, history>>

\* A checkpoint comparison that was left out.
ScanAcceptsChainOnly(log, c) == ChainOK(log)

\* The verdict of the scan: chain, signatures, and the checkpoint read before.
ScanAccepts(log, c) == Verifies(log, c)

Scan ==
  /\ call.pc = "scan"
  /\ LET seen == IF inTxn THEN view ELSE rows
     IN  call' = [call EXCEPT !.pc = "confirm",
                              !.scanOK = ScanAccepts(seen, call.before.checkpoint),
                              !.base = HeadOf(seen)]
  /\ UNCHANGED <<storage, checkpoint, changes, dataVersion, cache, answer,
                 outside, history>>

\* The evidence is not compared again after the scan.
ScanOKOnly == call.scanOK

\* The scan accepted and nothing moved while it ran.
Confirmed == call.scanOK /\ call.before = Evidence

ConfirmVerify ==
  /\ call.pc = "confirm"
  /\ call.op = "verify"
  /\ Return(IF Confirmed THEN "ok" ELSE "error")
  /\ cache' = IF Confirmed /\ ~inTxn
              THEN {[evidence |-> call.before, head |-> call.base]} ELSE {}
  /\ UNCHANGED <<storage, checkpoint, changes, dataVersion, outside, history>>

\* _assert_audit at the end of an append that could not advance its proof.
ConfirmSettled ==
  /\ call.pc = "confirm"
  /\ call.op = "settle"
  /\ Confirmed
  /\ Return("ok")
  /\ cache' = IF inTxn THEN {} ELSE {[evidence |-> call.before, head |-> call.base]}
  /\ UNCHANGED <<storage, checkpoint, changes, dataVersion, outside, history>>
-----------------------------------------------------------------------------
(* Updates *)

\* A handler writes rows of other tables: SQLite opens the transaction that
\* the event of that handler, or of a later one if it raised, will commit.
DataWrite ==
  /\ call = Idle
  /\ changes < MaxChanges
  /\ inTxn' = TRUE
  /\ view' = IF inTxn THEN view ELSE rows
  /\ changes' = changes + 1
  /\ UNCHANGED <<rows, checkpoint, dataVersion, cache, call, answer, outside, history>>

\* The cached proof is reused whatever happened since it was made.
AnyProof(proof) == TRUE

\* Only an update that opened its own transaction may reuse the cached proof.
ProofStands(proof) == ~inTxn /\ proof.evidence = Evidence

\* _begin_verified_update: pin the writer, then reuse the proof or verify.
BeginUpdate(kind) ==
  /\ call = Idle
  /\ inTxn' = TRUE
  /\ view' = IF inTxn THEN view ELSE rows
  /\ answer' = "none"
  /\ \/ /\ \E proof \in cache :
             /\ ProofStands(proof)
             /\ call' = [Idle EXCEPT !.pc = "ready", !.op = kind, !.before = Evidence,
                                     !.base = proof.head,
                                     !.kept = IF kind = "batch" THEN cache ELSE {}]
        /\ UNCHANGED cache
     \/ /\ ~\E proof \in cache : ProofStands(proof)
        /\ call' = [Idle EXCEPT !.pc = "scan", !.op = kind, !.before = Evidence]
        /\ cache' = {}
  /\ UNCHANGED <<rows, checkpoint, changes, dataVersion, outside, history>>

BeginAppend == BeginUpdate("append")

BeginBatch == BeginUpdate("batch")

ConfirmUpdate ==
  /\ call.pc = "confirm"
  /\ call.op \in {"append", "batch"}
  /\ Confirmed
  /\ call' = [call EXCEPT !.pc = "ready"]
  /\ UNCHANGED <<storage, checkpoint, changes, dataVersion, cache, answer,
                 outside, history>>

\* Verification refused an update, or the closing check of an append failed.
Refuse ==
  /\ call.pc = "confirm"
  /\ call.op \in {"append", "batch", "settle"}
  /\ ~Confirmed
  /\ Raise

\* An insert whose checkpoint is written before its commit.
InsertSealedEarly(event) ==
  /\ call.pc = "ready"
  /\ call.op = "append"
  /\ Len(view) < MaxLen
  /\ changes < MaxChanges
  /\ view' = Append(view, NewRow(call.base.hash, event))
  /\ changes' = changes + 1
  /\ call' = [call EXCEPT !.pc = "commit", !.base = HeadOf(view')]
  /\ checkpoint' = {HeadOf(view')}
  /\ signed' = signed \cup checkpoint'
  /\ UNCHANGED <<rows, inTxn, dataVersion, cache, answer, outside, durable, damaged>>

\* append_audit outside a batch: the event extends the verified prefix.
Insert(event) ==
  /\ call.pc = "ready"
  /\ call.op = "append"
  /\ Len(view) < MaxLen
  /\ changes < MaxChanges
  /\ LET row == NewRow(call.base.hash, event)
     IN  /\ view' = Append(view, row)
         /\ call' = [call EXCEPT !.pc = "commit",
                                 !.base = [sequence |-> call.base.sequence + 1,
                                           hash |-> row.hash]]
  /\ changes' = changes + 1
  /\ UNCHANGED <<rows, inTxn, checkpoint, dataVersion, cache, answer, outside, history>>

\* Durable from here on, whatever happens to the checkpoint.
Commit ==
  /\ call.pc = "commit"
  /\ rows' = view
  /\ inTxn' = FALSE
  /\ cache' = {}
  /\ durable' = durable \cup {call.base}
  /\ call' = [call EXCEPT !.pc = "committed"]
  /\ UNCHANGED <<view, checkpoint, changes, dataVersion, answer, outside, signed, damaged>>

ReadCommitted ==
  /\ call.pc = "committed"
  /\ call' = [call EXCEPT !.pc = "seal", !.after = Evidence]
  /\ UNCHANGED <<storage, checkpoint, changes, dataVersion, cache, answer,
                 outside, history>>

\* _write_checkpoint: a new file replaces the old one in one rename.
WriteCheckpoint ==
  /\ checkpoint' = {call.base}
  /\ signed' = signed \cup {call.base}

Seal ==
  /\ call.pc = "seal"
  /\ WriteCheckpoint
  /\ call' = [call EXCEPT !.pc = "sealed"]
  /\ UNCHANGED <<storage, changes, dataVersion, cache, answer, outside,
                 durable, damaged>>

\* The counters are not compared with those the prefix was verified under.
CheckpointIsOurs == checkpoint = {call.base}

\* Nobody else wrote between the verification of the prefix and now.
Promotable ==
  /\ changes = call.after.changes
  /\ dataVersion = call.before.dataVersion
  /\ call.after.dataVersion = dataVersion
  /\ call.after.checkpoint = call.before.checkpoint
  /\ checkpoint = {call.base}

Promote ==
  /\ call.pc = "sealed"
  /\ Promotable
  /\ Return("ok")
  /\ cache' = {[evidence |-> Evidence, head |-> call.base]}
  /\ UNCHANGED <<storage, checkpoint, changes, dataVersion, outside, history>>

Settle ==
  /\ call.pc = "sealed"
  /\ ~Promotable
  /\ call' = [Idle EXCEPT !.pc = "scan", !.op = "settle", !.before = Evidence]
  /\ cache' = {}
  /\ UNCHANGED <<storage, checkpoint, changes, dataVersion, answer, outside, history>>
-----------------------------------------------------------------------------
(* Batches (_atomic_updates) *)

BatchWrite ==
  /\ call.pc = "ready"
  /\ call.op = "batch"
  /\ changes < MaxChanges
  /\ changes' = changes + 1
  /\ UNCHANGED <<storage, checkpoint, dataVersion, cache, call, answer, outside, history>>

\* append_audit inside a batch: sequence and digest come from the last row the
\* connection sees, and the checkpoint waits for the end of the batch.
BatchAppend(event) ==
  /\ call.pc = "ready"
  /\ call.op = "batch"
  /\ Len(view) < MaxLen
  /\ changes < MaxChanges
  /\ view' = Append(view, NewRow(HashOf(view), event))
  /\ call' = [call EXCEPT !.appended = TRUE, !.base = HeadOf(view')]
  /\ changes' = changes + 1
  /\ UNCHANGED <<rows, inTxn, checkpoint, dataVersion, cache, answer, outside, history>>

\* One commit for the batch; a proof can survive only if it changed nothing.
BatchCommit ==
  /\ call.pc = "ready"
  /\ call.op = "batch"
  /\ rows' = view
  /\ inTxn' = FALSE
  /\ cache' = {}
  /\ durable' = durable \cup {call.base}
  /\ IF call.appended
     THEN call' = [call EXCEPT !.pc = "batchSeal"] /\ UNCHANGED answer
     ELSE IF changes = call.before.changes /\ call.kept # {}
     THEN call' = [call EXCEPT !.pc = "batchKeep"] /\ UNCHANGED answer
     ELSE Return("done")
  /\ UNCHANGED <<view, checkpoint, changes, dataVersion, outside, signed, damaged>>

BatchSeal ==
  /\ call.pc = "batchSeal"
  /\ WriteCheckpoint
  /\ Return("done")
  /\ UNCHANGED <<storage, changes, dataVersion, cache, outside, durable, damaged>>

BatchKeep ==
  /\ call.pc = "batchKeep"
  /\ cache' = IF Evidence = call.before THEN call.kept ELSE {}
  /\ Return("done")
  /\ UNCHANGED <<storage, checkpoint, changes, dataVersion, outside, history>>
-----------------------------------------------------------------------------
(* Errors, stops and other programs *)

\* Any statement of an update can raise; verification alone turns an error
\* into an invalid answer and leaves an open transaction as it is.
Fail ==
  /\ call # Idle
  /\ \/ call.op # "verify" /\ Raise
     \/ /\ call.op = "verify"
        /\ Return("error")
        /\ UNCHANGED <<storage, checkpoint, changes, dataVersion, cache,
                       outside, history>>

\* The process stops and opens the store again: a new connection, no proof.  An
\* empty table without a checkpoint file gets its first checkpoint (line 394).
Restart ==
  /\ view' = rows
  /\ inTxn' = FALSE
  /\ changes' = 0
  /\ cache' = {}
  /\ Return("none")
  /\ checkpoint' = IF rows = <<>> /\ checkpoint = {} THEN {Head0} ELSE checkpoint
  /\ damaged' = (rows # <<>> /\ (damaged \/ ~LogVerifies))
  /\ UNCHANGED <<rows, dataVersion, outside, signed, durable>>

\* Another connection commits; SQLite excludes it while ours holds the lock.
OutsideWrite ==
  /\ ~inTxn
  /\ outside < MaxOutside
  /\ rows # <<>>
  /\ \/ \E i \in DOMAIN rows, event \in Events :
          rows' = [rows EXCEPT ![i].event = event]
     \/ rows' = SubSeq(rows, 1, Len(rows) - 1)
  /\ view' = rows'
  /\ dataVersion' = dataVersion + 1
  /\ outside' = outside + 1
  /\ damaged' = FALSE
  /\ UNCHANGED <<inTxn, checkpoint, changes, cache, call, answer, signed, durable>>

\* Another program removes the checkpoint or puts an earlier one back.
OutsideCheckpoint ==
  /\ outside < MaxOutside
  /\ checkpoint' \in {{}} \cup {{head} : head \in signed}
  /\ outside' = outside + 1
  /\ damaged' = FALSE
  /\ UNCHANGED <<storage, changes, dataVersion, cache, call, answer, signed, durable>>

Next ==
  \/ FastVerify
  \/ StartVerify
  \/ Scan
  \/ ConfirmVerify
  \/ ConfirmSettled
  \/ DataWrite
  \/ BeginAppend
  \/ BeginBatch
  \/ ConfirmUpdate
  \/ Refuse
  \/ \E event \in Events : Insert(event)
  \/ Commit
  \/ ReadCommitted
  \/ Seal
  \/ Promote
  \/ Settle
  \/ BatchWrite
  \/ \E event \in Events : BatchAppend(event)
  \/ BatchCommit
  \/ BatchSeal
  \/ BatchKeep
  \/ Fail
  \/ Restart
  \/ OutsideWrite
  \/ OutsideCheckpoint

Spec == Init /\ [][Next]_vars
-----------------------------------------------------------------------------
Digests == Seq(Events)
RowSet == [event : Events, previous : Digests, hash : Digests]
Rows == Seq(RowSet)
Heads == [sequence : Nat, hash : Digests]
Contents == SUBSET Heads
EvidenceSet == [changes : Nat, dataVersion : Nat, checkpoint : Contents]
Proofs == [evidence : EvidenceSet, head : Heads]
Caches == SUBSET Proofs

Calls == [pc : {"idle", "scan", "confirm", "ready", "commit", "committed",
                "seal", "sealed", "batchSeal", "batchKeep"},
          op : {"none", "verify", "append", "batch", "settle"},
          before : EvidenceSet, base : Heads, scanOK : BOOLEAN,
          after : EvidenceSet, kept : Caches, appended : BOOLEAN]

\* The values every variable ranges over.
TypeOK ==
  /\ rows \in Rows
  /\ view \in Rows
  /\ inTxn \in BOOLEAN
  /\ checkpoint \in Contents
  /\ changes \in Nat
  /\ dataVersion \in Nat
  /\ cache \in Caches
  /\ call \in Calls
  /\ answer \in {"none", "ok", "done", "error"}
  /\ outside \in Nat
  /\ signed \in SUBSET Heads
  /\ durable \in SUBSET Heads
  /\ damaged \in BOOLEAN

\* A cached proof whose evidence is unchanged is true of the log on disk: the
\* fast path of verify_audit never accepts what a full verification would not.
CacheSound ==
  \A proof \in cache :
    proof.evidence = Evidence => LogVerifies /\ proof.head = HeadOf(rows)

\* Every checkpoint the key ever signed names a head that was durable first: a
\* stop between the two writes leaves the checkpoint behind, never ahead.
CheckpointNamesDurableHead == signed \subseteq durable

\* A log that a stop or an error left unverifiable stays refused until somebody
\* outside repairs it: no later call seals over the gap.
DamageStaysRefused == damaged => ~LogVerifies

\* `log' is `old' with possibly more rows after it.
Extends(log, old) ==
  Len(old) <= Len(log) /\ \A i \in 1..Len(old) : log[i] = old[i]

\* A commit of ours only extends a log whose whole chain is intact, and keeps it.
AppendsOnlyToVerifiedLog ==
  [][rows' # rows /\ dataVersion' = dataVersion
       => /\ ChainOK(rows) /\ ChainOK(rows')
          /\ Extends(rows', rows)]_vars

(* What makes those properties inductive *)

CountersUnmoved(evidence) ==
  evidence.changes = changes /\ evidence.dataVersion = dataVersion

\* While the two counters stand still, the log is the one that was verified.
ProofHolds(evidence, head) ==
  /\ evidence.changes <= changes
  /\ evidence.dataVersion <= dataVersion
  /\ evidence.checkpoint = {head}
  /\ CountersUnmoved(evidence) => ChainOK(rows) /\ head = HeadOf(rows)

ProofsHold == \A proof \in cache \cup call.kept : ProofHolds(proof.evidence, proof.head)

\* A positive scan is as good as a proof until the call confirms it.
ScanHolds ==
  /\ call.pc \in {"scan", "confirm"} => /\ call.before.changes <= changes
                                        /\ call.before.dataVersion <= dataVersion
  /\ call.pc = "confirm" /\ call.scanOK => ProofHolds(call.before, call.base)

\* Uncommitted events exist only between an insert and its commit.
ViewInv ==
  /\ view # rows => inTxn /\ (call.pc = "commit" \/ (call.pc = "ready" /\ call.appended))
  /\ call.pc \in {"ready", "commit"} =>
       /\ inTxn
       /\ call.op \in {"append", "batch"}
       /\ ChainOK(rows)
       /\ ChainOK(view)
       /\ Extends(view, rows)
       /\ call.base = HeadOf(view)
       /\ call.before.changes <= changes
       /\ call.before.dataVersion = dataVersion
  /\ call.pc \in {"scan", "confirm"} /\ call.op \in {"append", "batch"} => inTxn
  /\ call.pc \in {"ready", "batchSeal"} /\ call.op = "append" => ~call.appended
  /\ call.pc \in {"scan", "confirm", "idle"} => ~call.appended
  /\ call.kept # {} => call.op = "batch" /\ call.pc \in {"ready", "batchKeep", "batchSeal"}
  /\ call.appended => \A proof \in call.kept : proof.evidence.changes < changes

\* After the commit, the new head is the log's unless somebody else wrote.
CommittedInv ==
  call.pc \in {"committed", "seal", "sealed"} =>
    /\ ~inTxn
    /\ call.before.dataVersion <= dataVersion
    /\ call.before.dataVersion = dataVersion => ChainOK(rows) /\ call.base = HeadOf(rows)

SealInv ==
  /\ signed \subseteq durable
  /\ call.pc \in {"committed", "seal", "sealed", "batchSeal"} => call.base \in durable

\* No proof and no admitted update exist while the log is known to be damaged.
DamageInv ==
  damaged => /\ ~LogVerifies
             /\ cache = {}
             /\ call.pc \in {"idle", "scan", "confirm"}

\* The inductive invariant behind the properties of this module.
AuditInv ==
  /\ TypeOK
  /\ ProofsHold
  /\ ScanHolds
  /\ ViewInv
  /\ CommittedInv
  /\ SealInv
  /\ DamageInv

\* When an append returns, or a verification answers valid, the log on disk and
\* its checkpoint do verify at that moment, whatever other programs did meanwhile.
AnswersAreTrue ==
  [][answer # "ok" /\ answer' = "ok" => LogVerifies']_vars
=============================================================================
