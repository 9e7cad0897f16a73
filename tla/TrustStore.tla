----------------------------- MODULE TrustStore -----------------------------
(***************************************************************************)
(* Components, versions, approvals, policy and the pre-use gate of         *)
(* GuardStore (core.py 679-1157) over the audit log of module AuditLog.    *)
(*                                                                         *)
(* Handlers run one at a time under the store lock.  `approve' and `gate'  *)
(* read the source file first and decide afterwards: the file, and rows    *)
(* written by other SQLite connections, can change in between.  The audit  *)
(* log is represented by what the handlers read back from it: the version  *)
(* anchors, the latest lifecycle event and the latest policy event, none   *)
(* of which can change under a log that verifies.  `sealed' says whether   *)
(* it does: a commit can lose its checkpoint, and then nothing verifies.   *)
(*                                                                         *)
(* Abstractions.  The raw hash is the content of the file, the canonical   *)
(* hash and the semantic fingerprint the definition it gives a component.  *)
(* Signatures are unforgeable: approvals and policies are those the key    *)
(* signed.  Which edits the semantic diff calls security relevant is left  *)
(* open.  Rows changed by other connections are earlier rows put back, or  *)
(* rows removed.                                                           *)
(***************************************************************************)
EXTENDS Naturals, Sequences

CONSTANTS Sources, Components, SourceOf, Raws, Unreadable, Definitions, Absent,
          Policies,        \* the three change actions a policy can set
          DefaultActions,  \* those of DEFAULT_POLICY
          MaxEdits,        \* bound: edits of the files and failed analyses
          MaxOutside,      \* bound: rows changed by other connections
          MaxApprovals,    \* bound: approvals
          MaxPolicies      \* bound: policy versions

Actions == {"ALLOW", "WARN", "REQUIRE_REAPPROVAL", "QUARANTINE", "BLOCK"}
PolicySet == [format : Actions, semantic : Actions, security : Actions]

ASSUME StoreAssumption ==
  /\ SourceOf \in [Components -> Sources]
  /\ Unreadable \notin Raws
  /\ \A raw \in Raws : DOMAIN Definitions[raw] = Components
  /\ Policies \subseteq PolicySet
  /\ DefaultActions \in PolicySet
  /\ MaxEdits \in Nat /\ MaxOutside \in Nat
  /\ MaxApprovals \in Nat /\ MaxPolicies \in Nat

VARIABLES
  disk,       \* content of each configuration file
  row,        \* the components table
  versions,   \* the versions table: records of a component, by version
  docs,       \* the approvals table: signed documents, by approval id
  policy,     \* version in the settings row
  anchors,    \* log: DISCOVERED and VERSION_CHANGED events of a component
  life,       \* log: latest lifecycle event of a component
  policyLog,  \* log: policies by version, the last one in force
  sealed,     \* the audit log verifies against its checkpoint
  call,       \* the approve or gate call that has read its source
  verdict,    \* the answer of the gate call that has just returned
  edits, outside

vars == <<disk, row, versions, docs, policy, anchors, life, policyLog, sealed,
          call, verdict, edits, outside>>

tables == <<row, versions, docs, policy>>
log == <<anchors, life, policyLog>>
environment == <<disk, edits, outside>>
-----------------------------------------------------------------------------
PrintOf(raw, c) == [raw |-> raw, canon |-> Definitions[raw][c]]

\* The components a file content defines; an unreadable file defines none.
InFile(s, raw) ==
  {c \in Components : SourceOf[c] = s /\ raw \in Raws /\ Definitions[raw][c] # Absent}

NoPrint == [raw |-> Unreadable, canon |-> Absent]

NoRow == [valid |-> FALSE, state |-> "NONE", version |-> 0, print |-> NoPrint,
          approval |-> 0]

NoEvent == [event |-> "NONE", approval |-> 0]

Idle == [op |-> "none", comp |-> "none", want |-> {}, current |-> NoRow]

NoVerdict == [allowed |-> FALSE, offer |-> {}]

Present(c) == row[c] # NoRow

PolicyVerified == policy = Len(policyLog)

Event(name) == [event |-> name, approval |-> 0]

\* _validate_snapshot: the row is the one its latest version event describes.
SnapshotValid(c) ==
  /\ anchors[c] # <<>>
  /\ LET anchor == anchors[c][Len(anchors[c])]
     IN  row[c].version = anchor.version /\ row[c].print = anchor.print

Init ==
  /\ disk \in [Sources -> Raws \cup {Unreadable}]
  /\ row = [c \in Components |-> NoRow]
  /\ versions = [c \in Components |-> <<>>]
  /\ docs = <<>>
  /\ policy = 1
  /\ anchors = [c \in Components |-> <<>>]
  /\ life = [c \in Components |-> NoEvent]
  /\ policyLog = <<DefaultActions>>
  /\ sealed = TRUE
  /\ call = Idle
  /\ verdict = NoVerdict
  /\ edits = 0
  /\ outside = 0
-----------------------------------------------------------------------------
(* Discovery and refresh *)

Isolated == {"REVOKED", "QUARANTINED"}

StateFor(action) ==
  IF action = "BLOCK" THEN "BLOCKED"
  ELSE IF action = "QUARANTINE" THEN "QUARANTINED" ELSE "REAPPROVAL_REQUIRED"

\* The action the policy sets for a change: `severe' are the components whose
\* definition changed in a way the semantic diff calls security relevant.
ActionFor(c, print, severe) ==
  LET same == row[c].print.canon = print.canon
      acts == policyLog[policy]
  IN  IF (same /\ ~row[c].valid) \/ (~same /\ c \in severe) THEN acts.security
      ELSE IF same THEN acts.format ELSE acts.semantic

\* The record _persist would write if a change reset the state it found.
NewRecordByPolicy(c, print, severe) ==
  [valid |-> TRUE, version |-> row[c].version + 1, print |-> print, approval |-> 0,
   state |-> IF ~Present(c) THEN "PENDING_APPROVAL"
             ELSE StateFor(ActionFor(c, print, severe))]

\* The record _persist would write if the version number stayed.
NewRecordSameVersion(c, print, severe) ==
  [valid |-> TRUE, version |-> IF Present(c) THEN row[c].version ELSE 1,
   print |-> print, approval |-> 0, state |-> "PENDING_APPROVAL"]

\* The record _persist writes for a component that is new or changed.
NewRecord(c, print, severe) ==
  [valid |-> TRUE,
   state |-> IF ~Present(c) THEN "PENDING_APPROVAL"
             ELSE IF row[c].state \in Isolated THEN row[c].state
             ELSE StateFor(ActionFor(c, print, severe)),
   version |-> row[c].version + 1,
   print |-> print,
   approval |-> 0]

Lost(r) == [r EXCEPT !.valid = FALSE, !.state = "BLOCKED", !.approval = 0]

\* _persist has nothing to write.
Unchanged(c, raw) == row[c].valid /\ row[c].print = PrintOf(raw, c)

ToPersist(s, raw) == {c \in InFile(s, raw) : ~Unchanged(c, raw)}

\* _validate_snapshot is not called on the row that is being replaced.
PolicyVerifiedOnly(s, raw) == ToPersist(s, raw) # {} => PolicyVerified

\* No row or policy that _persist reads contradicts the signed history.
RowsVerified(s, raw) ==
  /\ \A c \in InFile(s, raw) : Present(c) => SnapshotValid(c)
  /\ ToPersist(s, raw) # {} => PolicyVerified

\* The versions table already has a first version of a component without row:
\* its primary key rejects a second one.
VersionExists(s, raw) == \E c \in InFile(s, raw) : ~Present(c) /\ versions[c] # <<>>

\* One batch: persist what the file defines, invalidate what it no longer does.
Reload(s, raw, severe) ==
  LET persist == ToPersist(s, raw)
      gone == {c \in Components \ InFile(s, raw) : SourceOf[c] = s /\ row[c].valid}
  IN  /\ row' = [c \in Components |->
                   IF c \in persist THEN NewRecord(c, PrintOf(raw, c), severe)
                   ELSE IF c \in gone THEN Lost(row[c]) ELSE row[c]]
      /\ versions' = [c \in Components |->
                        IF c \in persist THEN Append(versions[c], row'[c])
                        ELSE versions[c]]
      /\ anchors' = [c \in Components |->
                       IF c \in persist
                       THEN Append(anchors[c], [version |-> row'[c].version,
                                                print |-> row'[c].print])
                       ELSE anchors[c]]
      /\ life' = [c \in Components |->
                    IF c \in persist
                    THEN Event(IF Present(c) THEN "VERSION_CHANGED" ELSE "DISCOVERED")
                    ELSE IF c \in gone THEN Event("SOURCE_UNAVAILABLE") ELSE life[c]]

\* The rows are invalidated without a lifecycle event.
InvalidateSilently(s) ==
  /\ row' = [c \in Components |->
               IF SourceOf[c] = s /\ row[c].valid THEN Lost(row[c]) ELSE row[c]]
  /\ UNCHANGED <<versions, anchors, life>>

\* _unavailable for the whole source, after a failed read or analysis.
Invalidate(s) ==
  LET gone == {c \in Components : SourceOf[c] = s /\ row[c].valid}
  IN  /\ row' = [c \in Components |-> IF c \in gone THEN Lost(row[c]) ELSE row[c]]
      /\ life' = [c \in Components |->
                    IF c \in gone THEN Event("SOURCE_UNAVAILABLE") ELSE life[c]]
      /\ UNCHANGED <<versions, anchors>>

\* discover, up to its batch commit.  A file that changes while it is read, or
\* a row that contradicts the log, raises before anything is written.
Refresh(s) ==
  /\ sealed
  /\ \/ /\ disk[s] # Unreadable
        /\ RowsVerified(s, disk[s])
        /\ ~VersionExists(s, disk[s])
        /\ \E severe \in SUBSET ToPersist(s, disk[s]) : Reload(s, disk[s], severe)
        /\ UNCHANGED edits
     \/ /\ disk[s] = Unreadable \/ VersionExists(s, disk[s])
        /\ Invalidate(s)
        /\ UNCHANGED edits
     \/ /\ disk[s] # Unreadable   \* the analysis failed or ran out of time
        /\ edits < MaxEdits
        /\ edits' = edits + 1
        /\ Invalidate(s)
  /\ UNCHANGED <<disk, docs, policy, policyLog, outside>>

\* A commit that wrote events needs a new checkpoint, which can fail to appear.
Seals == sealed' = TRUE
LosesSeal == row' # row /\ sealed' = FALSE

Discover(s) ==
  /\ call = Idle
  /\ Refresh(s)
  /\ Seals \/ LosesSeal
  /\ verdict' = NoVerdict
  /\ UNCHANGED call

\* The version and definition a caller has inspected.
Wanted(c) == {[version |-> r.version, canon |-> r.print.canon] :
                r \in {versions[c][v] : v \in DOMAIN versions[c]}}

\* approve and gate start with a refresh of the component's source.
Read(op, c, want) ==
  /\ call = Idle
  /\ Present(c)
  /\ Refresh(SourceOf[c])
  /\ \/ /\ Seals
        /\ call' = [op |-> op, comp |-> c, want |-> want, current |-> row'[c]]
     \/ /\ LosesSeal
        /\ call' = Idle
  /\ verdict' = NoVerdict

ApproveRead(c) == \E want \in Wanted(c) : Read("approve", c, {want})

GateRead(c) == \E want \in {{}} \cup {{w} : w \in Wanted(c)} : Read("gate", c, want)
-----------------------------------------------------------------------------
(* Decisions *)

AsWanted(current) ==
  \A w \in call.want : w.version = current.version /\ w.canon = current.print.canon

\* The signed lifecycle history is not looked up.
RecordApproved(c) ==
  /\ SnapshotValid(c)
  /\ row[c].valid
  /\ row[c].state = "APPROVED"
  /\ row[c].approval \in DOMAIN docs
  /\ docs[row[c].approval] = [comp |-> c, version |-> row[c].version,
                              print |-> row[c].print, policy |-> policy]
  /\ PolicyVerified

\* _approval_valid: row, document, policy and signed history agree.
ApprovalValid(c) ==
  /\ SnapshotValid(c)
  /\ row[c].valid
  /\ row[c].state = "APPROVED"
  /\ row[c].approval \in DOMAIN docs
  /\ docs[row[c].approval] = [comp |-> c, version |-> row[c].version,
                              print |-> row[c].print, policy |-> policy]
  /\ PolicyVerified
  /\ life[c] = [event |-> "APPROVED", approval |-> row[c].approval]

\* gate decides on what it read and records its answer; an answer that cannot
\* be recorded is a denial.
GateDecide ==
  /\ call.op = "gate"
  /\ sealed' \in BOOLEAN
  /\ LET current == call.current
         allowed == /\ sealed'
                    /\ current.valid
                    /\ AsWanted(current)
                    /\ Present(call.comp)
                    /\ ApprovalValid(call.comp)
     IN  verdict' = IF allowed
                    THEN [allowed |-> TRUE,
                          offer |-> {[comp |-> call.comp, print |-> current.print]}]
                    ELSE NoVerdict
  /\ call' = Idle
  /\ UNCHANGED <<tables, log, environment>>

\* approve writes the document, the record, its version and the event at once.
Approve ==
  /\ call.op = "approve"
  /\ Len(docs) < MaxApprovals
  /\ call.current.valid
  /\ AsWanted(call.current)
  /\ PolicyVerified
  /\ Present(call.comp)
  /\ LET c == call.comp
         id == Len(docs) + 1
         current == call.current
         record == [row[c] EXCEPT !.state = "APPROVED", !.approval = id]
     IN  /\ docs' = Append(docs, [comp |-> c, version |-> current.version,
                                  print |-> current.print, policy |-> policy])
         /\ row' = [row EXCEPT ![c] = record]
         /\ versions' = [versions EXCEPT ![c][current.version] =
                           [record EXCEPT !.valid = TRUE]]
         /\ life' = [life EXCEPT ![c] = [event |-> "APPROVED", approval |-> id]]
  /\ sealed' \in BOOLEAN
  /\ call' = Idle
  /\ verdict' = NoVerdict
  /\ UNCHANGED <<policy, anchors, policyLog, environment>>

\* A refused approval, an error or a stop: nothing is written.
Abandon ==
  /\ call # Idle
  /\ call' = Idle
  /\ verdict' = NoVerdict
  /\ UNCHANGED <<tables, log, sealed, environment>>

\* The answer of a gate call that could not verify the log, the source or the
\* stored rows.
GateRefuse(c) ==
  /\ call = Idle
  /\ Present(c)
  /\ verdict' = NoVerdict
  /\ UNCHANGED <<tables, log, sealed, call, environment>>

\* revoke and quarantine without the check of the audit log.
SetStateUnchecked(c, state) ==
  /\ call = Idle
  /\ Present(c)
  /\ row' = [row EXCEPT ![c].state = state, ![c].approval = 0]
  /\ life' = [life EXCEPT ![c] = Event(state)]
  /\ sealed' \in BOOLEAN
  /\ verdict' = NoVerdict
  /\ UNCHANGED <<versions, docs, policy, anchors, policyLog, call, environment>>

\* revoke and quarantine.
SetState(c, state) ==
  /\ call = Idle
  /\ sealed
  /\ Present(c)
  /\ row' = [row EXCEPT ![c].state = state, ![c].approval = 0]
  /\ life' = [life EXCEPT ![c] = Event(state)]
  /\ sealed' \in BOOLEAN
  /\ verdict' = NoVerdict
  /\ UNCHANGED <<versions, docs, policy, anchors, policyLog, call, environment>>

\* set_policy: every approval was given under the policy it replaces.
SetPolicy(acts) ==
  /\ call = Idle
  /\ sealed
  /\ PolicyVerified
  /\ policy < MaxPolicies
  /\ policy' = policy + 1
  /\ policyLog' = Append(policyLog, acts)
  /\ row' = [c \in Components |->
               IF row[c].state = "APPROVED"
               THEN [row[c] EXCEPT !.state = "REAPPROVAL_REQUIRED", !.approval = 0]
               ELSE row[c]]
  /\ sealed' \in BOOLEAN
  /\ verdict' = NoVerdict
  /\ UNCHANGED <<versions, docs, anchors, life, call, environment>>
-----------------------------------------------------------------------------
(* The environment *)

EditFile(s, content) ==
  /\ edits < MaxEdits
  /\ content # disk[s]
  /\ disk' = [disk EXCEPT ![s] = content]
  /\ edits' = edits + 1
  /\ verdict' = NoVerdict
  /\ UNCHANGED <<tables, log, sealed, call, outside>>

\* Another connection puts an earlier record back, or removes the row.
RowChanged(c, record) ==
  /\ outside < MaxOutside
  /\ record # row[c]
  /\ row' = [row EXCEPT ![c] = record]
  /\ outside' = outside + 1
  /\ verdict' = NoVerdict
  /\ UNCHANGED <<disk, edits, versions, docs, policy, log, sealed, call>>

\* Another connection puts an earlier signed policy back.
PolicyChanged(version) ==
  /\ outside < MaxOutside
  /\ version # policy
  /\ policy' = version
  /\ outside' = outside + 1
  /\ verdict' = NoVerdict
  /\ UNCHANGED <<disk, edits, row, versions, docs, log, sealed, call>>

Next ==
  \/ \E s \in Sources : Discover(s)
  \/ \E c \in Components : ApproveRead(c)
  \/ \E c \in Components : GateRead(c)
  \/ Approve
  \/ GateDecide
  \/ Abandon
  \/ \E c \in Components : GateRefuse(c)
  \/ \E c \in Components, state \in Isolated : SetState(c, state)
  \/ \E acts \in Policies : SetPolicy(acts)
  \/ \E s \in Sources, content \in Raws \cup {Unreadable} : EditFile(s, content)
  \/ \E c \in Components :
       \E record \in {NoRow} \cup {versions[c][v] : v \in DOMAIN versions[c]} :
         RowChanged(c, record)
  \/ \E version \in DOMAIN policyLog : PolicyChanged(version)

Spec == Init /\ [][Next]_vars
-----------------------------------------------------------------------------
States == {"NONE", "PENDING_APPROVAL", "APPROVED", "REAPPROVAL_REQUIRED", "BLOCKED",
           "QUARANTINED", "REVOKED"}
LifeEvents == {"NONE", "DISCOVERED", "VERSION_CHANGED", "SOURCE_UNAVAILABLE",
               "APPROVED", "REVOKED", "QUARANTINED"}
Canons == {Absent} \cup UNION {{Definitions[raw][c] : c \in Components} : raw \in Raws}
Prints == [raw : Raws \cup {Unreadable}, canon : Canons]
Records == [valid : BOOLEAN, state : States, version : Nat, print : Prints, approval : Nat]
Documents == [comp : Components, version : Nat, print : Prints, policy : Nat]
Anchors == [version : Nat, print : Prints]
Offers == [comp : Components, print : Prints]

\* The values every variable ranges over.
TypeOK ==
  /\ disk \in [Sources -> Raws \cup {Unreadable}]
  /\ row \in [Components -> Records]
  /\ versions \in [Components -> Seq(Records)]
  /\ docs \in Seq(Documents)
  /\ policy \in DOMAIN policyLog
  /\ anchors \in [Components -> Seq(Anchors)]
  /\ life \in [Components -> [event : LifeEvents, approval : Nat]]
  /\ policyLog \in Seq(PolicySet)
  /\ sealed \in BOOLEAN
  /\ call \in {Idle} \cup [op : {"approve", "gate"}, comp : Components,
                           want : SUBSET [version : Nat, canon : Canons],
                           current : Records]
  /\ verdict \in [allowed : BOOLEAN, offer : SUBSET Offers]
  /\ edits \in Nat
  /\ outside \in Nat

\* An approval in the log is for the latest version the log knows.
ApprovalsMatchLog ==
  \A c \in Components :
    life[c].event = "APPROVED" =>
      LET approved == docs[life[c].approval]
          anchor == anchors[c][Len(anchors[c])]
      IN  /\ life[c].approval \in DOMAIN docs
          /\ anchors[c] # <<>>
          /\ approved.comp = c
          /\ approved.version = anchor.version
          /\ approved.print = anchor.print

\* No approval is for a policy that is still to come.
ApprovalsMatchPolicy == \A id \in DOMAIN docs : docs[id].policy <= Len(policyLog)

\* What a call has read is the latest version the log knows.
CallMatchesLog ==
  call.op # "none" /\ call.current.valid =>
    LET anchor == anchors[call.comp][Len(anchors[call.comp])]
    IN  /\ anchors[call.comp] # <<>>
        /\ call.current.version = anchor.version
        /\ call.current.print = anchor.print

\* The inductive invariant behind KeepsContract.
StoreInv == TypeOK /\ ApprovalsMatchLog /\ ApprovalsMatchPolicy /\ CallMatchesLog

\* What the signed history grants: the bytes of the latest lifecycle event, if
\* it is an approval given under the policy now in force.
Granted(c) ==
  IF life[c].event = "APPROVED" /\ docs[life[c].approval].policy = Len(policyLog)
  THEN {docs[life[c].approval].print} ELSE {}

Offered ==
  IF call.op # "none" /\ call.current.valid
  THEN {[comp |-> call.comp, print |-> call.current.print]} ELSE {}

Contract == INSTANCE GateContract
              WITH granted <- [c \in Components |-> Granted(c)], offer <- Offered

\* The gate keeps its promise whatever rows other connections put back and
\* whenever a checkpoint is lost: it allows only bytes it has just read, under
\* the latest signed approval of exactly those bytes; approvals return only by
\* approving again (gate, _approval_valid, _persist, set_policy).
KeepsContract == Contract!Spec

\* No grant of the signed history is refused by the gate's own checks as long as
\* nobody else writes the tables: row, document, version and policy agree.
GrantIsUsable ==
  outside = 0 => \A c \in Components : Granted(c) # {} => ApprovalValid(c)

\* A version number names one content of a component for ever, whatever rows
\* other connections put back or remove: versions in the log count up from 1.
VersionNamesOneContent ==
  \A c \in Components : \A v \in DOMAIN anchors[c] : anchors[c][v].version = v

\* history(): every version in the log has its record, and they agree.
HistoryReadable(c) ==
  LET recorded == {anchors[c][i].version : i \in DOMAIN anchors[c]}
  IN  /\ DOMAIN versions[c] = recorded
      /\ \A v \in DOMAIN versions[c] :
           /\ versions[c][v].version = v
           /\ \E i \in DOMAIN anchors[c] : anchors[c][i].version = v
                                           /\ anchors[c][i].print = versions[c][v].print

\* The history of a component can always be read back, unless somebody else
\* wrote the tables.
HistoryServed == outside = 0 => \A c \in Components : HistoryReadable(c)

\* Once a commit has lost its checkpoint, nothing is recorded, approved or
\* allowed any more (the docstring of core.py: "fails closed until investigated").
FailsClosed ==
  [][~sealed => /\ UNCHANGED <<versions, docs, log, sealed>>
                /\ ~verdict'.allowed]_vars

\* A change of content alone never lifts a revocation or a quarantine: the state
\* ends with an approval, with the loss of the source, or by another connection.
IsolationStays ==
  [][\A c \in Components :
       row[c].state \in Isolated /\ row'[c].state \notin Isolated
         => life'[c].event \in {"APPROVED", "SOURCE_UNAVAILABLE"} \/ outside' # outside]_vars
=============================================================================
