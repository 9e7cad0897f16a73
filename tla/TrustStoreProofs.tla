-------------------------- MODULE TrustStoreProofs --------------------------
(***************************************************************************)
(* The gate keeps its contract for any files, components, policies and     *)
(* bounds.  The argument: an approval in the signed history always names   *)
(* the latest version the history knows, and so does whatever a call has   *)
(* read; a row that passes _approval_valid is that version too.  As long   *)
(* as nobody else writes the tables, row, log and records agree besides.   *)
(***************************************************************************)
EXTENDS TrustStore, TLAPS

LEMMA PrintType == \A raw \in Raws, c \in Components : PrintOf(raw, c) \in Prints
BY DEF PrintOf, Prints, Canons

LEMMA ConstantTypes ==
  /\ NoRow \in Records
  /\ NoVerdict \in [allowed : BOOLEAN, offer : SUBSET Offers]
  /\ NoEvent \in [event : LifeEvents, approval : Nat]
  /\ \A name \in LifeEvents : Event(name) \in [event : LifeEvents, approval : Nat]
BY DEF NoRow, NoPrint, Records, States, Prints, Canons, NoVerdict, NoEvent, Event, LifeEvents

LEMMA StateForType == \A action \in Actions : StateFor(action) \in States
BY DEF StateFor, States

LEMMA ActionForType ==
  ASSUME TypeOK, NEW c \in Components, NEW print, NEW severe
  PROVE  ActionFor(c, print, severe) \in Actions
<1>1. policyLog[policy] \in PolicySet
  BY DEF TypeOK
<1>2. QED
  BY <1>1 DEF ActionFor, PolicySet

LEMMA NewRecordType ==
  ASSUME TypeOK, NEW c \in Components, NEW print \in Prints, NEW severe
  PROVE  NewRecord(c, print, severe) \in Records
<1>1. row[c] \in Records
  BY DEF TypeOK
<1>2. row[c].state \in States /\ row[c].version + 1 \in Nat
  BY <1>1 DEF Records
<1>3. StateFor(ActionFor(c, print, severe)) \in States
  BY ActionForType, StateForType
<1>4. "PENDING_APPROVAL" \in States
  BY DEF States
<1>5. (IF ~Present(c) THEN "PENDING_APPROVAL"
       ELSE IF row[c].state \in Isolated THEN row[c].state
       ELSE StateFor(ActionFor(c, print, severe))) \in States
  BY <1>2, <1>3, <1>4
<1>6. QED
  BY <1>2, <1>5 DEF NewRecord, Records

LEMMA LostType == \A r \in Records : Lost(r) \in Records /\ ~Lost(r).valid
BY DEF Lost, Records, States

LEMMA InitTyped == Init => StoreInv
<1> SUFFICES ASSUME Init PROVE StoreInv
  OBVIOUS
<1> USE DEF Init
<1>1. TypeOK
  <2>1. DefaultActions \in PolicySet
    BY StoreAssumption
  <2>2. policyLog \in Seq(PolicySet) /\ policy \in DOMAIN policyLog
    BY <2>1
  <2>3. versions \in [Components -> Seq(Records)]
    OBVIOUS
  <2>4. anchors \in [Components -> Seq(Anchors)]
    OBVIOUS
  <2>5. docs \in Seq(Documents)
    OBVIOUS
  <2>6. QED
    BY <2>2, <2>3, <2>4, <2>5, ConstantTypes DEF TypeOK
<1>2. ApprovalsMatchLog /\ ApprovalsMatchPolicy /\ CallMatchesLog
  BY DEF ApprovalsMatchLog, ApprovalsMatchPolicy, CallMatchesLog, NoEvent, Idle
<1>3. QED
  BY <1>1, <1>2 DEF StoreInv
-----------------------------------------------------------------------------
(* What a refresh does to the tables and to the log, component by component *)

\* The components of the file that keep their record, and those that lose it.
LEMMA ReloadEffect ==
  ASSUME TypeOK, NEW s \in Sources, disk[s] \in Raws, NEW severe, Reload(s, disk[s], severe),
         RowsVerified(s, disk[s]), NEW c \in Components
  PROVE  \/ /\ c \in InFile(s, disk[s])
            /\ row'[c] \in Records
            /\ row'[c].print = PrintOf(disk[s], c)
            /\ anchors'[c] = Append(anchors[c], [version |-> row'[c].version,
                                                 print |-> row'[c].print])
            /\ versions'[c] = Append(versions[c], row'[c])
            /\ life'[c] \in [event : LifeEvents, approval : Nat]
            /\ life'[c].event # "APPROVED"
         \/ /\ c \in InFile(s, disk[s])
            /\ Unchanged(c, disk[s])
            /\ SnapshotValid(c)
            /\ row'[c] = row[c]
            /\ anchors'[c] = anchors[c]
            /\ versions'[c] = versions[c]
            /\ life'[c] = life[c]
         \/ /\ c \notin InFile(s, disk[s])
            /\ row'[c] \in Records
            /\ SourceOf[c] = s => ~row'[c].valid
            /\ anchors'[c] = anchors[c]
            /\ versions'[c] = versions[c]
            /\ \/ life'[c] = life[c]
               \/ /\ life'[c] \in [event : LifeEvents, approval : Nat]
                  /\ life'[c].event # "APPROVED"
<1>1. row[c] \in Records
  BY DEF TypeOK
<1>2. CASE c \in ToPersist(s, disk[s])
  <2>1. c \in InFile(s, disk[s])
    BY <1>2 DEF ToPersist
  <2>2. PrintOf(disk[s], c) \in Prints
    BY PrintType
  <2>3. row'[c] = NewRecord(c, PrintOf(disk[s], c), severe)
    BY <1>2 DEF Reload
  <2>4. row'[c] \in Records /\ row'[c].print = PrintOf(disk[s], c)
    BY <2>2, <2>3, NewRecordType DEF NewRecord
  <2>5. life'[c] = Event(IF Present(c) THEN "VERSION_CHANGED" ELSE "DISCOVERED")
    BY <1>2 DEF Reload
  <2>6. life'[c] \in [event : LifeEvents, approval : Nat] /\ life'[c].event # "APPROVED"
    BY <2>5 DEF Event, LifeEvents
  <2>7. /\ versions'[c] = Append(versions[c], row'[c])
        /\ anchors'[c] = Append(anchors[c], [version |-> row'[c].version,
                                             print |-> row'[c].print])
    BY <1>2 DEF Reload
  <2>8. QED
    BY <2>1, <2>4, <2>6, <2>7
<1>3. CASE c \in InFile(s, disk[s]) /\ c \notin ToPersist(s, disk[s])
  <2>1. Unchanged(c, disk[s])
    BY <1>3 DEF ToPersist
  <2>2. SnapshotValid(c)
    BY <1>3, <2>1 DEF RowsVerified, Unchanged, Present, NoRow
  <2>3. QED
    BY <1>3, <2>1, <2>2 DEF Reload
<1>4. CASE c \notin InFile(s, disk[s])
  <2>1. c \notin ToPersist(s, disk[s])
    BY <1>4 DEF ToPersist
  <2>2. CASE SourceOf[c] = s /\ row[c].valid
    <3>1. row'[c] = Lost(row[c]) /\ life'[c] = Event("SOURCE_UNAVAILABLE")
      BY <1>4, <2>1, <2>2 DEF Reload
    <3>2. row'[c] \in Records /\ ~row'[c].valid
      BY <1>1, <3>1, LostType
    <3>3. life'[c] \in [event : LifeEvents, approval : Nat] /\ life'[c].event # "APPROVED"
      BY <3>1 DEF Event, LifeEvents
    <3>4. QED
      BY <1>4, <2>1, <3>2, <3>3 DEF Reload
  <2>3. CASE ~(SourceOf[c] = s /\ row[c].valid)
    BY <1>1, <1>4, <2>1, <2>3 DEF Reload
  <2>4. QED
    BY <2>2, <2>3
<1>5. QED
  BY <1>2, <1>3, <1>4

LEMMA InvalidateEffect ==
  ASSUME TypeOK, NEW s \in Sources, Invalidate(s), NEW c \in Components
  PROVE  /\ row'[c] \in Records
         /\ SourceOf[c] = s => ~row'[c].valid
         /\ anchors'[c] = anchors[c]
         /\ versions'[c] = versions[c]
         /\ \/ life'[c] = life[c]
            \/ /\ life'[c] \in [event : LifeEvents, approval : Nat]
               /\ life'[c].event # "APPROVED"
<1>1. row[c] \in Records
  BY DEF TypeOK
<1>2. CASE SourceOf[c] = s /\ row[c].valid
  <2>1. row'[c] = Lost(row[c]) /\ life'[c] = Event("SOURCE_UNAVAILABLE")
    BY <1>2 DEF Invalidate
  <2>2. row'[c] \in Records /\ ~row'[c].valid
    BY <1>1, <2>1, LostType
  <2>3. life'[c] \in [event : LifeEvents, approval : Nat] /\ life'[c].event # "APPROVED"
    BY <2>1 DEF Event, LifeEvents
  <2>4. QED
    BY <2>2, <2>3 DEF Invalidate
<1>3. CASE ~(SourceOf[c] = s /\ row[c].valid)
  BY <1>1, <1>3 DEF Invalidate
<1>4. QED
  BY <1>2, <1>3


LEMMA AppendFacts ==
  ASSUME NEW S, NEW q \in Seq(S), NEW e \in S
  PROVE  /\ Append(q, e) \in Seq(S)
         /\ Append(q, e) # <<>>
         /\ Append(q, e)[Len(Append(q, e))] = e
OBVIOUS

Latest(c) == anchors[c][Len(anchors[c])]

\* Whatever the outcome of a refresh: a valid row of the source is what the file
\* says and what the log says, and an approval survives only unchanged content.
LEMMA RefreshEffect ==
  ASSUME TypeOK, NEW s \in Sources, Refresh(s), NEW c \in Components
  PROVE  /\ row'[c] \in Records
         /\ anchors'[c] \in Seq(Anchors)
         /\ versions'[c] \in Seq(Records)
         /\ life'[c] \in [event : LifeEvents, approval : Nat]
         /\ SourceOf[c] = s /\ row'[c].valid =>
              /\ disk[s] \in Raws
              /\ c \in InFile(s, disk[s])
              /\ row'[c].print = PrintOf(disk[s], c)
              /\ anchors'[c] # <<>>
              /\ Latest(c)'.version = row'[c].version
              /\ Latest(c)'.print = row'[c].print
         /\ life'[c].event = "APPROVED" => life'[c] = life[c] /\ anchors'[c] = anchors[c]
<1> DEFINE Goal ==
         /\ row'[c] \in Records
         /\ anchors'[c] \in Seq(Anchors)
         /\ versions'[c] \in Seq(Records)
         /\ life'[c] \in [event : LifeEvents, approval : Nat]
         /\ SourceOf[c] = s /\ row'[c].valid =>
              /\ disk[s] \in Raws
              /\ c \in InFile(s, disk[s])
              /\ row'[c].print = PrintOf(disk[s], c)
              /\ anchors'[c] # <<>>
              /\ Latest(c)'.version = row'[c].version
              /\ Latest(c)'.print = row'[c].print
         /\ life'[c].event = "APPROVED" => life'[c] = life[c] /\ anchors'[c] = anchors[c]
<1>1. /\ row[c] \in Records
      /\ anchors[c] \in Seq(Anchors)
      /\ versions[c] \in Seq(Records)
      /\ life[c] \in [event : LifeEvents, approval : Nat]
      /\ disk[s] # Unreadable => disk[s] \in Raws
  BY DEF TypeOK
<1>2. Invalidate(s) => Goal
  BY <1>1, InvalidateEffect
<1>3. ASSUME disk[s] \in Raws, RowsVerified(s, disk[s]), NEW severe,
             Reload(s, disk[s], severe)
      PROVE  Goal
  <2> DEFINE added == [version |-> row'[c].version, print |-> row'[c].print]
  <2>1. CASE /\ c \in InFile(s, disk[s])
             /\ row'[c] \in Records
             /\ row'[c].print = PrintOf(disk[s], c)
             /\ anchors'[c] = Append(anchors[c], added)
             /\ versions'[c] = Append(versions[c], row'[c])
             /\ life'[c] \in [event : LifeEvents, approval : Nat]
             /\ life'[c].event # "APPROVED"
    <3>1. added \in Anchors
      BY <2>1 DEF Records, Anchors
    <3>a. /\ Append(anchors[c], added) \in Seq(Anchors)
          /\ Append(anchors[c], added) # <<>>
          /\ Append(anchors[c], added)[Len(Append(anchors[c], added))] = added
      BY ONLY <1>1, <3>1, AppendFacts, ZenonT(30)
    <3>2. /\ anchors'[c] \in Seq(Anchors)
          /\ anchors'[c] # <<>>
          /\ anchors'[c][Len(anchors'[c])] = added
      BY ONLY <2>1, <3>a, Zenon
    <3>3. versions'[c] \in Seq(Records)
      BY <1>1, <2>1, AppendFacts
    <3>4. QED
      BY <1>3, <2>1, <3>2, <3>3 DEF Latest
  <2>2. CASE /\ c \in InFile(s, disk[s])
             /\ Unchanged(c, disk[s])
             /\ SnapshotValid(c)
             /\ row'[c] = row[c]
             /\ anchors'[c] = anchors[c]
             /\ versions'[c] = versions[c]
             /\ life'[c] = life[c]
    BY <1>1, <1>3, <2>2 DEF Latest, Unchanged, SnapshotValid
  <2>3. CASE /\ c \notin InFile(s, disk[s])
             /\ row'[c] \in Records
             /\ SourceOf[c] = s => ~row'[c].valid
             /\ anchors'[c] = anchors[c]
             /\ versions'[c] = versions[c]
             /\ \/ life'[c] = life[c]
                \/ /\ life'[c] \in [event : LifeEvents, approval : Nat]
                   /\ life'[c].event # "APPROVED"
    BY <1>1, <2>3
  <2>4. QED
    BY <1>3, <2>1, <2>2, <2>3, ReloadEffect
<1>4. QED
  <2>1. \/ Invalidate(s)
        \/ /\ disk[s] # Unreadable
           /\ RowsVerified(s, disk[s])
           /\ \E severe \in SUBSET ToPersist(s, disk[s]) : Reload(s, disk[s], severe)
    BY DEF Refresh
  <2>2. QED
    BY <1>1, <1>2, <1>3, <2>1


LEMMA RefreshType ==
  ASSUME TypeOK, NEW s \in Sources, Refresh(s)
  PROVE  /\ row' \in [Components -> Records]
         /\ versions' \in [Components -> Seq(Records)]
         /\ anchors' \in [Components -> Seq(Anchors)]
         /\ life' \in [Components -> [event : LifeEvents, approval : Nat]]
         /\ edits' \in Nat
         /\ UNCHANGED <<disk, docs, policy, policyLog, outside>>
<1>1. /\ row' = [c \in Components |-> row'[c]]
      /\ versions' = [c \in Components |-> versions'[c]]
      /\ anchors' = [c \in Components |-> anchors'[c]]
      /\ life' = [c \in Components |-> life'[c]]
  <2>1. \/ Invalidate(s)
        \/ \E severe : Reload(s, disk[s], severe)
    BY DEF Refresh
  <2>2. CASE Invalidate(s)
    BY <2>2 DEF Invalidate, TypeOK
  <2>3. ASSUME NEW severe, Reload(s, disk[s], severe)
        PROVE  /\ row' = [c \in Components |-> row'[c]]
               /\ versions' = [c \in Components |-> versions'[c]]
               /\ anchors' = [c \in Components |-> anchors'[c]]
               /\ life' = [c \in Components |-> life'[c]]
    BY <2>3 DEF Reload
  <2>4. QED
    BY <2>1, <2>2, <2>3
<1>2. \A c \in Components : /\ row'[c] \in Records
                            /\ anchors'[c] \in Seq(Anchors)
                            /\ versions'[c] \in Seq(Records)
                            /\ life'[c] \in [event : LifeEvents, approval : Nat]
  BY RefreshEffect
<1>3. edits' \in Nat
  BY DEF Refresh, TypeOK
<1>4. UNCHANGED <<disk, docs, policy, policyLog, outside>>
  BY DEF Refresh
<1>5. row' \in [Components -> Records]
  BY <1>1, <1>2
<1>6. versions' \in [Components -> Seq(Records)]
  BY <1>1, <1>2
<1>7. anchors' \in [Components -> Seq(Anchors)]
  BY <1>1, <1>2
<1>8. life' \in [Components -> [event : LifeEvents, approval : Nat]]
  BY <1>1, <1>2
<1>9. QED
  BY <1>3, <1>4, <1>5, <1>6, <1>7, <1>8

Calls == [op : {"approve", "gate"}, comp : Components,
          want : SUBSET [version : Nat, canon : Canons], current : Records]

LEMMA WantedType ==
  ASSUME TypeOK, NEW c \in Components
  PROVE  Wanted(c) \subseteq [version : Nat, canon : Canons]
<1>1. \A v \in DOMAIN versions[c] : versions[c][v] \in Records
  BY DEF TypeOK
<1>2. QED
  BY <1>1 DEF Wanted, Records, Prints

LEMMA RefreshInv ==
  ASSUME StoreInv, NEW s \in Sources, Refresh(s)
  PROVE  ApprovalsMatchLog' /\ ApprovalsMatchPolicy'
<1>1. ASSUME NEW c \in Components, life'[c].event = "APPROVED"
      PROVE  /\ life'[c].approval \in DOMAIN docs'
             /\ anchors'[c] # <<>>
             /\ docs'[life'[c].approval].comp = c
             /\ docs'[life'[c].approval].version = anchors'[c][Len(anchors'[c])].version
             /\ docs'[life'[c].approval].print = anchors'[c][Len(anchors'[c])].print
  <2>1. life'[c] = life[c] /\ anchors'[c] = anchors[c]
    BY <1>1, RefreshEffect DEF StoreInv
  <2>2. docs' = docs
    BY DEF Refresh
  <2>3. QED
    BY <1>1, <2>1, <2>2 DEF StoreInv, ApprovalsMatchLog
<1>2. ApprovalsMatchLog'
  BY <1>1 DEF ApprovalsMatchLog
<1>3. ApprovalsMatchPolicy'
  BY DEF Refresh, StoreInv, ApprovalsMatchPolicy
<1>4. QED
  BY <1>2, <1>3

LEMMA DiscoverInv ==
  ASSUME StoreInv, NEW s \in Sources, Discover(s)
  PROVE  StoreInv'
<1> USE ConstantTypes
<1>1. Refresh(s) /\ call' = Idle /\ verdict' = NoVerdict /\ sealed' \in BOOLEAN
  BY DEF Discover, Seals, LosesSeal
<1>2. TypeOK'
  <2>1. TypeOK
    BY DEF StoreInv
  <2>2. QED
    BY <1>1, <2>1, RefreshType DEF TypeOK
<1>3. CallMatchesLog'
  BY <1>1 DEF CallMatchesLog, Idle
<1>4. QED
  BY <1>1, <1>2, <1>3, RefreshInv DEF StoreInv

LEMMA ReadInv ==
  ASSUME StoreInv, NEW op \in {"approve", "gate"}, NEW c \in Components,
         NEW want \in SUBSET Wanted(c), Read(op, c, want)
  PROVE  StoreInv'
<1> DEFINE read == [op |-> op, comp |-> c, want |-> want, current |-> row'[c]]
<1>1. TypeOK /\ SourceOf[c] \in Sources
  BY StoreAssumption DEF StoreInv
<1>2. /\ Refresh(SourceOf[c])
      /\ verdict' = NoVerdict
      /\ sealed' \in BOOLEAN
      /\ call' = read \/ call' = Idle
  BY DEF Read, Seals, LosesSeal
<1>3. row'[c] \in Records
  BY <1>1, <1>2, RefreshEffect
<1>4. want \in SUBSET [version : Nat, canon : Canons]
  BY <1>1, WantedType
<1>5. read \in Calls
  BY <1>3, <1>4 DEF Calls
<1>6. TypeOK'
  <2>1. call' \in {Idle} \cup Calls
    BY <1>2, <1>5
  <2>2. QED
    BY <1>1, <1>2, <2>1, RefreshType, ConstantTypes DEF TypeOK, Calls
<1>7. CallMatchesLog'
  <2>1. CASE call' = read
    <3>1. call'.comp = c /\ call'.current = row'[c]
      BY <2>1
    <3>2. row'[c].valid => /\ anchors'[c] # <<>>
                           /\ row'[c].version = Latest(c)'.version
                           /\ row'[c].print = Latest(c)'.print
      BY <1>1, <1>2, RefreshEffect
    <3>3. QED
      BY <3>1, <3>2 DEF CallMatchesLog, Latest
  <2>2. CASE call' = Idle
    BY <2>2 DEF CallMatchesLog, Idle
  <2>3. QED
    BY <1>2, <2>1, <2>2
<1>8. QED
  BY <1>1, <1>2, <1>6, <1>7, RefreshInv DEF StoreInv


\* An UPDATE of one entry, or of none, leaves a sequence of the same kind.
LEMMA UpdateType ==
  ASSUME NEW S, NEW q \in Seq(S), NEW i, NEW e \in S
  PROVE  [q EXCEPT ![i] = e] \in Seq(S)
<1>1. PICK n \in Nat : q \in [1..n -> S]
  OBVIOUS
<1>2. [q EXCEPT ![i] = e] \in [1..n -> S]
  BY <1>1
<1>3. QED
  BY <1>2

LEMMA CallType ==
  ASSUME TypeOK, call.op # "none"
  PROVE  /\ call \in Calls
         /\ call.comp \in Components
         /\ call.current \in Records
BY DEF TypeOK, Calls, Idle

LEMMA GateDecideInv == StoreInv /\ GateDecide => StoreInv'
<1> SUFFICES ASSUME StoreInv, GateDecide PROVE StoreInv'
  OBVIOUS
<1>1. /\ call' = Idle
      /\ sealed' \in BOOLEAN
      /\ UNCHANGED <<row, versions, docs, policy, anchors, life, policyLog, disk, edits, outside>>
  BY DEF GateDecide, tables, log, environment
<1>2. verdict' \in [allowed : BOOLEAN, offer : SUBSET Offers]
  <2>1. call.comp \in Components /\ call.current \in Records
    BY CallType DEF GateDecide, StoreInv
  <2>2. [comp |-> call.comp, print |-> call.current.print] \in Offers
    BY <2>1 DEF Offers, Records
  <2>3. \/ verdict' = [allowed |-> TRUE,
                       offer |-> {[comp |-> call.comp, print |-> call.current.print]}]
        \/ verdict' = NoVerdict
    BY DEF GateDecide
  <2>4. [allowed |-> TRUE, offer |-> {[comp |-> call.comp, print |-> call.current.print]}]
          \in [allowed : BOOLEAN, offer : SUBSET Offers]
    BY <2>2
  <2>5. QED
    BY <2>3, <2>4, ConstantTypes
<1>3. TypeOK'
  BY <1>1, <1>2 DEF StoreInv, TypeOK
<1>4. CallMatchesLog'
  BY <1>1 DEF CallMatchesLog, Idle
<1>5. ApprovalsMatchLog' /\ ApprovalsMatchPolicy'
  BY <1>1 DEF StoreInv, ApprovalsMatchLog, ApprovalsMatchPolicy
<1>6. QED
  BY <1>3, <1>4, <1>5 DEF StoreInv

LEMMA ApproveInv == StoreInv /\ Approve => StoreInv'
<1> SUFFICES ASSUME StoreInv, Approve PROVE StoreInv'
  OBVIOUS
<1> DEFINE c == call.comp
           id == Len(docs) + 1
           doc == [comp |-> c, version |-> call.current.version,
                   print |-> call.current.print, policy |-> policy]
           record == [row[c] EXCEPT !.state = "APPROVED", !.approval = id]
<1>1. /\ call.op = "approve"
      /\ call.current.valid
      /\ docs' = Append(docs, doc)
      /\ row' = [row EXCEPT ![c] = record]
      /\ versions' = [versions EXCEPT ![c][call.current.version] =
                        [record EXCEPT !.valid = TRUE]]
      /\ life' = [life EXCEPT ![c] = [event |-> "APPROVED", approval |-> id]]
      /\ sealed' \in BOOLEAN
      /\ call' = Idle
      /\ verdict' = NoVerdict
      /\ UNCHANGED <<policy, anchors, policyLog, disk, edits, outside>>
  BY DEF Approve, environment
<1>2. TypeOK /\ c \in Components /\ call.current \in Records
  BY <1>1, CallType DEF StoreInv
<1>3. row[c] \in Records /\ docs \in Seq(Documents) /\ id \in Nat
  BY <1>2 DEF TypeOK
<1>4. record \in Records /\ [record EXCEPT !.valid = TRUE] \in Records
  BY <1>3 DEF Records, States
<1>5. policy \in Nat /\ policy <= Len(policyLog)
  BY <1>2 DEF TypeOK
<1>6. doc \in Documents
  BY <1>2, <1>5 DEF Records, Documents
<1> HIDE DEF record, doc
<1>7. /\ docs' \in Seq(Documents)
      /\ Len(docs') = id
      /\ docs'[id] = doc
      /\ \A i \in DOMAIN docs : i \in DOMAIN docs' /\ docs'[i] = docs[i]
      /\ id \in DOMAIN docs'
      /\ DOMAIN docs' = DOMAIN docs \cup {id}
  BY <1>1, <1>3, <1>6
<1>8. versions' \in [Components -> Seq(Records)]
  <2>1. versions \in [Components -> Seq(Records)] /\ versions[c] \in Seq(Records)
    BY <1>2 DEF TypeOK
  <2>2. [versions[c] EXCEPT ![call.current.version] = [record EXCEPT !.valid = TRUE]]
          \in Seq(Records)
    BY <1>4, <2>1, UpdateType
  <2>3. QED
    BY <1>1, <2>1, <2>2
<1>9. life' \in [Components -> [event : LifeEvents, approval : Nat]]
  BY <1>1, <1>2, <1>3 DEF TypeOK, LifeEvents
<1>10. row' \in [Components -> Records]
  BY <1>1, <1>2, <1>4 DEF TypeOK
<1>11. TypeOK'
  BY <1>1, <1>2, <1>7, <1>8, <1>9, <1>10, ConstantTypes DEF TypeOK
<1>12. CallMatchesLog'
  BY <1>1 DEF CallMatchesLog, Idle
<1>13. ApprovalsMatchPolicy'
  <2>1. doc.policy <= Len(policyLog)
    BY <1>5 DEF doc
  <2>2. QED
    BY <1>1, <1>7, <2>1 DEF StoreInv, ApprovalsMatchPolicy
<1>14. ApprovalsMatchLog'
  <2> SUFFICES ASSUME NEW other \in Components, life'[other].event = "APPROVED"
               PROVE  /\ life'[other].approval \in DOMAIN docs'
                      /\ anchors'[other] # <<>>
                      /\ docs'[life'[other].approval].comp = other
                      /\ docs'[life'[other].approval].version
                           = anchors'[other][Len(anchors'[other])].version
                      /\ docs'[life'[other].approval].print
                           = anchors'[other][Len(anchors'[other])].print
    BY DEF ApprovalsMatchLog
  <2>1. life \in [Components -> [event : LifeEvents, approval : Nat]]
    BY <1>2 DEF TypeOK
  <2>2. CASE other = c
    <3>1. life'[other].approval = id
      BY <1>1, <1>2, <2>1, <2>2
    <3>2. /\ anchors[c] # <<>>
          /\ call.current.version = anchors[c][Len(anchors[c])].version
          /\ call.current.print = anchors[c][Len(anchors[c])].print
      BY <1>1 DEF StoreInv, CallMatchesLog
    <3>3. QED
      BY <1>1, <1>7, <2>2, <3>1, <3>2 DEF doc
  <2>3. CASE other # c
    <3>1. life'[other] = life[other]
      BY <1>1, <1>2, <2>1, <2>3
    <3>2. QED
      BY <1>1, <1>7, <3>1 DEF StoreInv, ApprovalsMatchLog
  <2>4. QED
    BY <2>2, <2>3
<1>15. QED
  BY <1>11, <1>12, <1>13, <1>14 DEF StoreInv

LEMMA SetStateInv ==
  ASSUME StoreInv, NEW c \in Components, NEW state \in Isolated, SetState(c, state)
  PROVE  StoreInv'
<1>1. /\ call.op = "none" /\ call' = call
      /\ row' = [row EXCEPT ![c].state = state, ![c].approval = 0]
      /\ life' = [life EXCEPT ![c] = Event(state)]
      /\ sealed' \in BOOLEAN
      /\ verdict' = NoVerdict
      /\ UNCHANGED <<versions, docs, policy, anchors, policyLog, disk, edits, outside>>
  BY DEF SetState, environment, Idle
<1>2. TypeOK /\ row[c] \in Records
  BY DEF StoreInv, TypeOK
<1>3. Event(state) \in [event : LifeEvents, approval : Nat] /\ Event(state).event # "APPROVED"
  BY DEF Event, Isolated, LifeEvents
<1>4. row' \in [Components -> Records]
  <2>1. [row[c] EXCEPT !.state = state, !.approval = 0] \in Records
    BY <1>2 DEF Records, States, Isolated
  <2>2. row' = [row EXCEPT ![c] = [row[c] EXCEPT !.state = state, !.approval = 0]]
    BY <1>1, <1>2 DEF TypeOK
  <2>3. QED
    BY <1>2, <2>1, <2>2 DEF TypeOK
<1>5. TypeOK'
  BY <1>1, <1>2, <1>3, <1>4, ConstantTypes DEF TypeOK
<1>6. ApprovalsMatchLog'
  <2>1. \A other \in Components :
          life'[other].event = "APPROVED" => life'[other] = life[other]
    BY <1>1, <1>2, <1>3 DEF TypeOK
  <2>2. QED
    BY <1>1, <2>1 DEF StoreInv, ApprovalsMatchLog
<1>7. ApprovalsMatchPolicy' /\ CallMatchesLog'
  BY <1>1 DEF StoreInv, ApprovalsMatchPolicy, CallMatchesLog
<1>8. QED
  BY <1>5, <1>6, <1>7 DEF StoreInv

LEMMA SetPolicyInv ==
  ASSUME StoreInv, NEW acts \in Policies, SetPolicy(acts)
  PROVE  StoreInv'
<1>1. /\ call.op = "none" /\ call' = call
      /\ policy = Len(policyLog) /\ policy' = policy + 1
      /\ policyLog' = Append(policyLog, acts)
      /\ row' = [c \in Components |->
                   IF row[c].state = "APPROVED"
                   THEN [row[c] EXCEPT !.state = "REAPPROVAL_REQUIRED", !.approval = 0]
                   ELSE row[c]]
      /\ sealed' \in BOOLEAN
      /\ verdict' = NoVerdict
      /\ UNCHANGED <<versions, docs, anchors, life, disk, edits, outside>>
  BY DEF SetPolicy, environment, Idle, PolicyVerified
<1>2. TypeOK /\ acts \in PolicySet
  BY StoreAssumption DEF StoreInv
<1>3. /\ policyLog' \in Seq(PolicySet)
      /\ policy' \in DOMAIN policyLog'
      /\ Len(policyLog') = Len(policyLog) + 1
      /\ Len(policyLog) \in Nat
  <2>1. policyLog \in Seq(PolicySet) /\ policy \in DOMAIN policyLog
    BY <1>2 DEF TypeOK
  <2>2. /\ Append(policyLog, acts) \in Seq(PolicySet)
        /\ Len(Append(policyLog, acts)) = Len(policyLog) + 1
        /\ Len(policyLog) \in Nat
        /\ DOMAIN Append(policyLog, acts) = 1..(Len(policyLog) + 1)
    BY <1>2, <2>1
  <2>3. policyLog' = Append(policyLog, acts) /\ policy' = Len(policyLog) + 1
    BY <1>1
  <2>4. QED
    BY <2>2, <2>3
<1>4. row' \in [Components -> Records]
  <2>1. \A c \in Components :
          /\ row[c] \in Records
          /\ [row[c] EXCEPT !.state = "REAPPROVAL_REQUIRED", !.approval = 0] \in Records
    BY ZenonT(30), <1>2 DEF TypeOK, Records, States
  <2>2. QED
    BY <1>1, <2>1
<1>5. TypeOK'
  BY <1>1, <1>2, <1>3, <1>4, ConstantTypes DEF TypeOK
<1>6. ApprovalsMatchPolicy'
  <2>1. \A i \in DOMAIN docs : docs[i].policy \in Nat
    <3>1. docs \in Seq(Documents)
      BY <1>2 DEF TypeOK
    <3>2. \A i \in DOMAIN docs : docs[i] \in Documents
      BY <3>1
    <3>3. QED
      BY <3>2 DEF Documents
  <2>2. \A i \in DOMAIN docs : docs[i].policy <= Len(policyLog)
    BY DEF StoreInv, ApprovalsMatchPolicy
  <2>3. docs' = docs
    BY <1>1
  <2>4. \A i \in DOMAIN docs : docs[i].policy <= Len(policyLog')
    BY <1>3, <2>1, <2>2
  <2>5. QED
    BY <2>3, <2>4 DEF ApprovalsMatchPolicy
<1>7. ApprovalsMatchLog' /\ CallMatchesLog'
  BY <1>1 DEF StoreInv, ApprovalsMatchLog, CallMatchesLog
<1>8. QED
  BY <1>5, <1>6, <1>7 DEF StoreInv

LEMMA RowChangedInv ==
  ASSUME StoreInv, NEW c \in Components,
         NEW record \in {NoRow} \cup {versions[c][v] : v \in DOMAIN versions[c]},
         RowChanged(c, record)
  PROVE  StoreInv'
<1>1. /\ row' = [row EXCEPT ![c] = record]
      /\ outside' = outside + 1
      /\ verdict' = NoVerdict
      /\ UNCHANGED <<versions, docs, policy, anchors, life, policyLog, disk, edits, sealed, call>>
  BY DEF RowChanged, log
<1>2. record \in Records
  BY ConstantTypes DEF StoreInv, TypeOK
<1>3. TypeOK'
  BY <1>1, <1>2, ConstantTypes DEF StoreInv, TypeOK
<1>4. ApprovalsMatchLog' /\ ApprovalsMatchPolicy' /\ CallMatchesLog'
  BY <1>1 DEF StoreInv, ApprovalsMatchLog, ApprovalsMatchPolicy, CallMatchesLog
<1>5. QED
  BY <1>3, <1>4 DEF StoreInv

LEMMA StoreStep == StoreInv /\ [Next]_vars => StoreInv'
<1> SUFFICES ASSUME StoreInv, [Next]_vars PROVE StoreInv'
  OBVIOUS
<1>1. ASSUME NEW c \in Components, ApproveRead(c)
      PROVE  StoreInv'
  BY <1>1, ReadInv DEF ApproveRead
<1>2. ASSUME NEW c \in Components, GateRead(c)
      PROVE  StoreInv'
  BY <1>2, ReadInv DEF GateRead
<1>3. CASE Abandon
  <2>1. /\ call' = Idle /\ verdict' = NoVerdict
        /\ UNCHANGED <<row, versions, docs, policy, anchors, life, policyLog, sealed,
                       disk, edits, outside>>
    BY <1>3 DEF Abandon, tables, log, environment
  <2>2. TypeOK'
    BY <2>1, ConstantTypes DEF StoreInv, TypeOK
  <2>3. ApprovalsMatchLog' /\ ApprovalsMatchPolicy' /\ CallMatchesLog'
    BY <2>1 DEF StoreInv, ApprovalsMatchLog, ApprovalsMatchPolicy, CallMatchesLog, Idle
  <2>4. QED
    BY <2>2, <2>3 DEF StoreInv
<1>4. ASSUME NEW c \in Components, GateRefuse(c)
      PROVE  StoreInv'
  <2>1. /\ verdict' = NoVerdict
        /\ UNCHANGED <<row, versions, docs, policy, anchors, life, policyLog, sealed,
                       call, disk, edits, outside>>
    BY <1>4 DEF GateRefuse, tables, log, environment
  <2>2. QED
    BY <2>1, ConstantTypes
       DEF StoreInv, TypeOK, ApprovalsMatchLog, ApprovalsMatchPolicy, CallMatchesLog
<1>5. ASSUME NEW s \in Sources, NEW content \in Raws \cup {Unreadable}, EditFile(s, content)
      PROVE  StoreInv'
  <2>1. /\ disk' = [disk EXCEPT ![s] = content] /\ edits' = edits + 1
        /\ verdict' = NoVerdict
        /\ UNCHANGED <<row, versions, docs, policy, anchors, life, policyLog, sealed,
                       call, outside>>
    BY <1>5 DEF EditFile, tables, log
  <2>2. QED
    BY <2>1, ConstantTypes
       DEF StoreInv, TypeOK, ApprovalsMatchLog, ApprovalsMatchPolicy, CallMatchesLog
<1>6. ASSUME NEW version \in DOMAIN policyLog, PolicyChanged(version)
      PROVE  StoreInv'
  <2>1. /\ policy' = version /\ outside' = outside + 1 /\ verdict' = NoVerdict
        /\ UNCHANGED <<row, versions, docs, anchors, life, policyLog, sealed, call, disk, edits>>
    BY <1>6 DEF PolicyChanged, log
  <2>2. QED
    BY <2>1, ConstantTypes
       DEF StoreInv, TypeOK, ApprovalsMatchLog, ApprovalsMatchPolicy, CallMatchesLog
<1>7. CASE UNCHANGED vars
  BY <1>7 DEF vars, StoreInv, TypeOK, ApprovalsMatchLog, ApprovalsMatchPolicy, CallMatchesLog
<1>8. QED
  BY <1>1, <1>2, <1>3, <1>4, <1>5, <1>6, <1>7, DiscoverInv, GateDecideInv, ApproveInv,
     SetStateInv, SetPolicyInv, RowChangedInv DEF Next

-----------------------------------------------------------------------------
(* The refinement: every step is a step of the contract or changes nothing *)

\* Trust can be withdrawn in every step that reads or grants nothing.
LEMMA WithdrawMaps ==
  ASSUME \A c \in Components : Granted(c)' \in {{}, Granted(c)},
         Offered' \in {{}, Offered}, disk' = disk, verdict' = NoVerdict
  PROVE  Contract!Withdraw
BY DEF Contract!Withdraw, Contract!Withdraws, Contract!NoVerdict, NoVerdict

LEMMA GrantKept ==
  ASSUME NEW c, UNCHANGED <<docs, policyLog>>,
         life'[c] = life[c] \/ life'[c].event # "APPROVED"
  PROVE  Granted(c)' \in {{}, Granted(c)}
BY DEF Granted

\* Trust in a component the file defines is trust in what the file says of it.
LEMMA ReloadGrants ==
  ASSUME StoreInv, NEW s \in Sources, disk[s] \in Raws, NEW severe,
         Reload(s, disk[s], severe), RowsVerified(s, disk[s]),
         UNCHANGED <<docs, policyLog>>, NEW c \in Components
  PROVE  /\ Granted(c)' \in {{}, Granted(c)}
         /\ c \in InFile(s, disk[s]) => Granted(c)' \subseteq {PrintOf(disk[s], c)}
<1>1. TypeOK
  BY DEF StoreInv
<1>2. \/ life'[c].event # "APPROVED"
      \/ /\ life'[c] = life[c]
         /\ c \in InFile(s, disk[s]) => Unchanged(c, disk[s]) /\ SnapshotValid(c)
  BY <1>1, ReloadEffect
<1>3. Granted(c)' \in {{}, Granted(c)}
  BY <1>2, GrantKept
<1>4. ASSUME Unchanged(c, disk[s]), SnapshotValid(c)
      PROVE  Granted(c) \subseteq {PrintOf(disk[s], c)}
  BY <1>4 DEF Granted, StoreInv, ApprovalsMatchLog, Unchanged, SnapshotValid
<1>5. life'[c].event # "APPROVED" => Granted(c)' = {}
  BY DEF Granted
<1>6. QED
  BY <1>2, <1>3, <1>4, <1>5

\* A refresh followed by an offer of what it read, or by none.
LEMMA RefreshMaps ==
  ASSUME StoreInv, NEW s \in Sources, Refresh(s), Offered = {}, verdict' = NoVerdict,
         \/ Offered' = {}
         \/ \E c \in Components : /\ SourceOf[c] = s
                                  /\ row'[c].valid
                                  /\ Offered' = {[comp |-> c, print |-> row'[c].print]}
  PROVE  Contract!Next
<1>1. TypeOK /\ UNCHANGED <<disk, docs, policyLog>>
  BY DEF StoreInv, Refresh
<1>2. CASE Invalidate(s)
  <2>1. \A c \in Components : Granted(c)' \in {{}, Granted(c)}
    BY <1>1, <1>2, InvalidateEffect, GrantKept
  <2>2. Offered' = {}
    BY <1>1, <1>2, InvalidateEffect
  <2>3. Contract!Withdraw
    BY <1>1, <2>1, <2>2, WithdrawMaps
  <2>4. QED
    BY <2>3 DEF Contract!Next
<1>3. ASSUME disk[s] \in Raws, RowsVerified(s, disk[s]), NEW severe,
             Reload(s, disk[s], severe)
      PROVE  Contract!Observe(s)
  <2>1. \A c \in Components :
          /\ Granted(c)' \in {{}, Granted(c)}
          /\ c \in InFile(s, disk[s]) => Granted(c)' \subseteq {PrintOf(disk[s], c)}
    BY <1>1, <1>3, ReloadGrants
  <2>2. Offered' \in {{}} \cup {{[comp |-> c, print |-> PrintOf(disk[s], c)]} :
                                  c \in InFile(s, disk[s])}
    BY <1>1, RefreshEffect
  <2>3. disk[s] # Unreadable
    BY <1>3, StoreAssumption
  <2>4. QED
    BY <1>1, <2>1, <2>2, <2>3
       DEF Contract!Observe, Contract!Withdraws, Contract!InFile, Contract!PrintOf,
           Contract!NoVerdict, InFile, PrintOf, NoVerdict
<1>4. QED
  <2>1. \/ Invalidate(s)
        \/ /\ disk[s] # Unreadable
           /\ RowsVerified(s, disk[s])
           /\ \E severe \in SUBSET ToPersist(s, disk[s]) : Reload(s, disk[s], severe)
    BY DEF Refresh
  <2>2. disk[s] # Unreadable => disk[s] \in Raws
    BY <1>1 DEF TypeOK
  <2>3. QED
    BY <1>2, <1>3, <2>1, <2>2 DEF Contract!Next

LEMMA ReadMaps ==
  ASSUME StoreInv, NEW op \in {"approve", "gate"}, NEW c \in Components, NEW want,
         Read(op, c, want)
  PROVE  Contract!Next
<1>1. /\ Refresh(SourceOf[c]) /\ call = Idle /\ verdict' = NoVerdict
      /\ \/ call' = [op |-> op, comp |-> c, want |-> want, current |-> row'[c]]
         \/ call' = Idle
  BY DEF Read
<1>2. Offered = {}
  BY <1>1 DEF Offered, Idle
<1>3. \/ Offered' = {}
      \/ row'[c].valid /\ Offered' = {[comp |-> c, print |-> row'[c].print]}
  BY <1>1 DEF Offered, Idle
<1>4. SourceOf[c] \in Sources
  BY StoreAssumption
<1>5. QED
  BY <1>1, <1>2, <1>3, <1>4, RefreshMaps

LEMMA ApproveMaps == StoreInv /\ StoreInv' /\ Approve => Contract!Grant
<1> SUFFICES ASSUME StoreInv, Approve, NEW c, c = call.comp
             PROVE  Contract!Grant
  OBVIOUS
<1> DEFINE doc == [comp |-> c, version |-> call.current.version,
                   print |-> call.current.print, policy |-> policy]
<1>1. /\ call.op = "approve" /\ call.current.valid
      /\ policy = Len(policyLog)
      /\ docs' = Append(docs, doc)
      /\ life' = [life EXCEPT ![c] = [event |-> "APPROVED", approval |-> Len(docs) + 1]]
      /\ call' = Idle
      /\ verdict' = NoVerdict
      /\ UNCHANGED <<policyLog, disk>>
  BY DEF Approve, environment, PolicyVerified
<1>2. /\ c \in Components
      /\ docs \in Seq(Documents)
      /\ life \in [Components -> [event : LifeEvents, approval : Nat]]
  BY <1>1, CallType DEF StoreInv, TypeOK
<1> HIDE DEF doc
<1>3. /\ docs'[Len(docs) + 1] = doc
      /\ \A i \in DOMAIN docs : docs'[i] = docs[i]
  BY <1>1, <1>2
<1>4. Granted(c)' = {call.current.print}
  <2>1. life'[c] = [event |-> "APPROVED", approval |-> Len(docs) + 1]
    BY <1>1, <1>2
  <2>2. doc.print = call.current.print /\ doc.policy = policy
    BY DEF doc
  <2>3. docs'[life'[c].approval] = doc /\ life'[c].event = "APPROVED"
    BY <1>3, <2>1
  <2>4. QED
    BY <1>1, <2>2, <2>3 DEF Granted
<1>5. ASSUME NEW other \in Components, other # c
      PROVE  Granted(other)' = Granted(other)
  <2>1. life'[other] = life[other]
    BY <1>1, <1>2, <1>5
  <2>2. life[other].event = "APPROVED" => life[other].approval \in DOMAIN docs
    BY DEF StoreInv, ApprovalsMatchLog
  <2>3. QED
    BY ZenonT(30), <1>1, <1>3, <2>1, <2>2 DEF Granted
<1>6. Offered = {[comp |-> c, print |-> call.current.print]} /\ Offered' = {}
  BY <1>1 DEF Offered, Idle
<1>7. [other \in Components |-> Granted(other)']
        = [[other \in Components |-> Granted(other)] EXCEPT ![c] = {call.current.print}]
  BY <1>2, <1>4, <1>5
<1>8. QED
  BY <1>1, <1>6, <1>7 DEF Contract!Grant, Contract!NoVerdict, NoVerdict

LEMMA GateDecideMaps == StoreInv /\ GateDecide => Contract!Allow \/ Contract!Withdraw
<1> SUFFICES ASSUME StoreInv, GateDecide PROVE Contract!Allow \/ Contract!Withdraw
  OBVIOUS
<1> DEFINE c == call.comp
<1>1. /\ call.op = "gate" /\ call' = Idle
      /\ UNCHANGED <<row, docs, policy, anchors, life, policyLog, disk>>
  BY DEF GateDecide, tables, log, environment
<1>2. c \in Components
  BY <1>1, CallType DEF StoreInv
<1>3. Offered' = {} /\ \A other \in Components : Granted(other)' = Granted(other)
  BY <1>1 DEF Offered, Idle, Granted
<1>4. CASE verdict' = NoVerdict
  BY <1>1, <1>3, <1>4, WithdrawMaps
<1>5. CASE verdict' # NoVerdict
  <2>1. /\ call.current.valid
        /\ ApprovalValid(c)
        /\ verdict' = [allowed |-> TRUE,
                       offer |-> {[comp |-> c, print |-> call.current.print]}]
    BY <1>5 DEF GateDecide
  <2>2. Granted(c) = {row[c].print}
    BY <2>1 DEF ApprovalValid, PolicyVerified, Granted
  <2>3. row[c].print = call.current.print
    BY <1>1, <2>1 DEF StoreInv, CallMatchesLog, ApprovalValid, SnapshotValid
  <2>4. Offered = {[comp |-> c, print |-> call.current.print]}
    BY <1>1, <2>1 DEF Offered
  <2>5. Contract!Allow
    BY <1>1, <1>2, <1>3, <2>1, <2>2, <2>3, <2>4 DEF Contract!Allow
  <2>6. QED
    BY <2>5
<1>6. QED
  BY <1>4, <1>5

LEMMA SetPolicyMaps ==
  ASSUME StoreInv, NEW acts \in Policies, SetPolicy(acts)
  PROVE  Contract!Withdraw
<1>1. /\ policyLog' = Append(policyLog, acts)
      /\ verdict' = NoVerdict
      /\ UNCHANGED <<docs, life, disk, call>>
  BY DEF SetPolicy, environment
<1>2. Len(policyLog') = Len(policyLog) + 1 /\ Len(policyLog) \in Nat
  <2>1. policyLog \in Seq(PolicySet)
    BY DEF StoreInv, TypeOK
  <2>2. QED
    BY <1>1, <2>1
<1>3. ASSUME NEW c \in Components
      PROVE  Granted(c)' = {}
  <2>1. life[c].event = "APPROVED" => docs[life[c].approval].policy <= Len(policyLog)
    BY DEF StoreInv, ApprovalsMatchLog, ApprovalsMatchPolicy
  <2>2. life[c].event = "APPROVED" => docs[life[c].approval].policy \in Nat
    <3>1. \A id \in DOMAIN docs : docs[id] \in Documents
      BY DEF StoreInv, TypeOK
    <3>2. QED
      BY <3>1 DEF StoreInv, ApprovalsMatchLog, Documents
  <2>3. life[c].event = "APPROVED" => docs[life[c].approval].policy # Len(policyLog')
    BY <1>2, <2>1, <2>2
  <2>4. QED
    BY <1>1, <2>3 DEF Granted
<1>4. Offered' = Offered
  BY <1>1 DEF Offered
<1>5. QED
  BY <1>1, <1>3, <1>4, WithdrawMaps

LEMMA SetStateMaps ==
  ASSUME StoreInv, NEW c \in Components, NEW state \in Isolated, SetState(c, state)
  PROVE  Contract!Withdraw
<1>1. /\ life' = [life EXCEPT ![c] = Event(state)]
      /\ verdict' = NoVerdict
      /\ UNCHANGED <<docs, policyLog, disk, call>>
  BY DEF SetState, environment
<1>2. life \in [Components -> [event : LifeEvents, approval : Nat]]
  BY DEF StoreInv, TypeOK
<1>3. \A other \in Components : life'[other] = life[other] \/ life'[other].event # "APPROVED"
  BY <1>1, <1>2 DEF Event, Isolated
<1>4. \A other \in Components : Granted(other)' \in {{}, Granted(other)}
  BY <1>1, <1>3, GrantKept
<1>5. Offered' = Offered
  BY <1>1 DEF Offered
<1>6. QED
  BY <1>1, <1>4, <1>5, WithdrawMaps

\* What changes neither the log nor the call is a withdrawal of nothing.
LEMMA QuietMaps ==
  ASSUME UNCHANGED <<docs, policyLog, life, disk>>, verdict' = NoVerdict,
         call' \in {call, Idle}
  PROVE  Contract!Withdraw
<1>1. \A c \in Components : Granted(c)' = Granted(c)
  BY DEF Granted
<1>2. Offered' \in {{}, Offered}
  BY DEF Offered, Idle
<1>3. QED
  BY <1>1, <1>2, WithdrawMaps

LEMMA EditMaps ==
  ASSUME NEW s \in Sources, NEW content \in Raws \cup {Unreadable}, EditFile(s, content)
  PROVE  Contract!Edit(s, content)
<1>1. /\ disk' = [disk EXCEPT ![s] = content] /\ verdict' = NoVerdict
      /\ UNCHANGED <<docs, policyLog, life, call>>
  BY DEF EditFile, tables, log
<1>2. Offered' = Offered /\ \A c \in Components : Granted(c)' = Granted(c)
  BY <1>1 DEF Offered, Granted
<1>3. QED
  BY <1>1, <1>2 DEF Contract!Edit, Contract!NoVerdict, NoVerdict

LEMMA StepMaps == StoreInv /\ [Next]_vars => [Contract!Next]_(Contract!vars)
<1> SUFFICES ASSUME StoreInv, [Next]_vars
             PROVE  Contract!Next \/ UNCHANGED Contract!vars
  OBVIOUS
<1>1. ASSUME NEW s \in Sources, Discover(s)
      PROVE  Contract!Next
  <2>1. /\ Refresh(s) /\ call = Idle /\ verdict' = NoVerdict /\ call' = call
    BY <1>1 DEF Discover
  <2>2. Offered = {} /\ Offered' = {}
    BY <2>1 DEF Offered, Idle
  <2>3. QED
    BY <2>1, <2>2, RefreshMaps
<1>2. ASSUME NEW c \in Components, ApproveRead(c)
      PROVE  Contract!Next
  BY <1>2, ReadMaps DEF ApproveRead
<1>3. ASSUME NEW c \in Components, GateRead(c)
      PROVE  Contract!Next
  BY <1>3, ReadMaps DEF GateRead
<1>4. CASE Approve
  BY <1>4, StoreStep, ApproveMaps DEF Contract!Next
<1>5. CASE GateDecide
  BY <1>5, GateDecideMaps DEF Contract!Next
<1>6. CASE Abandon
  <2>1. Contract!Withdraw
    BY <1>6, QuietMaps DEF Abandon, tables, log, environment
  <2>2. QED
    BY <2>1 DEF Contract!Next
<1>7. ASSUME NEW c \in Components, GateRefuse(c)
      PROVE  Contract!Next
  <2>1. Contract!Withdraw
    BY <1>7, QuietMaps DEF GateRefuse, tables, log, environment
  <2>2. QED
    BY <2>1 DEF Contract!Next
<1>8. ASSUME NEW c \in Components, NEW record, RowChanged(c, record)
      PROVE  Contract!Next
  <2>1. Contract!Withdraw
    BY <1>8, QuietMaps DEF RowChanged, log
  <2>2. QED
    BY <2>1 DEF Contract!Next
<1>9. ASSUME NEW version, PolicyChanged(version)
      PROVE  Contract!Next
  <2>1. Contract!Withdraw
    BY <1>9, QuietMaps DEF PolicyChanged, log
  <2>2. QED
    BY <2>1 DEF Contract!Next
<1>10. CASE UNCHANGED vars
  BY <1>10 DEF vars, Contract!vars, Granted, Offered
<1>11. QED
  BY <1>1, <1>2, <1>3, <1>4, <1>5, <1>6, <1>7, <1>8, <1>9, <1>10, SetStateMaps,
     SetPolicyMaps, EditMaps DEF Next, Contract!Next

\* Every variable keeps its type, and an approval in the signed history is for
\* the latest version that history knows, in every reachable state.
THEOREM StoreInvariant == Spec => []StoreInv
BY InitTyped, StoreStep, PTL DEF Spec

\* The gate, discovery, approval, revocation and policy code keeps the promise
\* stated in GateContract, for any files, components, policies and bounds.
THEOREM StoreKeepsContract == Spec => KeepsContract
<1>1. Init => Contract!Init
  BY DEF Init, Contract!Init, Contract!NoVerdict, NoVerdict, Granted, NoEvent, Offered, Idle
<1>2. QED
  BY <1>1, StoreInvariant, StepMaps, PTL DEF Spec, Contract!Spec, KeepsContract

-----------------------------------------------------------------------------
(* Version numbers *)

\* The versions table has a record for every version event in the log.
Numbered(c) ==
  /\ Len(versions[c]) = Len(anchors[c])
  /\ \A v \in DOMAIN anchors[c] : anchors[c][v].version = v

\* Appending the next number keeps the numbering.
LEMMA NextNumber ==
  ASSUME NEW S, NEW q \in Seq(S), NEW e \in S, e.version = Len(q) + 1,
         \A v \in DOMAIN q : q[v].version = v
  PROVE  \A v \in DOMAIN Append(q, e) : Append(q, e)[v].version = v
OBVIOUS

LEMMA RefreshNumbers ==
  ASSUME StoreInv, NEW s \in Sources, Refresh(s), NEW c \in Components, Numbered(c)
  PROVE  Numbered(c)'
<1>1. /\ TypeOK
      /\ row[c] \in Records
      /\ anchors[c] \in Seq(Anchors)
      /\ versions[c] \in Seq(Records)
  BY DEF StoreInv, TypeOK
<1>2. CASE UNCHANGED <<versions[c], anchors[c]>>
  BY <1>2 DEF Numbered
<1>3. ASSUME disk[s] \in Raws, RowsVerified(s, disk[s]), ~VersionExists(s, disk[s]),
             NEW severe, Reload(s, disk[s], severe), c \in ToPersist(s, disk[s])
      PROVE  Numbered(c)'
  <2> DEFINE new == NewRecord(c, PrintOf(disk[s], c), severe)
             added == [version |-> new.version, print |-> new.print]
  <2>1. /\ row'[c] = new
        /\ versions'[c] = Append(versions[c], row'[c])
        /\ anchors'[c] = Append(anchors[c], [version |-> row'[c].version,
                                             print |-> row'[c].print])
    BY <1>3 DEF Reload
  <2>2. new.version = row[c].version + 1 /\ row[c].version \in Nat
    BY <1>1 DEF NewRecord, Records
  <2>3. new \in Records
    BY <1>1, <1>3, PrintType, NewRecordType
  <2>4. row[c].version = Len(anchors[c])
    <3>1. CASE Present(c)
      <4>1. SnapshotValid(c)
        BY <1>3, <3>1 DEF RowsVerified, ToPersist
      <4>2. Len(anchors[c]) \in DOMAIN anchors[c]
        BY <1>1, <4>1 DEF SnapshotValid
      <4>3. QED
        BY <4>1, <4>2 DEF SnapshotValid, Numbered
    <3>2. CASE ~Present(c)
      <4>1. versions[c] = <<>>
        BY <1>3, <3>2 DEF VersionExists, ToPersist
      <4>2. row[c].version = 0
        BY <3>2 DEF Present, NoRow
      <4>3. QED
        BY <1>1, <4>1, <4>2 DEF Numbered
    <3>3. QED
      BY <3>1, <3>2
  <2> HIDE DEF new
  <2>5. added \in Anchors /\ added.version = Len(anchors[c]) + 1
    BY <2>2, <2>3, <2>4 DEF Anchors, Records
  <2>6. anchors'[c] = Append(anchors[c], added) /\ versions'[c] = Append(versions[c], new)
    BY <2>1
  <2> HIDE DEF added
  <2>7. \A v \in DOMAIN anchors'[c] : anchors'[c][v].version = v
    BY <1>1, <2>5, <2>6, NextNumber DEF Numbered
  <2>8. Len(versions'[c]) = Len(anchors'[c])
    <3>1. Len(Append(versions[c], new)) = Len(versions[c]) + 1
      BY <1>1, <2>3
    <3>2. Len(Append(anchors[c], added)) = Len(anchors[c]) + 1
      BY <1>1, <2>5
    <3>3. QED
      BY <2>6, <3>1, <3>2 DEF Numbered
  <2>9. QED
    BY <2>7, <2>8 DEF Numbered
<1>4. QED
  <2>1. \/ Invalidate(s)
        \/ /\ disk[s] \in Raws
           /\ RowsVerified(s, disk[s])
           /\ ~VersionExists(s, disk[s])
           /\ \E severe \in SUBSET ToPersist(s, disk[s]) : Reload(s, disk[s], severe)
    BY <1>1 DEF Refresh, TypeOK
  <2>2. CASE Invalidate(s)
    BY <1>2, <2>2 DEF Invalidate
  <2>3. ASSUME NEW severe, Reload(s, disk[s], severe), c \notin ToPersist(s, disk[s])
        PROVE  UNCHANGED <<versions[c], anchors[c]>>
    BY <2>3 DEF Reload
  <2>4. QED
    BY <1>2, <1>3, <2>1, <2>2, <2>3

LEMMA ApproveNumbers ==
  ASSUME StoreInv, Approve, NEW c \in Components, Numbered(c)
  PROVE  Numbered(c)'
<1>1. versions \in [Components -> Seq(Records)] /\ call.comp \in Components
  BY CallType DEF Approve, StoreInv, TypeOK
<1>2. PICK e : /\ versions' = [versions EXCEPT ![call.comp][call.current.version] = e]
               /\ anchors' = anchors
  BY DEF Approve
<1>3. Len(versions'[c]) = Len(versions[c])
  <2>1. \A i : Len([versions[c] EXCEPT ![i] = e]) = Len(versions[c])
    BY <1>1
  <2>2. QED
    BY <1>1, <1>2, <2>1
<1>4. QED
  BY <1>2, <1>3 DEF Numbered

AllNumbered == \A c \in Components : Numbered(c)

\* Every step keeps the numbering.
LEMMA NumbersStep == StoreInv /\ AllNumbered /\ [Next]_vars => AllNumbered'
<1> SUFFICES ASSUME StoreInv, AllNumbered, [Next]_vars, NEW c \in Components
             PROVE  Numbered(c)'
  BY DEF Numbered, AllNumbered
<1>1. Numbered(c)
  BY DEF AllNumbered
<1>2. CASE UNCHANGED <<versions, anchors>>
  BY <1>1, <1>2 DEF Numbered
<1>3. ASSUME NEW s \in Sources, Refresh(s)
      PROVE  Numbered(c)'
  BY <1>1, <1>3, RefreshNumbers
<1>4. CASE Approve
  BY <1>1, <1>4, ApproveNumbers
<1>5. \A d \in Components : SourceOf[d] \in Sources
  BY StoreAssumption
<1>6. QED
  BY <1>2, <1>3, <1>4, <1>5 DEF Next, vars, Discover, ApproveRead, GateRead, Read,
     GateDecide, Abandon, GateRefuse, SetState, SetPolicy, EditFile, RowChanged,
     PolicyChanged, tables, log

LEMMA NumbersInvariant == Spec => []AllNumbered
<1>1. Init => AllNumbered
  BY DEF Init, Numbered, AllNumbered
<1>2. QED
  BY <1>1, NumbersStep, StoreInvariant, PTL DEF Spec

\* A version number names one content of a component for ever: the versions in
\* the signed history count up from 1 whatever rows are put back or removed
\* (_persist, _validate_snapshot and the primary key of the versions table).
THEOREM VersionsAreNames == Spec => []VersionNamesOneContent
<1>1. AllNumbered => VersionNamesOneContent
  BY DEF AllNumbered, Numbered, VersionNamesOneContent
<1>2. QED
  BY <1>1, NumbersInvariant, PTL
-----------------------------------------------------------------------------
(* What no other connection disturbs *)

\* Row, log and records of a component agree, and an approval in force is in
\* its row.
Consistent(c) ==
  /\ anchors[c] # <<>> => SnapshotValid(c)
  /\ life[c].event = "APPROVED" /\ docs[life[c].approval].policy = Len(policyLog)
       => row[c].valid /\ row[c].state = "APPROVED" /\ row[c].approval = life[c].approval
  /\ \A v \in DOMAIN versions[c] : /\ versions[c][v].version = v
                                   /\ versions[c][v].print = anchors[c][v].print

\* A call still sees the row it has read.
CallFresh == call.op # "none" => call.current = row[call.comp]

Undisturbed ==
  outside = 0 => PolicyVerified /\ CallFresh /\ \A c \in Components : Consistent(c)

\* What a refresh does to one component.
LEMMA RefreshCases ==
  ASSUME TypeOK, NEW s \in Sources, Refresh(s), NEW c \in Components
  PROVE  \/ /\ row'[c] = row[c] \/ (row'[c] = Lost(row[c]) /\ life'[c].event # "APPROVED")
            /\ row'[c] = row[c] => life'[c] = life[c] \/ life'[c].event # "APPROVED"
            /\ UNCHANGED <<versions[c], anchors[c]>>
         \/ /\ row'[c] \in Records
            /\ versions'[c] = Append(versions[c], row'[c])
            /\ anchors'[c] = Append(anchors[c], [version |-> row'[c].version,
                                                 print |-> row'[c].print])
            /\ life'[c].event # "APPROVED"
<1>1. CASE Invalidate(s)
  BY <1>1 DEF Invalidate, Event
<1>2. ASSUME NEW severe, disk[s] \in Raws, Reload(s, disk[s], severe)
      PROVE  \/ /\ row'[c] = row[c] \/ (row'[c] = Lost(row[c]) /\ life'[c].event # "APPROVED")
                /\ row'[c] = row[c] => life'[c] = life[c] \/ life'[c].event # "APPROVED"
                /\ UNCHANGED <<versions[c], anchors[c]>>
             \/ /\ row'[c] \in Records
                /\ versions'[c] = Append(versions[c], row'[c])
                /\ anchors'[c] = Append(anchors[c], [version |-> row'[c].version,
                                                     print |-> row'[c].print])
                /\ life'[c].event # "APPROVED"
  <2>1. CASE c \in ToPersist(s, disk[s])
    <3>1. /\ row'[c] = NewRecord(c, PrintOf(disk[s], c), severe)
          /\ versions'[c] = Append(versions[c], row'[c])
          /\ anchors'[c] = Append(anchors[c], [version |-> row'[c].version,
                                               print |-> row'[c].print])
          /\ life'[c] = Event(IF Present(c) THEN "VERSION_CHANGED" ELSE "DISCOVERED")
      BY <1>2, <2>1 DEF Reload
    <3>2. row'[c] \in Records
      BY <1>2, <3>1, PrintType, NewRecordType
    <3>3. life'[c].event # "APPROVED"
      BY <3>1 DEF Event
    <3>4. QED
      BY <3>1, <3>2, <3>3
  <2>2. CASE c \notin ToPersist(s, disk[s])
    BY <1>2, <2>2 DEF Reload, Event
  <2>3. QED
    BY <2>1, <2>2
<1>3. \/ Invalidate(s)
      \/ disk[s] \in Raws /\ \E severe : Reload(s, disk[s], severe)
  BY DEF Refresh, TypeOK
<1>4. QED
  BY <1>1, <1>2, <1>3

\* A refresh records a new version in row, log and table alike.
LEMMA RefreshConsistent ==
  ASSUME StoreInv, NEW s \in Sources, Refresh(s), NEW c \in Components,
         Numbered(c), Numbered(c)', Consistent(c)
  PROVE  Consistent(c)'
<1>1. /\ TypeOK
      /\ row[c] \in Records
      /\ anchors[c] \in Seq(Anchors)
      /\ versions[c] \in Seq(Records)
      /\ UNCHANGED <<docs, policyLog>>
  BY DEF StoreInv, TypeOK, Refresh
<1>2. CASE /\ row'[c] = row[c] \/ (row'[c] = Lost(row[c]) /\ life'[c].event # "APPROVED")
           /\ row'[c] = row[c] => life'[c] = life[c] \/ life'[c].event # "APPROVED"
           /\ UNCHANGED <<versions[c], anchors[c]>>
  <2>1. row'[c].version = row[c].version /\ row'[c].print = row[c].print
    BY <1>1, <1>2 DEF Lost, Records
  <2>2. (anchors[c] # <<>> => SnapshotValid(c))'
    BY <1>2, <2>1 DEF Consistent, SnapshotValid
  <2>3. life'[c].event = "APPROVED" => life'[c] = life[c] /\ row'[c] = row[c]
    BY <1>2
  <2>4. QED
    BY <1>1, <1>2, <2>2, <2>3 DEF Consistent
<1>3. CASE /\ row'[c] \in Records
           /\ versions'[c] = Append(versions[c], row'[c])
           /\ anchors'[c] = Append(anchors[c], [version |-> row'[c].version,
                                                print |-> row'[c].print])
           /\ life'[c].event # "APPROVED"
  <2> DEFINE added == [version |-> row'[c].version, print |-> row'[c].print]
             n == Len(versions[c]) + 1
  <2>1. added \in Anchors /\ added.version = row'[c].version /\ added.print = row'[c].print
    BY <1>3 DEF Records, Anchors
  <2>2. anchors'[c] = Append(anchors[c], added)
    BY <1>3
  <2> HIDE DEF added
  <2>3. /\ Len(anchors[c]) + 1 = n
        /\ n \in DOMAIN anchors'[c]
        /\ Len(anchors'[c]) = n
        /\ anchors'[c] # <<>>
        /\ anchors'[c][n] = added
        /\ \A v \in DOMAIN versions[c] : anchors'[c][v] = anchors[c][v]
    BY <1>1, <2>1, <2>2 DEF Numbered
  <2>4. /\ DOMAIN versions'[c] = DOMAIN versions[c] \cup {n}
        /\ versions'[c][n] = row'[c]
        /\ \A v \in DOMAIN versions[c] : versions'[c][v] = versions[c][v]
    BY <1>1, <1>3
  <2> HIDE DEF n
  <2>5. added.version = n
    BY <2>3 DEF Numbered
  <2>6. SnapshotValid(c)'
    BY <2>1, <2>3 DEF SnapshotValid
  <2>7. ASSUME NEW v \in DOMAIN versions'[c]
        PROVE  /\ versions'[c][v].version = v
               /\ versions'[c][v].print = anchors'[c][v].print
    <3>1. CASE v = n
      BY <2>1, <2>3, <2>4, <2>5, <3>1
    <3>2. CASE v # n
      BY <2>3, <2>4, <2>7, <3>2 DEF Consistent
    <3>3. QED
      BY <3>1, <3>2
  <2>8. QED
    BY <1>3, <2>6, <2>7 DEF Consistent
<1>4. QED
  BY <1>1, <1>2, <1>3, RefreshCases

\* An approval changes the row and the record of the version it is for.
LEMMA ApproveConsistent ==
  ASSUME StoreInv, Approve, CallFresh, AllNumbered, \A d \in Components : Consistent(d),
         NEW c \in Components
  PROVE  Consistent(c)'
<1> DEFINE id == Len(docs) + 1
           a == call.comp
           record == [row[a] EXCEPT !.state = "APPROVED", !.approval = id]
           stored == [record EXCEPT !.valid = TRUE]
<1>1. /\ call.op = "approve" /\ call.current.valid
      /\ \E doc : docs' = Append(docs, doc)
      /\ row' = [row EXCEPT ![a] = record]
      /\ versions' = [versions EXCEPT ![a][call.current.version] = stored]
      /\ life' = [life EXCEPT ![a] = [event |-> "APPROVED", approval |-> id]]
      /\ UNCHANGED <<anchors, policyLog>>
  BY DEF Approve
<1>2. /\ TypeOK /\ a \in Components
      /\ row \in [Components -> Records] /\ versions \in [Components -> Seq(Records)]
      /\ life \in [Components -> [event : LifeEvents, approval : Nat]]
      /\ docs \in Seq(Documents) /\ row[a] \in Records
  BY <1>1, CallType DEF StoreInv, TypeOK
<1>3. call.current = row[a]
  BY <1>1 DEF CallFresh
<1>4. /\ record.version = row[a].version /\ record.print = row[a].print
      /\ record.valid /\ record.state = "APPROVED" /\ record.approval = id
      /\ stored.version = row[a].version /\ stored.print = row[a].print
  BY <1>1, <1>2, <1>3 DEF Records
<1> HIDE DEF record, stored
<1>5. CASE c = a
  <2>1. row'[c] = record /\ life'[c].approval = id
        /\ versions'[c] = [versions[c] EXCEPT ![row[a].version] = stored]
    BY <1>1, <1>2, <1>3, <1>5
  <2>2. /\ anchors[c] # <<>> /\ SnapshotValid(c)
        /\ row[c].version = Latest(c).version /\ row[c].print = Latest(c).print
    BY <1>1, <1>3, <1>5 DEF StoreInv, CallMatchesLog, Consistent, SnapshotValid, Latest
  <2>3. SnapshotValid(c)'
    BY <1>1, <1>4, <1>5, <2>1, <2>2 DEF SnapshotValid
  <2>4. row[c].version = Len(anchors[c])
    <3>1. anchors[c] \in Seq(Anchors)
      BY <1>2 DEF TypeOK
    <3>2. Len(anchors[c]) \in DOMAIN anchors[c]
      BY <2>2, <3>1
    <3>3. QED
      BY <2>2, <3>2 DEF AllNumbered, Numbered, Latest
  <2>5. ASSUME NEW v \in DOMAIN versions'[c]
        PROVE  /\ versions'[c][v].version = v
               /\ versions'[c][v].print = anchors'[c][v].print
    <3>1. v \in DOMAIN versions[c]
          /\ versions'[c][v] = IF v = row[c].version THEN stored ELSE versions[c][v]
      BY <1>2, <1>5, <2>1, <2>5
    <3>2. CASE v = row[c].version
      BY <1>1, <1>4, <1>5, <2>2, <2>4, <3>1, <3>2 DEF Latest
    <3>3. CASE v # row[c].version
      BY <1>1, <3>1, <3>3 DEF Consistent
    <3>4. QED
      BY <3>2, <3>3
  <2>6. QED
    BY <1>4, <2>1, <2>3, <2>5 DEF Consistent
<1>6. CASE c # a
  <2>1. row'[c] = row[c] /\ life'[c] = life[c] /\ versions'[c] = versions[c]
    BY <1>1, <1>2, <1>6
  <2>2. life[c].event = "APPROVED" => docs'[life[c].approval] = docs[life[c].approval]
    <3>1. life[c].event = "APPROVED" => life[c].approval \in DOMAIN docs
      BY DEF StoreInv, ApprovalsMatchLog
    <3>2. \A doc : \A i \in DOMAIN docs : Append(docs, doc)[i] = docs[i]
      BY <1>2
    <3>3. QED
      BY <1>1, <3>1, <3>2
  <2>3. anchors' = anchors /\ policyLog' = policyLog /\ Consistent(c)
    BY <1>1
  <2>4. (anchors[c] # <<>> => SnapshotValid(c))'
    BY <2>1, <2>3 DEF Consistent, SnapshotValid
  <2>5. life'[c].event = "APPROVED" => docs'[life'[c].approval] = docs[life[c].approval]
    BY <2>1, <2>2
  <2>6. QED
    BY <2>1, <2>3, <2>4, <2>5 DEF Consistent
<1>7. QED
  BY <1>5, <1>6

\* Every step but one of another connection keeps the tables and the log in line.
LEMMA UndisturbedStep ==
  StoreInv /\ AllNumbered /\ AllNumbered' /\ Undisturbed /\ [Next]_vars => Undisturbed'
<1> SUFFICES ASSUME StoreInv, AllNumbered, AllNumbered', Undisturbed, [Next]_vars, outside' = 0
             PROVE  PolicyVerified' /\ CallFresh' /\ \A c \in Components : Consistent(c)'
  BY DEF Undisturbed
<1>1. outside \in Nat /\ TypeOK
  BY DEF StoreInv, TypeOK
<1>2. ASSUME NEW c \in Components, NEW record, RowChanged(c, record) PROVE FALSE
  BY <1>1, <1>2 DEF RowChanged
<1>3. ASSUME NEW version, PolicyChanged(version) PROVE FALSE
  BY <1>1, <1>3 DEF PolicyChanged
<1>4. outside = 0
  BY <1>1, <1>2, <1>3 DEF Next, vars, Discover, ApproveRead, GateRead, Read, Refresh,
     GateDecide, Approve, Abandon, GateRefuse, SetState, SetPolicy, EditFile, environment
<1>5. PolicyVerified /\ CallFresh /\ \A c \in Components : Consistent(c)
  BY <1>4 DEF Undisturbed
<1>6. ASSUME UNCHANGED tables, UNCHANGED log, UNCHANGED call \/ call'.op = "none"
      PROVE  PolicyVerified' /\ CallFresh' /\ \A c \in Components : Consistent(c)'
  BY <1>5, <1>6 DEF tables, log, PolicyVerified, CallFresh, Consistent, SnapshotValid
<1>7. ASSUME NEW s \in Sources, Refresh(s),
             \/ call'.op = "none"
             \/ call'.current = row'[call'.comp]
      PROVE  PolicyVerified' /\ CallFresh' /\ \A c \in Components : Consistent(c)'
  <2>1. PolicyVerified'
    BY <1>5, <1>7 DEF Refresh, PolicyVerified
  <2>2. ASSUME NEW c \in Components PROVE Consistent(c)'
    <3>1. Numbered(c) /\ Numbered(c)' /\ Consistent(c)
      BY <1>5 DEF AllNumbered
    <3>2. QED
      BY <1>7, <3>1, RefreshConsistent
  <2>3. QED
    BY <1>7, <2>1, <2>2 DEF CallFresh
<1>8. CASE Approve
  <2>1. PolicyVerified' /\ CallFresh'
    BY <1>5, <1>8 DEF Approve, PolicyVerified, CallFresh, Idle
  <2>2. \A c \in Components : Consistent(c)'
    BY <1>5, <1>8, ApproveConsistent
  <2>3. QED
    BY <2>1, <2>2
<1>9. ASSUME NEW c \in Components, NEW state \in Isolated, SetState(c, state)
      PROVE  PolicyVerified' /\ CallFresh' /\ \A d \in Components : Consistent(d)'
  <2>1. /\ PolicyVerified'
        /\ CallFresh'
        /\ UNCHANGED <<versions, docs, anchors, policyLog>>
    BY <1>5, <1>9 DEF SetState, PolicyVerified, CallFresh, Idle
  <2>2. ASSUME NEW d \in Components PROVE Consistent(d)'
    <3>1. /\ row'[d].version = row[d].version /\ row'[d].print = row[d].print
          /\ life'[d].event = "APPROVED" => life'[d] = life[d] /\ row'[d] = row[d]
      BY <1>1, <1>9 DEF SetState, TypeOK, Records, Event, Isolated
    <3>2. (anchors[d] # <<>> => SnapshotValid(d))'
      BY <1>5, <2>1, <3>1 DEF Consistent, SnapshotValid
    <3>3. QED
      BY <1>5, <2>1, <3>1, <3>2 DEF Consistent
  <2>3. QED
    BY <2>1, <2>2
<1>10. ASSUME NEW acts \in Policies, SetPolicy(acts)
       PROVE  PolicyVerified' /\ CallFresh' /\ \A c \in Components : Consistent(c)'
  <2>1. acts \in PolicySet /\ policyLog \in Seq(PolicySet)
    BY <1>1, StoreAssumption DEF TypeOK
  <2>2. Len(policyLog') = Len(policyLog) + 1 /\ Len(policyLog) \in Nat
    <3>1. policyLog' = Append(policyLog, acts)
      BY <1>10 DEF SetPolicy
    <3>2. Len(Append(policyLog, acts)) = Len(policyLog) + 1 /\ Len(policyLog) \in Nat
      BY <2>1
    <3>3. QED
      BY <3>1, <3>2
  <2>3. PolicyVerified'
    BY <1>10, <2>2 DEF SetPolicy, PolicyVerified
  <2>4. CallFresh' /\ UNCHANGED <<versions, docs, anchors, life>>
    BY <1>10 DEF SetPolicy, CallFresh, Idle
  <2>5. ASSUME NEW c \in Components PROVE Consistent(c)'
    <3>1. row'[c].version = row[c].version /\ row'[c].print = row[c].print
      BY <1>1, <1>10 DEF SetPolicy, TypeOK, Records
    <3>2. (anchors[c] # <<>> => SnapshotValid(c))'
      BY <1>5, <2>4, <3>1 DEF Consistent, SnapshotValid
    <3>3. life[c].event = "APPROVED" => docs[life[c].approval].policy # Len(policyLog')
      <4>1. life[c].event = "APPROVED" => life[c].approval \in DOMAIN docs
        BY DEF StoreInv, ApprovalsMatchLog
      <4>2. \A i \in DOMAIN docs : docs[i].policy \in Nat /\ docs[i].policy <= Len(policyLog)
        <5>1. docs \in Seq(Documents)
          BY <1>1 DEF TypeOK
        <5>2. \A i \in DOMAIN docs : docs[i] \in Documents
          BY <5>1
        <5>3. QED
          BY <5>2 DEF Documents, StoreInv, ApprovalsMatchPolicy
      <4>3. \A i \in DOMAIN docs : docs[i].policy # Len(policyLog')
        BY <2>2, <4>2
      <4>4. QED
        BY <4>1, <4>3
    <3>4. QED
      BY <1>5, <2>4, <3>2, <3>3 DEF Consistent
  <2>6. QED
    BY <2>3, <2>4, <2>5
<1>11. \A d \in Components : SourceOf[d] \in Sources
  BY StoreAssumption
<1>12. ASSUME NEW c \in Components, ApproveRead(c) \/ GateRead(c)
       PROVE  PolicyVerified' /\ CallFresh' /\ \A d \in Components : Consistent(d)'
  <2>1. /\ Refresh(SourceOf[c])
        /\ call'.op = "none" \/ call'.current = row'[call'.comp]
    BY <1>12 DEF ApproveRead, GateRead, Read, Idle
  <2>2. QED
    BY <1>7, <1>11, <2>1
<1>13. ASSUME NEW s \in Sources, Discover(s)
       PROVE  PolicyVerified' /\ CallFresh' /\ \A d \in Components : Consistent(d)'
  BY <1>7, <1>13 DEF Discover, Idle
<1>14. CASE GateDecide \/ Abandon
  BY <1>6, <1>14 DEF GateDecide, Abandon, Idle
<1>15. ASSUME NEW c \in Components, GateRefuse(c)
       PROVE  PolicyVerified' /\ CallFresh' /\ \A d \in Components : Consistent(d)'
  BY <1>6, <1>15 DEF GateRefuse
<1>16. ASSUME NEW s \in Sources, NEW content, EditFile(s, content)
       PROVE  PolicyVerified' /\ CallFresh' /\ \A d \in Components : Consistent(d)'
  BY <1>6, <1>16 DEF EditFile
<1>17. CASE UNCHANGED vars
  BY <1>6, <1>17 DEF vars, tables, log
<1>18. QED
  BY <1>2, <1>3, <1>8, <1>9, <1>10, <1>12, <1>13, <1>14, <1>15, <1>16, <1>17 DEF Next

LEMMA UndisturbedInvariant == Spec => []Undisturbed
<1>1. Init => Undisturbed
  BY DEF Init, Undisturbed, PolicyVerified, CallFresh, Consistent, Idle, NoEvent
<1>2. QED
  BY <1>1, UndisturbedStep, NumbersInvariant, StoreInvariant, PTL DEF Spec

\* What the signed history grants is never refused by the checks of the gate as
\* long as nobody else writes the tables (_approval_valid).
THEOREM GrantsAreUsable == Spec => []GrantIsUsable
<1>1. StoreInv /\ Undisturbed => GrantIsUsable
  <2> SUFFICES ASSUME StoreInv, Undisturbed, outside = 0,
                      NEW c \in Components, Granted(c) # {}
               PROVE  ApprovalValid(c)
    BY DEF GrantIsUsable
  <2> DEFINE id == life[c].approval
  <2>1. life[c].event = "APPROVED" /\ docs[id].policy = Len(policyLog)
    BY DEF Granted
  <2>2. /\ id \in DOMAIN docs /\ anchors[c] # <<>>
        /\ docs[id].comp = c
        /\ docs[id].version = Latest(c).version
        /\ docs[id].print = Latest(c).print
    BY <2>1 DEF StoreInv, ApprovalsMatchLog, Latest
  <2>3. /\ PolicyVerified /\ SnapshotValid(c)
        /\ row[c].valid /\ row[c].state = "APPROVED" /\ row[c].approval = id
    BY <2>1, <2>2 DEF Undisturbed, Consistent
  <2>4. docs[id] \in Documents /\ life[c] \in [event : LifeEvents, approval : Nat]
    BY <2>2 DEF StoreInv, TypeOK
  <2>5. docs[id] = [comp |-> c, version |-> row[c].version, print |-> row[c].print,
                    policy |-> policy]
    BY <2>1, <2>2, <2>3, <2>4 DEF Documents, SnapshotValid, Latest, PolicyVerified
  <2>6. life[c] = [event |-> "APPROVED", approval |-> row[c].approval]
    BY <2>1, <2>3, <2>4
  <2>7. QED
    BY <2>2, <2>3, <2>5, <2>6 DEF ApprovalValid
<1>2. QED
  BY <1>1, StoreInvariant, UndisturbedInvariant, PTL

\* The history of a component can always be read back, unless somebody else
\* wrote the tables (history).
THEOREM HistoryIsServed == Spec => []HistoryServed
<1>1. StoreInv /\ AllNumbered /\ Undisturbed => HistoryServed
  <2> SUFFICES ASSUME StoreInv, AllNumbered, Undisturbed, outside = 0, NEW c \in Components
               PROVE  HistoryReadable(c)
    BY DEF HistoryServed
  <2>1. anchors[c] \in Seq(Anchors) /\ versions[c] \in Seq(Records)
    BY DEF StoreInv, TypeOK
  <2>2. DOMAIN versions[c] = DOMAIN anchors[c]
    BY <2>1 DEF AllNumbered, Numbered
  <2>3. {anchors[c][i].version : i \in DOMAIN anchors[c]} = DOMAIN anchors[c]
    BY DEF AllNumbered, Numbered
  <2>4. \A v \in DOMAIN versions[c] : /\ versions[c][v].version = v
                                      /\ versions[c][v].print = anchors[c][v].print
                                      /\ anchors[c][v].version = v
    BY <2>2 DEF Undisturbed, Consistent, AllNumbered, Numbered
  <2>5. QED
    BY <2>2, <2>3, <2>4 DEF HistoryReadable
<1>2. QED
  BY <1>1, StoreInvariant, NumbersInvariant, UndisturbedInvariant, PTL

\* Once a commit has lost its checkpoint nothing is recorded, approved or
\* allowed any more: no call that has read its source is left either (_verify).
THEOREM StoreFailsClosed == Spec => FailsClosed
<1> DEFINE CallSealed == call # Idle => sealed
           Closed == ~sealed => /\ UNCHANGED <<versions, docs, log, sealed>>
                                /\ ~verdict'.allowed
<1>1. Init => CallSealed
  BY DEF Init
<1>2. CallSealed /\ [Next]_vars => CallSealed'
  <2> SUFFICES ASSUME CallSealed, [Next]_vars PROVE CallSealed'
    OBVIOUS
  <2>1. CASE UNCHANGED <<call, sealed>> \/ call' = Idle
    BY <2>1
  <2>2. ASSUME NEW op, NEW c, NEW want, Read(op, c, want) PROVE CallSealed'
    BY <2>2 DEF Read, Seals
  <2>3. QED
    BY <2>1, <2>2 DEF Next, vars, Discover, ApproveRead, GateRead, GateDecide, Approve,
       Abandon, GateRefuse, SetState, SetPolicy, EditFile, RowChanged, PolicyChanged
<1>3. CallSealed /\ StoreInv /\ [Next]_vars => [Closed]_vars
  <2> SUFFICES ASSUME CallSealed, StoreInv, Next, ~sealed
               PROVE  UNCHANGED <<versions, docs, log, sealed>> /\ ~verdict'.allowed
    OBVIOUS
  <2>1. call = Idle
    OBVIOUS
  <2>2. ~NoVerdict.allowed
    BY DEF NoVerdict
  <2>3. QED
    BY <2>1, <2>2 DEF Next, Discover, Refresh, ApproveRead, GateRead, Read, GateDecide, Approve,
       Abandon, GateRefuse, SetState, SetPolicy, EditFile, RowChanged, PolicyChanged, tables,
       Idle
<1>4. QED
  BY <1>1, <1>2, <1>3, StoreInvariant, PTL DEF Spec, FailsClosed

\* A change of content alone never lifts a revocation or a quarantine: the state
\* ends with an approval, with the loss of the source, or by another connection
\* (_persist, _unavailable, approve).
THEOREM IsolationIsKept == Spec => IsolationStays
<1> DEFINE Stays ==
      \A c \in Components :
        row[c].state \in Isolated /\ row'[c].state \notin Isolated
          => life'[c].event \in {"APPROVED", "SOURCE_UNAVAILABLE"} \/ outside' # outside
<1>1. ASSUME StoreInv, NEW s \in Sources, Refresh(s), NEW c \in Components,
             row[c].state \in Isolated, row'[c].state \notin Isolated
      PROVE  life'[c].event = "SOURCE_UNAVAILABLE"
  <2>1. Present(c)
    BY <1>1 DEF Present, NoRow, Isolated
  <2>2. CASE Invalidate(s)
    BY <1>1, <2>2 DEF Invalidate, Event
  <2>3. ASSUME NEW severe, Reload(s, disk[s], severe)
        PROVE  life'[c].event = "SOURCE_UNAVAILABLE"
    <3>1. c \notin ToPersist(s, disk[s])
      BY <1>1, <2>1, <2>3 DEF Reload, NewRecord
    <3>2. QED
      BY <1>1, <2>3, <3>1 DEF Reload, Event
  <2>4. QED
    BY <1>1, <2>2, <2>3 DEF Refresh
<1>2. StoreInv /\ [Next]_vars => [Stays]_vars
  <2> SUFFICES ASSUME StoreInv, Next, NEW c \in Components,
                      row[c].state \in Isolated, row'[c].state \notin Isolated,
                      outside' = outside
               PROVE  life'[c].event \in {"APPROVED", "SOURCE_UNAVAILABLE"}
    OBVIOUS
  <2>1. /\ row \in [Components -> Records] /\ outside \in Nat
        /\ life \in [Components -> [event : LifeEvents, approval : Nat]]
        /\ \A d \in Components : SourceOf[d] \in Sources
    BY StoreAssumption DEF StoreInv, TypeOK
  <2>2. CASE \E s \in Sources : Refresh(s)
    BY <1>1, <2>2
  <2>3. CASE Approve
    <3>1. row'[c] # row[c]
      OBVIOUS
    <3>2. c = call.comp
      BY <2>1, <2>3, <3>1 DEF Approve
    <3>3. QED
      BY <2>1, <2>3, <3>2 DEF Approve
  <2>4. ASSUME NEW d \in Components, NEW state \in Isolated, SetState(d, state) PROVE FALSE
    BY <2>1, <2>4 DEF SetState, Records
  <2>5. ASSUME NEW acts, SetPolicy(acts) PROVE FALSE
    BY <2>5 DEF SetPolicy, Isolated
  <2>6. ASSUME NEW d, NEW record, RowChanged(d, record) PROVE FALSE
    BY <2>1, <2>6 DEF RowChanged
  <2>7. CASE UNCHANGED row
    BY <2>7
  <2>8. QED
    BY <2>1, <2>2, <2>3, <2>4, <2>5, <2>6, <2>7 DEF Next, Discover, ApproveRead, GateRead,
       Read, GateDecide, Abandon, GateRefuse, EditFile, PolicyChanged, tables
<1>3. QED
  BY <1>2, StoreInvariant, PTL DEF Spec, IsolationStays
=============================================================================
