---------------------------- MODULE GateContract ----------------------------
(***************************************************************************)
(* What the pre-use gate promises (the docstring of core.py, and gate,     *)
(* approve and discover as seen from outside).  Trust in a component is at *)
(* most one grant, for exact bytes.  A grant is made only for bytes the    *)
(* approving call has just read; it is never revived once it was lost; and *)
(* the gate answers `allowed' only for bytes the same call has just read,  *)
(* when the grant in force is for exactly those bytes.                     *)
(***************************************************************************)
CONSTANTS Sources,      \* configuration files
          Components,   \* MCP components defined in them
          SourceOf,     \* the file a component comes from
          Raws,         \* contents a file can have
          Unreadable,   \* a file that is missing, invalid or over a limit
          Definitions,  \* Definitions[raw][c]: what `raw' says of component c
          Absent        \* no definition

VARIABLES
  disk,     \* content of each file
  granted,  \* the bytes each component may be used with: at most one print
  offer,    \* component and bytes the call in progress has read, or {}
  verdict   \* the answer of the gate call that has just returned

vars == <<disk, granted, offer, verdict>>

\* The bytes of the file and the canonical definition of one component in it.
PrintOf(raw, c) == [raw |-> raw, canon |-> Definitions[raw][c]]

\* The components a file content defines; an unreadable file defines none.
InFile(s, raw) ==
  {c \in Components : SourceOf[c] = s /\ raw \in Raws /\ Definitions[raw][c] # Absent}

NoVerdict == [allowed |-> FALSE, offer |-> {}]

Init ==
  /\ disk \in [Sources -> Raws \cup {Unreadable}]
  /\ granted = [c \in Components |-> {}]
  /\ offer = {}
  /\ verdict = NoVerdict

\* Trust can always be withdrawn, and only be withdrawn, in this way.
Withdraws == \A c \in Components : granted'[c] \in {{}, granted[c]}

\* Somebody edits a configuration file.
Edit(s, content) ==
  /\ disk' = [disk EXCEPT ![s] = content]
  /\ verdict' = NoVerdict
  /\ UNCHANGED <<granted, offer>>

\* A call reads a file, for one component or for none.  The trust its
\* components keep is trust in the bytes that were read.
Observe(s) ==
  /\ offer = {}
  /\ disk[s] # Unreadable
  /\ Withdraws
  /\ \A c \in InFile(s, disk[s]) : granted'[c] \subseteq {PrintOf(disk[s], c)}
  /\ offer' \in {{}} \cup {{[comp |-> c, print |-> PrintOf(disk[s], c)]} :
                             c \in InFile(s, disk[s])}
  /\ UNCHANGED disk
  /\ verdict' = NoVerdict

\* Revocation, quarantine, policy changes, unreadable files, failures.
Withdraw ==
  /\ Withdraws
  /\ offer' \in {{}, offer}
  /\ UNCHANGED disk
  /\ verdict' = NoVerdict

Grant ==
  /\ \E read \in offer : granted' = [granted EXCEPT ![read.comp] = {read.print}]
  /\ offer' = {}
  /\ verdict' = NoVerdict
  /\ UNCHANGED disk

Allow ==
  /\ \E read \in offer : granted[read.comp] = {read.print}
  /\ verdict' = [allowed |-> TRUE, offer |-> offer]
  /\ offer' = {}
  /\ UNCHANGED <<disk, granted>>

Next ==
  \/ \E s \in Sources, content \in Raws \cup {Unreadable} : Edit(s, content)
  \/ \E s \in Sources : Observe(s)
  \/ Withdraw
  \/ Grant
  \/ Allow

Spec == Init /\ [][Next]_vars
=============================================================================
