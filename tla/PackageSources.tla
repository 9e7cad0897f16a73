--------------------------- MODULE PackageSources ---------------------------
(***************************************************************************)
(* The inventory of the application's own source files that freezes the    *)
(* extractor registry (extractor_registry.py 106-212, 297-302, 319-377).   *)
(* Every directory is listed and every file hashed in a first pass, and    *)
(* listed again in a second one; the inventory is published only if both   *)
(* have seen the same.  Files and directories change between any steps.    *)
(*                                                                         *)
(* Abstractions.  The identity of a file or directory is the time stamp of *)
(* its last change, different for every change.  Directories stay, in any  *)
(* order; those of a pass are open side by side, as a directory and its    *)
(* subdirectories are.  Reading a file is two steps: one that changes      *)
(* between them is read as Torn.  A size limit or an error can end a pass  *)
(* anywhere.                                                               *)
(***************************************************************************)
EXTENDS Naturals

CONSTANTS Files, Dirs, DirOf,
          Contents,     \* contents of files
          Torn,         \* a mix of an old and a new content
          MaxChanges    \* bound: changes of files

ASSUME SourcesAssumption ==
  /\ DirOf \in [Files -> Dirs]
  /\ {"absent", Torn} \cap Contents = {} /\ "absent" # Torn
  /\ "none" \notin Files
  /\ MaxChanges \in Nat

VARIABLES
  file,     \* content and time stamp of each file
  dir,      \* time stamp of each directory
  clock,    \* time stamps so far
  pass,     \* 1 or 2; 3 when the inventory is published, 0 when it has failed
  dirSeen,  \* what a pass has seen of the directories; 0: not yet opened
  fileSeen, \* and of the files; 0: absent
  looked,   \* files whose entry this pass has looked at
  shut,     \* directories this pass has finished with
  reading,  \* the file that is being read
  hash,     \* what was read of each file
  turn      \* history: the files between the passes

sourceVars == <<file, dir, clock, pass, dirSeen, fileSeen, looked, shut, reading, hash, turn>>

disk == <<file, dir, clock>>
collected == <<dirSeen, fileSeen, looked, shut>>
-----------------------------------------------------------------------------
Passes == 1..2
Present(f) == file[f].content # "absent"
In(d) == {f \in Files : DirOf[f] = d}
NotRead == [content |-> "absent", stamp |-> 0]
Running == pass \in Passes

SourcesInit ==
  /\ file \in [Files -> [content : Contents \cup {"absent"}, stamp : {1}]]
  /\ dir = [d \in Dirs |-> 1]
  /\ clock = 1
  /\ pass = 1
  /\ dirSeen = [p \in Passes |-> [d \in Dirs |-> 0]]
  /\ fileSeen = [p \in Passes |-> [f \in Files |-> 0]]
  /\ looked = {}
  /\ shut = {}
  /\ reading = "none"
  /\ hash = [f \in Files |-> NotRead]
  /\ turn = file

\* A file is written in place, or the entry of its directory changes: a file
\* appears, disappears, or is put in the place of another.
Change(f, c) ==
  /\ clock <= MaxChanges
  /\ clock' = clock + 1
  /\ file' = [file EXCEPT ![f] = [content |-> c, stamp |-> clock']]
  /\ \/ dir' = [dir EXCEPT ![DirOf[f]] = clock']
     \/ Present(f) /\ c # "absent" /\ UNCHANGED dir
  /\ UNCHANGED <<pass, collected, reading, hash, turn>>

CollectFails ==
  /\ Running
  /\ pass' = 0
  /\ UNCHANGED <<disk, collected, reading, hash, turn>>

OpenDir(d) ==
  /\ Running /\ reading = "none"
  /\ dirSeen[pass][d] = 0
  /\ dirSeen' = [dirSeen EXCEPT ![pass][d] = dir[d]]
  /\ UNCHANGED <<disk, pass, fileSeen, looked, shut, reading, hash, turn>>

Look(f) ==
  /\ Running /\ reading = "none"
  /\ dirSeen[pass][DirOf[f]] # 0
  /\ f \notin looked
  /\ looked' = looked \cup {f}
  /\ fileSeen' = [fileSeen EXCEPT ![pass][f] = IF Present(f) THEN file[f].stamp ELSE 0]
  /\ UNCHANGED <<disk, pass, dirSeen, shut, reading, hash, turn>>

\* Files are read once all entries of their directory have been looked at.
ReadBegins(f) ==
  /\ pass = 1 /\ reading = "none"
  /\ In(DirOf[f]) \subseteq looked
  /\ fileSeen[1][f] # 0
  /\ hash[f] = NotRead
  /\ Present(f)
  /\ reading' = f
  /\ hash' = [hash EXCEPT ![f] = file[f]]
  /\ UNCHANGED <<disk, pass, collected, turn>>

\* A file that has changed while it was read is an error.
ReadEnds(f) ==
  /\ Running /\ reading = f
  /\ file[f].stamp = hash[f].stamp
  /\ reading' = "none"
  /\ hash' = [hash EXCEPT ![f].content = IF file[f].content = @ THEN @ ELSE Torn]
  /\ UNCHANGED <<disk, pass, collected, turn>>

\* So is a directory that has changed while it was open.
CloseDir(d) ==
  /\ Running /\ reading = "none"
  /\ d \notin shut
  /\ dirSeen[pass][d] = dir[d]
  /\ In(d) \subseteq looked
  /\ pass = 1 => \A f \in In(d) : fileSeen[1][f] # 0 => hash[f] # NotRead
  /\ shut' = shut \cup {d}
  /\ UNCHANGED <<disk, pass, dirSeen, fileSeen, looked, reading, hash, turn>>

SecondPass ==
  /\ pass = 1 /\ shut = Dirs
  /\ pass' = 2
  /\ looked' = {}
  /\ shut' = {}
  /\ turn' = file
  /\ UNCHANGED <<disk, dirSeen, fileSeen, reading, hash>>

\* Only the files are compared.
PublishFiles ==
  /\ pass = 2 /\ shut = Dirs
  /\ fileSeen[1] = fileSeen[2]
  /\ pass' = 3
  /\ UNCHANGED <<disk, collected, reading, hash, turn>>

Publish ==
  /\ pass = 2 /\ shut = Dirs
  /\ dirSeen[1] = dirSeen[2] /\ fileSeen[1] = fileSeen[2]
  /\ pass' = 3
  /\ UNCHANGED <<disk, collected, reading, hash, turn>>

Collect ==
  \/ CollectFails
  \/ \E d \in Dirs : OpenDir(d)
  \/ \E f \in Files : Look(f)
  \/ \E f \in Files : ReadBegins(f)
  \/ \E f \in Files : ReadEnds(f)
  \/ \E d \in Dirs : CloseDir(d)
  \/ SecondPass
  \/ Publish

SourcesNext ==
  \/ \E f \in Files, c \in Contents \cup {"absent"} : Change(f, c)
  \/ Collect

SourcesSpec == SourcesInit /\ [][SourcesNext]_sourceVars
-----------------------------------------------------------------------------
\* A published inventory is the package as it was at one instant, whatever was
\* changed during the two passes and in which order the files were read: the
\* files that were there, each with the content it had (the docstring at
\* extractor_registry.py:136).
SourcesWereThere ==
  pass = 3 =>
    \A f \in Files :
      hash[f].content = turn[f].content /\ (fileSeen[1][f] # 0 <=> turn[f].content # "absent")
=============================================================================
