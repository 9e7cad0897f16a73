----------------------------- MODULE Inspection -----------------------------
(***************************************************************************)
(* The three inspections of content that a worker or a handler makes on    *)
(* its own, without sharing anything with the others: the scan of a        *)
(* document (scan_worker.py), the transformation of HTML to text           *)
(* (sanitize_worker.py), and the comparison of a configuration with its    *)
(* approved version (core.py).  A behaviour is one job.                    *)
(***************************************************************************)
EXTENDS Scanner, HtmlText, SemanticDiff

VARIABLE job

Jobs == {"scan", "transform", "compare"}

vars == <<job, scanVars, htmlVars, diffVars>>

Init ==
  /\ job \in Jobs
  /\ ScannerInit /\ HtmlInit /\ DiffInit

Scans == job = "scan" /\ Scan /\ UNCHANGED <<job, htmlVars, diffVars>>
Transforms == job = "transform" /\ Transform /\ UNCHANGED <<job, scanVars, diffVars>>
Compares == job = "compare" /\ Diff /\ UNCHANGED <<job, scanVars, htmlVars>>

Next == Scans \/ Transforms \/ Compares

Spec == Init /\ [][Next]_vars
=============================================================================
