-------------------------- MODULE MCFileWatchJobs --------------------------
(* FileWatchJobs on small instances: the threads, roots and scans of a       *)
(* configuration are model values.                                           *)
EXTENDS FileWatchJobs
=============================================================================
