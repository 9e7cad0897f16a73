-------------------------- MODULE MCFileWatchCycle --------------------------
(* FileWatchCycle on small trees: "sub" is a directory in "top", with one file *)
(* in each; root "a" watches both, and root "b", where there is one, "sub".    *)
EXTENDS FileWatchCycle, TLC

Interchangeable == Permutations(Contents \ {"large"})

MCTopOf == [r \in Roots |-> IF r = "a" THEN "top" ELSE "sub"]
MCParentOf == [d \in Dirs |-> IF d = "sub" THEN "top" ELSE "none"]
MCDirOf == [f \in Files |-> IF f = "f" THEN "top" ELSE "sub"]
=============================================================================
