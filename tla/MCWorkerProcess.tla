-------------------------- MODULE MCWorkerProcess --------------------------
(* WorkerProcess on a small instance: input and reply of two chunks, over     *)
(* pipes that hold one. A file "a" of the package is in "top", any other in   *)
(* "sub".                                                                     *)
EXTENDS WorkerProcess

MCDirOf == [f \in Files |-> IF f = "a" THEN "top" ELSE "sub"]
=============================================================================
