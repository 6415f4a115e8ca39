--------------------------- MODULE MCSyncPipeline ---------------------------
(***************************************************************************)
(* Model-checking instances of SyncPipeline.  Requests, workers and        *)
(* repositories are interchangeable model values, so the safety runs use   *)
(* their permutations as symmetry; the liveness runs use none.             *)
(***************************************************************************)
EXTENDS SyncPipeline, TLC

Symmetry == Permutations(Req) \cup Permutations(Worker) \cup Permutations(Repo)
=============================================================================
