------------------------------ MODULE MCPolicy ------------------------------
(***************************************************************************)
(* Instances of PolicyRequests for TLC.                                    *)
(***************************************************************************)
EXTENDS PolicyRequests, TLC

\* Clients are interchangeable; used where no liveness is checked.
Symmetry == Permutations(Client)
=============================================================================
