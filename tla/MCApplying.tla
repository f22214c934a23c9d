------------------------------ MODULE MCApplying ------------------------------
(* Instances of Applying for TLC. *)
EXTENDS Applying, TLC

CONSTANT employer
OneEmployer == [id \in Ids |-> employer]

\* Slots, applications and applicants are interchangeable; no liveness run uses this.
Symmetry == Permutations(Requests) \cup Permutations(Keys) \cup Permutations(Users \ {employer})
===============================================================================
