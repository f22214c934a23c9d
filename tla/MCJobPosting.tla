---------------------------- MODULE MCJobPosting ----------------------------
(* Instances of JobPosting for TLC. *)
EXTENDS JobPosting, TLC

\* Requests, posts and users are interchangeable; no liveness run uses this.
Symmetry == Permutations(Ids) \cup Permutations(Requests)
UserSymmetry == Permutations(Users)
=============================================================================
