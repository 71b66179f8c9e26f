------------------------ MODULE MCDocumentLifecycle ------------------------
(* Model checking of DocumentLifecycle: two files, two identities, two      *)
(* contents, and the two kinds of target that matter (into and out of the   *)
(* archive, and one plain state).                                           *)
EXTENDS DocumentLifecycle, TLC

Symmetry == Permutations(Paths) \cup Permutations(Uids) \cup Permutations(Hashes)
=============================================================================
