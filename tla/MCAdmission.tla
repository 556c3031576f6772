---------------------------- MODULE MCAdmission -----------------------------
(* Small instances of Admission: requests are interchangeable.             *)
EXTENDS Admission, TLC

Symmetry == Permutations(Req)
=============================================================================
