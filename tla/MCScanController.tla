--------------------------- MODULE MCScanController ---------------------------
(* Small instances of ScanController. *)
EXTENDS ScanController, TLC

CONSTANTS s1, s2

\* The scans are interchangeable.
Symmetry == Permutations(Scans)
==============================================================================
