-------------------------- MODULE MCQuarantineStore --------------------------
(* Small instances of QuarantineStore. *)
EXTENDS QuarantineStore, TLC

CONSTANTS p1, p2, path1, path2, c1, c2, c3, legacy

MCLegacyContent == [id \in LegacyIds |-> c1]
MCLegacyPath == [id \in LegacyIds |-> path1]

\* c2 and c3 have the same length: only the hash tells them apart.
MCSizes == [c \in Contents |-> IF c = c1 THEN 1 ELSE 2]

\* Processes are interchangeable.
Symmetry == Permutations(Procs)
==============================================================================
