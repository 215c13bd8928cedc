------------------------------ MODULE MCScanLoop ------------------------------
(* Small instances of ScanLoop. *)
EXTENDS ScanLoop

CONSTANTS f1, f2, f3, ok, odd, bad

\* The locations overlap: f1 is found in the last, and below a pruned folder in
\* the first; f3 is a link.  The limit may be met at the end of a location or
\* inside the last one.
MCLocations == << <<f2, f1>>, <<f2>>, <<f1, f3>> >>
MCPruned == {<<1, 2>>}
MCLinks == {<<3, 2>>}

MCVerdict == [c \in Contents |-> IF c = ok THEN "clean"
                                 ELSE IF c = odd THEN "suspicious"
                                 ELSE "confirmed"]
==============================================================================
