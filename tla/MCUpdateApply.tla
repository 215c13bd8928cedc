--------------------------- MODULE MCUpdateApply ---------------------------
(* Small instances of UpdateApply. *)
EXTENDS UpdateApply, TLC

CONSTANTS rules, manual

Old == <<0, 2>>
New == <<0, 2, 1>>
MCVersions == {Old, New}

\* The first version has no manual.
MCInitial == [v \in MCVersions |-> IF v = Old THEN Files \ {manual} ELSE Files]

All(v) == [f \in Files |-> v]

\* The archive of a version, in the order the package builder writes it.
Order == (App :> 1 @@ manual :> 2 @@ rules :> 3 @@ Core :> 4 @@ Guard :> 5)
Archive(v) == [f \in Files |-> <<[at |-> Order[f], exact |-> TRUE, content |-> v]>>]
Release(v) == [version |-> v, id |-> <<v, "stable">>, channel |-> "stable",
               invalid |-> {}, hash |-> "none",
               key |-> ProductionKey, signer |-> ProductionKey,
               listed |-> All(v), entries |-> Archive(v)]
Good    == Release(New)
Shorter == [[Good EXCEPT !.listed[manual] = Absent]
                  EXCEPT !.entries = [@ EXCEPT ![manual] = <<>>]]
Dev     == [Good EXCEPT !.id = <<New, "dev">>, !.channel = "dev", !.key = DevKey,
                        !.signer = DevKey]
\* Built or received wrongly (a file twice, an unlisted one, one that is torn, a
\* name that is not the listed one), and a version that is older than the other.
Twice   == [Shorter EXCEPT !.entries[rules] =
              Append(@, [at |-> 6, exact |-> FALSE, content |-> Old])]
MCPackages == {Good, Dev, Twice, Release(Old),
               [Good EXCEPT !.listed[manual] = Absent],
               [Good EXCEPT !.entries[rules][1].content = Torn],
               [Good EXCEPT !.entries[rules][1].exact = FALSE],
               [Good EXCEPT !.signer = "none"],
               [Good EXCEPT !.hash = "other"],
               [Good EXCEPT !.invalid = {"driver_update"}]}
=============================================================================
