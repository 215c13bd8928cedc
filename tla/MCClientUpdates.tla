--------------------------- MODULE MCClientUpdates ---------------------------
(* A server with one release, with it built anew, and with none. *)
EXTENDS ClientUpdates

CONSTANTS c1, c2

V1 == <<1, 0>>
V2 == <<1, 0, 1>>
MCVersions == {V1, V2}

Package(version, sha) ==
    [version |-> version, name |-> "a.aup", aup |-> TRUE, trusted |-> TRUE, sha |-> sha]
FeedOf(packages) ==
    [product |-> TRUE, channel |-> "stable", latest |-> V2, packages |-> packages]
Release(feed) == [draft |-> FALSE, prerelease |-> FALSE, feed |-> feed]

Files(a) == [name \in Names |-> IF name = "a.aup" THEN a ELSE Missing]
Serving(feed, content) ==
    [feed |-> feed, releases |-> << >>, files |-> Files(content)]

Good == FeedOf(<<Package(V1, c2), Package(V2, c1)>>)
Rebuilt == FeedOf(<<Package(V2, c2)>>)

MCServers ==
    {Serving(Good, c1), Serving(Rebuilt, c2), Serving(Good, c2),
     Serving([Good EXCEPT !.channel = "dev"], c1),
     Serving([Good EXCEPT !.latest = V1], c1),
     Serving(FeedOf(<<[Package(V2, c1) EXCEPT !.trusted = FALSE]>>), c1),
     [Serving(Missing, c1) EXCEPT
        !.releases = <<[Release(Rebuilt) EXCEPT !.draft = TRUE],
                       [Release(Rebuilt) EXCEPT !.prerelease = TRUE],
                       Release(Missing), Release(Good)>>]}
=============================================================================
