------------------------------- MODULE MCLock ------------------------------
(***************************************************************************)
(* Three IRIs.  The first has up to three versions, the second a version   *)
(* that conflicts with the newest of the first, the third is what both     *)
(* use.  Each is found in several ways.                                    *)
(***************************************************************************)
EXTENDS Lock

P(id, name, version, usages, exports) ==
    [id |-> id, name |-> name, info |-> "good", meta |-> TRUE, version |-> version,
     usages |-> usages, exports |-> exports, sum |-> id, asks |-> FALSE, digest |-> "lower",
     kind |-> "IndexKpar"]
Item(p) == Ok(Storage(<<"index">>, p))
Env(list) == [reachable |-> TRUE, list |-> list]
None == [known |-> FALSE, list |-> <<>>]
Known(list) == [known |-> TRUE, list |-> list]

Bare == [scheme |-> "urn", path |-> "good", src |-> Missing, kpar |-> Missing, git |-> Missing,
         hasEnv |-> TRUE, local |-> Env(<<>>), hasIndex |-> TRUE, indexes |-> <<Env(<<>>)>>,
         overrides |-> None, std |-> None]

\* The first IRI: its newer versions use the third at 2, or at 1.
A3 == P(13, 1, 3, {Usage(3, {2})}, {1})
A2 == P(12, 1, 2, {Usage(3, {1, 2})}, {1})
A1 == P(11, 1, 1, {}, {1, 5})
SitesA == {
    [Bare EXCEPT !.indexes = <<Env(<<Item(A3), Item(A2), Item(A1)>>)>>],
    [Bare EXCEPT !.indexes = <<Env(<<Item(A1)>>), Env(<<Item(A3), Err, Item(A1)>>)>>,
                 !.local.list = <<Item(A1), Item(A1), Item(A2)>>],
    [Bare EXCEPT !.scheme = "http", !.src = [A2 EXCEPT !.asks = TRUE, !.kind = "RemoteSrc"],
                 !.kpar = [A3 EXCEPT !.kind = "RemoteKpar"],
                 !.local.list = <<Item([A2 EXCEPT !.id = 22])>>],
    [Bare EXCEPT !.indexes[1].reachable = FALSE, !.local.list = <<Item(A1)>>],
    [Bare EXCEPT !.hasIndex = FALSE, !.local.list = <<Item(A1), Item([A2 EXCEPT !.info = "bad"])>>]}

\* The second wants the third at 1, or the first at 1.
B2 == P(22, 2, 2, {Usage(1, {1})}, {2})
B1 == P(21, 2, 1, {Usage(3, {1}), AnyVersion(1)}, {2})
SitesB == {
    [Bare EXCEPT !.indexes = <<Env(<<Item(B2)>>)>>],
    [Bare EXCEPT !.indexes = <<Env(<<Item(B1)>>)>>],
    [Bare EXCEPT !.scheme = "git", !.git = [B1 EXCEPT !.kind = "RemoteGit"]],
    [Bare EXCEPT !.scheme = "file", !.src = [B1 EXCEPT !.kind = "LocalSrc"], !.path = "outside"],
    [Bare EXCEPT !.scheme = "file", !.src = B1, !.path = "bad"],
    [Bare EXCEPT !.indexes = <<Env(<<Item(B1)>>)>>, !.overrides = Known(<<>>)],
    [Bare EXCEPT !.overrides = Known(<<Storage(<<"any">>, [B1 EXCEPT !.digest = "upper", !.kind = "LocalKpar"])>>)]}

\* The third, which may be a provided library or lack its metadata.
C1 == P(31, 3, 1, {}, {3})
C2 == P(32, 3, 2, {}, {3})
SitesC == {
    [Bare EXCEPT !.indexes = <<Env(<<Item(C2), Item(C1)>>)>>],
    [Bare EXCEPT !.indexes = <<Env(<<Item(C2), Item([C1 EXCEPT !.meta = FALSE])>>)>>],
    [Bare EXCEPT !.std = Known(<<Storage(<<"std">>, C1)>>)],
    [Bare EXCEPT !.scheme = "http", !.kpar = [C1 EXCEPT !.exports = {1, 3}]],
    [Bare EXCEPT !.hasEnv = FALSE, !.hasIndex = FALSE]}

MCIris == {1, 2, 3}
MCWorlds == {(1 :> a) @@ (2 :> b) @@ (3 :> c) : a \in SitesA, b \in SitesB, c \in SitesC}
MCNewVersion == [i \in MCIris |-> IF i = 3 THEN P(33, 3, 3, {}, {3}) ELSE Missing]

Root(usages) == [name |-> 9, info |-> "good", meta |-> TRUE, version |-> 1, usages |-> usages,
                 exports |-> {9}, workspace |-> FALSE, path |-> ".", iris |-> <<>>]
MCRoots == {
    Root({AnyVersion(1), AnyVersion(2)}),
    Root({Usage(1, {1, 2, 3}), Usage(2, {1, 2})}),
    Root({Usage(1, {3}), AnyVersion(2)}),
    [Root({AnyVersion(2)}) EXCEPT !.workspace = TRUE, !.iris = <<1>>],
    [Root({AnyVersion(2)}) EXCEPT !.workspace = TRUE, !.iris = <<2, 1>>],
    [Root({AnyVersion(3)}) EXCEPT !.meta = FALSE]}
=============================================================================
