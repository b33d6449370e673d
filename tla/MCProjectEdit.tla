--------------------------- MODULE MCProjectEdit ----------------------------
(***************************************************************************)
(* ProjectEdit with two processes, two source files, two symbols and two   *)
(* resources.                                                              *)
(***************************************************************************)
EXTENDS ProjectEdit, TLC

CONSTANTS P1, P2

MCProc == {P1, P2}
MCSymmetry == Permutations(MCProc)
MCPath == {"f", "g"}
MCContents == [f |-> {Gone, Defines({"S"})}, g |-> {Unparsable}]
MCStd == {"std"}
MCMalformed == {"?"}

MCWorlds == {[f |-> Defines({"S", "T"}), g |-> Defines({"S"})]}

MCMeta ==
    IncludeFile(NewMeta, "f", {"S"}, TRUE, TRUE)

MCInfo ==
    [NewInfo("n", None) EXCEPT !.usage = <<Usage("a", <<"1">>)>>, !.maintainer = <<"m">>]

MCConfig == <<[identifiers |-> {"b"}, source |-> "old"],
              [identifiers |-> {"a"}, source |-> "old"]>>

MCLock == [usage |-> MCInfo.usage, source |-> <<"old">>]

MCDisks ==
    {[info |-> Absent, meta |-> Absent, config |-> Absent, lock |-> Absent],
     [info |-> Holds(MCInfo), meta |-> Holds(MCMeta),
      config |-> Holds(MCConfig), lock |-> Holds(MCLock)],
     [info |-> Holds(MCInfo), meta |-> Absent,
      config |-> Holds(<<[identifiers |-> {"a", "b"}, source |-> "old"]>>), lock |-> Absent],
     [info |-> Absent, meta |-> Holds(NewMeta), config |-> Absent, lock |-> Absent]}

Added(iri, constraint, from, lock, sync) ==
    [iri |-> iri, constraint |-> constraint, source |-> from, lock |-> lock, sync |-> sync]

MCRequests ==
    [init |-> {[name |-> "n", license |-> None]},
     include |-> {[paths |-> <<"f", "g">>, compute |-> TRUE, index |-> TRUE],
                  [paths |-> <<"f">>, compute |-> TRUE, index |-> FALSE],
                  [paths |-> <<"g">>, compute |-> FALSE, index |-> TRUE]},
     exclude |-> {<<"f">>, <<"f", "g">>},
     set |-> {[field |-> "license", value |-> "MIT"]},
     clear |-> {"maintainer"},
     addItem |-> {<<"m">>},
     removeItem |-> {0, 1},
     metamodel |-> {"sysml"},
     add |-> {Added("a", <<>>, None, TRUE, TRUE), Added("b", <<>>, "new", TRUE, FALSE),
              Added("a", <<"2">>, "new", TRUE, FALSE), Added("b", <<"1">>, None, FALSE, FALSE),
              Added("b", <<"?">>, None, TRUE, FALSE), Added("std", <<>>, "new", TRUE, FALSE)},
     remove |-> {"a", "b"}]

=============================================================================
