-------------------------- MODULE MCProjectAccess --------------------------
(* Values for the constants of ProjectAccess. *)
EXTENDS ProjectAccess

\* Two archives of one size, of which the second has lost a file, and one that
\* is larger and is not an archive.
A1 == [id |-> "a1", size |-> 1, files |-> {"f"}, readable |-> TRUE]
A2 == [id |-> "a2", size |-> 1, files |-> {}, readable |-> TRUE]
A3 == [id |-> "a3", size |-> 2, files |-> {}, readable |-> FALSE]
MCArchives == {A1, A2, A3}

Public == [c \in Credentials \cup {Anonymous} |-> "ok"]
Needs(c) == [x \in Credentials \cup {Anonymous} |-> IF x = c THEN "ok" ELSE "denied"]
\* A server that says 404 to whom it does not let in, and one that lets nobody
\* in and has a different word for each.
Hides(c) == [x \in Credentials \cup {Anonymous} |-> IF x = c THEN "ok" ELSE "missing"]
Closed == [x \in Credentials \cup {Anonymous} |-> IF x = "c1" THEN "denied" ELSE "missing"]
Down == [c \in Credentials \cup {Anonymous} |-> IF c = Anonymous THEN "denied" ELSE "broken"]

\* Calls on a project that is read over HTTP share nothing: one task will do.
Object(kind, expected, matching, server) ==
    [kind |-> kind, expected |-> expected, matching |-> matching, server |-> server,
     users |-> IF kind = "remoteSrc" THEN {CHOOSE t \in Tasks : TRUE} ELSE Tasks]

MCObjects ==
    {Object("remoteKpar", Nothing, <<>>, Public),
     Object("remoteKpar", A1, <<"c1">>, Hides("c1")),
     Object("indexKpar", A1, <<>>, Public),
     Object("indexKpar", A1, <<"c1", "c2">>, Down),
     Object("remoteSrc", Nothing, <<>>, Public),
     Object("remoteSrc", A1, <<"c1", "c2">>, Needs("c2")),
     Object("remoteSrc", Nothing, <<"c1", "c2">>, Hides("c2")),
     Object("remoteSrc", Nothing, <<"c1", "c2">>, Closed),
     Object("localKpar", Nothing, <<>>, Public),
     Object("localKpar", A1, <<>>, Public),
     Object("git", Nothing, <<>>, Public)}
=============================================================================
