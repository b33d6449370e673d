------------------------------ MODULE MCRelease -----------------------------
(***************************************************************************)
(* Release with a workspace of two projects: p with two SysML files, q     *)
(* with one KerML file; and with archives that build did not make.         *)
(***************************************************************************)
EXTENDS Release, TLC

MCProj == {"p", "q"}
MCOrder == <<"p", "q">>
MCContents == {Gone, Defines({"T"})}
MCBuildOptions ==
    {[keepIndex |-> FALSE, allowPath |-> FALSE, compression |-> "deflated"],
     [keepIndex |-> TRUE, allowPath |-> TRUE, compression |-> "deflated"],
     [keepIndex |-> FALSE, allowPath |-> TRUE, compression |-> "stored"]}
MCMetaEdits == [p |-> {"f.sysml"}, q |-> {}]
MCNewVersions == {"1.1.0"}
MCWorkspaceMetamodels == {None, "sysml/20250201"}

MCLocalUsage == {"file:///lib"}
MCPurl == {"pkg:sysand/acme/lib"}
MCStdLibs ==
    ("SysML/20250201/Systems-Library" :> [known |-> TRUE, version |-> 20250201]) @@
    ("KerML/20251301/Semantic-Library" :> [known |-> TRUE, version |-> 20251301])
MCMetamodels ==
    ("sysml/20250201" :> [kind |-> "sysml", version |-> 20250201]) @@
    ("kerml/20250201" :> [kind |-> "kerml", version |-> 20250201]) @@
    ("kerml/20250001" :> [kind |-> "kerml", version |-> 20250001])
MCSemVer == {"1.0.0", "1.1.0", "1.0.0+b"}
MCBuildMetadata == {"1.0.0+b"}
MCIdentifiers == {"p", "q", "acme"}
MCFileName == [p |-> "p", q |-> "q"]
MCLanguage == ("f.sysml" :> "sysml") @@ ("g.sysml" :> "sysml") @@ ("h.kerml" :> "kerml")
MCLicenseStems == [MIT |-> {"LICENSES/MIT.txt"}]

MCUsage(resource, constraint) == [resource |-> resource, constraint |-> constraint]
MCInfo(name, usage) ==
    [name |-> name, publisher |-> "acme", version |-> "1.0.0", license |-> "MIT",
     maintainer |-> <<>>, usage |-> usage]
MCStd == <<MCUsage("SysML/20250201/Systems-Library", <<>>), MCUsage("pkg:sysand/acme/lib", <<"1">>)>>

MCInfos ==
    {[p |-> MCInfo("p", MCStd), q |-> MCInfo("q", usage)] :
        usage \in {<<>>, <<MCUsage("file:///lib", <<>>)>>}}

MCMetaP == [IncludeFile(IncludeFile(NewMeta, "f.sysml", {"S", "T"}, TRUE, TRUE),
                        "g.sysml", {}, FALSE, FALSE) EXCEPT !.metamodel = "sysml/20250201"]
MCMetaQ == [IncludeFile(NewMeta, "h.kerml", {"S"}, TRUE, TRUE) EXCEPT !.metamodel = "kerml/20250201"]
MCMetas ==
    {[p |-> Holds(MCMetaP), q |-> Holds(MCMetaQ)], [p |-> Holds(MCMetaP), q |-> Absent]}

MCSources ==
    {[p |-> ("f.sysml" :> Defines({"S", "T"})) @@ ("g.sysml" :> Defines({"S"})),
      q |-> "h.kerml" :> Defines({"S"})]}
MCTexts == {[p |-> {Readme, Changelog, "LICENSES/MIT.txt", "notes.txt"}, q |-> {"LICENSES/MIT.txt"}]}

\* Archives of q: none, a good one, and one whose text was changed.
MCArchiveQ(symbols, entries) ==
    [info |-> MCInfo("q", <<>>), meta |-> MCMetaQ, files |-> "h.kerml" :> symbols,
     texts |-> {"LICENSES/MIT.txt"}, entries |-> entries]
MCNames == {<<name, version>> : name \in MCProj, version \in {"1.0.0", "1.1.0"}}
MCArchives ==
    {[name \in MCNames |-> IF name = <<"q", "1.0.0">> THEN file ELSE Absent] :
        file \in {Absent, Holds(MCArchiveQ({"S"}, "deflated")), Holds(MCArchiveQ({"S", "U"}, "deflated"))}}

MCUrl == [scheme |-> "https", userinfo |-> FALSE, query |-> FALSE, fragment |-> FALSE,
          upload |-> FALSE]
MCUrls == {MCUrl, [MCUrl EXCEPT !.upload = TRUE]}
MCEnvironments == {{"githubToken"}, {"githubToken", "githubUrl"}, {"gitlabToken"},
                   {"githubToken", "githubUrl", "gitlabToken"}}
MCCredentials == {<<>>, <<"basic", "token">>, <<"token", "token2">>}
MCBearer == {"token", "token2"}

=============================================================================
