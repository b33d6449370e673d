----------------------------- MODULE MCLocalEnv -----------------------------
(***************************************************************************)
(* Small instances of LocalEnv.  All identifiers get the same file name in *)
(* lib/ for a version; builds a1 and a2 are version 1, build b version 2;  *)
(* identifier w is provided by the tool.                                   *)
(***************************************************************************)
EXTENDS LocalEnv, TLC

CONSTANTS w, x, y, z, a1, a2, b, s1, s2, s3

MCIris == {w, x, y, z}
MCBuilds == {a1, a2, b}
MCVersionOf == (a1 :> 1) @@ (a2 :> 1) @@ (b :> 2)
MCSites == {s1, s2, s3}
MCServed == (s1 :> a1) @@ (s2 :> a2) @@ (s3 :> b)
MCProvided == w :> {1}
MCStem == [q \in MCIris \X {1, 2} |-> q[2]]

From(kind, at, build) ==
    [kind |-> kind, at |-> at, build |-> build, root |-> "elsewhere", member |-> FALSE]

EditableAt(at, root, member) ==
    [kind |-> "editable", at |-> at, build |-> a1, root |-> root, member |-> member]

Project(ids, version, source) == [ids |-> ids, version |-> version, sources |-> <<source>>]

\* Two builds of one version of x, a second project, a second version, a
\* workspace project, a provided project and an alias.
FirstBuild == <<Project(<<x>>, 1, From("indexKpar", s1, a1))>>
SecondBuild == <<Project(<<x>>, 1, From("remoteKpar", s2, a2)),
                 Project(<<y>>, 1, From("localSrc", s1, a1))>>
OtherBuild == <<Project(<<x>>, 1, From("localSrc", s2, a2))>>
NewVersion == <<Project(<<x>>, 2, From("localKpar", s3, b)),
                Project(<<z>>, 1, EditableAt(s1, "elsewhere", TRUE))>>
WithProvided == <<Project(<<w>>, 1, From("git", s1, a1)),
                  Project(<<y, x>>, 1, From("indexKpar", s1, a1))>>

NoSources == <<[ids |-> <<y>>, version |-> 1, sources |-> <<>>]>>

FromGit == <<Project(<<y>>, 1, From("git", s1, a1))>>

\* x is edited in place, with the version that OtherBuild installs; and
\* z is edited below lib/, at another place than in NewVersion.
EditableX == <<Project(<<x>>, 1, EditableAt(s1, "elsewhere", FALSE)),
               Project(<<z>>, 1, EditableAt(s2, "lib", FALSE))>>

AllLocks == {FirstBuild, OtherBuild, NewVersion, WithProvided, FromGit, NoSources}
SwitchLocks == {FirstBuild, EditableX}
EditedLocks == {OtherBuild, NewVersion, EditableX}
TwoBuilds == {FirstBuild, SecondBuild}

\* Archives only: what has been verified is what is installed.
Archives == {FirstBuild, <<Project(<<y>>, 1, From("indexKpar", s1, a1)),
                           Project(<<x>>, 1, From("remoteKpar", s2, a2))>>}

User(locks, maxFaults, maxChanges, perseveres) ==
    [locks |-> locks, MaxFaults |-> maxFaults, MaxChanges |-> maxChanges,
     perseveres |-> perseveres]

\* Locks of all kinds without failures, and locks that make an installed project
\* editable; two builds with failures; archives with failures and changes,
\* repeated until they are installed.
MCUsers == {User(AllLocks, 0, 0, FALSE), User(EditedLocks, 0, 0, FALSE),
            User(TwoBuilds, 2, 0, FALSE), User(Archives, 2, 1, TRUE)}
SwitchUsers == {User(SwitchLocks, 0, 0, FALSE)}

=============================================================================
