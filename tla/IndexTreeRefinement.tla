------------------------ MODULE IndexTreeRefinement ------------------------
(***************************************************************************)
(* Commands that run one after the other, to their end, implement the      *)
(* promise of IndexProtocol.  While a process is between the truncation of *)
(* a JSON file and the write, the file stands for what is being written.   *)
(***************************************************************************)
EXTENDS IndexTree

Writers(label) == {self \in Procs : pc[self] = label}

LogicalIndex ==
    IF Writers("writeIndex") = {} THEN index.val
    ELSE job[CHOOSE self \in Writers("writeIndex") : TRUE].idx

LogicalVersions(p) ==
    LET w == {self \in Writers("writeVersions") : job[self].prj = p} IN
    IF w = {} THEN versions[p].val ELSE job[CHOOSE self \in w : TRUE].vers

EntryOf(s, v) ==
    IF Listed(s, v)
    THEN LET e == s[CHOOSE i \in DOMAIN s : s[i].version = v]
         IN  [status |-> e.status, build |-> e.build]
    ELSE [status |-> "unlisted", build |-> "none"]

\* The archive that can be fetched: all three files of it are there.
ServedBuild(p, v) ==
    IF \E b \in Builds : \A f \in FileNames : files[<<p, v, f>>] = b
    THEN CHOOSE b \in Builds : \A f \in FileNames : files[<<p, v, f>>] = b
    ELSE "none"

LogicalEntries ==
    [p \in Projects |-> [v \in Versions |-> EntryOf(LogicalVersions(p), v)]]
ServedBuilds == [p \in Projects |-> [v \in Versions |-> ServedBuild(p, v)]]

Protocol == INSTANCE IndexProtocol WITH
    project <- LogicalIndex, entry <- LogicalEntries, served <- ServedBuilds

\* Run without failures, `sysand index' keeps the obligations of an index
\* server: forward-only statuses, entries that persist and keep describing the
\* same bytes, files there before they are listed and withdrawn after.
ImplementsProtocol == Protocol!Spec

\* A version retired by a command that runs to its end is withdrawn.
RetiredIsWithdrawn ==
    \A p \in Projects, v \in Versions :
        EntryOf(LogicalVersions(p), v).status = "removed" ~> <<p, v>> \notin dirs
=============================================================================
