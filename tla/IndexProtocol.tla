--------------------------- MODULE IndexProtocol ---------------------------
(***************************************************************************)
(* What an index promises its clients, without files and without steps:    *)
(* each project and each version has a status that only moves forward, an  *)
(* entry once made is never dropped and never describes another archive,   *)
(* and the archive of a version can be fetched for as long as its status   *)
(* says so.                                                                *)
(***************************************************************************)
CONSTANTS Projects, Versions, Builds

VARIABLES
    project,    \* project[p]: status of p in index.json
    entry,      \* entry[p][v]: status and archive of v in versions.json
    served      \* served[p][v]: the archive whose files can all be fetched

vars == <<project, entry, served>>

Unlisted == [status |-> "unlisted", build |-> "none"]

Init ==
    /\ project = [p \in Projects |-> "unlisted"]
    /\ entry = [p \in Projects |-> [v \in Versions |-> Unlisted]]
    /\ served = [p \in Projects |-> [v \in Versions |-> "none"]]

\* The files of a version are put in place before it is listed.
Upload(p, v, b) ==
    /\ project[p] # "removed"
    /\ entry[p][v] = Unlisted /\ served[p][v] = "none"
    /\ served' = [served EXCEPT ![p][v] = b]
    /\ UNCHANGED <<project, entry>>

List(p, v) ==
    /\ project[p] # "removed"
    /\ entry[p][v] = Unlisted /\ served[p][v] # "none"
    /\ entry' = [entry EXCEPT ![p][v] = [status |-> "available", build |-> served[p][v]]]
    /\ UNCHANGED <<project, served>>

\* A project is listed once it has a version.
ListProject(p) ==
    /\ project[p] = "unlisted" /\ \E v \in Versions : entry[p][v] # Unlisted
    /\ project' = [project EXCEPT ![p] = "available"]
    /\ UNCHANGED <<entry, served>>

Yank(p, v) ==
    /\ entry[p][v].status = "available"
    /\ entry' = [entry EXCEPT ![p][v].status = "yanked"]
    /\ UNCHANGED <<project, served>>

Retire(p, v) ==
    /\ entry[p][v].status \in {"available", "yanked"}
    /\ entry' = [entry EXCEPT ![p][v].status = "removed"]
    /\ UNCHANGED <<project, served>>

\* The files go only once the entry says so.
Withdraw(p, v) ==
    /\ entry[p][v].status = "removed" /\ served[p][v] # "none"
    /\ served' = [served EXCEPT ![p][v] = "none"]
    /\ UNCHANGED <<project, entry>>

RetireProject(p) ==
    /\ project[p] = "available"
    /\ \A v \in Versions : entry[p][v].status \in {"unlisted", "removed"}
    /\ project' = [project EXCEPT ![p] = "removed"]
    /\ UNCHANGED <<entry, served>>

Next ==
    \E p \in Projects :
        \/ ListProject(p) \/ RetireProject(p)
        \/ \E v \in Versions :
              \/ List(p, v) \/ Yank(p, v) \/ Retire(p, v) \/ Withdraw(p, v)
              \/ \E b \in Builds : Upload(p, v, b)

Spec == Init /\ [][Next]_vars
=============================================================================
