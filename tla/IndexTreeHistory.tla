-------------------------- MODULE IndexTreeHistory --------------------------
(***************************************************************************)
(* IndexTree with what a client may have seen: every entry that was ever   *)
(* in a versions.json.  The history is only read by the property.          *)
(***************************************************************************)
EXTENDS IndexTree

VARIABLE seenEntries    \* seenEntries[p]: entries that versions.json has held

Entries(s) == {s[i] : i \in DOMAIN s}

HistoryInit == seenEntries = [p \in Projects |-> {}]

Record ==
    seenEntries' = [p \in Projects |-> seenEntries[p] \cup Entries(versions'[p].val)]

SerialHistory ==
    (Init /\ HistoryInit) /\ [][SerialNext /\ Record]_<<vars, seenEntries>>

\* Once versions.json has held an entry, every later versions.json that can be
\* read holds one for the same version and the same archive: open_json_file
\* reads a file left empty by an interrupted overwrite_file as a list without
\* entries, and the next `add` writes it back with the new entry only.
VersionsPersist ==
    \A p \in Projects : versions[p].kind = "json" =>
        \A e \in seenEntries[p] : \E i \in DOMAIN versions[p].val :
            /\ versions[p].val[i].version = e.version
            /\ versions[p].val[i].build = e.build
=============================================================================
