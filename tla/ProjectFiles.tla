---------------------------- MODULE ProjectFiles ----------------------------
(***************************************************************************)
(* The other files of a project directory and what the editing commands    *)
(* make of them, as pure operators: `.project.json' (info) and the project *)
(* sources in `sysand.toml' (config).  A version constraint is the         *)
(* sequence of its comma-separated parts, <<>> when there is none.         *)
(***************************************************************************)
EXTENDS ProjectMeta, FiniteSetsExt

(***************************************************************************)
(* .project.json                                                           *)
(***************************************************************************)
\* Vec::remove.
Without(s, i) == SubSeq(s, 1, i - 1) \o SubSeq(s, i + 1, Len(s))

NewInfo(name, license) ==
    [name |-> name, publisher |-> "untitled", version |-> "0.0.1",
     license |-> license, maintainer |-> <<>>, usage |-> <<>>]

Usages == [resource : STRING, constraint : Seq(STRING)]

\* No resource is used twice.
Distinct(usages) ==
    \A i, j \in 1..Len(usages) : usages[i].resource = usages[j].resource => i = j

Usage(resource, constraint) == [resource |-> resource, constraint |-> constraint]

\* The positions of a resource in the usages.
UsagesOf(usages, resource) ==
    {i \in 1..Len(usages) : usages[i].resource = resource}

\* Faulty variant: the usage is always pushed.
AddUsagePush(usages, new) == Append(usages, new)

\* do_add: a resource already used gets the new constraint joined to its own,
\* and nothing changes if there is none or it is the same.
AddUsage(usages, new) ==
    LET at == UsagesOf(usages, new.resource)
    IN  CASE at = {} -> Append(usages, new)
          [] at # {} /\ new.constraint \in {<<>>, usages[Min(at)].constraint} -> usages
          [] OTHER -> [usages EXCEPT ![Min(at)].constraint = @ \o new.constraint]

\* pop_usage removes every usage of the resource.
PopUsage(usages, resource) ==
    LET kept[i \in 0..Len(usages)] ==
            IF i = 0 THEN <<>>
            ELSE IF usages[i].resource = resource THEN kept[i - 1]
            ELSE Append(kept[i - 1], usages[i])
    IN  kept[Len(usages)]

\* info --set, --clear, --add and --remove; items are numbered from 1.
SetInfo(info, field, value) == [info EXCEPT ![field] = value]
ClearInfo(info, field) ==
    [info EXCEPT ![field] = IF field = "maintainer" THEN <<>> ELSE None]
AddInfo(info, items) == [info EXCEPT !.maintainer = @ \o items]
RemovableInfo(info, idx) == idx # 0 /\ idx <= Len(info.maintainer)
RemoveInfo(info, idx) == [info EXCEPT !.maintainer = Without(@, idx)]

(***************************************************************************)
(* sysand.toml: the sequence of its [[project]] tables.                    *)
(***************************************************************************)
Projects == [identifiers : SUBSET STRING, source : STRING]

Tables(file) == IF file.v = <<>> THEN <<>> ELSE file.v[1]

\* The positions of the tables with an IRI.
TablesOf(config, iri) == {i \in 1..Len(config) : iri \in config[i].identifiers}

AddSource(config, iri, source) ==
    LET at == TablesOf(config, iri)
    IN  IF at = {} THEN Append(config, [identifiers |-> {iri}, source |-> source])
        ELSE [config EXCEPT ![Min(at)].source = source]

RemoveSource(config, iri) ==
    LET at == TablesOf(config, iri)
    IN  IF at = {} THEN config ELSE Without(config, Min(at))

\* Faulty variant: the source just given comes first.
PushSourceFirst(config, iri, source) ==
    <<[identifiers |-> {iri}, source |-> source]>> \o config

\* command_add pushes the source on the configuration it holds in memory.
PushSource(config, iri, source) ==
    Append(config, [identifiers |-> {iri}, source |-> source])

\* get_overrides, collected into a map: the last table with the IRI counts.
OverrideOf(config, iri) ==
    LET at == TablesOf(config, iri)
    IN  IF at = {} THEN None ELSE config[Max(at)].source

=============================================================================
