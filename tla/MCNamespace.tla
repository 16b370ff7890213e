----------------------------- MODULE MCNamespace -----------------------------
(* Instances of Namespace for TLC: who may send which requests. *)
EXTENDS Namespace, TLC

CONSTANTS o1, o2, k1, k2, k3

\* Two display names that differ in case only, and a third name.
MCNames == {"Report", "report", "notes"}
MCFolded == [n \in MCNames |-> IF n = "notes" THEN "notes" ELSE "report"]

Creates(keys, names) ==
  {i \in CreateIntent : i.key \in keys /\ i.name \in names}
Updates(keys) == {i \in UpdateIntent : i.key \in keys}
Deletes(keys) == {i \in DeleteIntent : i.key \in keys}

\* One file, its creation, and updates and deletes that race for its base; key
\* k3 may be used for an update and for a delete.
RaceIntents ==
  Creates({k1}, {"Report"}) \cup Updates({k2, k3}) \cup Deletes({k3})

\* Creates of names that collide or do not, under one key or two, and a delete
\* that sets a name free.
NameIntents ==
  Creates({k1}, {"Report"}) \cup Creates({k2}, {"report", "notes"}) \cup Deletes({k3})

\* Two accounts that name each other's file and upload under the same keys; one
\* of them updates the file too.
AccountIntents ==
  Creates({k1}, {"Report"}) \cup Deletes({k2}) \cup {i \in Updates({k2}) : i.owner = o1}

Ids == Permutations(FileIds) \cup Permutations(VersionIds) \cup Permutations(Workers)
         \cup Permutations(UploadIds)
=============================================================================
