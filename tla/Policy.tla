------------------------------- MODULE Policy -------------------------------
(* The repository policy and the functions over it (config/policy.ts).     *)
(*                                                                         *)
(* A policy is a revision and a set of entries: a repository, by id and    *)
(* name, under the installation it is reviewed through. The order of the   *)
(* JSON arrays, installations without repositories and the user, who is    *)
(* always the same one, are left out.                                      *)
EXTENDS Integers

CONSTANTS Ids,      \* immutable repository ids
          Names,    \* OWNER/REPOSITORY, in lower case
          Installs  \* ids of installations of the GitHub App

Identities == [id : Ids, name : Names]
Entries == [install : Installs, id : Ids, name : Names]
Policies == [revision : Nat, entries : SUBSET Entries]

EmptyPolicy == [revision |-> 0, entries |-> {}]

EntryOf(install, repo) ==
    [install |-> install, id |-> repo.id, name |-> repo.name]
RepoOf(e) == [id |-> e.id, name |-> e.name]
IdsIn(p) == {e.id : e \in p.entries}

(* parseRevoirPolicy: no id and no name occurs twice.                      *)
Unambiguous(p) ==
    \A e, f \in p.entries : (e.id = f.id \/ e.name = f.name) => e = f

Smaller(m, n) == IF m < n THEN m ELSE n

(* Mutant of IntersectPolicies: what KV allows is allowed.                 *)
CloudPolicy(local, cloud) == cloud
IntersectPolicies(local, cloud) ==
    [revision |-> Smaller(local.revision, cloud.revision),
     entries |-> local.entries \cap cloud.entries]

WithoutRepository(p, id) ==
    IF id \notin IdsIn(p) THEN p
    ELSE [revision |-> p.revision + 1,
          entries |-> {e \in p.entries : e.id # id}]

(* Mutant of Conflicts: the name may belong to another id.                 *)
IdConflicts(p, install, repo) ==
    \E e \in p.entries :
        e.id = repo.id /\ (e.name # repo.name \/ e.install # install)

(* withRepository throws: the id is known by another name or through       *)
(* another installation, or the name belongs to another id.                *)
Conflicts(p, install, repo) ==
    \E e \in p.entries :
        \/ e.id = repo.id /\ (e.name # repo.name \/ e.install # install)
        \/ e.name = repo.name /\ e.id # repo.id

WithRepository(p, install, repo) ==
    IF EntryOf(install, repo) \in p.entries THEN p
    ELSE [revision |-> p.revision + 1,
          entries |-> p.entries \cup {EntryOf(install, repo)}]
=============================================================================
