------------------------ MODULE MCRepositoryManager ------------------------
(* RepositoryManager for TLC: repositories and names are interchangeable.  *)
EXTENDS RepositoryManager, TLC

Interchangeable == Permutations(Ids) \cup Permutations(Names)
=============================================================================
