----------------------------- MODULE MCRepoLock -----------------------------
(* Three processes and two databases: one process that holds the lock, one *)
(* that comes while it does, and one that finds what the others left.      *)
EXTENDS RepoLock
=============================================================================
