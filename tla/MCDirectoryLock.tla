--------------------------- MODULE MCDirectoryLock ---------------------------
(***************************************************************************)
(* DirectoryLock with an owner and two waiters; one of them may die.       *)
(***************************************************************************)
EXTENDS DirectoryLock
=============================================================================
