-------------------------- MODULE MCHermesStoreLock --------------------------
(***************************************************************************)
(* HermesStoreLock with an owner, two waiters and two requests.            *)
(***************************************************************************)
EXTENDS HermesStoreLock
=============================================================================
