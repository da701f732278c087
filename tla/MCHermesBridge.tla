--------------------------- MODULE MCHermesBridge ---------------------------
(***************************************************************************)
(* The supervisor with one outcome: what its four places say of it, after  *)
(* every death, thrown call and suspension.                                *)
(***************************************************************************)
EXTENDS HermesBridge
=============================================================================
