--------------------------- MODULE MCOutcomeQueue ---------------------------
(***************************************************************************)
(* Three outcomes, so that one can wait for a second that is superseded by *)
(* the third, and two can be parked while the third is in flight; or two,  *)
(* one of the campaign and one outside it.  The outcomes of the campaign   *)
(* are alike, and so are the others.                                       *)
(***************************************************************************)
EXTENDS OutcomeQueue, TLC

Symmetry ==
  Permutations(Campaign) \cup Permutations(Outcomes \ Campaign)
    \cup Permutations(Supervisors)
=============================================================================
