------------------------- MODULE MCCandidateReview -------------------------
(***************************************************************************)
(* Every two-thread program of two instructions over loads, stores and an  *)
(* atomic, and the litmus programs.                                        *)
(***************************************************************************)
EXTENDS CandidateReview, MCWindows

Instructions == <<R("x"), R("y"), W("x"), W("y"), RMW("x")>>

ReviewWindows ==
  {Window(p) : p \in SmallPrograms(Instructions) \cup Litmus \cup Forwarding}

=============================================================================
