----------------------------- MODULE MCEvaluation -----------------------------
(***************************************************************************)
(* Two benchmarks, one, and two of one id.                                 *)
(***************************************************************************)
EXTENDS Evaluation, TLC

CONSTANTS x264, dedup

MCSuites == {<<x264, dedup>>, <<x264, x264>>}

=============================================================================
