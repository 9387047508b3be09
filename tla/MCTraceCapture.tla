-------------------------- MODULE MCTraceCapture --------------------------
(***************************************************************************)
(* Three thread instances over two kernel ids: enough for a worker beside  *)
(* the first thread, for a reused id, and for a second program image.      *)
(***************************************************************************)
EXTENDS TraceCapture, TLC

ThreadSymmetry == Permutations(Threads)

\* A bound: once two drops are counted while threads run, nothing but an exec can
\* make the trace valid again, so such states are checked but not continued from.
FewDrops == phase \in {"running", "exiting"} => dropped <= 1
=============================================================================
