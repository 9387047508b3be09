------------------------------- MODULE Campaign -------------------------------
(***************************************************************************)
(* The campaign command: for each entry of a manifest and each repetition  *)
(* a program is recorded and its trace analyzed; the summary is written    *)
(* after the last one.  Any error ends the command, and what it wrote      *)
(* before stays, as does the summary of an earlier campaign in the same    *)
(* directory.                                                              *)
(***************************************************************************)
EXTENDS TracePipeline, Sequences

CONSTANT Plans      \* how many repetitions the entries of the manifest ask for

ASSUME PlansAreNatural == Plans \subseteq Nat

VARIABLES
  planned,    \* repetitions of this campaign
  verdicts,   \* of the certificates so far
  summary,    \* campaign.json
  exit        \* exit status, or "none"

campaignVars == <<planned, verdicts, summary, exit>>
vars == <<pipelineVars, campaignVars>>

Init ==
  /\ PipelineInit
  /\ planned \in Plans
  /\ verdicts = <<>>
  /\ summary \in {"none", "earlier"}
  /\ exit = "none"

\* The first recording is already in PipelineInit.
Running == exit = "none" /\ (planned > 0)

Analyze == Running /\ PipelineNext /\ UNCHANGED campaignVars

\* The program could not be recorded.
CaptureFails ==
  /\ Running /\ phase = "load"
  /\ exit' = "error"
  /\ UNCHANGED <<pipelineVars, planned, verdicts, summary>>

\* A certificate, and the next trace.
Collect ==
  /\ Running /\ phase = "answered" /\ Len(verdicts) + 1 < planned
  /\ verdicts' = Append(verdicts, certificate.verdict)
  /\ \E t \in Traces :
       /\ trace' = t /\ phase' = "load" /\ unknowns' = {} /\ mode' = "none"
       /\ raw' = {} /\ kept' = {} /\ windows' = {} /\ results' = <<>>
       /\ certificate' = NoCertificate
  /\ UNCHANGED <<scope, database, supported, store, planned, summary, exit>>

Abort ==
  /\ Running /\ phase = "raised"
  /\ exit' = "error"
  /\ UNCHANGED <<pipelineVars, planned, verdicts, summary>>

Overall(vs) ==
  CASE "COUNTEREXAMPLE" \in vs -> "COUNTEREXAMPLE"
    [] "COUNTEREXAMPLE" \notin vs /\ "UNKNOWN" \in vs -> "UNKNOWN"
    [] OTHER -> "TRACE_SAFE"

Summarize ==
  /\ exit = "none"
  /\ \/ planned = 0 /\ verdicts' = verdicts
     \/ phase = "answered" /\ Len(verdicts) + 1 = planned
          /\ verdicts' = Append(verdicts, certificate.verdict)
  /\ summary' = Overall({verdicts'[k] : k \in DOMAIN verdicts'})
  /\ exit' = summary'
  /\ UNCHANGED <<pipelineVars, planned>>

Over == exit # "none" /\ UNCHANGED vars

Next == Analyze \/ CaptureFails \/ Collect \/ Abort \/ Summarize \/ Over

Spec == Init /\ [][Next]_vars

=============================================================================
