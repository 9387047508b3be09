---------------------------- MODULE VerdictPromise ----------------------------
(***************************************************************************)
(* What a trace verdict promises, whatever stages it is reached through:   *)
(* the obligations of one trace are met one after another or left open, an *)
(* open one is noted as a doubt, and an answer other than UNKNOWN is given *)
(* only when every obligation is met and no doubt was noted.               *)
(***************************************************************************)
CONSTANT Obligations

VARIABLES
  met,       \* the obligations that hold of the trace and its analysis so far
  doubted,   \* a reason for UNKNOWN was noted
  refuted,   \* the answered trace has a cycle that only the target allows
  answer     \* "none", a verdict, or "error"

vars == <<met, doubted, refuted, answer>>

Fresh(m, d, r, a) == m \subseteq Obligations /\ ~ d /\ ~ r /\ a = "none"

Init == Fresh(met, doubted, refuted, answer)

\* Doubts stay, whatever a later stage achieves.
Work ==
  /\ answer = "none" /\ answer' = "none"
  /\ met \subseteq met' /\ met' \subseteq Obligations
  /\ doubted => doubted'
  /\ ~ refuted'

Answer ==
  /\ answer = "none"
  /\ met' \subseteq Obligations
  /\ doubted => doubted'
  /\ \/ answer' = "error"
     \/ answer' = "UNKNOWN" /\ doubted'
     \/ answer' = "TRACE_SAFE" /\ ~ doubted' /\ met' = Obligations /\ ~ refuted'
     \/ answer' = "COUNTEREXAMPLE" /\ ~ doubted' /\ met' = Obligations /\ refuted'

\* The next trace of a campaign.
Begin == answer # "none" /\ Fresh(met', doubted', refuted', answer')

Next == Work \/ Answer \/ Begin

Spec == Init /\ [][Next]_vars

=============================================================================
