-------------------------- MODULE CandidateReview --------------------------
(***************************************************************************)
(* One execution of one window, judged by the relations of the code and by *)
(* the reference models.  The execution is any candidate the checker's     *)
(* loops may produce, or the one a run of the machine leaves behind.       *)
(***************************************************************************)
EXTENDS TsoMachine

VARIABLES
  execution,
  origin      \* "none", "checker" or "machine"

reviewVars == <<machineVars, execution, origin>>

ReviewInit ==
  /\ MachineInit
  /\ execution = NoExecution
  /\ origin = "none"

\* The loops of check_window take each execution of the window in turn.
Judge(x) ==
  /\ origin = "none" /\ issued = {}
  /\ execution' = x
  /\ origin' = "checker"
  /\ UNCHANGED machineVars

Record ==
  /\ origin = "none" /\ Over
  /\ execution' = Run
  /\ origin' = "machine"
  /\ UNCHANGED machineVars

ReviewNext ==
  \/ \E x \in Executions(window) : Judge(x)
  \/ Record
  \/ origin = "none" /\ MachineNext /\ UNCHANGED <<execution, origin>>
  \/ origin # "none" /\ UNCHANGED reviewVars

ReviewSpec == ReviewInit /\ [][ReviewNext]_reviewVars

-----------------------------------------------------------------------------
Judged == origin # "none"

(***************************************************************************)
(* What the machine leaves behind is an execution of the window, as much   *)
(* as what the loops produce.                                              *)
(***************************************************************************)
ReviewTypeOK ==
  /\ MachineTypeOK
  /\ origin \in {"none", "checker", "machine"}
  /\ IF Judged THEN execution \in Executions(window) ELSE execution = NoExecution

(***************************************************************************)
(* The comment in source_preserved_order claims that linking only the      *)
(* nearest predecessors keeps reachability: the compact order finds a      *)
(* cycle in exactly the executions the dense order does.                   *)
(***************************************************************************)
NearestIsEnough ==
  Judged =>
    (SourceAccepts(window, execution)
       <=> Acyclic(window, DenseSourceOrder(window) \cup Communication(window, execution)))

(***************************************************************************)
(* The two engines look for the same thing: tying adjacent writes in the   *)
(* enumeration is as good as tying every overlapping pair in the formula.  *)
(***************************************************************************)
EnginesAgree ==
  origin = "checker" =>
    (TargetOnly(window, execution) <=> SymbolicTargetOnly(window, execution))

(***************************************************************************)
(* The target relation is never the stricter one: what the source relation *)
(* accepts, the target relation accepts, so a target-only candidate is the *)
(* only way the two can differ (docs/dynamic/04-portability-check.md).     *)
(***************************************************************************)
TargetIsWeaker ==
  Judged => (SourceAccepts(window, execution) => TargetAccepts(window, execution))

(***************************************************************************)
(* An execution the source relation accepts is one x86-TSO allows: a       *)
(* source relation that lost an edge would hide divergences.               *)
(***************************************************************************)
SourceAcceptedIsTso ==
  Judged /\ AtomicsValid(window, execution) =>
     (SourceAccepts(window, execution) => TsoAllows(window, execution))

(***************************************************************************)
(* The target relation rejects nothing that RVWMO allows; an edge too many *)
(* would make the checker overlook a real target execution.                *)
(***************************************************************************)
TargetAllowsRvwmo ==
  Judged => (RvwmoAllows(window, execution) => TargetAccepts(window, execution))

(***************************************************************************)
(* What the TSO machine records: the reference model of x86-TSO allows it, *)
(* and it is itself a target execution, which the code's target relation   *)
(* does not reject.                                                        *)
(***************************************************************************)
RunIsAccepted ==
  origin = "machine" =>
    /\ TsoAllows(window, execution)
    /\ TargetAccepts(window, execution)

=============================================================================
