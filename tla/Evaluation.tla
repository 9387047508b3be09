------------------------------ MODULE Evaluation ------------------------------
(***************************************************************************)
(* The evaluation runner (bmo_check_evaluation and the evaluate command):  *)
(* a command takes the benchmarks of a suite one after another, each in a  *)
(* worker process of its own, under a time limit, and collects one row per *)
(* benchmark.  The worker writes a certificate for every ablation level    *)
(* and then a report, in the place where the command writes the final one. *)
(* Commands share the output directory; a command or a worker can be       *)
(* killed at any point, and a worker outlives a command that was killed.   *)
(*                                                                         *)
(* A certificate's content is the number of the command that wrote it, a   *)
(* report's content its rows.                                              *)
(***************************************************************************)
EXTENDS Integers, Sequences, FiniteSets

CONSTANTS
  Ids,          \* benchmark ids
  Suites,       \* sequences of ids; nothing makes the ids of a suite distinct
  Levels,       \* the number of ABLATION_LEVELS, five in the code
  MaxCommands   \* bound: commands run over one output directory

ASSUME LevelsPositive == Levels \in Nat \ {0}
ASSUME MaxCommandsIsNatural == MaxCommands \in Nat
ASSUME SuitesOfIds == Suites \subseteq Seq(Ids)

VARIABLES
  suite,
  command,      \* the number of the last command
  mode,         \* "isolated" or "in_process"
  chosen,       \* its definitions
  phase,        \* "idle", "launch", "wait", "recover", "done", "failed" or "killed"
  status,       \* the status of the row to recover
  index,        \* the definition it is at
  rows,         \* its measurements
  workers,      \* the analysis process of each command
  certificate,  \* <output>/<id>/<level>.certificate.json
  report,       \* <output>/evaluation.json
  mixed         \* history: a command met the leavings of one that it cannot know of

commandVars == <<suite, command, mode, chosen>>
files == <<certificate, report>>
evaluationVars == <<commandVars, phase, status, index, rows, workers, files, mixed>>

Commands == 1 .. MaxCommands

\* A file is missing, was cut while it was written, or holds what a command wrote.
Missing == [state |-> "missing"]
Torn == [state |-> "torn"]
Whole(content) == [state |-> "whole", content |-> content]

\* A process analyses todo[at], has written the certificates of `level` levels,
\* and is "running", "written", "gone", or has ended with a code.
NoProcess == [todo |-> <<>>, at |-> 0, level |-> 0, rows |-> <<>>, state |-> "gone"]
Ended(code) == [NoProcess EXCEPT !.state = code]
Process(definitions) ==
  [todo |-> definitions, at |-> 1, level |-> 0, rows |-> <<>>, state |-> "running"]

Working(c) == workers[c].state \in {"running", "written"}
Current(c) == workers[c].todo[workers[c].at]
Reporting(c) == workers[c].at > Len(workers[c].todo)

Row(id, s, c) == [id |-> id, status |-> s, by |-> c]

EvaluationInit ==
  /\ suite \in Suites
  /\ command = 0 /\ mode = "isolated" /\ chosen = <<>>
  /\ phase = "idle" /\ status = "none" /\ index = 1 /\ rows = <<>>
  /\ workers = [c \in Commands |-> NoProcess]
  /\ certificate = [f \in Ids \X (1 .. Levels) |-> Missing]
  /\ report = Missing
  /\ mixed = FALSE

-----------------------------------------------------------------------------
\* _select_definitions: the suite's benchmarks with a requested id, all of them
\* for an empty request.
Selected(requested) ==
  LET places == {k \in DOMAIN suite : requested = {} \/ suite[k] \in requested}
  IN  [n \in 1 .. Cardinality(places) |->
         suite[CHOOSE k \in places : Cardinality({j \in places : j < k}) = n - 1]]

Evaluate(m, requested) ==
  /\ phase \in {"idle", "done", "failed", "killed"} /\ command < MaxCommands
  /\ command' = command + 1 /\ mode' = m
  /\ chosen' = Selected(requested)
  /\ index' = 1 /\ rows' = <<>> /\ status' = "none"
  /\ IF m = "isolated" THEN phase' = "launch" /\ UNCHANGED workers
     ELSE phase' = "wait" /\ workers' = [workers EXCEPT ![command'] = Process(chosen')]
  /\ mixed' = (mixed \/ (\E c \in Commands : Working(c)) \/ (m = "in_process" /\ report # Missing))
  /\ UNCHANGED <<suite, files>>

\* Mutant: what the last worker or command reported is left in place.
LaunchOverReport ==
  /\ phase = "launch" /\ index <= Len(chosen)
  /\ \/ /\ phase' = "wait"
        /\ workers' = [workers EXCEPT ![command] = Process(Selected({chosen[index]}))]
        /\ UNCHANGED status
     \/ phase' = "recover" /\ status' = "FAILED" /\ UNCHANGED workers
  /\ UNCHANGED <<commandVars, index, rows, files, mixed>>

\* The next round of _run_isolated: the report is removed, and a worker is asked for
\* one id; or the request file, or the process, cannot be created.
Launch ==
  /\ phase = "launch" /\ index <= Len(chosen)
  /\ report' = Missing
  /\ \/ /\ phase' = "wait"
        /\ workers' = [workers EXCEPT ![command] = Process(Selected({chosen[index]}))]
        /\ UNCHANGED status
     \/ phase' = "recover" /\ status' = "FAILED" /\ UNCHANGED workers
  /\ UNCHANGED <<commandVars, index, rows, certificate, mixed>>

\* _evaluate of cli.py: the whole report replaces the last worker's.
Finish ==
  /\ phase = "launch" /\ index > Len(chosen)
  /\ report' = Whole(rows) /\ phase' = "done"
  /\ UNCHANGED <<commandVars, status, index, rows, workers, certificate, mixed>>

-----------------------------------------------------------------------------
(* The analysis process, in a worker or, for an in-process command, in the   *)
(* command itself.                                                           *)

Certify(c) ==
  /\ workers[c].state = "running" /\ ~ Reporting(c) /\ workers[c].level < Levels
  /\ certificate' = [certificate EXCEPT ![<<Current(c), workers[c].level + 1>>] = Whole(c)]
  /\ workers' = [workers EXCEPT ![c].level = @ + 1]
  /\ UNCHANGED <<commandVars, phase, status, index, rows, report, mixed>>

\* The native program has run, if it was asked for: the measurement is complete.
Measure(c) ==
  /\ workers[c].state = "running" /\ ~ Reporting(c) /\ workers[c].level = Levels
  /\ workers' = [workers EXCEPT ![c].at = @ + 1, ![c].level = 0,
                                ![c].rows = Append(@, Row(Current(c), "COMPLETE", c))]
  /\ UNCHANGED <<commandVars, phase, status, index, rows, files, mixed>>

WriteReport(c) ==
  /\ workers[c].state = "running" /\ Reporting(c)
  /\ report' = Whole(workers[c].rows)
  /\ workers' = [workers EXCEPT ![c].state = "written"]
  /\ UNCHANGED <<commandVars, phase, status, index, rows, certificate, mixed>>

EndWorker(c) ==
  /\ workers[c].state = "written"
  /\ workers' = [workers EXCEPT ![c] = Ended("ok")]
  /\ UNCHANGED <<commandVars, phase, status, index, rows, files, mixed>>

\* What a process that ends here may leave of the file it was writing.
Cut(c) ==
  \/ UNCHANGED files
  \/ /\ workers[c].state = "running" /\ ~ Reporting(c) /\ workers[c].level < Levels
     /\ certificate' = [certificate EXCEPT ![<<Current(c), workers[c].level + 1>>] = Torn]
     /\ UNCHANGED report
  \/ /\ workers[c].state = "running" /\ Reporting(c)
     /\ report' = Torn /\ UNCHANGED certificate

\* An exception (exit code 1 or 3), MemoryError, or a signal; the exit code of an
\* orphan is read by nobody.
Fail(c, code) ==
  /\ Working(c) /\ Cut(c)
  /\ workers' = [workers EXCEPT ![c] = Ended(code)]
  /\ phase' = IF mode = "in_process" /\ c = command THEN "failed" ELSE phase
  /\ UNCHANGED <<commandVars, status, index, rows, mixed>>

-----------------------------------------------------------------------------
\* Mutant: only a worker that is still at its analysis can run out of time.
ExpireAnalysis ==
  /\ phase = "wait" /\ mode = "isolated" /\ Working(command)
  /\ workers[command].level < Levels /\ ~ Reporting(command)
  /\ Cut(command)
  /\ workers' = [workers EXCEPT ![command] = NoProcess]
  /\ phase' = "recover" /\ status' = "TIMEOUT"
  /\ UNCHANGED <<commandVars, index, rows, mixed>>

\* The limit passes, however far the worker is; subprocess.run kills it.
Expire ==
  /\ phase = "wait" /\ mode = "isolated" /\ Working(command)
  /\ Cut(command)
  /\ workers' = [workers EXCEPT ![command] = NoProcess]
  /\ phase' = "recover" /\ status' = "TIMEOUT"
  /\ UNCHANGED <<commandVars, index, rows, mixed>>

Collect ==
  /\ phase = "wait" /\ ~ Working(command)
  /\ IF mode = "in_process" THEN phase' = "done" /\ UNCHANGED <<status, index, rows>>
     ELSE IF /\ workers[command].state = "ok"
             /\ report.state = "whole" /\ Len(report.content) = 1
       THEN rows' = rows \o report.content /\ index' = index + 1 /\ phase' = "launch" /\ UNCHANGED status
       ELSE /\ phase' = "recover" /\ UNCHANGED <<index, rows>>
            /\ status' = IF workers[command].state \in {"memory", "signal"}
                           THEN "RESOURCE_LIMIT" ELSE "FAILED"
  /\ workers' = [workers EXCEPT ![command] = NoProcess]
  /\ UNCHANGED <<commandVars, files, mixed>>

\* Mutant: a benchmark that failed is left out.
RecoverNothing ==
  /\ phase = "recover"
  /\ index' = index + 1 /\ phase' = "launch" /\ status' = "none"
  /\ UNCHANGED <<commandVars, rows, workers, files, mixed>>

\* _failed_measurement, which runs the native program (again) within its limit.
Recover ==
  /\ phase = "recover"
  /\ rows' = Append(rows, Row(chosen[index], status, 0))
  /\ index' = index + 1 /\ phase' = "launch" /\ status' = "none"
  /\ UNCHANGED <<commandVars, workers, files, mixed>>

\* The command is killed, alone or with its worker.
Kill ==
  /\ phase \in {"launch", "wait", "recover"}
  /\ phase' = "killed" /\ status' = "none" /\ index' = 1 /\ rows' = <<>>
  /\ \/ mode = "isolated" /\ UNCHANGED <<workers, files>>
     \/ /\ Working(command) /\ Cut(command)
        /\ workers' = [workers EXCEPT ![command] = NoProcess]
     \/ /\ phase = "launch" /\ index > Len(chosen)
        /\ report' = Torn /\ UNCHANGED <<workers, certificate>>
  /\ UNCHANGED <<commandVars, mixed>>

Over ==
  /\ command = MaxCommands /\ phase \in {"done", "failed", "killed"}
  /\ \A c \in Commands : ~ Working(c)
  /\ UNCHANGED evaluationVars

EvaluationNext ==
  \/ \E m \in {"isolated", "in_process"}, requested \in SUBSET {suite[k] : k \in DOMAIN suite} :
       Evaluate(m, requested)
  \/ Launch \/ Finish \/ Expire \/ Collect \/ Recover \/ Kill \/ Over
  \/ \E c \in Commands :
       \/ Certify(c) \/ Measure(c) \/ WriteReport(c) \/ EndWorker(c)
       \/ \E code \in {"error", "memory", "signal"} : Fail(c, code)

\* The command runs on while nobody kills it, and every wait has its limit:
\* analysis_timeout_seconds for a worker, native_timeout_seconds for a program.
\* Nothing is assumed of the worker.
Fairness ==
  /\ WF_evaluationVars(Launch) /\ WF_evaluationVars(Collect) /\ WF_evaluationVars(Recover)
  /\ WF_evaluationVars(Finish) /\ WF_evaluationVars(Expire)

EvaluationSpec == EvaluationInit /\ [][EvaluationNext]_evaluationVars /\ Fairness

-----------------------------------------------------------------------------
Distinct == \A j, k \in DOMAIN suite : suite[j] = suite[k] => j = k

(***************************************************************************)
(* model/evaluation.py, line 23: COMPLETE says that all certificates of    *)
(* the ablation were written.  Whoever finds a report in the directory, of *)
(* a command or left by a worker, at any moment and after any crash and    *)
(* rerun, finds for its COMPLETE rows the certificates they name, and not  *)
(* those of a later run.  An in-process command does not remove the report *)
(* before it writes certificates, nor does a second command know of the    *)
(* worker of one that was killed (mixed), and rows of one id share their   *)
(* files.                                                                  *)
(***************************************************************************)
CompleteIsWritten ==
  Distinct /\ ~ mixed /\ report.state = "whole" =>
    \A k \in DOMAIN report.content, l \in 1 .. Levels :
      LET row == report.content[k]
      IN  row.status = "COMPLETE" => certificate[<<row.id, l>>] = Whole(row.by)

(***************************************************************************)
(* A command that ends by itself reports every benchmark it chose, in the  *)
(* order of the suite, whatever became of the workers, and a COMPLETE row  *)
(* is one that its own worker measured.                                    *)
(***************************************************************************)
EveryBenchmarkHasItsRow ==
  phase = "done" /\ ~ mixed =>
    /\ report.state = "whole"
    /\ Len(report.content) = Len(chosen)
    /\ \A k \in DOMAIN chosen :
         LET row == report.content[k]
         IN  row.id = chosen[k] /\ (row.status = "COMPLETE" => row.by = command)

(***************************************************************************)
(* An isolated command that nobody kills ends, though a worker may hang at *)
(* any point: parsec.py isolates the workers so that a large program does  *)
(* not drag the command down with it.                                      *)
(***************************************************************************)
CommandEnds ==
  phase \in {"launch", "wait", "recover"} /\ mode = "isolated" ~> phase \in {"done", "killed"}

=============================================================================
