# TLA+ models of bmo-check

bmo-check decides whether an x86-64 program whose barriers a dynamic binary
translator drops ("DBT6 mo-off") still behaves, on RISC-V hardware, as x86-TSO
promises. It has two largely independent halves that share one evidence format:

- a **static analyzer** that recovers the control flow of a binary, its memory
  events and its threads, removes the events it can prove harmless, and judges
  what remains;
- a **dynamic analyzer** that records one execution with a DynamoRIO client,
  finds the pairs of accesses through which threads communicate, parts them into
  windows and asks for each window whether RVWMO allows an execution that
  x86-TSO forbids.

The models stand for the code under `src/`; `PROJECT.json` maps every definition
to the lines it translates. Where a definition states something that is not in
the repository (the two memory models, the processor that runs an analysed
program), it is marked external.

## 1. Inventory

| Component | State | Operations | Correct when |
|---|---|---|---|
| Evidence ledger (`bmo_check_core/evidence`) | append-only map of nodes, discharges | `add`, `add_discharge`, `proof_closure`, `unresolved_unknowns` | a proof never rests, at any distance, on an observation, a hint or a question |
| Certificates (`bmo_check_core/certificate`, `bmo_check_static/proof/certificate_bridge.py`) | ledger and certificate | verify, build and replay | an accepted certificate rests on proofs of its scope; SAFE owes nothing; dynamic evidence has no vote |
| Recorder (`bmo_check_dynamic/native/client.cpp`) | a global ticket counter, per thread a buffer and a file | record on access, lifecycle, call, system call, mapping; drop counters | the stamps say no more about order than was the case; a loss is always visible |
| Launcher (`capture/launcher.py`) | manifest | save an incomplete manifest, run, read the markers, save again | a partial trace is never marked complete |
| Trace reading (`trace/`, `storage/`, `normalize/`) | DuckDB tables of events, pages, objects | validate, load, assign object generations | corruption ends in UNKNOWN; two lives of an address are told apart |
| Communication (`analysis/communication.py`, `analysis/partition.py`) | active intervals of a page, edges found | pair creates and joins, sweep pages, compare ranges and lifetimes, enforce limits | no conflict is lost, none is invented |
| Windows (`analysis/windows.py`) | graph | boundaries, biconnected components | every critical cycle is inside one window, with what orders it |
| Window checker (`proof/checker.py`, `proof/relations.py`) | loop position, budget, deadline, formula | screen, enumerate, solve | `safe` = inclusion of RVWMO in x86-TSO on the window; `counterexample` = an execution in the difference, with the recorded values |
| Trace pipeline and campaign (`pipeline.py`, `application.py`, `cli.py`) | reasons for UNKNOWN, edges, results, database | stage after stage, verdict, one trace after another | any reason for doubt in any stage gives UNKNOWN |
| Static recovery (`controlflow/`, `threading/`, `analysis/memory_events.py`) | functions, roles, events | graph, roles, events of a role, their order | every execution is a path of the graph; what is not recovered is an unknown |
| Synchronization summaries (`synchronization/pthread.py`) | states of a walk through library code | walk, meet, override, one ordering per API | every way through the function orders what the summary says |
| Sharing (`analysis/shared_state.py`, `analysis/lockset.py`) | objects, phases, locks | fixed points and an ordered list of rules | what is removed cannot take part in a race |
| Slices and verdict (`slicing/`, `proof/verifier.py`) | slice, unknowns | conflicts, lifecycle edges, scope, open unknowns, verdict | SAFE only if nothing shared and nothing unknown is left |
| Static checker (`proof/encoding.py`, `evaluation/risk.py`) | two solvers, blocking clauses, budget | encode, propose, judge, exclude | a counterexample is one; exhaustion is containment |
| Evaluation (`bmo_check_evaluation`) | rows, files of an output directory, worker process | launch, expire, collect, recover, finish | a COMPLETE row has its own certificates on disk, every benchmark has a row, the command ends |
| Diagnostics (`bmo_check_core/diagnostics`, `bmo_check_diagnostics`, their adapters) | none | convert, join for display | never changes a verdict |

How they interact: the recorder's files are the only channel from the traced
program to the dynamic analyzer. The dynamic stages call each other in one
process, in the order capture, validation, storage, object identity, partition,
communication, windows, checker, verdict. The static stages do the same: library
summaries, roles, events, sharing, slice, scope, checker, verdict. The two halves
meet in the ledger only: static proofs may close static questions, dynamic evidence
may appear beside them but must not support a proof. The evaluation runs the static
route in worker processes that share an output directory with the command and with
whatever an earlier command left there. There are no callbacks between analyses;
concurrency exists in the analysed program and so in what the recorder sees, and
between commands, their workers and the limits of time.

What is hard here: the *meaning* of relations (fences, forwarding, widths), the
order of records of threads that the files do not tell, paths of a graph that stand
for executions, limits that cut a computation short, long sequences of legal ledger
calls, and the many places where something incomplete must not look complete.
`PROJECT.json` lists these hazards at their lines, each with the properties that
cover it or the reason why none does.

## 2. Modules

    EvidenceLedger ──> StaticCertificate ──> StaticReport ──> MCStaticCertificate
    MemoryRelations ─> MemoryModels ─┬> CheckedWindow ─┬> TsoMachine ─> CandidateReview ─> MCCandidateReview
                     │               │                 └> WindowChecker ─┐
                     │               └> FiniteChecker ─> MCFiniteChecker │
                     └> WindowConstruction ──────────────────────────────┴> WindowSweep ─> MCWindowChecker
    VerdictPromise <=refines= TracePipeline ─> Campaign ─> MCCampaign
    ThreadHandoff ──> CommunicationEdges ─> MCCommunication
    TraceCapture ──> MCTraceCapture
    StaticProgram ─┬> SharedState ─> SharedSlice ─> StaticAnalysis ─┐
                   └> SyncSummary ──────────────────────────────────┴> StaticRoute ─> MCStaticPrograms
    Evaluation ──> MCEvaluation
    litmus programs of the relation runs: MCWindows
    proofs: StaticCertificateProofs (with the ledger and the reports), MemoryRelationsProofs,
            WindowProofs (review, checker and sweep), TraceCaptureProofs, CommunicationProofs,
            CampaignProofs, FiniteCheckerProofs, StaticAnalysisProofs (with the evaluation)

### Evidence

**EvidenceLedger.** `nodes` and `discharges` are the two dictionaries of the
ledger. A node's id is the hash of its payload, so the model fixes at the start
what each id stands for (`content`): one id has one payload for good, adding it
twice changes nothing, and the check that an equal id holds an equal node cannot
fail. `Add` and `AddDischarge` are enabled when the code does not raise.
`Ancestry` is the set the depth-first walk of `proof_closure` visits, written as
the least closed set, which a proof can reason about; the code's walk fails at
the first node of another category, which is `~ ClosureHolds`.

**StaticCertificate.** `Replay` is `verify_static_certificate`, `Bridge` is
`build_static_certificate_with_evidence` followed by its own replay; both read
the ledger, which goes on growing (`Grow`). A binding is a closure, binaries, a
DBT revision and a scope; the models tell bindings apart by scope. A proof covers an
event that is in its list or is its `subject` (`CoversEvent`). The code
compares them only if the caller passes the expected ones, hence `AnyBinding`.

**StaticReport.** The last part of `analyze_with_evidence`: `Adapt` is
`adapt_static_report`, one node a step; `Decide`, `Answer` and `Ask` are the removal
decisions, the discharges and the added questions of
`build_static_certificate_from_report`, `Seal` hands the result to `Bridge`. Each place
where the code raises is a disjunct of `Refuse`; without a DBT revision the legacy
certificate goes out alone (`Unbound`). A report lists events, questions by analysis
(`Layers`), proofs, what was removed, and the verifier's verdict with the questions it
found relevant. A question that names one event, or an instruction that has one event
only, is about that event (`SubjectEvent`); which of several covering proofs the code
picks is left open. `NoReport` is the ledger on its own, filled by anyone in any order.

### Dynamic route

**MemoryRelations.** Pure definitions: event classes, preserved order of source
and target with the code's "nearest predecessor" compaction, boundary edges,
read parts, sources, coherence orders, communication, atomicity, values. An
execution is a read-from choice and a coherence order; one definition serves the
enumeration (where a read has one part) and the formula. The set
`SymbolicTargetOnly` is what the formula of `_check_symbolic` asks for: ranks that
respect the target relation, and a cycle of selected source edges.

**MemoryModels.** The reference: x86-TSO and RVWMO as axioms, from the
architectures, not from `relations.py`. Dependencies are left out because the
dynamic code leaves them out on purpose (every certificate says so). The models are
used where accesses coincide or are disjoint. The module also names what has to hold of a
window for the code's relations to be comparable with them (`Uniform`, `LoadFencesClear`,
`NeverForwards`, `RereadsOrdered`); section 4 uses these, and says why each is needed.

**TsoMachine, CandidateReview.** A store-buffer machine runs the window's
program; what it leaves behind is an execution too. `CandidateReview` puts one
execution on the table, from the checker's loops (`Judge`) or from the machine
(`Record`), and states what the code's relations and the reference must say of it.

**WindowChecker.** `check_window` as a state machine: `Screen` is everything
before the loops, `Examine` is one iteration and takes *any* execution that is
left (so no result depends on the order of `itertools.product`), `OverBudget` and
`Timeout` are the exits of the loop, `Exhaust` its end, `GiveUp`/`Unsat`/`Sat`
the solver path. The formula is taken to mean what it encodes; the term limit,
the construction deadline and the solver's timeout are all `GiveUp`.

**WindowConstruction.** `build_windows`: an edge is the set of its two ends;
`ThreadLinks` ties the ends of a thread one to the next, `Stars` puts a fence or
atomic between what it orders, `Components` are the biconnected components, by what
the depth-first search finds (two edges belong together when no single vertex parts
them), `MinimalBoundaries` chooses the fences a window keeps. `Conflicts` are the
edges the communication stage yields for a trace whose objects live throughout.

**WindowSweep.** The last stages of `analyze_trace` over a whole trace: windows over
the event limit count as unknown, the others are checked one after another by the
actions of `WindowChecker` (in any order), and `Conclude` makes the verdict.
The stars do not matter on the traces of the run: leaving them out changes no
verdict there, although a comment (`windows.py:68`) expects it to; the property is
sensitive to the thread links. The proof of section 4 confirms it for every trace it speaks of.

**ThreadHandoff.** What `write_record` stamps: lifecycle events draw a ticket
(fetch-and-add), accesses only read the counter. One main thread creates, runs
beside and joins workers; a worker may start, run and end before the main thread
records that it created it. `HandoffsComplete`, `JoinOf` and `Ordered` translate
`_thread_handoffs` and `_is_thread_handoff_edge` over the finished trace. The
model keeps the true order of the records as the order of `trace`; the analyzer's
definitions use tickets alone, the properties use the true order.

**CommunicationEdges.** Continues from a finished trace: `Begin` is the choice of
`analyze_trace` (full or application scope, partition, fast path, page budget),
`TakePage`/`TakeRow` the sweep with its active set, `GiveUp` the
`CommunicationLimitError`, `End` the filter and the edge limit.

**TraceCapture.** From the first record of a thread to the verdict of the
validation on what is on disk. A handler of the recorder works on a view of its
thread's `ThreadState`, its file and the shared counters, and because a write may
come up short it has a *set* of outcomes: `FlushState`, `WriteRecord`,
`WriteRecords` are functions from a view to such a set, and the actions
(`ThreadInit`, `Record`, `UnsupportedCall`, `ThreadExit`, ...) adopt one member. A
record is its sequence number. Around them: blocks that could not be instrumented
and then run unseen, the exit of the process with its three markers one step each
(`WriteReasons`, `WriteDropped`, `WriteComplete` and their failures), `Kill` at any
moment, and `ReplaceImage`, an exec after which the client starts anew in the same
directory. `Collect` is the end of `capture_program`, `TraceValid` the part of
`validate_trace` that decides over loss, and `SingleThreadRoute` the branch of
`analyze_trace` that skips the analysis. `happened` is a history variable: what
the execution called for, against which the files are measured.

**VerdictPromise, TracePipeline, Campaign.** `TracePipeline` is `analyze_trace` from
the directory to the certificate: the stages appear by what they may return, and the
module is about their order, the six places that end early or raise, the four modes
of enumeration, the limits, the database a campaign shares with `--database`, and the
validator `keep_verdict_strict`. `VerdictPromise` is the abstract specification:
obligations of a trace are met or left open, an open one is noted, and an answer
other than UNKNOWN needs all of them and no doubt. The refinement
(`Promise == INSTANCE VerdictPromise WITH ...`, property `KeepsPromise`) maps the
obligations to what is *true of the trace*: its records are whole, the contract fits,
every conflict the certificate claims to cover lies in a checked window, every window
is decided. It does not read them off the list of reasons the code reports.
`Campaign` repeats recording and analysis and sums up.

### Static route

**StaticProgram.** What is recovered of a binary: a program is a sequence of
instructions, each a block of its own, with successors, calls, and the address
recovered for its access (`known`, `direct`) beside the bytes it really touches
(`obj`, `at`, `size`, `own`). Translated are the whole graph, call graph, reachability
of `main`, roles and their completeness, the events of a role, the order between
them through blocks without events, and paths that fail. Facts of the affine,
lifecycle and escape provers (`lifecycle`, `split`, `escapes`) are inputs.

**SyncSummary.** The walk through a library function collects the orderings on the
way to each return: the states of `WalkOne` are places with what was collected before them
(`Visited`), and a call goes on once for each way through its callee (`Passed`). The recursion
over callees is a function over the set of active functions (`Walks`); its depth is the
number of functions, which it cannot exceed, as each one is entered once. `Meet` is what all of them have in common, `SummaryOf` adds the
override for a trusted library, `Provided` the one ordering of an API over all its
versions. The cache of results and the bound of 16 helper visits are left out: the
first changes only results that are incomplete anyway, the second is not reached.

**SharedState.** `analyze_shared_state`: the phases of main before the first
creation, after the last join, and in functions called outside both; locks held on
every path as the complement of what is reachable without them; objects, aliasing,
and the rules in their order (`SharingRules`, `StorageRules`, the read-only rule,
`AffineRules`), of which the first that applies decides.

**SharedSlice.** Conflicts by bucket, lifecycle edges, the slice, the restriction to
the application, and the unknowns no proof answers.

**StaticAnalysis.** Stages `Extract`, `Share`, `Slice`, `Verify`, and *then a run of
the program that was judged*: main and up to two workers, calls and returns, creation,
join, parallel regions, locks, exit. The runtime is external and knows nothing of the
analysis; the properties set one against the other. `ExtractionFails` is the
replacement report of the code's exception handler. The finite checker appears as a
choice (it never yields SAFE).

**StaticRoute.** `RecoverLibrary` summarises the pthread library first and binds the program
to the result (`synced`); a trial (`Try`, `TrialStep`) runs a function of the library
instead, against what was said about it.

**FiniteChecker.** `check_finite_portability`: `UnsupportedSlice`, `FixedEdges` per
model, the solver's choices (`Assignments`), what a model asks of them (`Solves`), the
loop with its blocking clauses, limit and both ways to give up, and
`find_publication_risks` beside it (the warning about weak library functions in the
same routine is left out). Ranks of a formula exist exactly when its edges have no
cycle, which is how `Solves` says it. The solver may propose the executions in any order.
`Extracted` is what the extraction makes of any binary: events of a thread numbered along
its order, the orderings of `_event_ordering`, distinct globals apart, and an edge of a
creation or join complete only where the summary of the library function orders enough.

### Evaluation

**Evaluation.** Commands over one output directory, isolated or in process; a worker
writes a certificate per ablation level and then a report where the command writes
its own; `Fail` and `Cut` end a process at any point with whatever it was writing,
`Expire` is the limit, `Collect` and `Recover` make the row, `Kill` ends a command,
alone or with its worker. A certificate's contents are the number of the command that wrote
it, a report's are its rows; a write that was cut leaves the file torn.

## 3. Runs

| Run | Question | Bounds |
|---|---|---|
| `certificate` | Can any order of ledger calls and certificates make an accepted certificate unsound, and can a report lose a question on its way into one? | 3 proofs, 2 questions, an observation, a hint, 2 scopes, 2 events, 2 instructions; payloads with right edges and with every wrong category; certificates right or wrong in each field; reports with up to 2 proofs (also two of one node, or one id twice), 4 listings of events, 6 ways to raise the questions, one without a binary |
| `candidate_review` | Do the code's relations agree with each other, with x86-TSO and with RVWMO? | all two-thread programs of 2+2 instructions from {R x, R y, W x, W y, RMW x}, litmus programs up to IRIW, forwarding programs; every execution and every machine run |
| `trace_capture` | Can a trace that lost something validate, however writes fail, the budget is hit, the program is killed or replaces itself? | 3 thread instances on 2 ids, buffer of 2 records, budget none or 3, 3 records per thread besides its exit, `FewDrops` |
| `communication` | From every recording: is every conflict found, or the analysis refused? | main and up to 2 workers, at most 4 accesses, pages of 4 bytes, `MaxEdges` 2, `MaxActive` 3; three recording styles of creation; both scopes |
| `window_checker` | Do the verdicts of a window mean what `docs/spec/soundness.md` says, whatever budget, deadline and solver do, and does a safe verdict hold of the whole trace the windows were cut from? | 28 traces; budget 4, at most 4 accesses and 2 writes of one place before the solver takes over (12 and 6 in the code), at most 6 events a window (so that some windows fall on each side of every limit) |
| `campaign` | Does every path through the pipeline keep the promise of a verdict? | 14 traces with up to 4 conflicts, both scopes, supported contract or not, 0 to 2 recordings, limits of 2 to 4 |
| `static_analysis` | Is what the analysis removes, orders, locks or summarises true of every run? | 55 programs of up to 12 instructions, each about one rule or one thing that must defeat it; 25 libraries; 2 workers; trials nested 4 deep |
| `finite_checker` | Does the static checker's answer mean what `verdict.py` says, and agree with the dynamic checker? | all 2+2 programs of loads and stores of two places, litmus programs, 21 odd slices (dependencies known, open and recovered, creation, join, locks, mixed sizes, broken order); at most 6 executions examined |
| `evaluation` | Are reports true after any crash and rerun, and does a command end? | 2 benchmarks, also twice the same id; 2 levels (5 in the code); 2 commands |
| `late_store`, `repeated_helper`, `runtime_edges` | one documented promise each, violated (section 5) | the smallest instance that shows it |

Why these bounds suffice. A ledger walk of length three with one wrong link
anywhere shows every way a category can leak; scopes and events are compared for
equality only, so two of each are enough. In two-instruction threads each pair of
classes meets with and without a fence or an atomic between the threads, and the
longer litmus programs supply the cycles through three and four threads. The
checkers' limits are compared with `<` and `>`, so what matters is a case below,
at and above each one, which the small values give. The traces of the sweep fall into
one, two or three windows, by a chain through three threads, across fences, atomics
and cut vertices. For the page sweep the interesting
geometry (an interval inside another, touching it, over a page border, active over
a later row) exists on two pages of four bytes; three intervals fill the active
set. In `trace_capture` three threads on two ids are the least with an id given out
again beside a running thread; a buffer of two is filled, and emptied half full, and
a budget of three is hit in the middle of it. Its constraint `FewDrops` does not
continue from states with two counted drops before the markers are written: the counter
never falls except in `ReplaceImage`, and every property is about what is on disk while
it stands at zero. It is the only constraint; every other run is exhaustive. Two workers
are enough for a race and for a lock that two workers name; a rule of the sharing
analysis looks at one object at a time, so each program has one object of interest. Two
commands are the least with leavings of another; a worker between its first and its
second level is at every point the code distinguishes.

The passing runs leave out what the violation runs and section 5 show, each by a named
antecedent or by the choice of programs: `window_checker` has no trace with two forwarded
own reads or two unfenced reads of one place in the wrong order on recorded values,
`candidate_review` keeps mixed widths and `LFENCE` out, `NoConflictLost` leaves out the
sweep that the limit stops before a filter (`runtime_edges`), `campaign` gives every trace a database
of its own, `SequentialRanAlone` names five conditions (`PhasesApart`, `CreatesTogether`,
`JoinedForGood`, `SingleTargets`, `MainNotCalledBack`) and `PlainSafeMeansNoRace` six more
(`OpenCallsApart`, `StartsFirst`, `LocksShared`, `SameStart`, `IndexedAlone`, `BlindKept`, and
`HiddenApart` of every role), `OrderCoversExecution` and `DefiniteLocksHeld` leave out calls that lead back unseen (`HiddenApart`), `PlainIsForbidden` and
`CounterexampleIsPossible` name theirs (`Forwards`, `LightFences`, barriers; `Locks`, and
`LooseEnds`: accesses beyond the event that a creation or join is tied to, which that event
does not order itself), `RoutesAgree` speaks of slices that both checkers can be given
(`Common`), `RiskIsReal` of windows that nothing `risk.py` overlooks keeps shut (`Apart`, no
creation or join between threads, no recovered dependency), and the two
evaluation invariants leave out ids that a suite lists twice and directories that a
command meets while an orphan still writes or, for a command in process, while a report
of an earlier one is still there (`Distinct`, `mixed`).

*Fairness.* `WindowSweep` states `WF_sweepVars(SweepNext)`: `analyze_trace` is one
sequential call that takes steps until it returns, the deadline is tested before each
execution and the solver runs under a timeout of at least a millisecond. No choice of a
particular action is assumed fair. `Evaluation` states weak fairness for the steps of a
command that nobody kills: `Launch`, `Collect`, `Recover`, `Finish` are plain code, and
`Expire` is `subprocess.run` with `analysis_timeout_seconds` (native programs have
`native_timeout_seconds`); nothing is assumed of the worker. The recording has no
fairness: a traced program may stop anywhere, and then nothing is claimed of it.
Deadlock is checked in every run but `static_analysis` and `repeated_helper`, whose
programs may end or deadlock by themselves. In `trace_capture` thread instances are
interchangeable and the run uses their symmetry.

Every property of a passing run has a mutant of the code it is about (operators
whose names extend the mutated definition, kept right before it) under which TLC
finds the property violated.

### What the properties say

- *Certificates*: `ProofsRestOnProofs`, `AcceptedRestsOnProofs`, `SafeOwesNothing`,
  `SafeStaysReplayable`, `DynamicEvidenceIsInert`, `QuestionsAreKept` (each question of a
  report is open in its certificate or answered by a proof about all its events).
- *Relations*: `NearestIsEnough` (the compact order finds the same cycles as the
  dense one, as a comment in the code claims), `EnginesAgree` (enumeration and
  formula), `TargetIsWeaker`, `SourceAcceptedIsTso`, `TargetAllowsRvwmo`,
  `RunIsAccepted` (x86-TSO allows what the machine does, and the target relation accepts it).
- *Capture*: `NothingLostSilently` (every record that is missing, torn or never
  probed for is behind a count), `CompleteIsCommit` (the last marker vouches for final
  counters), `ValidTraceIsWhole`, `SingleThreadRanAlone`.
- *Communication*: `PrunedPairsSeparated` (tickets never mislead about the order of
  records), `NoConflictLost`, `SkippedIsApart`.
- *Windows*: `SafeLeavesNothing`, `SafeMeansInclusion`, `CounterexampleIsForbidden`,
  `CounterexampleIsPossible`, `SafeWindowsSafeTrace` (no divergence of the whole trace
  where every window is safe), `SweepEnds`.
- *Pipeline*: `KeepsPromise`, the refinement.
- *Static*: `PlainSafeMeansNoRace` (SAFE without conflicts: no two threads are ever at one
  byte with a write), `SequentialRanAlone`, `DefiniteLocksHeld`, `OrderCoversExecution`,
  `BucketsLoseNoPair`, `OrderingIsCollected`.
- *Static checker*: `PlainIsForbidden`, `CounterexampleIsPossible`, `RoutesAgree` (with
  the dynamic relations), `ExhaustedMeansContained`, `RiskIsReal` (the solvers confirm what
  the screen for publication windows reports without asking them).
- *Evaluation*: `CompleteIsWritten`, `EveryBenchmarkHasItsRow`, `CommandEnds`.

## 4. Proofs

TLAPS proves the following for all values of the constants that satisfy the named
assumptions of the modules (`tlapm <module>`).

| Theorem | Says | Rests on |
|---|---|---|
| `LedgerIsSound`, `LedgerOnlyGrows`, `LedgerTypeCorrect` | the ledger properties, also `UnknownsAreStatic`, `DischargesJustified` and `OnlyGrows`, which no run repeats | `LedgerInv` |
| `AcceptedIsProved`, `SafeIsDebtFree`, `DynamicEvidenceHasNoVote`, `BridgeIsScoped` | the certificate properties, and `BridgeStaysInScope`, which no run repeats | `Inv` = ledger invariant, `TypeOK`, `AcceptedRestsOnProofs`, `BridgeStaysInScope` |
| `SafeKeepsItsStanding` | `SafeStaysReplayable` | the same: closures of nodes in the ledger do not change, and a discharge is never re-targeted |
| `ReportsAreCertified`, `ReportKeepsItsQuestions` | the steps of a report are steps of the certificate specification; `QuestionsAreKept` | `ReportSteps`, `ReportInv` |
| `CompactOrderIsEnough` | `NearestIsEnough` for every window | `NearestExists`, `CompactSourceOrder` |
| `TargetNeverStricter` | `TargetIsWeaker` for every window | the same, and that the target order lies inside the dense source order |
| `EnginesAlwaysAgree` | `EnginesAgree` for every window and candidate | `AdjacentIsEnough`, `SameCandidates` |
| `SourceIsTso` | `SourceAcceptedIsTso` for every window and candidate | `SourceInsideTso` |
| `TargetRejectsNoRvwmo` | `TargetAllowsRvwmo` for every `Uniform`, `LoadFencesClear` window | `RvwmoInsideTarget` |
| `RunsAreExecutions` | `ReviewTypeOK`: every run of the store-buffer machine, over any window, leaves one of the executions the loops produce | `MachineInv` |
| `RunsAreTso` | `RunIsAccepted` for every `Uniform`, `LoadFencesClear` window | the same, `RunIsTso`, `TsoInsideRvwmo` |
| `SafeIsInclusion` | `SafeMeansInclusion` for every `Uniform`, `LoadFencesClear` window | `SafeLeavesNothing` and the two inclusions above |
| `CounterexamplesAreForbidden` | `CounterexampleIsForbidden` for every `NeverForwards` window | `WitnessInv`, `TsoInsideSource` |
| `CounterexamplesArePossible` | `CounterexampleIsPossible` for every `Uniform`, `RereadsOrdered` window | `WitnessInv`, `TargetInsideRvwmo` |
| `SafeIsExhaustive`, `StoppingShortIsNotSafe` | `SafeLeavesNothing`, `NoEarlySafe` for every budget and limit, one window | `LoopInv`: what is no longer pending was counted and was not target-only |
| `SafeIsExhaustiveInSweeps`, `SafeTraceIsSweptHolds` | `SafeLeavesNothing` in every sweep; TRACE_SAFE only if every window that was built was taken, fits the limit and was judged safe | the same invariant of the loop, carried over from window to window |
| `SafeTraceIsInclusion` | `SafeWindowsSafeTrace` for every `Uniform`, `LoadFencesClear` trace, of any size and however it is divided | the same, `AllTogether` (no event parts a smallest cycle), `RestrictedIsExecution`, `TargetStays`, `CycleStays` |
| `RecordsAreCounted`, `MarkerCommits`, `ValidTracesAreWhole` | `TypeOK` and `NothingLostSilently`, `CompleteIsCommit`, `ValidTraceIsWhole` for any threads, ids, buffer and budget | `Inv` of `TraceCaptureProofs` |
| `SingleThreadIsAlone` | `SingleThreadRanAlone`, for the same | `IdsInv` beside `Inv` |
| `PrunedPairsAreSeparated` | `PrunedPairsSeparated` for any programs, number of workers and interleaving | `HandoffInv`: tickets and brackets of a life |
| `SweepLosesNoConflict`, `SkippedSweepIsApart` | `NoConflictLost`, `SkippedIsApart` for any trace, page size and limits | `SweepInv`: what is taken, active and emitted on each page |
| `CampaignKeepsPromise` | `KeepsPromise`: the campaign refines `VerdictPromise`, for any traces, limits and plans over temporary databases | `Inv`, phase by phase, and one lemma per kind of step |
| `AnswersAreEarned`, `ExhaustedIsContained` | the invariant of the static checker's loop; `ExhaustedMeansContained` for any slices and limits | `CheckerInv` |
| `WitnessIsForbidden`, `WitnessIsPossible` | `PlainIsForbidden`, `CounterexampleIsPossible` for every slice that the extraction can make | the same, `SourceSolves`, `TargetIsAllowed` |
| `CheckersAgree` | `RoutesAgree`, for the same | the same, `SameCounterexamples`, `SameExhaustion` |
| `ReportedIsReal` | `RiskIsReal`, for the same | the same, `InterleavingSolves`, `WindowIsWeak` |
| `BucketsLoseNoPairHolds`, `SafeMeansNoPairHolds` | `BucketsLoseNoPair`; a SAFE program has no conflicting pair left in its slice, for every program | the slice is what `SliceOf` and `ToApplication` make, by stage |
| `OrderCovers` | `OrderCoversExecution` for every program, any number of threads and any interleaving of them | `RunInv`: the run of each thread as a path of instructions (`Track`) |
| `LocksAreHeld` | `DefiniteLocksHeld`, for the same | the same, `LockInv`: what the analysis knows behind the latest event (`Guarded`) |
| `LocksExclude` | two threads are never both at an event under one definite lock that all share | the same, `HeldInv`: a lock has one holder |
| `PhasesRanAlone` | `SequentialRanAlone`: no other thread is alive when main is at an access that one of its phases removed, for the same | the same, `MainInv`: where the callers of main stand while a thread runs (`Around`, `Beside`) |
| `SafeIsRaceFree` | `PlainSafeMeansNoRace`: in a program that is SAFE no two threads are ever at one byte with one of them writing, for the same | `RunInv`, `MainInv`, `RolesInv`, `JudgedInv`, `LocksExclude`; rule by rule, `RuleKeeps` |
| `RouteKeepsPromises` | all five properties of the analysis above, for programs bound to what any library orders | `AnalysisInv`, `RouteInv` |
| `RouteInductive`, `OrderingIsWhatRuns` | `OrderingIsCollected`: what an API counts as ordering, every run of its code has ordered at its return, for every library and without a bound on the depth of calls | `TrialIsWalked`, `ProvidedIsMet` |
| `RunnerInvariant`, `CompleteMeansWritten`, `ReportsHoldEveryRow` | the invariant of the evaluation runner; `CompleteIsWritten`, `EveryBenchmarkHasItsRow` for any suites, levels and number of commands | `EvaluationInv` |

*Ledger.* `ProofsRestOnProofs` is not inductive by itself: it speaks of the
transitive walk, while `_validate_edges` looks one level deep. The strengthening
(`EdgesStayInside`) says that every node's direct parents are in the ledger and of
a permitted category; the ledger is then a closed set, and because a walk is the
*least* closed set that holds its start, it stays inside (`WalkStaysInside`). No
induction over the length of a walk is needed, which is why `Ancestry` is defined
as it is.

*Reports.* Each step of `ReportNext` is an `Add`, a discharge, a sealing or a stutter of the
certificate specification (`ReportSteps`), so every theorem about it holds of the adapter too,
and its invariant may be used for the next one. `ReportInv` says what the ledger owes to the
report at each stage: all its nodes are there before anything is answered, only what a proof
of the report settles is answered, and a sealed certificate is what was composed. Needs
`ReportsAreReports`: questions are question nodes, proofs are proof nodes.

*Relations.* `Acyclic` is "every set of events has one that none in it precedes",
equivalent to having no cycle on a finite window. To show that dropping a dense
edge that has a nearest predecessor in between loses no cycle, a headless set for
the dense order is closed under adding those predecessors; the result is headless
for the compact order. `AdjacentIsEnough` does the same for coherence. They need
only `WindowsAreTraces`: sequence numbers, addresses and sizes are naturals, and a sequence
number is unique in its thread.

*Relations and models.* Each inclusion takes a headless set of one graph and turns it into a
headless set of the other. From the source relation to x86-TSO (`SourceInsideTso`) nothing
is assumed of the window: every edge of the model is an edge or a path of the dense order,
and where several stores overlap a load the nearest one is enough, because they are ordered
among themselves. The other three directions are false in general, and the runs say where:
`Uniform` because the models do not speak of partial overlap; `LoadFencesClear` because the
target relation puts own Store->Load into the global order, which a later load fence makes
visible (the counterexample of `late_store`); `NeverForwards` because the source relation
keeps own Store->Load although x86-TSO forwards; `RereadsOrdered` because the target relation
leaves two loads of one place unordered. Each hypothesis is of the window at hand, inside
the box, so the theorems apply to every window that satisfies it whatever the others are:
of the 32 windows of `window_checker` all satisfy `LoadFencesClear` and `NeverForwards`, all
but the one that is refused for its widths are `Uniform`, and all but two satisfy
`RereadsOrdered`; those of `candidate_review` satisfy the first and `Uniform`.

*Machine.* A run of the store-buffer machine has to be shown an execution (`RunFacts`), and an
x86-TSO one (`RunIsTso`). `Queues` says that buffers and memory together hold
the writes issued, each thread's in program order, `Flushed` that no store older than a full
fence still waits; `Looked` that a read saw a write that covers it and was visible to it, and
no write older than an own store that waits; `Swapped` that an atomic saw the last write
before its own. On top of them two graphs are kept acyclic at every step, over what has happened so
far only (`TsoSoFar`, `PlacesSoFar`). What happens next comes after everything so far: in
the whole-machine graph a store happens when it leaves the buffer and a load when it
executes, in the graph of each place a load that was answered from the buffer is settled
together with its store. That is why both are needed, and why the invariant is stated over
prefixes: the finished graphs alone are not inductive. `MachineInv` was checked by TLC on
all the windows of the run, and on some with partial overlap, before it was proved. Needs
`InitialIsNoEvent` beside `WindowsAreTraces`.

*Checker and sweep.* Need `BudgetIsNatural`, `ExecutionsAreFinite` (a window is finite),
`NoExecutionIsNone`, `WindowsOfTraces` and `TracesAreFinite`. The sweep's own invariant says that the windows
built are those to do, the one at hand, those that gave a status, and those over the limit,
which left "unknown".

That safe windows make a safe trace (`SafeTraceIsInclusion`) is about what `build_windows`
leaves out, in three steps. First, a divergence of the whole trace is a set of events none of which is
first, under communication and the order x86-TSO keeps; take a smallest one. Each member is
in conflict with another (`MembersConflict`: what only its own thread passes could be left
out), and no single event parts the members (`AllTogether`): it would lie between two of
them, twice, and one of the two steps over it could be replaced by a shorter one
(`CrossingIsShort`). So one component holds the set, and its window also holds a
full fence wherever the trace has one between two of its events (`GapsHaveFences`). Only conflicts
and thread links are used; the stars could be left out. Second, an execution of the trace is
seen in the window (`Restricted`): a read whose source is outside reads from the last write
inside that came before the source. This is an execution of the window, atomics stay atomic, and the target relation
accepts it (`TargetStays`: an edge that only the window has steps over writes of the trace,
which are put back). Third, the cycle is one in the window too (`CycleStays`), so the source relation
refuses what the target accepts there, and the window was not safe. `Uniform` and
`LoadFencesClear` are needed as for one window; of the 28 traces of `window_checker` all
satisfy the second and all but the one of two widths the first.

*Capture.* `ValidTraceIsWhole` speaks of the end, so the invariant follows the loss
from where it happens to where it is read: `ThreadInv` ties each promised thread's
file and buffer to `happened` and gives it a file of its own, as long as nothing is
counted; `MarkerInv` says what each marker
written so far holds; `ManifestInv` carries the counter into the manifest. An action
either counts (`CountedKeeps`: then the first part claims nothing any more) or keeps
the file and the buffer joined (`WriteRecordKeeps`, `AdoptKeeps`). Needs `PidIsTid`,
`BufferIsPositive` and `BudgetsAreNatural`. `SingleThreadIsAlone` speaks also of threads whose file
was overwritten, of which that invariant promises nothing: `IdsInv` says instead that the
first thread of an image keeps the file of the process id, that a thread whose id was given
out again had another one, and that this id has a current holder, whose file is then a second
one. It also needs `TidsAreFinite`, because the route counts files.

*Communication.* Two orders carry the argument. Tickets: `Clocked` says that they never
decrease along the trace and that a lifecycle record's is its own, `Bracketed` that the
records of a thread lie between its start and its end; so an order of tickets against a
lifecycle record is an order of records (`TicketsTell`), whatever pairing of joins the
analyzer tries (`JoinIsFound`: each worker that lived is assigned some join of the main
thread, and the test that it is not older than the worker's end does the rest). Addresses:
`RowsInOrder` says that an interval no longer active ends before every row still to come,
so a row finds all it overlaps among the active ones; `EdgesOfTaken` says that each edge
was emitted once, at the page where the two accesses first meet, and none is missing as long as there is
room; at the end that makes the number of edges their count, which the limit is compared
with. Sorting by counting what is below (`RanksAreReached`) is proved to list a finite
set. The attempt to prove `NoConflictLost` without its antecedent is what showed finding 3 of section 5.
Needs `ScopesAreKnown`, `LimitsArePositive`, `SetupsAreTyped`, `SetupsRecordCreation` and
`ThreadsAreDistinct`; programs, accesses, sizes and addresses are arbitrary.

*Campaign.* The refinement mapping reads the obligations off the trace, so the
invariant says what an analysis without a noted doubt knows: after the preflight that
nothing was objected to (`Noted`), after the import that the database holds this trace alone
and every conflict is indexed (`Stored`), after the sweep that what is claimed was
kept, after the windows that they hold it with every cycle in one of them, after the
checks that each is decided as it may be. A step that gives no answer is `Work`
(`StageWorks`), an error or UNKNOWN is an `Answer` that promises nothing, and the two
other verdicts are answered from the invariant (`SingleThreadAnswers`, `JudgeAnswers`).
The theorem assumes `Databases \subseteq {"temporary"}`: with a named database it is false
(section 5).

*Static checker.* The loop's invariant is short: what is excluded the source accepts. The work
is in what an answer means. On a slice that is not refused the closure of the recorded edges is
program order (`ClosureIsOrder`), a read is one part (`WholeReads`), and what the solver chose is
an execution of the window (`ChoiceIsExecution`). Then each formula is compared with its
reference: every edge of the source formula is one of x86-TSO, of the fence in a library call or
of creation and join (`SourceSolves`), every edge of RVWMO is one of the target formula or lies
between two of them (`TargetIsAllowed`); for `RoutesAgree` both formulas meet the relations of
`relations.py` in both directions. `ReportedIsReal` needs an execution that nobody proposed: any
interleaving of the threads that goes along the edges of the target is one
(`InterleavingSolves`), and the one that runs the writer between the two loads of the reader
closes a cycle on x86 (`WindowIsWeak`). Needs `SlicesAreExtracted` (a slice is refused or
`Extracted`) and `InitialIsNoEvent`. The attempts to prove three of these properties as they
stood showed where the code is weaker than they said (`LooseEnds`, `Common`, `Apart`; section 5).

*Static.* The conflict of a pair is symmetric in what the buckets compare, an uncertain
event meets everything, and two certain ones that overlap have one kind and base, hence
one bucket; the restriction removes events and the pairs that hold them together.

The order and the locks are claims about executions. The walks of the analysis are `Reach`, the
least closed set of a finite graph (`ReachIsClosed`: a walk that is still growing would have more
members than there are nodes), and what is outside a closed set is never met; so no induction
over paths is needed, only an invariant of the run. `RunInv` says of every running thread how
its stack lies in the code of its role (`Track`): the frames are linked by calls, the
innermost is ahead of the thread's latest event with no other event of the role in between, and
only code behind an opaque call, which has no events of its own, may lie on top. From it an event that
is met is a successor of the latest one in `ProgramOrder` (`OrderCovers`). `Guarded` adds
the lock analysis: behind its latest event a thread holds the lock, or the analysis has told on this path that it may not.
It starts where the analysis starts and each edge keeps it, which is where `StartsFirst` and
`HiddenApart` are needed; programs without them are real (section 5). `LocksExclude` joins that with `HeldInv`.

The phases of main are claims about *other* threads: that none runs while main is at the access. They are
decided in the graph, mostly in one function, while main may be some calls deeper. So the
invariant follows the whole stack: the frames of main in the code it is known to run are a chain
of call sites (`Chain`, `Stacked`), and a step moves only its innermost end (`Moved`). `MainInv` says that
main is always around the end of the lifecycle, either where paths lead that do not pass it or behind it
(`Around`), and that while a thread runs main stands beside it (`Beside`): its innermost frame is reached from
a creation without a join in between, every frame in the function `main` is behind a place from which
workers come, and none has passed the end of the lifecycle. A creation establishes that
(`BesideCreated`), every other step of main keeps it (`BesideMoved`) except a join, which waits
for all threads. An event that a phase removed is in one of three sets (`ReasonsAre`,
`PhasesAre`); the first contradicts `PhasesApart`, the other two `Beside` (`BesideNotApart`). The attempt
showed that three more conditions are needed than the property had: `JoinedForGood`, `SingleTargets` and
`MainNotCalledBack`, each with a program that races without it (section 5).

`SafeIsRaceFree` joins all of them with the rules that remove accesses. Two threads at one byte are two
places of code that every role concerned is known to reach: while a worker runs, its role was
created in code that was followed (`RolesInv`, `WorkerFollowed`), and main beside it is in code of its own
role (`MainFollowed`). For behind a SAFE verdict no fact is open (`JudgedInv`, `NothingOpen`), so a call that was not
followed is one that a phase of main puts aside (`NothingOpaque`), and such a call is never beside a
worker. So each access has an event (`AccessHasEvent`), and the two are rivals: one
object, overlapping addresses, a store among them, and neither removed for a phase. `RuleKeeps` goes through the
rules of `analyze_shared_state` in their order, and says that none of them removes the event of an access that has a rival:
a reason is read back as the condition it was given for (`ReasonMeans`, `Warranted`), which for thread-local
storage, frames that do not escape, fresh allocations, arguments and split arrays makes both
accesses private, for read-only objects leaves no store, and for a lock puts both threads under it, against
`LocksExclude`. What is kept on both sides is then in conflict (`RivalsConflict`), against the empty set of
conflicts that SAFE was given for. Accesses of unknown address are followed apart, because they meet every
object (`UnknownKept`).

What the other provers find in machine code (that an argument is one thread's own, that indices are
split, that no address of a frame or of thread-local storage leaves it) is input of a program, and
`ProversAreRight` says that it is true; so the theorem is about what the analysis concludes from such facts,
not about them. The assumption is one of every program, also of those that race, and TLC evaluates it
on all programs of the run. The proof attempt found four conditions that the property had not named (`OpenCallsApart`,
`IndexedAlone`, `BlindKept`, and unrecovered widths in `SameStart`); each has a program
that is SAFE and races without it (section 5).

Needs `ProgramsAreRecovered`: a program's instructions, calls and entries
are nodes of its own code; the last theorem also `WorkersAreNumbered`. These theorems are about
`Spec`, a program on its own; `RouteKeepsPromises` carries them over to `RouteSpec`, which the run checks:
until the library is recovered, and in a trial, nothing is analyzed (`Untouched`), `RecoverLibrary` leads to an
initial state of the analysis, and from there on `AnalysisInv` holds, all the invariants above at once. It
needs `CasesAreRecovered`: a program is one of those under analysis whatever its library orders.

*Library summaries.* That an API orders what its summary says (`OrderingIsWhatRuns`) relates two
ways through the same code: the walk enters each function once for each set of active callers and
puts the results of callees together, a run goes through one stack of calls. The invariant
`TrialIsWalked` has three parts for each frame of that stack. The place of the frame, with what the
run collected in it, is a state that some walk of its function visited (`Enters`). That walk
was complete. And whatever it may still return with, added to what the frame below had collected
before its call, is a state of the frame below in its turn, down to the results of the API itself
(`Waits`). It is stated for anything the frame may return with, not for what the run does next, since only
so does a step in the top frame leave the others alone. A complete walk has no instruction that
the code did not understand and no recursive call on its way (`CompleteSays`), so a run of it goes only where
the walk went; at the last return what was collected contains one of the walk's returns, and
`Meet` is below each of them. A result that the bound of `Walks` cut off is incomplete, so a complete one is
the walk of a body over results of its callees (`WalkUnfolds`); whether the bound is ever met does not matter
to the theorem, it could only withhold a promise. Needs `LibrariesAreRecovered`: finitely many functions, each
with a first instruction, and a system call that orders what an ordering can be.

*Evaluation.* Both properties speak of files at rest, the invariant of who may still write
them. `CommandInv` says that only the process of the command at hand works, as long as no
worker was orphaned and no command in process began over a report (`mixed`), and that it
works on the benchmark the command is at; `WorkerInv` that it has a row for each definition it passed; `WaitInv` says what an
ended process left behind for its outcome; `RowsInv` that the rows are those of the
benchmarks passed, each COMPLETE one of this command; `FilesInv` that no report is whole
while a process analyses, and that the certificates it and the rows so far speak of are
there. A worker writes only the files of the
definition it was given, so in a suite of distinct ids the certificates of earlier rows stay
(`KeptElsewhere`). Needs `LevelsPositive`, `MaxCommandsIsNatural` and `SuitesOfIds`.

Only model-checked: liveness (`SweepEnds`, `CommandEnds`).

## 5. Where code and documents disagree

With a run:

1. **`late_store`**: the target relation puts own Store->Load into the global order
   (`relations.py:60`), stricter than RVWMO; with a later `LFENCE` a divergence is judged
   safe. The trace has a fourth thread that writes `y`, because without it nobody conflicts
   with the own read and `build_windows` leaves it out.
2. **`repeated_helper`**: a function that main calls before the creation and again beside
   the workers has a path to every creation, so its stores leave the slice as
   `SEQUENTIAL_BEFORE_CREATE` (`shared_state.py:1060`, against `model/sharing.py:49`) and the
   program is SAFE while it races.
3. **`runtime_edges`**: in application scope the sweep stops after one edge more than the
   limit, then edges between runtime libraries are dropped, and the limit is compared with
   what is left (`pipeline.py:264`): conflicts of the main ELF on later pages are missing and
   nothing is noted, against `docs/dynamic/06-streaming-and-limits.md:5` (any limit that is
   hit gives UNKNOWN).

Met while modelling, without a run of their own; the passing runs name or avoid each:

- certificates: `docs/spec/soundness.md:270-273` asks that every node of the proof closure
  match the scope; `verify_static_certificate` does not look at it (the bridge does).
- relations: after two narrow own stores a wide load is tied to the nearer one only
  (`relations.py:63`, against the comment at 61-62); the source relation keeps own
  Store->Load too, so a forwarding execution that x86-TSO allows is a counterexample; two
  loads of one place are not ordered in the target relation.
- communication: the main thread's accesses are compared with the worker's *start*, not
  with its *creation* (`docs/dynamic/03-objects-and-communication.md:15-20`).
- capture: the drop of an exec is counted in the image that ends
  (`docs/dynamic/02-dynamorio-capture.md:23-24`).
- pipeline: with `--database`, traces of a campaign share one store, and events of another
  trace can hide a conflict; `repeat: 0` gives TRACE_SAFE over no trace; an aborted campaign
  leaves an earlier `campaign.json`.
- static route: the main thread's own runtime calls are left out by the application scope;
  two accesses that overlap without starting together are two objects, also when the width of one is not
  recovered (`SameStart`, program `WideBeside`); an object that is accessed by index and at a fixed place is two objects as
  well (`IndexedAlone`, `IndexBeside`); reads of unknown address are compared with the other events of
  unknown address only before they go as `READ_ONLY_AFTER_CREATE` (`shared_state.py:1189`), although main writes
  at known addresses (`BlindKept`, `BlindBeside`), against `model/sharing.py:43` (no hidden writer); a
  creation in a worker, or in a function main does not call directly, is outside the phases
  (`CreatesTogether`); locks inside an object each thread has of its own are one lock
  (`LocksShared`).
- static route: the lockset analysis can say more than is true, against its own docstring
  (`lockset.py:76-78`, it may only miss a proof). Its roots are the events without a
  predecessor: when the entry of a role (also of main) has no event, a loop further on is
  entered at all its events or at none of the right ones, and when code that nothing leads to
  lies beside an entry inside a loop, that code alone is the root (`StartsFirst`; programs
  `MainSkipsLock` and `RootBeside`). A call that is not followed can lead back into functions
  the role is known to call, where the order has no edge from the call (`HiddenApart`;
  program `CallsBack`, whose verdict stays UNKNOWN because the call is open).
- static route, phases: `_post_join_covers_pc` (`shared_state.py:515`) goes by dominance alone, so a thread
  that is created behind the lifecycle that was proved is not noticed (`JoinedForGood`), against
  `model/sharing.py:51` (every created worker is proved to have exited).
  `_main_functions_outside_concurrent_phase` (`shared_state.py:807`) follows only calls with
  exactly one target, so a helper that is called through a pointer with several targets beside
  the workers counts as outside (`SingleTargets`), against `model/sharing.py:53` (main enters the
  function only before the creation or after the join). An indirect call that is not resolved and
  counts as before the creation leaves the unknowns (`proof/verifier.py:120-133`), although it may be
  what creates (`MainNotCalledBack`). The same happens to an open call between two
  creations: a path leads from it to the second one, so what it does counts as before the creation and its
  unknown goes with it (`OpenCallsApart`, program `LostBetween`). `MCPhases.cfg`, kept beside the runs, gives SAFE
  and a race for each of `LateCreation`, `CallByPointer`, `CreationBack` and `LostCall`, and for the objects named
  above for `FixedAndIndexed`, `FixedAndBlind` and `UnknownWidth`: `tlc -config MCPhases.cfg MCStaticPrograms`.
- parallel regions: the one barrier event of a region is tied to the first and from the last
  events of the workers (`slice_builder.py:224`), which is a cycle under the order x86-TSO
  keeps in the worker: the source solver rejects everything, and two independent stores in a
  callback are a counterexample (against `model/verdict.py:15`). `MCRegionCycle.cfg`, kept
  beside the runs, shows it: `tlc -config MCRegionCycle.cfg MCFiniteChecker`.
- static checker: LFENCE and SFENCE count as more than they order on x86 (`LightFences`), and
  own Store->Load of one place is kept (`Forwards`); the cycle shown for a witness omits the
  edge of an atomic to itself.
- static checker: in the target formula a join and a later creation of the same thread are tied
  to no common access (`encoding.py:232-252` order accesses only), so a worker that was joined
  is not before the next one (`Successive`), against `model/verdict.py:15`; nothing in the
  repository records dependencies (`encoding.py:194`), so every load is kept before every later
  store of its thread, and load buffering is never a counterexample.
- `evaluation/risk.py` takes both x86 edges of a window for missing in the target, but a store
  to the payload between the two loads is tied to both while dependencies are open
  (`Rewritten`), and `_BARRIERS` has no entry for creation and join.

## 6. Limits of the models

- In `StaticReport` a node is its id: equal questions of two analyses are one, several
  proofs may share a node, and the identities of modules, instructions and operands that go
  into the hashes are left out.
- `ThreadHandoff` orders *records*. The call that writes a record is inserted before
  the instruction, so an access may follow its record by any time.
- In `ThreadHandoff` only the main thread creates workers (the analyzer reads creates and
  joins of the first thread only). The traces there are complete; drops and crashes are the
  subject of `TraceCapture`. Object generations are given, not derived.
- Partial overlap of accesses is modelled on the code's side but not in the
  reference models.
- In `TraceCapture` a record and what it stands for are one step; a system call and
  its arguments are one record; a line of `.drop-reasons` that could not be written
  counts zero; the drop reasons that act alike (unknown width, registers, addresses;
  oversized allocations and modules) share a name; a forked child is not a process of
  its own. `ReplaceImage` rests on DynamoRIO following an exec with the same options,
  `Exit` on its running the thread exit events of all threads; both are marked external.
- `ValidTraceIsWhole` leaves out two kinds of thread whose records validation cannot
  miss: those whose id was given to a later thread (the file of that name is
  overwritten) and those of an image that an exec replaced (its counters start at zero
  again). Both are listed as hazards.
- `TracePipeline` takes the reasons of validation, the crowd of a page and the conflicts
  of a trace as facts of the trace; `CommunicationEdges`, `TraceCapture` and `WindowSweep`
  model how they come about.
- In `StaticProgram` a block is one instruction, and the bytes of an access are a property
  of the instruction, not computed. Left out of `SharedState`: unions of allocation sites
  as candidate bases; the rule for arguments main writes before handing them over
  (`:1247`), which never applies, since writers that lead to every creation are no
  concurrent events; and the rule for the hinted stack argument that workers only read
  (`:1351`). Beyond the read-only rule before it, that one accepts just groups with
  atomic read-modify-writes, which count as reads there, in programs whose manifest names
  `worker_argument_alias_base`: of such groups nothing is claimed. Left out of `OpenUnknowns`: the filters
  for contracted calls, and unknowns of the closure and the manifest. A join waits for all
  workers, as the loops of the analysed programs do. Programs with `normal` speak of
  executions that end normally.
- In `SyncSummary` ordering in the target is tracked, not the effects a processor may
  still delay after a publishing store; overrides are excluded from `OrderingIsCollected`.
- In `Evaluation` the native program, the suite file and the temporary request file are
  left out; a process that ends has no effect later.
- Timeouts are choices, not clocks; the term limit of the formula is not counted.
- Bytes are 0 or 1 and values are per byte, so shifts and masks are equality of the
  overlapping bytes; the limit of eight bytes per access is left out.

## 7. Not modelled, and plan

External tools decide most of disassembly (angr, Capstone), and `address_provenance.py` and
the symbolic provers built on them compute facts about machine code that the models take as
inputs. YAML contracts are compared with constants. Diagnostics with their adapters,
renderings of reports and most command lines keep no state and change no verdict.
`verify_trace_certificate` compares each root with its node and is called by tests only.

What is left, in this order:

1. **ObjectGenerations**: `materialize_objects` over allocation histories, to
   discharge the assumption of `NoConflictLost` about object names.
2. The exec of section 6, and the shared database of section 5, as runs of their own
   against the promise of the documents.
3. The affine and lifecycle provers as algorithms over index intervals, to replace `split`
   and `lifecycle`.
4. Access and record as two steps in the recorder; a forked child as a second writer of
   the markers.
