------------------------- MODULE StaticAnalysisProofs -------------------------
(***************************************************************************)
(* What the static route says, for every program.  The slice: conflicts    *)
(* found by buckets are all the conflicts, and SAFE is given only when no  *)
(* two of the events that are kept conflict and no fact is open.  The      *)
(* evaluation runner: what its reports say is on disk.  The run: threads   *)
(* meet their events in program order, hold the locks the analysis says    *)
(* they hold, a lock keeps the others out, main is alone where a phase of  *)
(* main was to separate its accesses, and a program that is SAFE has no    *)
(* race.  The pthread library: what the summary of an API promises, every  *)
(* run of the code of the API has ordered when it returns.                 *)
(***************************************************************************)
EXTENDS StaticRoute, Evaluation, FiniteSetTheorems, SequenceTheorems, TLAPS

\* Events that overlap are in one bucket, or one of them has no fixed place.
LEMMA OverlapMeets ==
  ASSUME NEW e, NEW f, Overlap(e.address, f.address)
  PROVE  Uncertain(e) \/ Uncertain(f) \/ Bucket(e) = Bucket(f)
BY Zenon DEF Overlap, Uncertain, Bucket

\* _conflicts loses no pair and invents none.
LEMMA ConflictsAreAll ==
  ASSUME NEW E
  PROVE  Conflicts(E) = AllConflicts(E)
<1> DEFINE memory == {e \in E : e.kind \in MemoryKinds}
           pairs  == {x \in memory \X memory :
                        \/ x[1] = x[2]
                        \/ Uncertain(x[1]) \/ Uncertain(x[2])
                        \/ Bucket(x[1]) = Bucket(x[2])}
           found  == {y \in pairs : IsConflict(y[1], y[2])}
           all    == {y \in E \X E : /\ {y[1].kind, y[2].kind} \subseteq MemoryKinds
                                     /\ IsConflict(y[1], y[2])}
<1>1. \A y \in found : y \in all
  OBVIOUS
<1>2. \A y \in all : y \in found
  <2> SUFFICES ASSUME NEW y \in all PROVE y \in found
    OBVIOUS
  <2>1. y \in memory \X memory
    OBVIOUS
  <2>2. Overlap(y[1].address, y[2].address)
    BY DEF IsConflict
  <2>3. Uncertain(y[1]) \/ Uncertain(y[2]) \/ Bucket(y[1]) = Bucket(y[2])
    BY <2>2, OverlapMeets
  <2> QED
    BY <2>1, <2>3
<1>3. found = all
  BY <1>1, <1>2
<1> QED
  BY <1>3 DEF Conflicts, AllConflicts

\* Leaving events out leaves out exactly the conflicts they take part in.
LEMMA ConflictsRestrict ==
  ASSUME NEW E, NEW gone
  PROVE  {c \in AllConflicts(E) : c \cap gone = {}} = AllConflicts(E \ gone)
<1> DEFINE all(S) == {y \in S \X S : /\ {y[1].kind, y[2].kind} \subseteq MemoryKinds
                                     /\ IsConflict(y[1], y[2])}
<1>1. ASSUME NEW c \in AllConflicts(E), c \cap gone = {}
      PROVE  c \in AllConflicts(E \ gone)
  <2>1. PICK y \in all(E) : c = {y[1], y[2]}
    BY <1>1 DEF AllConflicts
  <2>2. y \in all(E \ gone)
    BY <1>1, <2>1
  <2> QED
    BY <2>1, <2>2 DEF AllConflicts
<1>2. ASSUME NEW c \in AllConflicts(E \ gone)
      PROVE  c \in AllConflicts(E) /\ c \cap gone = {}
  <2>1. PICK y \in all(E \ gone) : c = {y[1], y[2]}
    BY <1>2 DEF AllConflicts
  <2>2. y \in all(E) /\ y[1] \notin gone /\ y[2] \notin gone
    BY <2>1
  <2> QED
    BY <2>1, <2>2 DEF AllConflicts
<1> QED
  BY <1>1, <1>2

-----------------------------------------------------------------------------
\* The stages at which there is a slice.
Sliced == {"sliced", "judged", "running"}

\* The slice keeps all its conflicts, and only an empty one is judged safe.
SliceInv ==
  /\ stage \in Sliced => slice.conflicts = AllConflicts(slice.events)
  /\ verdict # "none" => stage \in {"judged", "running"}
  /\ verdict = "SAFE" => open = {} /\ slice.conflicts = {}

\* Nothing is sliced at first.
LEMMA SliceInvInit == Init => SliceInv
BY DEF Init, SliceInv, Sliced

\* The slice of an analysis that failed has no events.
LEMMA FailureKeeps == SliceInv /\ ExtractionFails => SliceInv'
<1> SUFFICES ASSUME SliceInv, ExtractionFails PROVE SliceInv'
  OBVIOUS
<1>1. slice'.conflicts = {} /\ slice'.events = {} /\ verdict' = verdict /\ verdict = "none"
  BY DEF ExtractionFails, NoSlice, SliceInv
<1>2. AllConflicts({}) = {}
  BY DEF AllConflicts
<1> QED
  BY <1>1, <1>2 DEF SliceInv

\* Both scopes of the slice.
LEMMA SliceKeeps == SliceInv /\ Slice => SliceInv'
<1> SUFFICES ASSUME SliceInv, Slice PROVE SliceInv'
  OBVIOUS
<1> DEFINE s == SliceOf(prog, events, order, shared)
           gone == {e \in s.events : RuntimeBoundary(e)}
<1>1. s.conflicts = AllConflicts(s.events)
  BY ConflictsAreAll DEF SliceOf
<1>2. slice' = IF application THEN ToApplication(s) ELSE s
  BY DEF Slice
<1>3. /\ ToApplication(s).events = s.events \ gone
      /\ ToApplication(s).conflicts = {c \in s.conflicts : c \cap gone = {}}
  BY DEF ToApplication, SliceOf
<1>4. slice'.conflicts = AllConflicts(slice'.events)
  <2> HIDE DEF s, gone
  <2>1. CASE application
    <3>1. slice' = ToApplication(s)
      BY <1>2, <2>1
    <3>2. slice'.conflicts = {c \in AllConflicts(s.events) : c \cap gone = {}}
      BY <1>1, <1>3, <3>1
    <3>3. {c \in AllConflicts(s.events) : c \cap gone = {}} = AllConflicts(s.events \ gone)
      BY ConflictsRestrict
    <3> QED
      BY <1>3, <3>1, <3>2, <3>3
  <2>2. CASE ~ application
    BY <1>1, <1>2, <2>2
  <2> QED
    BY <2>1, <2>2
<1>5. verdict' = verdict /\ verdict = "none"
  BY DEF Slice, SliceInv
<1> QED
  BY <1>4, <1>5 DEF SliceInv

\* The verdict.
LEMMA VerifyKeeps == SliceInv /\ Verify => SliceInv'
<1> SUFFICES ASSUME SliceInv, Verify PROVE SliceInv'
  OBVIOUS
<1>1. slice' = slice /\ stage = "sliced" /\ stage' = "judged"
  BY DEF Verify
<1>2. verdict' = "SAFE" => open' = {} /\ slice.conflicts = {}
  BY DEF Verify
<1> QED
  BY <1>1, <1>2 DEF SliceInv, Sliced

\* The steps of the analysis and of the program together.
LEMMA SliceInvStep == SliceInv /\ [Next]_vars => SliceInv'
<1> SUFFICES ASSUME SliceInv, [Next]_vars PROVE SliceInv'
  OBVIOUS
<1>1. CASE Extract
  BY <1>1 DEF Extract, SliceInv, Sliced
<1>2. CASE ExtractionFails
  BY <1>2, FailureKeeps
<1>3. CASE Share
  BY <1>3 DEF Share, SliceInv, Sliced
<1>4. CASE Slice
  BY <1>4, SliceKeeps
<1>5. CASE Verify
  BY <1>5, VerifyKeeps
<1>6. CASE Start
  BY <1>6 DEF Start, SliceInv, Sliced
<1>7. CASE Run
  BY <1>7 DEF Run, static, SliceInv, Sliced
<1>8. CASE UNCHANGED vars
  BY <1>8 DEF vars, static, SliceInv, Sliced
<1> QED
  BY <1>1, <1>2, <1>3, <1>4, <1>5, <1>6, <1>7, <1>8 DEF Next

-----------------------------------------------------------------------------
\* The bucketed comparison of _conflicts, and the restriction to the
\* application, leave every conflicting pair of the kept events in the slice.
THEOREM BucketsLoseNoPairHolds == Spec => []BucketsLoseNoPair
<1>1. SliceInv => BucketsLoseNoPair
  BY DEF SliceInv, BucketsLoseNoPair, Sliced
<1> QED
  BY <1>1, SliceInvInit, SliceInvStep, PTL DEF Spec

\* A program is called safe only when no fact is open and no two events that
\* were kept, of two threads or of one role that has many, may touch one byte
\* with one of them writing.
SafeMeansNoPair == verdict = "SAFE" => open = {} /\ AllConflicts(slice.events) = {}

\* A SAFE program has no conflicting pair left in its slice, whatever it is.
THEOREM SafeMeansNoPairHolds == Spec => []SafeMeansNoPair
<1>1. SliceInv => SafeMeansNoPair
  BY DEF SliceInv, SafeMeansNoPair, Sliced
<1> QED
  BY <1>1, SliceInvInit, SliceInvStep, PTL DEF Spec

-----------------------------------------------------------------------------
(* The runner that evaluates the static route: commands and their workers.   *)

RowSet == [id : Ids, status : {"COMPLETE", "FAILED", "TIMEOUT", "RESOURCE_LIMIT"}, by : Nat]

ProcessSet ==
  [todo : Seq(Ids), at : Nat, level : 0 .. Levels, rows : Seq(RowSet),
   state : {"running", "written", "gone", "ok", "error", "memory", "signal"}]

CertificateSet == {Missing, Torn} \cup {Whole(c) : c \in Commands}
ReportSet == {Missing, Torn} \cup {Whole(r) : r \in Seq(RowSet)}

EvaluationTypeOK ==
  /\ suite \in Suites /\ command \in 0 .. MaxCommands /\ mode \in {"isolated", "in_process"}
  /\ chosen \in Seq(Ids) /\ index \in Nat \ {0} /\ rows \in Seq(RowSet)
  /\ phase \in {"idle", "launch", "wait", "recover", "done", "failed", "killed"}
  /\ status \in {"none", "FAILED", "TIMEOUT", "RESOURCE_LIMIT"}
  /\ phase = "recover" => status # "none"
  /\ phase # "idle" => command \in Commands
  /\ workers \in [Commands -> ProcessSet]
  /\ certificate \in [Ids \X (1 .. Levels) -> CertificateSet]
  /\ report \in ReportSet
  /\ mixed \in BOOLEAN

(***************************************************************************)
(* Counting what is before a place numbers the places.                     *)
(***************************************************************************)
LEMMA PlacesAreNumbered ==
  ASSUME NEW places \in SUBSET Nat, IsFiniteSet(places), NEW n \in 1 .. Cardinality(places)
  PROVE  \E k \in places : Cardinality({j \in places : j < k}) = n - 1
<1> DEFINE size == Cardinality(places)
           below(k) == {j \in places : j < k}
           rank == [k \in places |-> Cardinality(below(k))]
<1>1. size \in Nat
  BY FS_CardinalityType
<1>2. \A k \in places : IsFiniteSet(below(k)) /\ Cardinality(below(k)) \in 0 .. size - 1
  <2> SUFFICES ASSUME NEW k \in places PROVE IsFiniteSet(below(k)) /\ Cardinality(below(k)) \in 0 .. size - 1
    OBVIOUS
  <2>1. below(k) \subseteq places /\ k \notin below(k)
    OBVIOUS
  <2> HIDE DEF below
  <2>2. IsFiniteSet(below(k)) /\ Cardinality(below(k)) <= size /\ Cardinality(below(k)) # size
    BY <2>1, FS_Subset
  <2> QED
    BY <1>1, <2>2, FS_CardinalityType
<1>3. ASSUME NEW j \in places, NEW k \in places, j < k PROVE Cardinality(below(j)) < Cardinality(below(k))
  <2>1. j \in Nat /\ k \in Nat /\ places \subseteq Nat
    OBVIOUS
  <2>2. j \in below(k) /\ j \notin below(j)
    BY <1>3, <2>1
  <2>3. ASSUME NEW i \in places, i < j PROVE i < k
    BY <1>3, <2>1, <2>3
  <2>4. below(j) \subseteq below(k)
    BY <2>3
  <2> HIDE DEF below
  <2>5. Cardinality(below(j)) <= Cardinality(below(k)) /\ Cardinality(below(j)) # Cardinality(below(k))
    BY <1>2, <2>2, <2>4, FS_Subset
  <2> QED
    BY <1>1, <1>2, <2>5
<1>4. rank \in Injection(places, 0 .. size - 1)
  <2> HIDE DEF below, size
  <2>1. rank \in [places -> 0 .. size - 1]
    BY <1>2
  <2>2. ASSUME NEW j \in places, NEW k \in places, rank[j] = rank[k] PROVE j = k
    BY <1>1, <1>2, <1>3, <2>2
  <2> QED
    BY <2>1, <2>2 DEF Injection, IsInjective
<1>0. n \in 1 .. size
  OBVIOUS
<1> HIDE DEF size, rank
<1>5. IsFiniteSet(0 .. size - 1) /\ Cardinality(0 .. size - 1) = size
  BY <1>1, FS_Interval
<1>6. rank \in Surjection(places, 0 .. size - 1)
  BY <1>4, <1>5, FS_Injection DEF size
<1>7. PICK k \in places : rank[k] = n - 1
  <2>1. n - 1 \in 0 .. size - 1
    BY <1>0, <1>1
  <2> QED
    BY <1>6, <2>1 DEF Surjection
<1> QED
  BY <1>7 DEF rank

(***************************************************************************)
(* _select_definitions: what was requested, nothing else, and no more often*)
(* than the suite lists it.                                                *)
(***************************************************************************)
LEMMA SelectedAre ==
  ASSUME suite \in Seq(Ids), NEW requested
  PROVE  /\ Selected(requested) \in Seq(Ids)
         /\ \A n \in 1 .. Len(Selected(requested)) :
              requested = {} \/ Selected(requested)[n] \in requested
         /\ Distinct => \A m, n \in 1 .. Len(Selected(requested)) :
              Selected(requested)[m] = Selected(requested)[n] => m = n
<1> DEFINE places == {k \in DOMAIN suite : requested = {} \/ suite[k] \in requested}
           size == Cardinality(places)
           rank(k) == Cardinality({j \in places : j < k})
           place(n) == CHOOSE k \in places : rank(k) = n - 1
<1>1. DOMAIN suite = 1 .. Len(suite) /\ Len(suite) \in Nat /\ \A k \in 1 .. Len(suite) : suite[k] \in Ids
  OBVIOUS
<1>2. IsFiniteSet(places) /\ places \subseteq Nat /\ places \subseteq DOMAIN suite
  <2>1. IsFiniteSet(1 .. Len(suite))
    BY <1>1, FS_Interval
  <2> QED
    BY <1>1, <2>1, FS_Subset
<1>3. size \in Nat
  BY <1>2, FS_CardinalityType
<1>4. \A k \in places : k \in DOMAIN suite /\ suite[k] \in Ids /\ (requested = {} \/ suite[k] \in requested)
  BY <1>1
<1>5. Selected(requested) = [n \in 1 .. size |-> suite[place(n)]]
  BY DEF Selected
<1> HIDE DEF places, size
<1>6. \A n \in 1 .. size : place(n) \in places /\ rank(place(n)) = n - 1
  <2> SUFFICES ASSUME NEW n \in 1 .. size
               PROVE  place(n) \in places /\ rank(place(n)) = n - 1
    OBVIOUS
  <2>1. \E k \in places : rank(k) = n - 1
    BY <1>2, PlacesAreNumbered DEF size
  <2> QED
    BY <2>1
<1> HIDE DEF place, rank
<1>7. Selected(requested) \in Seq(Ids) /\ Len(Selected(requested)) = size
  <2>1. \A n \in 1 .. size : suite[place(n)] \in Ids
    BY <1>4, <1>6
  <2>2. Selected(requested) \in [1 .. size -> Ids]
    BY <1>5, <2>1
  <2> QED
    BY <1>3, <2>2
<1>8. ASSUME NEW n \in 1 .. size PROVE requested = {} \/ Selected(requested)[n] \in requested
  BY <1>4, <1>5, <1>6
<1>9. ASSUME Distinct, NEW m \in 1 .. size, NEW n \in 1 .. size, Selected(requested)[m] = Selected(requested)[n]
      PROVE  m = n
  <2>1. place(m) = place(n)
    BY <1>2, <1>5, <1>6, <1>9 DEF Distinct
  <2> QED
    BY <1>3, <1>6, <2>1
<1> QED
  BY <1>7, <1>8, <1>9

\* What a worker is asked for and what it then reports.
Task == IF mode = "isolated" THEN Selected({chosen[index]}) ELSE chosen
Outcome == [k \in 1 .. Len(Task) |-> Row(Task[k], "COMPLETE", command)]

InLoop == phase \in {"launch", "wait", "recover"} /\ mode = "isolated"

\* Where a command is; that nobody but its own process works; and that a suite
\* without repetitions gives definitions without.
CommandInv ==
  /\ phase \in {"launch", "recover"} => mode = "isolated"
  /\ InLoop => Len(rows) = index - 1 /\ index <= Len(chosen) + 1
  /\ InLoop /\ phase # "launch" => index <= Len(chosen)
  /\ ~ mixed => \A c \in Commands : Working(c) => c = command /\ phase \in {"wait", "killed"}
  /\ Distinct => \A j, k \in 1 .. Len(chosen) : chosen[j] = chosen[k] => j = k

\* The rows of a process are those of the definitions it is done with.
Measured(c, w) ==
  /\ w.at \in 1 .. Len(w.todo) + 1 /\ Len(w.rows) = w.at - 1
  /\ \A k \in 1 .. Len(w.rows) : w.rows[k] = Row(w.todo[k], "COMPLETE", c)
  /\ w.state = "written" => w.at = Len(w.todo) + 1

WorkerInv == \A c \in Commands : Working(c) => Measured(c, workers[c])

\* Whom the command waits for works on what it asked, and reports that.
WaitInv ==
  phase = "wait" /\ ~ mixed =>
    /\ Working(command) => workers[command].todo = Task
    /\ workers[command].state \in {"written", "ok"} => report = Whole(Outcome)
    /\ mode = "in_process" => workers[command].state \in {"running", "written", "ok"}

\* The rows so far are those of the first definitions.
RowsInv ==
  InLoop /\ ~ mixed =>
    \A k \in 1 .. Len(rows) : rows[k].id = chosen[k] /\ (rows[k].status = "COMPLETE" => rows[k].by = command)

\* What the process w of command c says it has written is there.
Certified(c, w, found) ==
  \A k \in 1 .. Len(w.todo), l \in 1 .. Levels :
    k < w.at \/ (k = w.at /\ l <= w.level) => found[<<w.todo[k], l>>] = Whole(c)

\* What the rows r claim is there.
Kept(r, found) ==
  \A k \in 1 .. Len(r), l \in 1 .. Levels :
    r[k].status = "COMPLETE" => found[<<r[k].id, l>>] = Whole(r[k].by)

\* No report lies beside a process that still writes certificates; the certificates
\* of whoever works are there, and so are those of the rows so far.
FilesInv ==
  ~ mixed =>
    /\ \A c \in Commands : workers[c].state = "running" => report.state # "whole"
    /\ \A c \in Commands : Working(c) => Certified(c, workers[c], certificate)
    /\ Distinct /\ InLoop => Kept(rows, certificate)

EvaluationInv ==
  /\ EvaluationTypeOK /\ CommandInv /\ WorkerInv /\ WaitInv /\ RowsInv /\ FilesInv
  /\ CompleteIsWritten /\ EveryBenchmarkHasItsRow

\* The kinds of process there are.
LEMMA ProcessesTyped ==
  /\ NoProcess \in ProcessSet /\ ~ NoProcess.state \in {"running", "written", "ok"}
  /\ \A code \in {"ok", "error", "memory", "signal"} :
       Ended(code) \in ProcessSet /\ Ended(code).state = code
  /\ \A todo \in Seq(Ids) : Process(todo) \in ProcessSet
<1>1. NoProcess \in ProcessSet /\ ~ NoProcess.state \in {"running", "written", "ok"}
  <2>1. 0 \in Nat /\ 0 \in 0 .. Levels /\ <<>> \in Seq(Ids) /\ <<>> \in Seq(RowSet)
    BY LevelsPositive
  <2> QED
    BY <2>1 DEF NoProcess, ProcessSet
<1>2. ASSUME NEW code \in {"ok", "error", "memory", "signal"}
      PROVE  Ended(code) \in ProcessSet /\ Ended(code).state = code
  BY <1>1 DEF Ended, ProcessSet
<1>3. ASSUME NEW todo \in Seq(Ids) PROVE Process(todo) \in ProcessSet
  BY LevelsPositive DEF Process, ProcessSet
<1> QED
  BY <1>1, <1>2, <1>3

\* An output directory starts empty, with no command and no process.
LEMMA EvaluationInitInv == EvaluationInit => EvaluationInv
<1> SUFFICES ASSUME EvaluationInit PROVE EvaluationInv
  OBVIOUS
<1>1. EvaluationTypeOK
  <2>1. workers \in [Commands -> ProcessSet]
    BY ProcessesTyped DEF EvaluationInit
  <2>2. certificate \in [Ids \X (1 .. Levels) -> CertificateSet] /\ report \in ReportSet
    BY DEF CertificateSet, ReportSet, EvaluationInit
  <2>3. command \in 0 .. MaxCommands /\ chosen \in Seq(Ids) /\ rows \in Seq(RowSet)
    BY MaxCommandsIsNatural DEF EvaluationInit
  <2>4. /\ suite \in Suites /\ mode \in {"isolated", "in_process"} /\ index \in Nat \ {0}
        /\ phase = "idle" /\ status \in {"none", "FAILED", "TIMEOUT", "RESOURCE_LIMIT"}
    BY DEF EvaluationInit
  <2>5. mixed \in BOOLEAN
    BY Zenon DEF EvaluationInit
  <2> QED
    BY <2>1, <2>2, <2>3, <2>4, <2>5, Zenon DEF EvaluationTypeOK
<1> USE DEF EvaluationInit
<1>2. \A c \in Commands : ~ Working(c)
  BY DEF Working, NoProcess
<1>3. CommandInv /\ WorkerInv /\ WaitInv /\ RowsInv
  BY <1>2 DEF CommandInv, WorkerInv, WaitInv, RowsInv, InLoop
<1>4. FilesInv
  BY <1>2 DEF FilesInv, InLoop, NoProcess
<1>5. CompleteIsWritten /\ EveryBenchmarkHasItsRow
  BY DEF CompleteIsWritten, EveryBenchmarkHasItsRow, Missing
<1> QED
  BY <1>1, <1>3, <1>4, <1>5 DEF EvaluationInv

\* A write that a failure cut leaves a torn file or the old one.
LEMMA CutTyped ==
  ASSUME EvaluationTypeOK, NEW c, Cut(c)
  PROVE  certificate' \in [Ids \X (1 .. Levels) -> CertificateSet] /\ report' \in ReportSet
  BY DEF EvaluationTypeOK, Cut, files, CertificateSet, ReportSet

\* The current definition of a process that still analyses, and its row.
LEMMA CurrentTyped ==
  ASSUME EvaluationTypeOK, WorkerInv, NEW c \in Commands, workers[c].state = "running", ~ Reporting(c)
  PROVE  /\ workers[c] \in ProcessSet /\ Measured(c, workers[c])
         /\ workers[c].at \in 1 .. Len(workers[c].todo)
         /\ Current(c) \in Ids
<1>1. workers[c] \in ProcessSet
  BY DEF EvaluationTypeOK
<1>2. Measured(c, workers[c])
  BY DEF WorkerInv, Working
<1>3. workers[c].at \in 1 .. Len(workers[c].todo) /\ workers[c].todo \in Seq(Ids)
  BY <1>1, <1>2 DEF Measured, Reporting, ProcessSet
<1> QED
  BY <1>1, <1>2, <1>3 DEF Current

\* Whether an orphan shares the directory is a truth value.
LEMMA MixedTyped == mixed \in BOOLEAN => (EvaluationNext => mixed' \in BOOLEAN)
BY Zenon DEF EvaluationNext, Evaluate, Launch, Finish, Expire, Collect, Recover, Kill, Over,
     Certify, Measure, WriteReport, EndWorker, Fail, evaluationVars

\* The types are kept by every step of a command or of its worker.
LEMMA EvaluationTypeStep ==
  ASSUME EvaluationTypeOK, CommandInv, WorkerInv, EvaluationNext
  PROVE  EvaluationTypeOK'
<1> USE DEF commandVars
<1>1. mixed' \in BOOLEAN
  BY MixedTyped, Zenon DEF EvaluationTypeOK
<1>2. suite \in Seq(Ids)
  BY SuitesOfIds DEF EvaluationTypeOK
<1>3. ASSUME NEW m \in {"isolated", "in_process"}, NEW requested, Evaluate(m, requested)
      PROVE  EvaluationTypeOK'
  <2>1. Selected(requested) \in Seq(Ids)
    BY <1>2, SelectedAre
  <2>2. command' \in Commands /\ command' \in 0 .. MaxCommands
    BY <1>3, MaxCommandsIsNatural DEF Evaluate, Commands, EvaluationTypeOK
  <2>3. workers' \in [Commands -> ProcessSet]
    BY <1>3, <2>1, <2>2, ProcessesTyped DEF Evaluate, EvaluationTypeOK
  <2> QED
    BY <1>1, <1>3, <2>1, <2>2, <2>3 DEF Evaluate, EvaluationTypeOK, files
<1>4. CASE Launch
  <2>1. Selected({chosen[index]}) \in Seq(Ids)
    BY <1>2, SelectedAre
  <2>2. workers' \in [Commands -> ProcessSet]
    BY <1>4, <2>1, ProcessesTyped DEF Launch, EvaluationTypeOK
  <2> QED
    BY <1>1, <1>4, <2>2 DEF Launch, EvaluationTypeOK, ReportSet
<1>5. CASE Finish
  BY <1>1, <1>5 DEF Finish, EvaluationTypeOK, ReportSet
<1>6. CASE Expire
  <2>1. workers' \in [Commands -> ProcessSet]
    BY <1>6, ProcessesTyped DEF Expire, EvaluationTypeOK
  <2>2. certificate' \in [Ids \X (1 .. Levels) -> CertificateSet] /\ report' \in ReportSet
    BY <1>6, CutTyped DEF Expire
  <2> QED
    BY <1>1, <1>6, <2>1, <2>2 DEF Expire, EvaluationTypeOK
<1>7. CASE Collect
  <2>1. workers' \in [Commands -> ProcessSet]
    BY <1>7, ProcessesTyped DEF Collect, EvaluationTypeOK
  <2>2. rows' \in Seq(RowSet)
    <3>1. CASE rows' = rows
      BY <3>1 DEF EvaluationTypeOK
    <3>2. CASE report.state = "whole" /\ rows' = rows \o report.content
      <4>1. report.content \in Seq(RowSet)
        BY <3>2 DEF EvaluationTypeOK, ReportSet, Missing, Torn, Whole
      <4> QED
        BY <3>2, <4>1 DEF EvaluationTypeOK
    <3> QED
      BY <1>7, <3>1, <3>2 DEF Collect
  <2>3. index' \in Nat \ {0}
    BY <1>7 DEF Collect, EvaluationTypeOK
  <2>4. /\ phase' \in {"launch", "recover", "done"}
        /\ status' \in {"none", "FAILED", "TIMEOUT", "RESOURCE_LIMIT"}
        /\ phase' = "recover" => status' # "none"
    BY <1>7 DEF Collect, EvaluationTypeOK
  <2>5. command \in Commands
    BY <1>7 DEF Collect, EvaluationTypeOK
  <2>6. UNCHANGED <<suite, command, mode, chosen, certificate, report>>
    BY <1>7 DEF Collect, files
  <2> QED
    BY <1>1, <2>1, <2>2, <2>3, <2>4, <2>5, <2>6 DEF EvaluationTypeOK
<1>8. CASE Recover
  <2>1. chosen[index] \in Ids
    BY <1>8 DEF Recover, CommandInv, InLoop, EvaluationTypeOK
  <2>2. Row(chosen[index], status, 0) \in RowSet
    BY <1>8, <2>1 DEF Recover, Row, RowSet, EvaluationTypeOK
  <2>3. rows' \in Seq(RowSet) /\ index' \in Nat \ {0}
    BY <1>8, <2>2 DEF Recover, EvaluationTypeOK
  <2> QED
    BY <1>1, <1>8, <2>3 DEF Recover, EvaluationTypeOK, files
<1>9. CASE Kill
  <2>1. workers' \in [Commands -> ProcessSet]
    BY <1>9, ProcessesTyped DEF Kill, EvaluationTypeOK
  <2>2. certificate' \in [Ids \X (1 .. Levels) -> CertificateSet] /\ report' \in ReportSet
    BY <1>9, CutTyped DEF Kill, EvaluationTypeOK, files, ReportSet
  <2> QED
    BY <1>1, <1>9, <2>1, <2>2 DEF Kill, EvaluationTypeOK
<1>10. CASE Over
  BY <1>1, <1>10 DEF Over, EvaluationTypeOK, evaluationVars, files
<1>11. ASSUME NEW c \in Commands, Certify(c) PROVE EvaluationTypeOK'
  <2>1. workers' \in [Commands -> ProcessSet]
    <3>1. workers[c] \in ProcessSet /\ workers[c].level + 1 \in 0 .. Levels
      BY <1>11, LevelsPositive DEF Certify, EvaluationTypeOK, ProcessSet
    <3>2. [workers[c] EXCEPT !.level = @ + 1] \in ProcessSet
      BY <3>1 DEF ProcessSet
    <3> QED
      BY <1>11, <3>2 DEF Certify, EvaluationTypeOK
  <2>2. certificate' \in [Ids \X (1 .. Levels) -> CertificateSet]
    BY <1>11 DEF Certify, EvaluationTypeOK, CertificateSet
  <2> QED
    BY <1>1, <1>11, <2>1, <2>2 DEF Certify, EvaluationTypeOK
<1>12. ASSUME NEW c \in Commands, Measure(c) PROVE EvaluationTypeOK'
  <2> DEFINE row == Row(Current(c), "COMPLETE", c)
             next == [workers[c] EXCEPT !.at = @ + 1, !.level = 0, !.rows = Append(@, row)]
  <2>1. workers[c] \in ProcessSet /\ Current(c) \in Ids
    BY <1>12, CurrentTyped DEF Measure
  <2>2. row \in RowSet
    BY <2>1 DEF Row, RowSet, Commands
  <2>3. workers' = [workers EXCEPT ![c] = next]
    BY <1>12, Zenon DEF Measure
  <2> HIDE DEF row
  <2>4. next \in ProcessSet
    <3>1. /\ workers[c].at + 1 \in Nat /\ 0 \in 0 .. Levels
          /\ Append(workers[c].rows, row) \in Seq(RowSet)
      BY <2>1, <2>2, LevelsPositive DEF ProcessSet
    <3> QED
      BY <2>1, <3>1 DEF ProcessSet
  <2> HIDE DEF next
  <2>5. workers' \in [Commands -> ProcessSet]
    BY <2>3, <2>4 DEF EvaluationTypeOK
  <2> QED
    BY <1>1, <1>12, <2>5 DEF Measure, EvaluationTypeOK, files
<1>13. ASSUME NEW c \in Commands, WriteReport(c) PROVE EvaluationTypeOK'
  <2>1. workers[c] \in ProcessSet
    BY DEF EvaluationTypeOK
  <2>2. workers' \in [Commands -> ProcessSet] /\ report' \in ReportSet
    BY <1>13, <2>1 DEF WriteReport, EvaluationTypeOK, ProcessSet, ReportSet
  <2> QED
    BY <1>1, <1>13, <2>2 DEF WriteReport, EvaluationTypeOK
<1>14. ASSUME NEW c \in Commands, EndWorker(c) PROVE EvaluationTypeOK'
  <2>1. workers' \in [Commands -> ProcessSet]
    BY <1>14, ProcessesTyped DEF EndWorker, EvaluationTypeOK
  <2> QED
    BY <1>1, <1>14, <2>1 DEF EndWorker, EvaluationTypeOK, files
<1>15. ASSUME NEW c \in Commands, NEW code \in {"error", "memory", "signal"}, Fail(c, code)
       PROVE  EvaluationTypeOK'
  <2>1. workers' \in [Commands -> ProcessSet]
    BY <1>15, ProcessesTyped DEF Fail, EvaluationTypeOK
  <2>2. certificate' \in [Ids \X (1 .. Levels) -> CertificateSet] /\ report' \in ReportSet
    BY <1>15, CutTyped DEF Fail
  <2>3. /\ phase' \in {"idle", "launch", "wait", "recover", "done", "failed", "killed"}
        /\ phase' = "recover" => phase = "recover"
        /\ phase' # "idle" => command \in Commands
    BY <1>15 DEF Fail, EvaluationTypeOK
  <2> QED
    BY <1>1, <1>15, <2>1, <2>2, <2>3 DEF Fail, EvaluationTypeOK
<1> QED
  BY <1>3, <1>4, <1>5, <1>6, <1>7, <1>8, <1>9, <1>10, <1>11, <1>12, <1>13, <1>14, <1>15
     DEF EvaluationNext

\* Only the process of the command at hand works, unless one was orphaned.
LEMMA CommandStep ==
  ASSUME EvaluationTypeOK, CommandInv, EvaluationNext
  PROVE  CommandInv'
<1> USE DEF commandVars, InLoop
<1>1. suite \in Seq(Ids) /\ workers \in [Commands -> ProcessSet]
  BY SuitesOfIds DEF EvaluationTypeOK
<1>2. /\ NoProcess.state \notin {"running", "written"}
      /\ \A code \in {"ok", "error", "memory", "signal"} : Ended(code).state \notin {"running", "written"}
  BY ProcessesTyped
<1>3. ASSUME NEW m \in {"isolated", "in_process"}, NEW requested, Evaluate(m, requested)
      PROVE  CommandInv'
  <2>1. chosen' = Selected(requested) /\ Selected(requested) \in Seq(Ids)
    BY <1>1, <1>3, SelectedAre DEF Evaluate
  <2>2. (Distinct => \A j, k \in 1 .. Len(chosen) : chosen[j] = chosen[k] => j = k)'
    <3>1. Distinct' = Distinct
      BY <1>3 DEF Evaluate, Distinct
    <3> QED
      BY <1>1, <2>1, <3>1, SelectedAre
  <2>3. Len(rows') = index' - 1 /\ index' <= Len(chosen') + 1 /\ phase' \in {"launch", "wait"}
        /\ (phase' = "launch" <=> mode' = "isolated")
    BY <1>3, <2>1 DEF Evaluate
  <2>4. (~ mixed => \A c \in Commands : Working(c) => c = command /\ phase \in {"wait", "killed"})'
    BY <1>1, <1>3 DEF Evaluate, Working, Process
  <2> QED
    BY <2>2, <2>3, <2>4 DEF CommandInv
<1>4. CASE Launch
  BY <1>1, <1>2, <1>4 DEF Launch, CommandInv, Working, Distinct, EvaluationTypeOK
<1>5. CASE Finish
  BY <1>5 DEF Finish, CommandInv, Working, Distinct
<1>6. CASE Expire
  BY <1>1, <1>2, <1>6 DEF Expire, CommandInv, Working, Distinct
<1>7. CASE Collect
  <2>1. phase' = "launch" => Len(rows') = Len(rows) + 1 /\ index' = index + 1
    <3>1. CASE report.state = "whole" /\ Len(report.content) = 1 /\ rows' = rows \o report.content /\ index' = index + 1
      <4>1. report.content \in Seq(RowSet) /\ rows \in Seq(RowSet)
        BY <3>1 DEF EvaluationTypeOK, ReportSet, Missing, Torn, Whole
      <4>2. Len(rows \o report.content) = Len(rows) + Len(report.content)
        BY <4>1
      <4> QED
        BY <3>1, <4>2
    <3> QED
      BY <1>7, <3>1 DEF Collect
  <2>2. (phase' # "launch" => UNCHANGED <<index, rows>>) /\ phase' \in {"launch", "recover", "done"}
        /\ (mode = "in_process" => phase' = "done")
    BY <1>7 DEF Collect
  <2>3. (~ mixed => \A c \in Commands : Working(c) => c = command /\ phase \in {"wait", "killed"})'
    BY <1>1, <1>2, <1>7 DEF Collect, Working, CommandInv
  <2>4. UNCHANGED <<suite, mode, chosen>> /\ phase = "wait" /\ mode \in {"isolated", "in_process"}
        /\ index \in Nat \ {0} /\ chosen \in Seq(Ids) /\ rows \in Seq(RowSet)
    BY <1>7 DEF Collect, EvaluationTypeOK
  <2> QED
    BY <2>1, <2>2, <2>3, <2>4 DEF CommandInv, Distinct
<1>8. CASE Recover
  BY <1>1, <1>8 DEF Recover, CommandInv, Working, Distinct, EvaluationTypeOK
<1>9. CASE Kill
  BY <1>1, <1>2, <1>9 DEF Kill, CommandInv, Working, Distinct
<1>10. CASE Over
  BY <1>10 DEF Over, CommandInv, Working, Distinct, evaluationVars
<1>11. ASSUME NEW c \in Commands, Certify(c) PROVE CommandInv'
  BY <1>1, <1>11 DEF Certify, CommandInv, Working, Distinct
<1>12. ASSUME NEW c \in Commands, Measure(c) PROVE CommandInv'
  BY <1>1, <1>12 DEF Measure, CommandInv, Working, Distinct
<1>13. ASSUME NEW c \in Commands, WriteReport(c) PROVE CommandInv'
  BY <1>1, <1>13 DEF WriteReport, CommandInv, Working, Distinct
<1>14. ASSUME NEW c \in Commands, EndWorker(c) PROVE CommandInv'
  BY <1>1, <1>2, <1>14 DEF EndWorker, CommandInv, Working, Distinct
<1>15. ASSUME NEW c \in Commands, NEW code \in {"error", "memory", "signal"}, Fail(c, code)
       PROVE  CommandInv'
  BY <1>1, <1>2, <1>15 DEF Fail, CommandInv, Working, Distinct
<1> QED
  BY <1>3, <1>4, <1>5, <1>6, <1>7, <1>8, <1>9, <1>10, <1>11, <1>12, <1>13, <1>14, <1>15
     DEF EvaluationNext

\* A process that analyses has a row for each definition it has passed.
LEMMA WorkerStep ==
  ASSUME EvaluationTypeOK, WorkerInv, EvaluationNext
  PROVE  WorkerInv'
<1> USE DEF commandVars
<1>1. suite \in Seq(Ids) /\ workers \in [Commands -> ProcessSet]
  BY SuitesOfIds DEF EvaluationTypeOK
<1>2. /\ NoProcess.state \notin {"running", "written"}
      /\ \A code \in {"ok", "error", "memory", "signal"} : Ended(code).state \notin {"running", "written"}
  BY ProcessesTyped
<1>3. ASSUME NEW c, NEW todo \in Seq(Ids) PROVE Measured(c, Process(todo))
  BY DEF Measured, Process
<1>4. ASSUME NEW m \in {"isolated", "in_process"}, NEW requested, Evaluate(m, requested)
      PROVE  WorkerInv'
  <2>1. workers' = workers \/ workers' = [workers EXCEPT ![command'] = Process(Selected(requested))]
    BY <1>4 DEF Evaluate
  <2>2. Measured(command', Process(Selected(requested)))
    BY <1>1, <1>3, SelectedAre
  <2> QED
    BY <1>1, <2>1, <2>2 DEF WorkerInv, Working
<1>5. CASE Launch
  <2>1. Measured(command, Process(Selected({chosen[index]})))
    BY <1>1, <1>3, SelectedAre
  <2> QED
    BY <1>1, <1>5, <2>1 DEF Launch, WorkerInv, Working
<1>6. CASE Finish \/ Recover \/ Over
  BY <1>6 DEF Finish, Recover, Over, evaluationVars, WorkerInv, Working
<1>7. CASE Expire \/ Collect \/ Kill
  <2>1. workers' = workers \/ workers' = [workers EXCEPT ![command] = NoProcess]
    BY <1>7 DEF Expire, Collect, Kill
  <2> QED
    BY <1>1, <1>2, <2>1 DEF WorkerInv, Working
<1>8. ASSUME NEW c \in Commands, Certify(c) PROVE WorkerInv'
  BY <1>1, <1>8 DEF Certify, WorkerInv, Working, Measured, ProcessSet
<1>9. ASSUME NEW c \in Commands, Measure(c) PROVE WorkerInv'
  <2> DEFINE w == workers[c]
             row == Row(Current(c), "COMPLETE", c)
  <2>1. w \in ProcessSet /\ Measured(c, w) /\ w.at \in 1 .. Len(w.todo)
    BY <1>9, CurrentTyped DEF Measure
  <2>2. row = Row(w.todo[w.at], "COMPLETE", c)
    BY DEF Current
  <2>3. /\ workers'[c].at = w.at + 1 /\ workers'[c].rows = Append(w.rows, row)
        /\ workers'[c].todo = w.todo /\ workers'[c].state = "running"
        /\ \A d \in Commands \ {c} : workers'[d] = workers[d]
    BY <1>1, <1>9 DEF Measure, ProcessSet
  <2> HIDE DEF row
  <2>4. Measured(c, workers'[c])
    BY <2>1, <2>2, <2>3 DEF Measured, ProcessSet
  <2> QED
    BY <2>3, <2>4 DEF WorkerInv, Working
<1>10. ASSUME NEW c \in Commands, WriteReport(c) PROVE WorkerInv'
  BY <1>1, <1>10 DEF WriteReport, WorkerInv, Working, Measured, ProcessSet, Reporting
<1>11. ASSUME NEW c \in Commands, EndWorker(c) PROVE WorkerInv'
  BY <1>1, <1>2, <1>11 DEF EndWorker, WorkerInv, Working
<1>12. ASSUME NEW c \in Commands, NEW code \in {"error", "memory", "signal"}, Fail(c, code)
       PROVE  WorkerInv'
  BY <1>1, <1>2, <1>12 DEF Fail, WorkerInv, Working
<1> QED
  BY <1>4, <1>5, <1>6, <1>7, <1>8, <1>9, <1>10, <1>11, <1>12 DEF EvaluationNext

\* While its files are not shared, the command waits for whoever works.
LEMMA WorksAlone ==
  ASSUME CommandInv, ~ mixed, NEW c \in Commands, Working(c)
  PROVE  c = command /\ phase \in {"wait", "killed"}
  BY DEF CommandInv

\* A process that is done with all that the command asks has the outcome.
LEMMA OutcomeIs ==
  ASSUME EvaluationTypeOK, NEW w \in ProcessSet, Measured(command, w), w.todo = Task, w.at > Len(Task)
  PROVE  w.rows = Outcome
<1>1. w.rows \in Seq(RowSet) /\ Task \in Seq(Ids) /\ w.at \in Nat
  BY DEF ProcessSet
<1>2. Len(w.rows) = Len(Task) /\ Len(Task) \in Nat
  BY <1>1 DEF Measured
<1>3. \A k \in 1 .. Len(Task) : w.rows[k] = Row(Task[k], "COMPLETE", command)
  BY <1>2 DEF Measured
<1>4. DOMAIN w.rows = 1 .. Len(Task) /\ w.rows = [k \in DOMAIN w.rows |-> w.rows[k]]
  BY <1>1, <1>2
<1> QED
  BY <1>3, <1>4 DEF Outcome

\* A worker is asked for the current definition, once or, in a suite that repeats
\* it, more often.
LEMMA TaskIs ==
  ASSUME EvaluationTypeOK, mode = "isolated"
  PROVE  Task \in Seq(Ids) /\ \A k \in 1 .. Len(Task) : Task[k] = chosen[index]
<1>1. suite \in Seq(Ids)
  BY SuitesOfIds DEF EvaluationTypeOK
<1>2. Task = Selected({chosen[index]})
  BY DEF Task
<1>3. \A k \in 1 .. Len(Task) : {chosen[index]} = {} \/ Task[k] \in {chosen[index]}
  BY <1>1, <1>2, SelectedAre
<1> QED
  BY <1>1, <1>2, <1>3, SelectedAre

\* What is asked of the worker depends on the command alone.
LEMMA TaskStays ==
  ASSUME UNCHANGED <<suite, command, mode, chosen, index>>
  PROVE  Task' = Task /\ Outcome' = Outcome
<1>1. Task' = Task
  BY DEF Task, Selected
<1> QED
  BY <1>1 DEF Outcome

\* A process that ended well wrote its report, and it is still there.
LEMMA WaitStep ==
  ASSUME EvaluationTypeOK, CommandInv, WorkerInv, WaitInv, EvaluationNext
  PROVE  WaitInv'
<1> USE DEF commandVars
<1>1. workers \in [Commands -> ProcessSet]
  BY DEF EvaluationTypeOK
<1>2. \A code \in {"error", "memory", "signal"} :
        Ended(code).state \notin {"running", "written", "ok"} /\ Ended("ok").state = "ok"
  BY ProcessesTyped
<1>3. ASSUME NEW m \in {"isolated", "in_process"}, NEW requested, Evaluate(m, requested)
      PROVE  WaitInv'
  <2>1. CASE m = "isolated"
    BY <1>3, <2>1 DEF Evaluate, WaitInv
  <2>2. CASE m = "in_process"
    <3>1. Task' = chosen' /\ command' \in Commands /\ mode' = "in_process"
      BY <1>3, <2>2, MaxCommandsIsNatural DEF Evaluate, Task, EvaluationTypeOK, Commands
    <3>2. workers'[command'] = Process(chosen')
      BY <1>1, <1>3, <2>2, <3>1 DEF Evaluate
    <3> QED
      BY <3>1, <3>2 DEF WaitInv, Process
  <2> QED
    BY <2>1, <2>2
<1>4. CASE Launch
  <2>1. CASE phase' = "wait"
    <3>1. Task' = Selected({chosen[index]}) /\ mode' = "isolated" /\ UNCHANGED command
      BY <1>4 DEF Launch, Task, CommandInv, Selected
    <3>2. workers'[command] = Process(Selected({chosen[index]}))
      BY <1>1, <1>4, <2>1 DEF Launch, EvaluationTypeOK
    <3> QED
      BY <3>1, <3>2 DEF WaitInv, Process
  <2> QED
    BY <1>4, <2>1 DEF Launch, WaitInv
<1>5. CASE Finish \/ Expire \/ Collect \/ Recover \/ Kill
  BY <1>5 DEF Finish, Expire, Collect, Recover, Kill, WaitInv
<1>6. CASE Over
  <2>1. UNCHANGED <<suite, command, mode, chosen, index, phase, mixed, workers, report>>
    BY <1>6 DEF Over, evaluationVars, files
  <2> QED
    BY <2>1, TaskStays DEF WaitInv, Working
<1>7. ASSUME phase = "wait", ~ mixed, NEW c \in Commands, Working(c)
      PROVE  /\ c = command /\ workers[c].todo = Task /\ workers[c] \in ProcessSet
             /\ Measured(c, workers[c])
  BY <1>1, <1>7, WorksAlone DEF WaitInv, WorkerInv
<1>8. ASSUME NEW c \in Commands, Certify(c) \/ Measure(c) PROVE WaitInv'
  <2>1. UNCHANGED <<suite, command, mode, chosen, index, phase, mixed>>
    BY <1>8 DEF Certify, Measure
  <2>2. workers'[c].todo = workers[c].todo /\ workers'[c].state = "running" /\ Working(c)
    BY <1>1, <1>8 DEF Certify, Measure, ProcessSet, Working
  <2> QED
    BY <1>7, <2>1, <2>2, TaskStays DEF WaitInv
<1>9. ASSUME NEW c \in Commands, WriteReport(c) PROVE WaitInv'
  <2>1. UNCHANGED <<suite, command, mode, chosen, index, phase, mixed>> /\ report' = Whole(workers[c].rows)
    BY <1>9 DEF WriteReport
  <2>2. /\ workers'[c].todo = workers[c].todo /\ workers'[c].state = "written" /\ Working(c)
        /\ workers[c].at > Len(workers[c].todo)
    BY <1>1, <1>9 DEF WriteReport, ProcessSet, Working, Reporting
  <2>3. phase = "wait" /\ ~ mixed => workers[c].rows = Outcome
    BY <1>7, <2>2, OutcomeIs
  <2> QED
    BY <1>7, <2>1, <2>2, <2>3, TaskStays DEF WaitInv
<1>10. ASSUME NEW c \in Commands, EndWorker(c) PROVE WaitInv'
  <2>1. UNCHANGED <<suite, command, mode, chosen, index, phase, mixed, report>>
    BY <1>10 DEF EndWorker, files
  <2>2. workers'[c].state = "ok" /\ Working(c) /\ workers[c].state = "written"
    BY <1>1, <1>2, <1>10 DEF EndWorker, Working
  <2> QED
    BY <1>7, <2>1, <2>2, TaskStays DEF WaitInv, Working
<1>11. ASSUME NEW c \in Commands, NEW code \in {"error", "memory", "signal"}, Fail(c, code)
       PROVE  WaitInv'
  <2>1. /\ UNCHANGED <<command, mode, mixed>> /\ Working(c)
        /\ phase' = IF mode = "in_process" /\ c = command THEN "failed" ELSE phase
    BY <1>11 DEF Fail
  <2>2. workers'[c].state \notin {"running", "written", "ok"}
    BY <1>1, <1>2, <1>11 DEF Fail
  <2> QED
    BY <1>7, <2>1, <2>2 DEF WaitInv, Working
<1> QED
  BY <1>3, <1>4, <1>5, <1>6, <1>8, <1>9, <1>10, <1>11 DEF EvaluationNext

\* The rows are those of the definitions passed.
LEMMA RowsStep ==
  ASSUME EvaluationTypeOK, CommandInv, WaitInv, RowsInv, EvaluationNext
  PROVE  RowsInv'
<1> USE DEF commandVars, InLoop
<1>1. /\ rows \in Seq(RowSet) /\ chosen \in Seq(Ids) /\ index \in Nat \ {0}
      /\ InLoop => Len(rows) = index - 1
  BY DEF EvaluationTypeOK, CommandInv
<1>2. ASSUME NEW m \in {"isolated", "in_process"}, NEW requested, Evaluate(m, requested)
      PROVE  RowsInv'
  BY <1>2 DEF Evaluate, RowsInv
<1>3. CASE Launch \/ Expire
  BY <1>3 DEF Launch, Expire, RowsInv
<1>4. CASE Finish \/ Kill
  BY <1>4 DEF Finish, Kill, RowsInv
<1>5. CASE Collect
  <2> SUFFICES ASSUME ~ mixed', phase' \in {"launch", "recover"}, mode' = "isolated", NEW k \in 1 .. Len(rows')
               PROVE  (rows'[k].id = chosen'[k] /\ (rows'[k].status = "COMPLETE" => rows'[k].by = command'))
    BY <1>5 DEF Collect, RowsInv
  <2>1. UNCHANGED <<command, mode, chosen, mixed>> /\ phase = "wait"
    BY <1>5 DEF Collect
  <2>2. CASE rows' = rows
    BY <2>1, <2>2 DEF RowsInv
  <2>3. CASE /\ workers[command].state = "ok" /\ report.state = "whole" /\ Len(report.content) = 1
             /\ rows' = rows \o report.content
    <3>1. report = Whole(Outcome) /\ Len(Outcome) = 1 /\ Outcome = report.content
      BY <2>1, <2>3 DEF WaitInv, Whole
    <3>2. Task \in Seq(Ids) /\ \A n \in 1 .. Len(Task) : Task[n] = chosen[index]
      BY <2>1, TaskIs
    <3>3. Len(Outcome) = Len(Task) /\ \A n \in 1 .. Len(Task) : Outcome[n] = Row(Task[n], "COMPLETE", command)
      BY <3>2 DEF Outcome
    <3>4. Outcome[1] = Row(chosen[index], "COMPLETE", command)
      BY <3>1, <3>2, <3>3
    <3>5. Outcome \in Seq(RowSet)
      BY <2>3, <3>1 DEF EvaluationTypeOK, ReportSet, Missing, Torn, Whole
    <3>6. \/ k \in 1 .. Len(rows) /\ rows'[k] = rows[k]
          \/ k = index /\ rows'[k] = Outcome[1]
      BY <1>1, <2>1, <2>3, <3>1, <3>5
    <3> QED
      BY <2>1, <3>4, <3>6 DEF RowsInv, Row
  <2> QED
    BY <1>5, <2>2, <2>3 DEF Collect
<1>6. CASE Recover
  <2>1. status # "COMPLETE" /\ mode = "isolated" /\ UNCHANGED <<command, mode, chosen, mixed>>
    BY <1>6 DEF Recover, CommandInv, EvaluationTypeOK
  <2>2. \A k \in 1 .. Len(rows') : \/ k \in 1 .. Len(rows) /\ rows'[k] = rows[k]
                                   \/ k = index /\ rows'[k] = Row(chosen[index], status, 0)
    BY <1>1, <1>6 DEF Recover, CommandInv
  <2> QED
    BY <1>6, <2>1, <2>2 DEF Recover, RowsInv, Row
<1>7. CASE Over
  BY <1>7 DEF Over, evaluationVars, RowsInv
<1>8. ASSUME NEW c \in Commands, Certify(c) \/ Measure(c) \/ WriteReport(c) \/ EndWorker(c) PROVE RowsInv'
  BY <1>8 DEF Certify, Measure, WriteReport, EndWorker, RowsInv
<1>9. ASSUME NEW c \in Commands, NEW code \in {"error", "memory", "signal"}, Fail(c, code)
      PROVE  RowsInv'
  BY <1>9 DEF Fail, RowsInv
<1> QED
  BY <1>2, <1>3, <1>4, <1>5, <1>6, <1>7, <1>8, <1>9 DEF EvaluationNext

\* What a worker writes is not what the rows so far speak of.
LEMMA KeptElsewhere ==
  ASSUME EvaluationTypeOK, CommandInv, WorkerInv, WaitInv, RowsInv, ~ mixed, Distinct, InLoop,
         NEW c \in Commands, workers[c].state = "running", ~ Reporting(c),
         Kept(rows, certificate),
         NEW l, NEW x, NEW found, found = [certificate EXCEPT ![<<Current(c), l>>] = x]
  PROVE  Kept(rows, found)
<1>1. c = command /\ phase = "wait" /\ mode = "isolated"
  BY WorksAlone DEF InLoop, Working
<1>2. workers[c].todo = Task /\ workers[c].at \in 1 .. Len(workers[c].todo)
  BY <1>1, CurrentTyped DEF WaitInv, Working
<1>3. Current(c) = chosen[index]
  BY <1>1, <1>2, TaskIs DEF Current
<1>4. ASSUME NEW k \in 1 .. Len(rows) PROVE rows[k].id # Current(c) /\ rows[k].id \in Ids
  <2>1. /\ k \in 1 .. Len(chosen) /\ index \in 1 .. Len(chosen) /\ k # index
        /\ chosen \in Seq(Ids)
    BY <1>1 DEF CommandInv, InLoop, EvaluationTypeOK
  <2>2. rows[k].id = chosen[k]
    BY DEF RowsInv
  <2> QED
    BY <1>3, <2>1, <2>2 DEF CommandInv
<1>5. ASSUME NEW k \in 1 .. Len(rows), NEW m \in 1 .. Levels
      PROVE  found[<<rows[k].id, m>>] = certificate[<<rows[k].id, m>>]
  <2>1. <<rows[k].id, m>> # <<Current(c), l>> /\ <<rows[k].id, m>> \in Ids \X (1 .. Levels)
    BY <1>4
  <2>2. DOMAIN certificate = Ids \X (1 .. Levels)
    BY DEF EvaluationTypeOK
  <2> QED
    BY <2>1, <2>2
<1> QED
  BY <1>5 DEF Kept

\* A write that a failure cut does not reach the certificates of the rows.
LEMMA CutKeeps ==
  ASSUME EvaluationTypeOK, CommandInv, WorkerInv, WaitInv, RowsInv, ~ mixed, Distinct, InLoop,
         NEW c \in Commands, Cut(c), Kept(rows, certificate)
  PROVE  Kept(rows, certificate')
<1>1. CASE UNCHANGED certificate
  BY <1>1
<1>2. CASE /\ workers[c].state = "running" /\ ~ Reporting(c)
           /\ certificate' = [certificate EXCEPT ![<<Current(c), workers[c].level + 1>>] = Torn]
  <2> SUFFICES ASSUME NEW found, found = [certificate EXCEPT ![<<Current(c), workers[c].level + 1>>] = Torn]
               PROVE  Kept(rows, found)
    BY <1>2
  <2> QED
    BY <1>2, KeptElsewhere
<1> QED
  BY <1>1, <1>2 DEF Cut, files

\* A process that starts has nothing to show yet.
LEMMA ProcessCertified ==
  ASSUME NEW c, NEW todo \in Seq(Ids), NEW found
  PROVE  Certified(c, Process(todo), found)
  BY LevelsPositive DEF Certified, Process

\* A further level is certified.
LEMMA CertifyCertifies ==
  ASSUME EvaluationTypeOK, WorkerInv, NEW c \in Commands, Certify(c), Certified(c, workers[c], certificate)
  PROVE  Certified(c, workers'[c], certificate')
<1> DEFINE w == workers[c]
<1>1. w \in ProcessSet /\ w.at \in 1 .. Len(w.todo) /\ Current(c) = w.todo[w.at]
  BY CurrentTyped DEF Certify, Current
<1>2. workers'[c].todo = w.todo /\ workers'[c].at = w.at /\ workers'[c].level = w.level + 1
  BY <1>1 DEF Certify, EvaluationTypeOK, ProcessSet
<1>3. certificate' = [certificate EXCEPT ![<<w.todo[w.at], w.level + 1>>] = Whole(c)]
  BY <1>1 DEF Certify
<1>4. DOMAIN certificate = Ids \X (1 .. Levels) /\ w.todo \in Seq(Ids) /\ w.level \in Nat
  BY <1>1, LevelsPositive DEF EvaluationTypeOK, ProcessSet
<1> HIDE DEF w
<1>5. ASSUME NEW k \in 1 .. Len(w.todo), NEW l \in 1 .. Levels,
             k < w.at \/ (k = w.at /\ l <= w.level + 1)
      PROVE  certificate'[<<w.todo[k], l>>] = Whole(c)
  <2>1. <<w.todo[k], l>> \in DOMAIN certificate
    BY <1>4
  <2>2. CASE <<w.todo[k], l>> = <<w.todo[w.at], w.level + 1>>
    BY <1>3, <2>1, <2>2
  <2>3. CASE <<w.todo[k], l>> # <<w.todo[w.at], w.level + 1>>
    <3>1. k < w.at \/ (k = w.at /\ l <= w.level)
      BY <1>4, <1>5, <2>3
    <3>2. certificate[<<w.todo[k], l>>] = Whole(c)
      BY <3>1 DEF Certified, w
    <3> QED
      BY <1>3, <2>1, <2>3, <3>2
  <2> QED
    BY <2>2, <2>3
<1> QED
  BY <1>2, <1>5 DEF Certified

\* A row is complete after the last level.
LEMMA MeasureCertifies ==
  ASSUME EvaluationTypeOK, WorkerInv, NEW c \in Commands, Measure(c), Certified(c, workers[c], certificate)
  PROVE  Certified(c, workers'[c], certificate)
<1> DEFINE w == workers[c]
<1>1. w \in ProcessSet /\ w.at \in 1 .. Len(w.todo) /\ w.level = Levels
  BY CurrentTyped DEF Measure
<1>2. workers'[c].todo = w.todo /\ workers'[c].at = w.at + 1 /\ workers'[c].level = 0
  BY <1>1 DEF Measure, EvaluationTypeOK, ProcessSet
<1>3. \A k \in 1 .. Len(w.todo), l \in 1 .. Levels :
        k < w.at + 1 \/ (k = w.at + 1 /\ l <= 0) => k < w.at \/ (k = w.at /\ l <= w.level)
  BY <1>1 DEF ProcessSet
<1> QED
  BY <1>2, <1>3 DEF Certified

\* A whole report's COMPLETE rows have their certificates.
LEMMA CompleteIsKept ==
  ASSUME EvaluationTypeOK, report.state = "whole", Distinct, ~ mixed
  PROVE  CompleteIsWritten <=> Kept(report.content, certificate)
<1>1. report.content \in Seq(RowSet)
  BY DEF EvaluationTypeOK, ReportSet, Missing, Torn, Whole
<1>2. DOMAIN report.content = 1 .. Len(report.content)
  BY <1>1
<1> QED
  BY <1>2 DEF CompleteIsWritten, Kept

\* An orphan stays one, and the suite is what it was.
LEMMA MixedLasts ==
  ASSUME EvaluationNext
  PROVE  (mixed => mixed') /\ Distinct' = Distinct
<1> USE DEF EvaluationNext, Evaluate, Launch, Finish, Expire, Collect, Recover, Kill, Over,
            Certify, Measure, WriteReport, EndWorker, Fail, evaluationVars, commandVars
<1>1. mixed => mixed'
  BY Zenon
<1>2. UNCHANGED suite
  OBVIOUS
<1> QED
  BY <1>1, <1>2 DEF Distinct

\* What a process and the rows so far say of certificates stays true.
LEMMA FilesStep ==
  ASSUME EvaluationTypeOK, CommandInv, WorkerInv, WaitInv, RowsInv, FilesInv, CompleteIsWritten,
         EvaluationNext, ~ mixed'
  PROVE  FilesInv'
<1> USE DEF commandVars
<1>0. ~ mixed /\ Distinct' = Distinct
  BY MixedLasts
<1>1. workers \in [Commands -> ProcessSet] /\ suite \in Seq(Ids)
  BY SuitesOfIds DEF EvaluationTypeOK
<1>2. /\ NoProcess.state \notin {"running", "written"}
      /\ \A code \in {"ok", "error", "memory", "signal"} : Ended(code).state \notin {"running", "written"}
  BY ProcessesTyped
<1>3. ASSUME NEW m \in {"isolated", "in_process"}, NEW requested, Evaluate(m, requested)
      PROVE  FilesInv'
  <2>1. \A c \in Commands : ~ Working(c)
    BY <1>3 DEF Evaluate
  <2>2. /\ UNCHANGED <<certificate, report>>
        /\ \/ workers' = workers
           \/ report = Missing /\ workers' = [workers EXCEPT ![command'] = Process(Selected(requested))]
    BY <1>3 DEF Evaluate, files
  <2>3. \A c \in Commands : workers'[c] = workers[c] \/ (report = Missing /\ workers'[c] = Process(Selected(requested)))
    BY <1>1, <2>2
  <2>4. ASSUME NEW c \in Commands, Working(c)' PROVE report = Missing /\ Certified(c, workers'[c], certificate)
    BY <1>1, <2>1, <2>3, <2>4, SelectedAre, ProcessCertified DEF Working
  <2>5. Kept(rows', certificate)
    BY <1>3 DEF Evaluate, Kept
  <2> QED
    BY <2>2, <2>4, <2>5 DEF FilesInv, Working, Missing
<1>4. CASE Launch
  <2>1. \A c \in Commands : ~ Working(c)
    BY <1>0, <1>4, WorksAlone DEF Launch
  <2>2. \A c \in Commands : workers'[c] = workers[c] \/ workers'[c] = Process(Selected({chosen[index]}))
    BY <1>1, <1>4 DEF Launch
  <2>3. ASSUME NEW c \in Commands, Working(c)' PROVE Certified(c, workers'[c], certificate)
    BY <1>1, <2>1, <2>2, <2>3, SelectedAre, ProcessCertified DEF Working
  <2>4. InLoop /\ report' = Missing /\ UNCHANGED <<rows, certificate>>
    BY <1>4 DEF Launch, InLoop, CommandInv
  <2> QED
    BY <1>0, <2>3, <2>4 DEF FilesInv, Missing
<1>5. CASE Finish
  <2>1. \A c \in Commands : ~ Working(c)
    BY <1>0, <1>5, WorksAlone DEF Finish
  <2> QED
    BY <1>5, <2>1 DEF Finish, FilesInv, Working, InLoop
<1>6. ASSUME NEW c \in Commands, Working(c), Cut(c), NEW process, process.state \notin {"running", "written"},
             workers' = [workers EXCEPT ![c] = process],
             (InLoop' => InLoop /\ rows' = rows)
      PROVE  FilesInv'
  <2>1. \A d \in Commands : ~ Working(d)'
    BY <1>0, <1>1, <1>6, WorksAlone DEF Working
  <2>2. Distinct' /\ InLoop' => Kept(rows', certificate')
    BY <1>0, <1>6, CutKeeps DEF FilesInv
  <2> QED
    BY <2>1, <2>2 DEF FilesInv, Working
<1>7. CASE Expire
  <2>1. command \in Commands /\ InLoop /\ rows' = rows
    BY <1>7 DEF Expire, EvaluationTypeOK, InLoop
  <2> QED
    BY <1>2, <1>6, <1>7, <2>1 DEF Expire
<1>8. CASE Kill
  <2>1. ~ InLoop' /\ command \in Commands
    BY <1>8 DEF Kill, InLoop, EvaluationTypeOK
  <2>2. CASE UNCHANGED <<workers, files>>
    BY <1>0, <2>1, <2>2 DEF FilesInv, files, Working
  <2>3. CASE Working(command) /\ Cut(command) /\ workers' = [workers EXCEPT ![command] = NoProcess]
    BY <1>2, <1>6, <2>1, <2>3
  <2>4. CASE report' = Torn /\ UNCHANGED <<workers, certificate>>
    BY <1>0, <2>1, <2>4 DEF FilesInv, Working, Torn
  <2> QED
    BY <1>8, <2>2, <2>3, <2>4 DEF Kill
<1>9. CASE Collect
  <2>1. \A c \in Commands : workers'[c] = workers[c] \/ workers'[c] = NoProcess
    BY <1>1, <1>9 DEF Collect
  <2>2. UNCHANGED <<certificate, report, mode>> /\ phase = "wait"
    BY <1>9 DEF Collect, files
  <2>3. Distinct /\ InLoop' => Kept(rows', certificate)
    <3> SUFFICES ASSUME Distinct, InLoop' PROVE Kept(rows', certificate)
      OBVIOUS
    <3>1. InLoop /\ Kept(rows, certificate)
      BY <1>0, <2>2 DEF FilesInv, InLoop
    <3>2. CASE rows' = rows
      BY <3>1, <3>2
    <3>3. CASE report.state = "whole" /\ rows' = rows \o report.content
      <4>1. report.content \in Seq(RowSet) /\ rows \in Seq(RowSet)
        BY <3>3 DEF EvaluationTypeOK, ReportSet, Missing, Torn, Whole
      <4>2. Kept(report.content, certificate)
        BY <1>0, <3>3, CompleteIsKept
      <4>3. \A k \in 1 .. Len(rows') :
              \/ k \in 1 .. Len(rows) /\ rows'[k] = rows[k]
              \/ k - Len(rows) \in 1 .. Len(report.content) /\ rows'[k] = report.content[k - Len(rows)]
        BY <3>3, <4>1
      <4> QED
        BY <3>1, <4>2, <4>3 DEF Kept
    <3> QED
      BY <1>9, <3>2, <3>3 DEF Collect
  <2> QED
    BY <1>0, <1>2, <2>1, <2>2, <2>3 DEF FilesInv, Working
<1>10. CASE Recover
  <2>1. status # "COMPLETE" /\ InLoop /\ rows \in Seq(RowSet)
    BY <1>10 DEF Recover, CommandInv, EvaluationTypeOK, InLoop
  <2>2. UNCHANGED <<workers, certificate, report>> /\ rows' = Append(rows, Row(chosen[index], status, 0))
    BY <1>10 DEF Recover, files
  <2>3. \A k \in 1 .. Len(rows') : \/ k \in 1 .. Len(rows) /\ rows'[k] = rows[k]
                                   \/ rows'[k].status # "COMPLETE"
    BY <2>1, <2>2 DEF Row
  <2>4. Kept(rows, certificate) => Kept(rows', certificate)
    BY <2>3 DEF Kept
  <2> QED
    BY <1>0, <2>1, <2>2, <2>4 DEF FilesInv, Working
<1>11. CASE Over
  BY <1>0, <1>11 DEF Over, evaluationVars, files, FilesInv, Working, InLoop
<1>12. ASSUME NEW c \in Commands, Certify(c) PROVE FilesInv'
  <2>1. Certified(c, workers'[c], certificate')
    BY <1>0, <1>12, CertifyCertifies DEF FilesInv, Certify, Working
  <2>2. /\ \A d \in Commands : Working(d) => d = c
        /\ \A d \in Commands : workers'[d].state = workers[d].state
        /\ UNCHANGED <<report, rows>> /\ InLoop' = InLoop
    BY <1>0, <1>1, <1>12, WorksAlone DEF Certify, Working, InLoop
  <2>3. Distinct /\ InLoop => Kept(rows, certificate')
    <3> SUFFICES ASSUME Distinct, InLoop, NEW found,
                        found = [certificate EXCEPT ![<<Current(c), workers[c].level + 1>>] = Whole(c)]
                 PROVE  Kept(rows, found)
      BY <1>12 DEF Certify
    <3> QED
      BY <1>0, <1>12, KeptElsewhere DEF FilesInv, Certify
  <2> QED
    BY <1>0, <2>1, <2>2, <2>3 DEF FilesInv, Working
<1>13. ASSUME NEW c \in Commands, Measure(c) PROVE FilesInv'
  <2>1. Certified(c, workers'[c], certificate)
    BY <1>0, <1>13, MeasureCertifies DEF FilesInv, Measure, Working
  <2>2. /\ \A d \in Commands : workers'[d].state = workers[d].state
        /\ \A d \in Commands \ {c} : workers'[d] = workers[d]
        /\ UNCHANGED <<report, rows, certificate>> /\ InLoop' = InLoop
    BY <1>1, <1>13 DEF Measure, files, InLoop
  <2> QED
    BY <1>0, <2>1, <2>2 DEF FilesInv, Working
<1>14. ASSUME NEW c \in Commands, WriteReport(c) PROVE FilesInv'
  <2>1. /\ \A d \in Commands : Working(d) => d = c
        /\ \A d \in Commands \ {c} : workers'[d] = workers[d]
        /\ UNCHANGED <<rows, certificate>> /\ InLoop' = InLoop
        /\ workers'[c].state = "written"
        /\ workers'[c].todo = workers[c].todo /\ workers'[c].at = workers[c].at
        /\ workers'[c].level = workers[c].level
    BY <1>0, <1>1, <1>14, WorksAlone DEF WriteReport, Working, InLoop, ProcessSet
  <2>2. Certified(c, workers'[c], certificate)
    BY <1>0, <1>14, <2>1 DEF FilesInv, Certified, WriteReport, Working
  <2> QED
    BY <1>0, <2>1, <2>2 DEF FilesInv, Working
<1>15. ASSUME NEW c \in Commands, EndWorker(c) PROVE FilesInv'
  <2>1. /\ \A d \in Commands : workers'[d] = workers[d] \/ workers'[d].state = "ok"
        /\ UNCHANGED <<rows, certificate, report>> /\ InLoop' = InLoop
    BY <1>1, <1>15, ProcessesTyped DEF EndWorker, files, InLoop
  <2> QED
    BY <1>0, <2>1 DEF FilesInv, Working
<1>16. ASSUME NEW c \in Commands, NEW code \in {"error", "memory", "signal"}, Fail(c, code)
       PROVE  FilesInv'
  <2>1. InLoop' => InLoop /\ rows' = rows
    BY <1>16 DEF Fail, InLoop
  <2> QED
    BY <1>2, <1>6, <1>16, <2>1 DEF Fail
<1> QED
  BY <1>3, <1>4, <1>5, <1>7, <1>8, <1>9, <1>10, <1>11, <1>12, <1>13, <1>14, <1>15, <1>16
     DEF EvaluationNext

\* A report never speaks of certificates that are not whole.
LEMMA CompleteStep ==
  ASSUME EvaluationTypeOK, CommandInv, WorkerInv, WaitInv, FilesInv, CompleteIsWritten,
         EvaluationTypeOK', EvaluationNext, ~ mixed, ~ mixed', Distinct, Distinct'
  PROVE  CompleteIsWritten'
<1> USE DEF commandVars
<1>1. /\ EvaluationTypeOK => (report.state = "whole" => (CompleteIsWritten <=> Kept(report.content, certificate)))
      /\ (EvaluationTypeOK => (report.state = "whole" => (CompleteIsWritten <=> Kept(report.content, certificate))))'
  <2>1. EvaluationTypeOK => (report.state = "whole" => (CompleteIsWritten <=> Kept(report.content, certificate)))
    BY CompleteIsKept
  <2>2. (report.state = "whole" => (report.content \in Seq(RowSet)))'
    BY DEF EvaluationTypeOK, ReportSet, Missing, Torn, Whole
  <2>3. (report.state = "whole" => (CompleteIsWritten <=> Kept(report.content, certificate)))'
    BY <2>2 DEF CompleteIsWritten, Kept
  <2> QED
    BY <2>1, <2>3
<1>2. CASE UNCHANGED files
  BY <1>2 DEF files, CompleteIsWritten
<1>3. CASE report' \in {Missing, Torn}
  BY <1>3 DEF CompleteIsWritten, Missing, Torn
<1>4. CASE Finish
  <2>1. report' = Whole(rows) /\ UNCHANGED certificate /\ InLoop
    BY <1>4 DEF Finish, InLoop, CommandInv
  <2> QED
    BY <1>1, <2>1 DEF FilesInv, Whole
<1>5. ASSUME NEW c \in Commands, workers[c].state = "running", UNCHANGED report PROVE CompleteIsWritten'
  BY <1>5 DEF FilesInv, CompleteIsWritten
<1>6. ASSUME NEW c \in Commands, Cut(c) PROVE CompleteIsWritten'
  BY <1>2, <1>3, <1>5, <1>6 DEF Cut
<1>7. ASSUME NEW c \in Commands, WriteReport(c) PROVE CompleteIsWritten'
  <2> DEFINE w == workers[c]
  <2>1. /\ w \in ProcessSet /\ Measured(c, w) /\ Certified(c, w, certificate) /\ w.at > Len(w.todo)
        /\ report' = Whole(w.rows) /\ UNCHANGED certificate
    BY <1>7 DEF WriteReport, EvaluationTypeOK, WorkerInv, FilesInv, Working, Reporting
  <2> HIDE DEF w
  <2>2. Kept(w.rows, certificate)
    <3> SUFFICES ASSUME NEW k \in 1 .. Len(w.rows), NEW l \in 1 .. Levels
                 PROVE  certificate[<<w.rows[k].id, l>>] = Whole(w.rows[k].by)
      BY DEF Kept
    <3>1. k \in 1 .. Len(w.todo) /\ k < w.at /\ w.rows[k] = Row(w.todo[k], "COMPLETE", c)
      BY <2>1 DEF Measured, ProcessSet
    <3> QED
      BY <2>1, <3>1 DEF Certified, Row
  <2> QED
    BY <1>1, <2>1, <2>2 DEF Whole
<1>8. ASSUME NEW m \in {"isolated", "in_process"}, NEW requested, Evaluate(m, requested)
      PROVE  CompleteIsWritten'
  BY <1>2, <1>8 DEF Evaluate
<1>9. CASE Launch
  BY <1>3, <1>9 DEF Launch
<1>10. CASE Expire
  BY <1>6, <1>10 DEF Expire, EvaluationTypeOK
<1>11. CASE Collect \/ Recover
  BY <1>2, <1>11 DEF Collect, Recover
<1>12. CASE Kill
  BY <1>2, <1>3, <1>6, <1>12 DEF Kill, files, EvaluationTypeOK
<1>13. CASE Over
  BY <1>2, <1>13 DEF Over, evaluationVars
<1>14. ASSUME NEW c \in Commands, Certify(c) PROVE CompleteIsWritten'
  BY <1>5, <1>14 DEF Certify
<1>15. ASSUME NEW c \in Commands, Measure(c) \/ EndWorker(c) PROVE CompleteIsWritten'
  BY <1>2, <1>15 DEF Measure, EndWorker
<1>16. ASSUME NEW c \in Commands, NEW code \in {"error", "memory", "signal"}, Fail(c, code)
       PROVE  CompleteIsWritten'
  BY <1>6, <1>16 DEF Fail
<1> QED
  BY <1>4, <1>7, <1>8, <1>9, <1>10, <1>11, <1>12, <1>13, <1>14, <1>15, <1>16 DEF EvaluationNext

\* A report is written with a row for each definition, or kept.
LEMMA EveryStep ==
  ASSUME EvaluationTypeOK, CommandInv, WorkerInv, WaitInv, RowsInv, EveryBenchmarkHasItsRow,
         EvaluationNext, ~ mixed
  PROVE  EveryBenchmarkHasItsRow'
<1> USE DEF commandVars
<1> SUFFICES ASSUME phase' = "done" PROVE EveryBenchmarkHasItsRow'
  BY DEF EveryBenchmarkHasItsRow
<1>1. chosen \in Seq(Ids) /\ DOMAIN chosen = 1 .. Len(chosen)
  BY DEF EvaluationTypeOK
<1>2. ASSUME NEW r, report' = Whole(r), UNCHANGED <<chosen, command>>, Len(r) = Len(chosen),
             \A k \in 1 .. Len(chosen) : r[k].id = chosen[k] /\ (r[k].status = "COMPLETE" => r[k].by = command)
      PROVE  EveryBenchmarkHasItsRow'
  <2>1. report'.state = "whole" /\ report'.content = r
    BY <1>2 DEF Whole
  <2>2. chosen' = chosen /\ command' = command /\ DOMAIN chosen' = 1 .. Len(chosen)
    BY <1>1, <1>2
  <2>3. Len(report'.content) = Len(chosen')
    BY <1>2, <2>1, <2>2
  <2>4. \A k \in DOMAIN chosen' : report'.content[k].id = chosen'[k]
    BY <1>2, <2>1, <2>2
  <2>5. \A k \in DOMAIN chosen' : report'.content[k].status = "COMPLETE" => report'.content[k].by = command'
    BY <1>2, <2>1, <2>2
  <2> QED
    BY <2>1, <2>3, <2>4, <2>5, Zenon DEF EveryBenchmarkHasItsRow
<1>3. CASE Finish
  <2>1. InLoop /\ Len(rows) = Len(chosen) /\ report' = Whole(rows) /\ UNCHANGED <<chosen, command>>
    BY <1>1, <1>3 DEF Finish, InLoop, CommandInv, EvaluationTypeOK
  <2> QED
    BY <1>2, <2>1 DEF RowsInv
<1>4. CASE Collect
  <2>1. mode = "in_process" /\ ~ Working(command) /\ phase = "wait" /\ UNCHANGED <<chosen, command, report>>
    BY <1>4 DEF Collect, files
  <2>2. Task = chosen /\ report = Whole(Outcome)
    BY <2>1 DEF WaitInv, Working, Task
  <2>3. Len(Outcome) = Len(chosen) /\ \A k \in 1 .. Len(chosen) : Outcome[k] = Row(chosen[k], "COMPLETE", command)
    BY <1>1, <2>2 DEF Outcome
  <2>4. ASSUME NEW k \in 1 .. Len(chosen) PROVE Outcome[k].id = chosen[k] /\ Outcome[k].by = command
    <3>1. Outcome[k] = Row(chosen[k], "COMPLETE", command)
      BY <2>3
    <3> QED
      BY <3>1 DEF Row
  <2> QED
    BY <1>2, <2>1, <2>2, <2>3, <2>4
<1>5. ASSUME phase = "done", NEW c \in Commands, Working(c) PROVE FALSE
  BY <1>5, WorksAlone
<1>6. CASE UNCHANGED <<phase, chosen, command, report>>
  BY <1>6 DEF EveryBenchmarkHasItsRow
<1>7. ASSUME NEW m \in {"isolated", "in_process"}, NEW requested, Evaluate(m, requested)
      PROVE  FALSE
  BY <1>7 DEF Evaluate
<1>8. CASE Launch \/ Expire \/ Recover \/ Kill
  BY <1>8 DEF Launch, Expire, Recover, Kill
<1>9. CASE Over
  BY <1>6, <1>9 DEF Over, evaluationVars, files
<1>10. ASSUME NEW c \in Commands, Certify(c) \/ Measure(c) \/ WriteReport(c) \/ EndWorker(c) PROVE FALSE
  BY <1>5, <1>10 DEF Certify, Measure, WriteReport, EndWorker, Working
<1>11. ASSUME NEW c \in Commands, NEW code \in {"error", "memory", "signal"}, Fail(c, code) PROVE FALSE
  BY <1>5, <1>11 DEF Fail
<1> QED
  BY <1>3, <1>4, <1>7, <1>8, <1>9, <1>10, <1>11 DEF EvaluationNext

\* The invariant reads nothing but the variables of the runner.
LEMMA EvaluationStutters ==
  ASSUME EvaluationInv, UNCHANGED evaluationVars
  PROVE  EvaluationInv'
<1> USE DEF evaluationVars, commandVars, files
<1>1. Task' = Task /\ Outcome' = Outcome /\ InLoop' = InLoop /\ Distinct' = Distinct
      /\ \A c \in Commands : Working(c)' = Working(c)
  BY TaskStays DEF InLoop, Distinct, Working
<1>2. EvaluationTypeOK' /\ CommandInv' /\ WorkerInv' /\ RowsInv'
  BY <1>1 DEF EvaluationInv, EvaluationTypeOK, CommandInv, WorkerInv, RowsInv
<1>3. WaitInv' /\ FilesInv' /\ CompleteIsWritten' /\ EveryBenchmarkHasItsRow'
  BY <1>1 DEF EvaluationInv, WaitInv, FilesInv, CompleteIsWritten, EveryBenchmarkHasItsRow, Working
<1> QED
  BY <1>2, <1>3 DEF EvaluationInv

(***************************************************************************)
(* The invariant of the runner, for every suite, number of levels and      *)
(* number of commands.                                                     *)
(***************************************************************************)
THEOREM RunnerInvariant == EvaluationSpec => []EvaluationInv
<1>1. EvaluationInv /\ EvaluationNext => EvaluationInv'
  <2> SUFFICES ASSUME EvaluationInv, EvaluationNext PROVE EvaluationInv'
    OBVIOUS
  <2> USE DEF EvaluationInv
  <2>1. EvaluationTypeOK' /\ CommandInv' /\ WorkerInv' /\ WaitInv' /\ RowsInv'
    BY EvaluationTypeStep, CommandStep, WorkerStep, WaitStep, RowsStep
  <2>2. /\ mixed => mixed'
        /\ Distinct' = Distinct
    BY MixedLasts
  <2>3. CASE mixed'
    BY <2>1, <2>3 DEF FilesInv, CompleteIsWritten, EveryBenchmarkHasItsRow
  <2>4. CASE ~ mixed'
    <3>1. FilesInv' /\ EveryBenchmarkHasItsRow'
      BY <2>2, <2>4, FilesStep, EveryStep
    <3>2. CASE Distinct
      BY <2>1, <2>2, <2>4, <3>1, <3>2, CompleteStep
    <3>3. CASE ~ Distinct
      BY <2>1, <2>2, <3>1, <3>3 DEF CompleteIsWritten
    <3> QED
      BY <3>2, <3>3
  <2> QED
    BY <2>3, <2>4
<1>2. EvaluationInv /\ UNCHANGED evaluationVars => EvaluationInv'
  BY EvaluationStutters
<1> QED
  BY EvaluationInitInv, <1>1, <1>2, PTL DEF EvaluationSpec

(***************************************************************************)
(* COMPLETE says that the certificates of the ablation were written        *)
(* (model/evaluation.py): of every report, of a command or left by a       *)
(* worker, at every moment, after any crash, limit and rerun.              *)
(***************************************************************************)
THEOREM CompleteMeansWritten == EvaluationSpec => []CompleteIsWritten
<1>1. EvaluationInv => CompleteIsWritten
  BY DEF EvaluationInv
<1> QED
  BY <1>1, RunnerInvariant, PTL

(***************************************************************************)
(* A command that ends by itself reports what it was asked for, in order,  *)
(* whatever became of its workers (cli.py, _evaluate).                     *)
(***************************************************************************)
THEOREM ReportsHoldEveryRow == EvaluationSpec => []EveryBenchmarkHasItsRow
<1>1. EvaluationInv => EveryBenchmarkHasItsRow
  BY DEF EvaluationInv
<1> QED
  BY <1>1, RunnerInvariant, PTL

-----------------------------------------------------------------------------
(***************************************************************************)
(* The run of the program against the order and the locks of the report.   *)
(***************************************************************************)

\* Sets of numbers that hold 0 and with each number the next one.
LEMMA NumbersInOrder ==
  ASSUME NEW S \in SUBSET Nat, 0 \in S, \A n \in S : n + 1 \in S
  PROVE  S = Nat
<1> DEFINE R == {x \in Nat \X Nat : x[1] < x[2]}
<1>1. IsWellFoundedOn(R, Nat)
  BY NatLessThanWellFounded DEF OpToRel
<1>2. SUFFICES ASSUME Nat \ S # {} PROVE FALSE
  OBVIOUS
<1>3. PICK m \in Nat \ S : \A k \in Nat \ S : <<k, m>> \notin R
  <2> HIDE DEF R
  <2> QED
    BY <1>1, <1>2, WFMin
<1>4. m - 1 \in Nat /\ m - 1 \notin S
  BY <1>3
<1>5. <<m - 1, m>> \in R
  BY <1>4
<1> QED
  BY <1>3, <1>4, <1>5

(***************************************************************************)
(* A recursion over the numbers that takes the last value only.            *)
(***************************************************************************)
LEMMA RecursionExists ==
  ASSUME NEW V, NEW first \in V, NEW step \in [V -> V]
  PROVE  \E f \in [Nat -> V] : f[0] = first /\ \A k \in Nat : f[k + 1] = step[f[k]]
<1> DEFINE Good(g, n) == /\ g \in [0 .. n -> V] /\ g[0] = first
                         /\ \A k \in 1 .. n : g[k] = step[g[k - 1]]
           S == {n \in Nat : \E g \in [0 .. n -> V] : Good(g, n)}
<1>1. S = Nat
  <2>1. 0 \in S
    <3>1. Good([k \in 0 .. 0 |-> first], 0)
      OBVIOUS
    <3> QED
      BY <3>1
  <2>2. ASSUME NEW n \in S PROVE n + 1 \in S
    <3>1. PICK g \in [0 .. n -> V] : Good(g, n)
      OBVIOUS
    <3> DEFINE h == [k \in 0 .. n + 1 |-> IF k = n + 1 THEN step[g[n]] ELSE g[k]]
    <3>2. h \in [0 .. n + 1 -> V]
      OBVIOUS
    <3>3. h[0] = first
      BY <3>1
    <3>4. ASSUME NEW k \in 1 .. n + 1 PROVE h[k] = step[h[k - 1]]
      <4>1. CASE k = n + 1
        BY <4>1
      <4>2. CASE k # n + 1
        BY <3>1, <4>2
      <4> QED
        BY <4>1, <4>2
    <3>5. Good(h, n + 1)
      BY <3>2, <3>3, <3>4
    <3> HIDE DEF h, Good
    <3> QED
      BY <3>2, <3>5
  <2> HIDE DEF S
  <2>3. S \in SUBSET Nat
    BY DEF S
  <2> QED
    BY <2>1, <2>2, <2>3, NumbersInOrder
<1>2. ASSUME NEW n \in Nat, NEW m \in Nat, NEW g, NEW h, Good(g, n), Good(h, m),
             NEW k \in Nat, k <= n, k <= m
      PROVE  g[k] = h[k]
  <2> DEFINE T == {i \in Nat : i <= n /\ i <= m => g[i] = h[i]}
  <2>1. 0 \in T
    BY <1>2
  <2>2. ASSUME NEW i \in T PROVE i + 1 \in T
    <3>1. SUFFICES ASSUME i + 1 <= n, i + 1 <= m PROVE g[i + 1] = h[i + 1]
      OBVIOUS
    <3>2. g[i] = h[i] /\ i + 1 \in 1 .. n /\ i + 1 \in 1 .. m
      BY <3>1
    <3>3. g[i + 1] = step[g[(i + 1) - 1]] /\ h[i + 1] = step[h[(i + 1) - 1]]
      BY <1>2, <3>2
    <3> QED
      BY <3>2, <3>3
  <2>3. T \in SUBSET Nat
    OBVIOUS
  <2>4. T = Nat
    <3> HIDE DEF T
    <3> QED
      BY <2>1, <2>2, <2>3, NumbersInOrder
  <2> QED
    BY <1>2, <2>4
<1> DEFINE G == [n \in Nat |-> CHOOSE g \in [0 .. n -> V] : Good(g, n)]
           f == [k \in Nat |-> G[k][k]]
<1>3. \A n \in Nat : G[n] \in [0 .. n -> V] /\ Good(G[n], n)
  <2> SUFFICES ASSUME NEW n \in Nat PROVE G[n] \in [0 .. n -> V] /\ Good(G[n], n)
    OBVIOUS
  <2>1. \E g \in [0 .. n -> V] : Good(g, n)
    BY <1>1
  <2> HIDE DEF Good
  <2> QED
    BY <2>1
<1> HIDE DEF G, S
<1>4. f \in [Nat -> V]
  <2> SUFFICES ASSUME NEW k \in Nat PROVE G[k][k] \in V
    OBVIOUS
  <2> QED
    BY <1>3
<1>5. f[0] = first
  BY <1>3
<1>6. ASSUME NEW k \in Nat PROVE f[k + 1] = step[f[k]]
  <2>1. k + 1 \in Nat /\ k + 1 \in 1 .. k + 1 /\ (k + 1) - 1 = k
    OBVIOUS
  <2>2. Good(G[k + 1], k + 1) /\ Good(G[k], k)
    BY <1>3, <2>1
  <2>3. G[k + 1][k + 1] = step[G[k + 1][k]]
    BY <2>1, <2>2
  <2>4. G[k + 1][k] = G[k][k]
    <3> HIDE DEF Good
    <3> QED
      BY <1>2, <2>1, <2>2
  <2> QED
    BY <2>1, <2>3, <2>4
<1> HIDE DEF f
<1> QED
  BY <1>4, <1>5, <1>6

(***************************************************************************)
(* Reach finds what its name says, in a finite graph: the least set with   *)
(* the start in it that no edge leaves.                                    *)
(***************************************************************************)
LEMMA ReachIsClosed ==
  ASSUME NEW D, IsFiniteSet(D), NEW succ \in [D -> SUBSET D], NEW s \in SUBSET D
  PROVE  /\ s \subseteq Reach(succ, s) /\ Reach(succ, s) \subseteq D
         /\ \A x \in Reach(succ, s) : succ[x] \subseteq Reach(succ, s)
         /\ \A C \in SUBSET D : s \subseteq C /\ (\A x \in C : succ[x] \subseteq C) => Reach(succ, s) \subseteq C
<1> DEFINE more == [r \in SUBSET D |-> r \cup UNION {succ[x] : x \in r}]
           upto == CHOOSE f : f = [k \in Nat |->
                     IF k = 0 THEN s ELSE LET r == f[k - 1] IN r \cup UNION {succ[x] : x \in r}]
           n == Cardinality(D)
<1>1. more \in [SUBSET D -> SUBSET D]
  OBVIOUS
<1>2. Reach(succ, s) = upto[n]
  BY DEF Reach
<1>3. PICK f \in [Nat -> SUBSET D] : f[0] = s /\ \A k \in Nat : f[k + 1] = more[f[k]]
  <2> DEFINE V == SUBSET D
  <2>1. s \in V /\ more \in [V -> V]
    BY <1>1
  <2> HIDE DEF more, upto, n, V
  <2>2. \E f \in [Nat -> V] : f[0] = s /\ \A k \in Nat : f[k + 1] = more[f[k]]
    BY <2>1, RecursionExists, SMTT(60)
  <2> QED
    BY <2>2 DEF V
<1>4. f = [k \in Nat |-> IF k = 0 THEN s ELSE LET r == f[k - 1] IN r \cup UNION {succ[x] : x \in r}]
  <2>1. ASSUME NEW k \in Nat, k # 0 PROVE f[k] = f[k - 1] \cup UNION {succ[x] : x \in f[k - 1]}
    <3>1. k - 1 \in Nat /\ (k - 1) + 1 = k
      BY <2>1
    <3>2. f[k - 1] \in SUBSET D /\ f[k] = more[f[k - 1]]
      <4> HIDE DEF more, upto, n
      <4> QED
        BY <1>3, <3>1
    <3> QED
      BY <3>2
  <2> HIDE DEF more, upto, n
  <2> QED
    BY <1>3, <2>1
<1>5. upto = [k \in Nat |-> IF k = 0 THEN s ELSE LET r == upto[k - 1] IN r \cup UNION {succ[x] : x \in r}]
  <2> HIDE DEF more, n
  <2> QED
    BY <1>4
<1>6. upto[0] = s /\ \A k \in Nat : upto[k + 1] = upto[k] \cup UNION {succ[x] : x \in upto[k]}
  <2> HIDE DEF more, n, upto
  <2>1. upto[0] = s
    BY <1>5
  <2>2. ASSUME NEW k \in Nat PROVE upto[k + 1] = upto[k] \cup UNION {succ[x] : x \in upto[k]}
    <3>1. k + 1 \in Nat /\ k + 1 # 0 /\ (k + 1) - 1 = k
      OBVIOUS
    <3>2. upto[k + 1] = LET r == upto[(k + 1) - 1] IN r \cup UNION {succ[x] : x \in r}
      BY <1>5, <3>1
    <3> QED
      BY <3>1, <3>2
  <2> QED
    BY <2>1, <2>2
<1>7. n \in Nat
  BY FS_CardinalityType
<1> DEFINE closed(r) == \A x \in r : succ[x] \subseteq r
           S == {k \in Nat : upto[k] \subseteq D /\ (closed(upto[k]) \/ Cardinality(upto[k]) >= k)}
<1> HIDE DEF more, upto, n
<1>8. S = Nat
  <2>1. 0 \in S
    <3>1. upto[0] \subseteq D
      BY <1>6
    <3>2. Cardinality(upto[0]) \in Nat
      BY <3>1, FS_Subset, FS_CardinalityType
    <3> QED
      BY <3>1, <3>2
  <2>2. ASSUME NEW k \in S PROVE k + 1 \in S
    <3> DEFINE a == upto[k]
               b == upto[k + 1]
    <3>1. k \in Nat /\ a \subseteq D /\ b = a \cup UNION {succ[x] : x \in a}
      BY <1>6
    <3>2. b \subseteq D /\ a \subseteq b
      BY <3>1
    <3>3. CASE closed(a)
      <4>1. b = a
        BY <3>1, <3>3
      <4> QED
        BY <3>1, <3>3, <4>1
    <3>4. CASE ~ closed(a)
      <4>1. Cardinality(a) >= k
        BY <3>4
      <4>2. b # a
        BY <3>1, <3>4
      <4> HIDE DEF a, b
      <4>3. IsFiniteSet(b) /\ IsFiniteSet(a)
        BY <3>1, <3>2, FS_Subset
      <4>4. Cardinality(a) <= Cardinality(b) /\ Cardinality(a) # Cardinality(b)
        BY <3>2, <4>2, <4>3, FS_Subset
      <4>5. Cardinality(a) \in Nat /\ Cardinality(b) \in Nat
        BY <4>3, FS_CardinalityType
      <4>6. Cardinality(b) >= k + 1
        BY <3>1, <4>1, <4>4, <4>5
      <4>7. k + 1 \in Nat /\ upto[k + 1] \subseteq D /\ Cardinality(upto[k + 1]) >= k + 1
        BY <3>1, <3>2, <4>6 DEF b
      <4> QED
        BY <4>7
    <3> QED
      BY <3>3, <3>4
  <2>3. S \in SUBSET Nat
    OBVIOUS
  <2> HIDE DEF S
  <2> QED
    BY <2>1, <2>2, <2>3, NumbersInOrder
<1>9. upto[n] \subseteq D /\ closed(upto[n])
  <2>1. n \in S
    BY <1>7, <1>8
  <2>2. upto[n] \subseteq D
    BY <2>1
  <2>3. CASE closed(upto[n])
    BY <2>2, <2>3
  <2>4. CASE Cardinality(upto[n]) >= n
    <3>1. Cardinality(upto[n]) = n
      BY <1>7, <2>2, <2>4, FS_Subset, FS_CardinalityType DEF n
    <3>2. upto[n] = D
      BY <2>2, <3>1, FS_Subset DEF n
    <3> QED
      BY <3>2
  <2> QED
    BY <2>1, <2>3, <2>4
<1>10. ASSUME NEW C \in SUBSET D, s \subseteq C, \A x \in C : succ[x] \subseteq C
       PROVE  upto[n] \subseteq C /\ s \subseteq upto[n]
  <2> DEFINE T == {k \in Nat : s \subseteq upto[k] /\ upto[k] \subseteq C}
  <2>1. 0 \in T
    BY <1>6, <1>10
  <2>2. ASSUME NEW k \in T PROVE k + 1 \in T
    <3>1. k \in Nat /\ upto[k + 1] = upto[k] \cup UNION {succ[x] : x \in upto[k]}
      BY <1>6
    <3> QED
      BY <1>10, <3>1
  <2>3. T \in SUBSET Nat
    OBVIOUS
  <2>4. T = Nat
    <3> HIDE DEF T
    <3> QED
      BY <2>1, <2>2, <2>3, NumbersInOrder
  <2> QED
    BY <1>7, <2>4
<1>11. s \subseteq upto[n]
  <2>1. D \in SUBSET D /\ s \subseteq D /\ \A x \in D : succ[x] \subseteq D
    OBVIOUS
  <2> QED
    BY <1>10, <2>1
<1> QED
  BY <1>2, <1>9, <1>10, <1>11

-----------------------------------------------------------------------------
(* A program as it was recovered.                                            *)

\* What the graphs of a program are made of.
LEMMA GraphsTyped ==
  ASSUME NEW p, IsProgram(p)
  PROVE  /\ IsFiniteSet(Code(p)) /\ IsFiniteSet(Functions(p))
         /\ Successors(p) \in [Code(p) -> SUBSET Code(p)]
         /\ \A sites : CallGraph(p, sites) \in [Functions(p) -> SUBSET Functions(p)]
<1>1. \A i \in Code(p) : /\ p.code[i].next \subseteq Code(p) /\ p.code[i].callees \subseteq Functions(p)
                         /\ p.code[i].fn \in Functions(p)
  <2> SUFFICES ASSUME NEW i \in Code(p)
      PROVE  /\ p.code[i].next \subseteq Code(p) /\ p.code[i].callees \subseteq Functions(p)
             /\ p.code[i].fn \in Functions(p)
    OBVIOUS
  <2>1. /\ p.code[i].fn \in Functions(p) /\ p.code[i].callees \subseteq Functions(p)
        /\ p.code[i].next \subseteq NodesOf(p, p.code[i].fn)
    BY DEF IsProgram
  <2> QED
    BY <2>1 DEF NodesOf
<1>2. \A f \in Functions(p) : p.entry[f] \in Code(p)
  BY DEF IsProgram, NodesOf
<1>3. Successors(p) \in [Code(p) -> SUBSET Code(p)]
  <2> SUFFICES ASSUME NEW i \in Code(p) PROVE Successors(p)[i] \subseteq Code(p)
    BY DEF Successors
  <2>1. UNION {p.code[j].next : j \in {c \in Calls(p) : p.code[i].fn \in p.code[c].callees}} \subseteq Code(p)
    BY <1>1 DEF Calls
  <2>2. {p.entry[f] : f \in p.code[i].callees} \subseteq Code(p)
    BY <1>1, <1>2
  <2> QED
    BY <1>1, <2>1, <2>2 DEF Successors
<1>4. ASSUME NEW sites PROVE CallGraph(p, sites) \in [Functions(p) -> SUBSET Functions(p)]
  BY <1>1 DEF CallGraph, NodesOf
<1> QED
  BY <1>3, <1>4 DEF IsProgram

\* A role has the functions it starts with, and what these are known to call.
LEMMA RoleFunctionsAre ==
  ASSUME NEW p, IsProgram(p), NEW r \in Roles(p)
  PROVE  /\ RoleFunctions(p, r) \subseteq Functions(p) /\ Starts(p, r) \subseteq RoleFunctions(p, r)
         /\ \A i \in Calls(p) : p.code[i].fn \in RoleFunctions(p, r) => p.code[i].callees \subseteq RoleFunctions(p, r)
         /\ Starts(p, r) = {} => RoleFunctions(p, r) = {}
<1> DEFINE graph == CallGraph(p, Calls(p))
<1>1. Starts(p, r) \in SUBSET Functions(p)
  <2>1. CASE r = 0
    BY <2>1 DEF Starts, IsProgram
  <2>2. CASE r # 0
    <3>1. r \in Code(p)
      BY <2>2 DEF Roles, Considered, Creates, Regions
    <3>2. p.code[r].callees \subseteq Functions(p)
      BY <3>1 DEF IsProgram
    <3> QED
      BY <2>2, <3>2 DEF Starts
  <2> QED
    BY <2>1, <2>2
<1>2. graph \in [Functions(p) -> SUBSET Functions(p)] /\ IsFiniteSet(Functions(p))
  BY GraphsTyped
<1>3. RoleFunctions(p, r) = Reach(graph, Starts(p, r))
  BY DEF RoleFunctions
<1>4. \A i \in Calls(p) : p.code[i].fn \in Functions(p) => p.code[i].callees \subseteq graph[p.code[i].fn]
  BY DEF CallGraph, NodesOf, Calls
<1> HIDE DEF graph
<1>5. /\ Starts(p, r) \subseteq Reach(graph, Starts(p, r)) /\ Reach(graph, Starts(p, r)) \subseteq Functions(p)
      /\ \A f \in Reach(graph, Starts(p, r)) : graph[f] \subseteq Reach(graph, Starts(p, r))
      /\ \A C \in SUBSET Functions(p) :
           Starts(p, r) \subseteq C /\ (\A f \in C : graph[f] \subseteq C) => Reach(graph, Starts(p, r)) \subseteq C
  BY <1>1, <1>2, ReachIsClosed
<1>6. Starts(p, r) = {} => RoleFunctions(p, r) = {}
  BY <1>3, <1>5
<1>7. ASSUME NEW i \in Calls(p), p.code[i].fn \in RoleFunctions(p, r)
      PROVE  p.code[i].callees \subseteq RoleFunctions(p, r)
  BY <1>3, <1>4, <1>5, <1>7
<1> QED
  BY <1>3, <1>5, <1>6, <1>7

\* What runs behind a call that nobody could follow, and what that calls.
LEMMA HiddenIs ==
  ASSUME NEW p, IsProgram(p), NEW r \in Roles(p), NEW i \in Calls(p), p.code[i].goes # "none",
         \/ p.code[i].fn \in RoleFunctions(p, r) /\ p.code[i].goes \notin p.code[i].callees
         \/ p.code[i].fn \in Hidden(p, r)
  PROVE  p.code[i].goes \in Hidden(p, r)
<1> DEFINE goes(f) == {p.code[j].goes : j \in Calls(p) \cap NodesOf(p, f)} \ {"none"}
           lost(f) == {p.code[k].goes : k \in {j \in Calls(p) \cap NodesOf(p, f) : p.code[j].goes \notin p.code[j].callees}}
           graph == [f \in Functions(p) |-> goes(f)]
           start == (UNION {lost(f) : f \in RoleFunctions(p, r)}) \ {"none"}
<1>1. Hidden(p, r) = Reach(graph, start)
  BY DEF Hidden
<1>2. \A j \in Calls(p) : p.code[j].goes \in Functions(p) \cup {"none"}
  BY DEF IsProgram, Calls
<1>3. graph \in [Functions(p) -> SUBSET Functions(p)]
  BY <1>2
<1>4. start \in SUBSET Functions(p)
  BY <1>2
<1>5. i \in Code(p) /\ p.code[i].fn \in Functions(p) /\ i \in NodesOf(p, p.code[i].fn)
  BY DEF IsProgram, Calls, NodesOf
<1>6. p.code[i].goes \in graph[p.code[i].fn]
  BY <1>5
<1>7. p.code[i].fn \in RoleFunctions(p, r) /\ p.code[i].goes \notin p.code[i].callees => p.code[i].goes \in start
  BY <1>5
<1> HIDE DEF graph, start
<1>8. start \subseteq Reach(graph, start) /\ \A f \in Reach(graph, start) : graph[f] \subseteq Reach(graph, start)
  BY <1>3, <1>4, GraphsTyped, ReachIsClosed
<1> QED
  BY <1>1, <1>6, <1>7, <1>8

-----------------------------------------------------------------------------
(* The events of a role, and what follows them.                              *)

\* The events of the instruction at i, as the role r has them.
Here(p, r, i) == {e \in Placed(p, Extracted(p)) : e.role = r /\ e.pc = i}

\* What comes after i, through instructions without events of the role.
Ahead(p, r, i) ==
  Reach([j \in Code(p) |-> IF Here(p, r, j) # {} THEN {} ELSE Successors(p)[j]], Successors(p)[i])

\* The events of one instruction that come first and last of them.
First(here) == {e \in here : ~ \E g \in here : Before(g, e)}
Final(here) == {e \in here : ~ \E g \in here : Before(e, g)}

\* An instruction has one event, or a load and then a store.
LEMMA HereIs ==
  ASSUME NEW p, NEW r, NEW i
  PROVE  /\ \A e \in Here(p, r, i) :
              /\ r \in Roles(p) /\ i \in Code(p) /\ p.code[i].fn \in RoleFunctions(p, r)
              /\ e.kind \in KindOf(p, p.code[i]) /\ e.kind # "Effect"
              /\ e = Event(r, i, e.kind, AddressOf(p.code[i], e.kind))
              /\ e \in Extracted(p)
         /\ r \in Roles(p) /\ i \in Code(p) /\ p.code[i].fn \in RoleFunctions(p, r) =>
              \A k \in KindOf(p, p.code[i]) :
                k # "Effect" => Event(r, i, k, AddressOf(p.code[i], k)) \in Here(p, r, i)
<1> DEFINE of(x) == {Event(x[1], x[2], k, AddressOf(p.code[x[2]], k)) : k \in KindOf(p, p.code[x[2]])}
           sites == {y \in Roles(p) \X Code(p) : p.code[y[2]].fn \in RoleFunctions(p, y[1])}
<1>1. Extracted(p) = Sentinels(p) \cup UNION {of(x) : x \in sites}
  BY DEF Extracted
<1>2. ASSUME NEW e \in Here(p, r, i)
      PROVE  /\ r \in Roles(p) /\ i \in Code(p) /\ p.code[i].fn \in RoleFunctions(p, r)
             /\ e.kind \in KindOf(p, p.code[i]) /\ e.kind # "Effect"
             /\ e = Event(r, i, e.kind, AddressOf(p.code[i], e.kind))
             /\ e \in Extracted(p)
  <2>1. e \in Extracted(p) /\ e.kind # "Effect" /\ e.role = r /\ e.pc = i
    BY DEF Here, Placed
  <2>2. e \notin Sentinels(p)
    BY <2>1 DEF Sentinels, Event
  <2> HIDE DEF of, sites
  <2>3. PICK x \in sites : e \in of(x)
    BY <1>1, <2>1, <2>2
  <2>4. x \in Roles(p) \X Code(p) /\ p.code[x[2]].fn \in RoleFunctions(p, x[1])
    BY DEF sites
  <2>5. PICK k \in KindOf(p, p.code[x[2]]) : e = Event(x[1], x[2], k, AddressOf(p.code[x[2]], k))
    BY <2>3 DEF of
  <2>6. e.kind = k /\ x[1] = r /\ x[2] = i
    BY <2>1, <2>5 DEF Event
  <2> QED
    BY <2>1, <2>4, <2>5, <2>6
<1>3. ASSUME r \in Roles(p), i \in Code(p), p.code[i].fn \in RoleFunctions(p, r),
             NEW k \in KindOf(p, p.code[i]), k # "Effect"
      PROVE  Event(r, i, k, AddressOf(p.code[i], k)) \in Here(p, r, i)
  <2> DEFINE e == Event(r, i, k, AddressOf(p.code[i], k))
  <2>1. <<r, i>> \in sites
    BY <1>3
  <2>2. e \in of(<<r, i>>)
    BY <1>3
  <2>3. e.role = r /\ e.pc = i /\ e.kind = k
    BY DEF Event
  <2> HIDE DEF of, sites, e
  <2>4. e \in Extracted(p)
    BY <1>1, <2>1, <2>2
  <2> QED
    BY <1>3, <2>3, <2>4 DEF Here, Placed, e
<1> QED
  BY <1>2, <1>3

\* The kinds an instruction has.
LEMMA KindsAre ==
  ASSUME NEW p, NEW i
  PROVE  \/ \E k : KindOf(p, i) = {k}
         \/ KindOf(p, i) = {"Load", "Store"}
         \/ KindOf(p, i) = {}
BY DEF KindOf

\* If there are events, there is a first and a last one.
LEMMA HereHasEnds ==
  ASSUME NEW p, NEW r, NEW i, Here(p, r, i) # {}
  PROVE  /\ First(Here(p, r, i)) # {} /\ Final(Here(p, r, i)) # {}
         /\ \A e \in Here(p, r, i) : \/ e \in First(Here(p, r, i))
                                     \/ \E g \in First(Here(p, r, i)) : Before(g, e) /\ g.kind = "Load"
         /\ \A e \in Here(p, r, i) : \/ e \in Final(Here(p, r, i))
                                     \/ \E g \in Final(Here(p, r, i)) : Before(e, g)
<1> DEFINE here == Here(p, r, i)
<1>1. \A e, f \in here : Before(e, f) <=> e.kind = "Load" /\ f.kind = "Store"
  BY DEF Here, Before
<1>2. \A e \in here : ~ (\E g \in here : Before(g, e)) <=> e \in First(here)
  BY DEF First
<1>3. \A e \in here : ~ (\E g \in here : Before(e, g)) <=> e \in Final(here)
  BY DEF Final
<1> HIDE DEF here
<1>4. ASSUME NEW e \in here, NEW g \in here, Before(g, e) PROVE g \in First(here) /\ e \in Final(here)
  BY <1>1, <1>2, <1>3, <1>4
<1>5. here # {}
  BY DEF here
<1>6. PICK e \in here : TRUE
  BY <1>5
<1>7. First(here) # {}
  BY <1>2, <1>4, <1>6
<1>8. Final(here) # {}
  BY <1>3, <1>4, <1>6
<1> QED
  BY <1>1, <1>2, <1>3, <1>4, <1>7, <1>8 DEF here

\* Going on through instructions without events.
LEMMA AheadIs ==
  ASSUME NEW p, IsProgram(p), NEW r, NEW i \in Code(p)
  PROVE  /\ Successors(p)[i] \subseteq Ahead(p, r, i) /\ Ahead(p, r, i) \subseteq Code(p)
         /\ \A j \in Ahead(p, r, i) : Here(p, r, j) = {} => Successors(p)[j] \subseteq Ahead(p, r, i)
<1> DEFINE empty == [j \in Code(p) |-> IF Here(p, r, j) # {} THEN {} ELSE Successors(p)[j]]
<1>1. IsFiniteSet(Code(p)) /\ Successors(p) \in [Code(p) -> SUBSET Code(p)]
  BY GraphsTyped
<1>2. empty \in [Code(p) -> SUBSET Code(p)] /\ Successors(p)[i] \in SUBSET Code(p)
  BY <1>1
<1>3. \A j \in Code(p) : Here(p, r, j) = {} => empty[j] = Successors(p)[j]
  OBVIOUS
<1>4. Ahead(p, r, i) = Reach(empty, Successors(p)[i])
  BY DEF Ahead
<1> HIDE DEF empty
<1>5. /\ Successors(p)[i] \subseteq Reach(empty, Successors(p)[i])
      /\ Reach(empty, Successors(p)[i]) \subseteq Code(p)
      /\ \A j \in Reach(empty, Successors(p)[i]) : empty[j] \subseteq Reach(empty, Successors(p)[i])
  BY <1>1, <1>2, ReachIsClosed
<1> QED
  BY <1>3, <1>4, <1>5

\* The edges of a role: from its last event at a place to the first ones ahead,
\* and from the load of an update to its store.
LEMMA EdgesAre ==
  ASSUME NEW p, NEW r \in Roles(p), NEW i \in Code(p), NEW e \in Here(p, r, i)
  PROVE  /\ e \in Final(Here(p, r, i)) =>
              \A j \in Ahead(p, r, i) : \A f \in First(Here(p, r, j)) : <<e, f>> \in ProgramOrder(p, Extracted(p))
         /\ \A f \in Here(p, r, i) : Before(e, f) => <<e, f>> \in ProgramOrder(p, Extracted(p))
<1> DEFINE here  == {g \in Placed(p, Extracted(p)) : g.role = r}
           busy  == {f.pc : f \in here}
           empty == [j \in Code(p) |-> IF j \in busy THEN {} ELSE Successors(p)[j]]
           next  == NextEvents(p, here, e)
<1>1. e \in here /\ e.pc = i /\ \A j : Here(p, r, j) = {g \in here : g.pc = j}
  BY DEF Here
<1>2. \A j : j \in busy <=> Here(p, r, j) # {}
  BY <1>1
<1>3. empty = [j \in Code(p) |-> IF Here(p, r, j) # {} THEN {} ELSE Successors(p)[j]]
  BY <1>2
<1>4. Reach(empty, Successors(p)[e.pc]) = Ahead(p, r, i)
  BY <1>1, <1>3 DEF Ahead
<1>5. \A f \in next : <<e, f>> \in ProgramOrder(p, Extracted(p))
  <2> DEFINE edges(q) == LET all == {g \in Placed(p, Extracted(p)) : g.role = q}
                         IN  UNION {{<<a, f>> : f \in NextEvents(p, all, a)} : a \in all}
  <2>1. ProgramOrder(p, Extracted(p)) = UNION {edges(q) : q \in Roles(p)}
    BY DEF ProgramOrder
  <2>2. \A f \in next : <<e, f>> \in edges(r)
    <3> DEFINE of(a) == {<<a, f>> : f \in NextEvents(p, here, a)}
    <3>1. edges(r) = UNION {of(a) : a \in here}
      OBVIOUS
    <3>2. \A f \in next : <<e, f>> \in of(e)
      OBVIOUS
    <3> HIDE DEF edges, of, here, next
    <3> QED
      BY <1>1, <3>1, <3>2
  <2> HIDE DEF edges, next
  <2> QED
    BY <2>1, <2>2
<1>6. next = IF \E f \in here : Before(e, f) THEN {f \in here : Before(e, f)}
             ELSE {f \in here : f.pc \in Ahead(p, r, i) /\ ~ \E g \in here : Before(g, f)}
  BY <1>4 DEF NextEvents
<1> HIDE DEF next, here, busy, empty
<1>7. ASSUME e \in Final(Here(p, r, i)), NEW j \in Ahead(p, r, i), NEW f \in First(Here(p, r, j))
      PROVE  <<e, f>> \in ProgramOrder(p, Extracted(p))
  <2>1. ~ \E g \in here : Before(e, g)
    BY <1>1, <1>7 DEF Final, Before
  <2>2. f \in here /\ f.pc = j /\ ~ \E g \in here : Before(g, f)
    BY <1>1, <1>7 DEF First, Before
  <2> QED
    BY <1>5, <1>6, <2>1, <2>2
<1>8. ASSUME NEW f \in Here(p, r, i), Before(e, f) PROVE <<e, f>> \in ProgramOrder(p, Extracted(p))
  <2>1. f \in here
    BY <1>1
  <2> QED
    BY <1>5, <1>6, <1>8, <2>1
<1> QED
  BY <1>7, <1>8

\* An edge is between two events of one role.
LEMMA EdgesTyped ==
  ASSUME NEW p, NEW o \in ProgramOrder(p, Extracted(p))
  PROVE  /\ o[1] \in Extracted(p) /\ o[2] \in Extracted(p) /\ o[1].role = o[2].role
         /\ o = <<o[1], o[2]>>
<1> DEFINE all(q) == {g \in Placed(p, Extracted(p)) : g.role = q}
           edges(q) == UNION {{<<a, f>> : f \in NextEvents(p, all(q), a)} : a \in all(q)}
<1>1. ProgramOrder(p, Extracted(p)) = UNION {edges(q) : q \in Roles(p)}
  BY DEF ProgramOrder
<1>2. \A q, a, f : f \in NextEvents(p, all(q), a) => f \in all(q)
  BY DEF NextEvents
<1>3. \A q : \A x \in edges(q) : \E a, f \in all(q) : x = <<a, f>>
  <2> SUFFICES ASSUME NEW q, NEW x \in edges(q) PROVE \E a, f \in all(q) : x = <<a, f>>
    OBVIOUS
  <2> HIDE DEF all
  <2> QED
    BY <1>2
<1>4. \A q : \A g \in all(q) : g \in Extracted(p) /\ g.role = q
  BY DEF Placed
<1> HIDE DEF all, edges
<1>5. PICK q \in Roles(p) : o \in edges(q)
  BY <1>1
<1>6. PICK a \in all(q), f \in all(q) : o = <<a, f>>
  BY <1>3, <1>5
<1> QED
  BY <1>4, <1>6

-----------------------------------------------------------------------------
(* Where a thread is.                                                        *)

\* A function that returns goes on behind a call that is known to lead to it.
Linked(p, upper, lower) ==
  \E j \in Calls(p) : p.code[upper].fn \in p.code[j].callees /\ lower \in p.code[j].next

\* A thread that is at this instruction is in the scope of the certificate.
Within(p, i) == p.normal => ~ Fails(p, i)

\* Code that nobody has recovered was called here, in scope.
Left(p, i) == p.code[i].goes \notin p.code[i].callees \cup {"none"} /\ Within(p, i)

(***************************************************************************)
(* A thread of role r with the stack s whose first m frames run code that  *)
(* nobody has recovered: the others are frames of its role, each called by *)
(* the next, and the innermost of them is ahead of the latest event, which *)
(* is the call that was not followed while there are hidden frames.        *)
(***************************************************************************)
Track(p, r, s, last, m) ==
  /\ m \in Nat /\ m < Len(s)
  /\ \A k \in 1 .. m : p.code[s[k]].fn \in Hidden(p, r)
  /\ \A k \in m + 1 .. Len(s) : p.code[s[k]].fn \in RoleFunctions(p, r)
  /\ \A k \in m + 1 .. Len(s) - 1 : Linked(p, s[k], s[k + 1])
  /\ last # 0 => /\ last \in Code(p) /\ Here(p, r, last) # {}
                 /\ s[m + 1] \in Ahead(p, r, last)
  /\ m > 0 => /\ last # 0 /\ last \in Calls(p) /\ Left(p, last)
              /\ \A e \in Here(p, r, last) : e.kind \in OpaqueKinds

\* The instruction of the latest event, once the head of the stack is done.
Latest(p, r, s, last) == IF Here(p, r, s[1]) = {} THEN last ELSE s[1]

\* Instructions put in the place of the head of a stack.
LEMMA Replaced ==
  ASSUME NEW C, NEW s \in Seq(C), s # <<>>, NEW h \in Seq(C)
  PROVE  /\ Head(s) = s[1] /\ s[1] \in C /\ Len(s) \in Nat \ {0} /\ Len(h) \in Nat
         /\ h \o Tail(s) \in Seq(C) /\ Len(h \o Tail(s)) = Len(h) + Len(s) - 1
         /\ \A k \in 1 .. Len(h) : (h \o Tail(s))[k] = h[k]
         /\ \A k \in Len(h) + 1 .. Len(h) + Len(s) - 1 : (h \o Tail(s))[k] = s[k + 1 - Len(h)]
<1>1. Tail(s) \in Seq(C) /\ Len(Tail(s)) = Len(s) - 1 /\ Len(s) \in Nat \ {0} /\ Len(h) \in Nat
  OBVIOUS
<1>2. \A k \in 1 .. Len(s) - 1 : Tail(s)[k] = s[k + 1]
  BY <1>1
<1>3. Head(s) = s[1] /\ s[1] \in C
  OBVIOUS
<1> DEFINE t == Tail(s)
<1>4. t \in Seq(C) /\ Len(t) = Len(s) - 1 /\ \A k \in 1 .. Len(s) - 1 : t[k] = s[k + 1]
  BY <1>1, <1>2
<1> HIDE DEF t
<1>5. h \o t \in Seq(C) /\ Len(h \o t) = Len(h) + Len(t)
  <2>1. t \in Seq(C)
    BY <1>4
  <2> QED
    BY <2>1, ConcatProperties, Zenon
<1>6. \A k \in 1 .. Len(h) + Len(t) : (h \o t)[k] = IF k <= Len(h) THEN h[k] ELSE t[k - Len(h)]
  <2>1. t \in Seq(C)
    BY <1>4
  <2> QED
    BY <2>1, ConcatProperties, Zenon
<1>7. ASSUME NEW k \in 1 .. Len(h) PROVE (h \o t)[k] = h[k]
  BY <1>1, <1>4, <1>6
<1>8. ASSUME NEW k \in Len(h) + 1 .. Len(h) + Len(s) - 1 PROVE (h \o t)[k] = s[k + 1 - Len(h)]
  <2>1. k \in 1 .. Len(h) + Len(t) /\ ~ k <= Len(h)
    BY <1>1, <1>4
  <2>2. (h \o t)[k] = t[k - Len(h)]
    BY <1>6, <2>1
  <2>3. k - Len(h) \in 1 .. Len(s) - 1 /\ (k - Len(h)) + 1 = k + 1 - Len(h)
    BY <1>1
  <2> QED
    BY <1>4, <2>2, <2>3
<1> QED
  BY <1>1, <1>3, <1>4, <1>5, <1>7, <1>8 DEF t

\* The stack that goes on at i, one that goes on in a function that returns to
\* i, and one that has returned.
LEMMA Stacks ==
  ASSUME NEW C, NEW s \in Seq(C), s # <<>>, NEW i \in C, NEW j \in C
  PROVE  /\ Head(s) = s[1] /\ s[1] \in C /\ Len(s) \in Nat \ {0}
         /\ <<i>> \o Tail(s) \in Seq(C) /\ Len(<<i>> \o Tail(s)) = Len(s)
         /\ (<<i>> \o Tail(s))[1] = i /\ \A k \in 2 .. Len(s) : (<<i>> \o Tail(s))[k] = s[k]
         /\ <<j, i>> \o Tail(s) \in Seq(C) /\ Len(<<j, i>> \o Tail(s)) = Len(s) + 1
         /\ (<<j, i>> \o Tail(s))[1] = j /\ (<<j, i>> \o Tail(s))[2] = i
         /\ \A k \in 3 .. Len(s) + 1 : (<<j, i>> \o Tail(s))[k] = s[k - 1]
         /\ <<>> \o Tail(s) \in Seq(C) /\ Len(<<>> \o Tail(s)) = Len(s) - 1
         /\ \A k \in 1 .. Len(s) - 1 : (<<>> \o Tail(s))[k] = s[k + 1]
<1>0. ASSUME NEW x \in Seq(C)
      PROVE  /\ x \o Tail(s) \in Seq(C) /\ Len(x \o Tail(s)) = Len(x) + Len(s) - 1
             /\ \A k \in 1 .. Len(x) : (x \o Tail(s))[k] = x[k]
             /\ \A k \in Len(x) + 1 .. Len(x) + Len(s) - 1 : (x \o Tail(s))[k] = s[k + 1 - Len(x)]
  BY Replaced
<1>1. Head(s) = s[1] /\ s[1] \in C /\ Len(s) \in Nat \ {0}
  BY Replaced
<1>2. /\ <<i>> \o Tail(s) \in Seq(C) /\ Len(<<i>> \o Tail(s)) = Len(s)
      /\ (<<i>> \o Tail(s))[1] = i /\ \A k \in 2 .. Len(s) : (<<i>> \o Tail(s))[k] = s[k]
  <2> DEFINE h == <<i>>
  <2>1. h \in Seq(C) /\ Len(h) = 1 /\ h[1] = i
    OBVIOUS
  <2> HIDE DEF h
  <2>2. /\ h \o Tail(s) \in Seq(C) /\ Len(h \o Tail(s)) = Len(h) + Len(s) - 1
        /\ \A k \in 1 .. Len(h) : (h \o Tail(s))[k] = h[k]
        /\ \A k \in Len(h) + 1 .. Len(h) + Len(s) - 1 : (h \o Tail(s))[k] = s[k + 1 - Len(h)]
    BY <1>0, <2>1
  <2> DEFINE q == h \o Tail(s)
  <2>3. /\ q \in Seq(C) /\ Len(q) = Len(h) + Len(s) - 1
        /\ \A k \in 1 .. Len(h) : q[k] = h[k]
        /\ \A k \in Len(h) + 1 .. Len(h) + Len(s) - 1 : q[k] = s[k + 1 - Len(h)]
    BY <2>2
  <2> HIDE DEF q
  <2>4. Len(q) = Len(s) /\ q[1] = i
    BY <1>1, <2>1, <2>3
  <2>5. ASSUME NEW k \in 2 .. Len(s) PROVE q[k] = s[k]
    <3>1. k \in Len(h) + 1 .. Len(h) + Len(s) - 1 /\ k + 1 - Len(h) = k
      BY <1>1, <2>1
    <3> QED
      BY <2>3, <3>1
  <2> QED
    BY <2>3, <2>4, <2>5 DEF q, h
<1>3. /\ <<j, i>> \o Tail(s) \in Seq(C) /\ Len(<<j, i>> \o Tail(s)) = Len(s) + 1
      /\ (<<j, i>> \o Tail(s))[1] = j /\ (<<j, i>> \o Tail(s))[2] = i
      /\ \A k \in 3 .. Len(s) + 1 : (<<j, i>> \o Tail(s))[k] = s[k - 1]
  <2> DEFINE h == <<j, i>>
  <2>1. h \in Seq(C) /\ Len(h) = 2 /\ h[1] = j /\ h[2] = i
    OBVIOUS
  <2> HIDE DEF h
  <2>2. /\ h \o Tail(s) \in Seq(C) /\ Len(h \o Tail(s)) = Len(h) + Len(s) - 1
        /\ \A k \in 1 .. Len(h) : (h \o Tail(s))[k] = h[k]
        /\ \A k \in Len(h) + 1 .. Len(h) + Len(s) - 1 : (h \o Tail(s))[k] = s[k + 1 - Len(h)]
    BY <1>0, <2>1
  <2> DEFINE q == h \o Tail(s)
  <2>3. /\ q \in Seq(C) /\ Len(q) = Len(h) + Len(s) - 1
        /\ \A k \in 1 .. Len(h) : q[k] = h[k]
        /\ \A k \in Len(h) + 1 .. Len(h) + Len(s) - 1 : q[k] = s[k + 1 - Len(h)]
    BY <2>2
  <2> HIDE DEF q
  <2>4. Len(q) = Len(s) + 1 /\ q[1] = j /\ q[2] = i
    BY <1>1, <2>1, <2>3
  <2>5. ASSUME NEW k \in 3 .. Len(s) + 1 PROVE q[k] = s[k - 1]
    <3>1. k \in Len(h) + 1 .. Len(h) + Len(s) - 1 /\ k + 1 - Len(h) = k - 1
      BY <1>1, <2>1
    <3> QED
      BY <2>3, <3>1
  <2> QED
    BY <2>3, <2>4, <2>5 DEF q, h
<1>4. <<>> \o Tail(s) = Tail(s) /\ Tail(s) \in Seq(C) /\ Len(Tail(s)) = Len(s) - 1
  OBVIOUS
<1>5. \A k \in 1 .. Len(s) - 1 : Tail(s)[k] = s[k + 1]
  BY <1>1
<1> QED
  BY <1>1, <1>2, <1>3, <1>4, <1>5

-----------------------------------------------------------------------------
(* A thread that goes on stays on its track.                                 *)

\* What is ahead of the latest event stays ahead, and hidden code has no events.
LEMMA GoingOn ==
  ASSUME NEW p, IsProgram(p), NEW r \in Roles(p), Hidden(p, r) \cap RoleFunctions(p, r) = {},
         NEW s \in Seq(Code(p)), s # <<>>, NEW last, NEW m, Track(p, r, s, last, m)
  PROVE  /\ m > 0 => Here(p, r, s[1]) = {} /\ Latest(p, r, s, last) = last
         /\ m = 0 => /\ p.code[s[1]].fn \in RoleFunctions(p, r)
                     /\ \A j \in Successors(p)[s[1]] : Latest(p, r, s, last) # 0 =>
                           /\ Latest(p, r, s, last) \in Code(p) /\ Here(p, r, Latest(p, r, s, last)) # {}
                           /\ j \in Ahead(p, r, Latest(p, r, s, last))
<1> DEFINE new == Latest(p, r, s, last)
<1>1. s[1] \in Code(p) /\ Len(s) \in Nat \ {0} /\ m \in Nat
  BY Replaced DEF Track
<1>2. ASSUME m > 0 PROVE Here(p, r, s[1]) = {} /\ new = last
  <2>1. p.code[s[1]].fn \in Hidden(p, r)
    BY <1>1, <1>2 DEF Track
  <2>2. p.code[s[1]].fn \notin RoleFunctions(p, r)
    BY <2>1
  <2>3. Here(p, r, s[1]) = {}
    BY <2>2, HereIs
  <2> QED
    BY <2>3 DEF Latest
<1>3. ASSUME m = 0 PROVE p.code[s[1]].fn \in RoleFunctions(p, r)
  BY <1>1, <1>3 DEF Track
<1>4. ASSUME m = 0, NEW j \in Successors(p)[s[1]], new # 0
      PROVE  new \in Code(p) /\ Here(p, r, new) # {} /\ j \in Ahead(p, r, new)
  <2>1. CASE Here(p, r, s[1]) = {}
    <3>1. new = last
      BY <2>1 DEF Latest
    <3>2. last \in Code(p) /\ Here(p, r, last) # {} /\ s[1] \in Ahead(p, r, last)
      BY <1>4, <3>1 DEF Track
    <3>3. j \in Ahead(p, r, last)
      BY <2>1, <3>2, AheadIs
    <3> QED
      BY <3>1, <3>2, <3>3
  <2>2. CASE Here(p, r, s[1]) # {}
    <3>1. new = s[1]
      BY <2>2 DEF Latest
    <3>2. j \in Ahead(p, r, s[1])
      BY <1>1, AheadIs
    <3> QED
      BY <1>1, <2>2, <3>1, <3>2
  <2> QED
    BY <2>1, <2>2
<1> QED
  BY <1>2, <1>3, <1>4

\* To the next instruction of the function.
LEMMA TrackNext ==
  ASSUME NEW p, IsProgram(p), NEW r \in Roles(p), Hidden(p, r) \cap RoleFunctions(p, r) = {},
         NEW s \in Seq(Code(p)), s # <<>>, NEW last, NEW m, Track(p, r, s, last, m),
         NEW i \in p.code[s[1]].next
  PROVE  Track(p, r, <<i>> \o Tail(s), Latest(p, r, s, last), m)
<1> DEFINE q == <<i>> \o Tail(s)
           new == Latest(p, r, s, last)
<1>1. s[1] \in Code(p) /\ Len(s) \in Nat \ {0} /\ m \in Nat /\ m < Len(s)
  BY Replaced DEF Track
<1>2. i \in Code(p) /\ p.code[i].fn = p.code[s[1]].fn /\ i \in Successors(p)[s[1]]
  BY <1>1 DEF IsProgram, NodesOf, Successors
<1>3. q \in Seq(Code(p)) /\ Len(q) = Len(s) /\ q[1] = i /\ \A k \in 2 .. Len(s) : q[k] = s[k]
  BY <1>2, Stacks
<1> HIDE DEF q, new
<1>4. \A k \in 1 .. Len(s) : p.code[q[k]].fn = p.code[s[k]].fn
  <2> SUFFICES ASSUME NEW k \in 1 .. Len(s) PROVE p.code[q[k]].fn = p.code[s[k]].fn
    OBVIOUS
  <2>1. CASE k = 1
    BY <1>2, <1>3, <2>1
  <2>2. CASE k # 1
    BY <1>1, <1>3, <2>2
  <2> QED
    BY <2>1, <2>2
<1>5. \A k \in 1 .. m : p.code[q[k]].fn \in Hidden(p, r)
  BY <1>1, <1>4 DEF Track
<1>6. \A k \in m + 1 .. Len(q) : p.code[q[k]].fn \in RoleFunctions(p, r)
  BY <1>1, <1>3, <1>4 DEF Track
<1>7. ASSUME NEW k \in m + 1 .. Len(q) - 1 PROVE Linked(p, q[k], q[k + 1])
  <2>1. k \in m + 1 .. Len(s) - 1 /\ k \in 1 .. Len(s) /\ k + 1 \in 2 .. Len(s)
    BY <1>1, <1>3
  <2>2. Linked(p, s[k], s[k + 1])
    BY <2>1 DEF Track
  <2>3. q[k + 1] = s[k + 1] /\ p.code[q[k]].fn = p.code[s[k]].fn
    BY <1>3, <1>4, <2>1
  <2> QED
    BY <2>2, <2>3 DEF Linked
<1>8. CASE m = 0
  <2>1. new # 0 => new \in Code(p) /\ Here(p, r, new) # {} /\ q[m + 1] \in Ahead(p, r, new)
    <3>1. q[m + 1] = i
      BY <1>3, <1>8
    <3>2. new # 0 => new \in Code(p) /\ Here(p, r, new) # {} /\ i \in Ahead(p, r, new)
      BY <1>2, <1>8, GoingOn DEF new
    <3> QED
      BY <3>1, <3>2
  <2> QED
    BY <1>1, <1>3, <1>5, <1>6, <1>7, <1>8, <2>1 DEF Track, q, new
<1>9. CASE m > 0
  <2>1. new = last
    BY <1>9, GoingOn DEF new
  <2>2. q[m + 1] = s[m + 1]
    BY <1>1, <1>3, <1>9
  <2> QED
    BY <1>1, <1>3, <1>5, <1>6, <1>7, <1>9, <2>1, <2>2 DEF Track, q, new
<1> QED
  BY <1>1, <1>8, <1>9

\* Back to the caller.
LEMMA TrackReturn ==
  ASSUME NEW p, IsProgram(p), NEW r \in Roles(p), Hidden(p, r) \cap RoleFunctions(p, r) = {},
         NEW s \in Seq(Code(p)), s # <<>>, NEW last, NEW m, Track(p, r, s, last, m),
         p.code[s[1]].op = "return", Len(s) > 1
  PROVE  \E n : Track(p, r, <<>> \o Tail(s), Latest(p, r, s, last), n)
<1> DEFINE q == <<>> \o Tail(s)
           new == Latest(p, r, s, last)
<1>1. s[1] \in Code(p) /\ Len(s) \in Nat \ {0} /\ m \in Nat /\ m < Len(s)
  BY Replaced DEF Track
<1>2. q \in Seq(Code(p)) /\ Len(q) = Len(s) - 1 /\ \A k \in 1 .. Len(s) - 1 : q[k] = s[k + 1]
  BY <1>1, Stacks
<1> DEFINE n == IF m = 0 THEN 0 ELSE m - 1
<1> HIDE DEF q, new
<1>3. n \in Nat /\ n < Len(q)
  BY <1>1, <1>2
<1>4. ASSUME NEW k \in 1 .. n PROVE p.code[q[k]].fn \in Hidden(p, r)
  <2>1. k + 1 \in 1 .. m /\ k \in 1 .. Len(s) - 1
    BY <1>1, <1>4
  <2> QED
    BY <1>2, <2>1 DEF Track
<1>5. ASSUME NEW k \in n + 1 .. Len(q) PROVE p.code[q[k]].fn \in RoleFunctions(p, r)
  <2>1. k + 1 \in m + 1 .. Len(s) /\ k \in 1 .. Len(s) - 1
    BY <1>1, <1>2, <1>5
  <2> QED
    BY <1>2, <2>1 DEF Track
<1>6. ASSUME NEW k \in n + 1 .. Len(q) - 1 PROVE Linked(p, q[k], q[k + 1])
  <2>1. k + 1 \in m + 1 .. Len(s) - 1 /\ k \in 1 .. Len(s) - 1 /\ k + 1 \in 1 .. Len(s) - 1
    BY <1>1, <1>2, <1>6
  <2>2. Linked(p, s[k + 1], s[(k + 1) + 1])
    BY <2>1 DEF Track
  <2> QED
    BY <1>2, <2>1, <2>2
<1>7. CASE m = 0
  <2>1. Linked(p, s[1], s[2])
    BY <1>1, <1>7 DEF Track
  <2>2. s[2] \in Successors(p)[s[1]]
    BY <1>1, <2>1 DEF Linked, Successors
  <2>3. q[1] = s[2]
    BY <1>1, <1>2
  <2>4. new # 0 => new \in Code(p) /\ Here(p, r, new) # {} /\ q[n + 1] \in Ahead(p, r, new)
    <3>1. new # 0 => new \in Code(p) /\ Here(p, r, new) # {} /\ s[2] \in Ahead(p, r, new)
      BY <1>7, <2>2, GoingOn DEF new
    <3>2. n + 1 = 1
      BY <1>7
    <3> QED
      BY <2>3, <3>1, <3>2
  <2>5. Track(p, r, q, new, n)
    BY <1>3, <1>4, <1>5, <1>6, <1>7, <2>4 DEF Track
  <2> QED
    BY <2>5 DEF q, new
<1>8. CASE m > 0
  <2>1. new = last
    BY <1>8, GoingOn DEF new
  <2>2. n + 1 = m /\ q[m] = s[m + 1]
    BY <1>1, <1>2, <1>8
  <2>3. /\ last # 0 => last \in Code(p) /\ Here(p, r, last) # {} /\ q[n + 1] \in Ahead(p, r, last)
        /\ n > 0 => /\ last # 0 /\ last \in Calls(p) /\ Left(p, last)
                    /\ \A e \in Here(p, r, last) : e.kind \in OpaqueKinds
    BY <1>1, <1>8, <2>2 DEF Track
  <2> HIDE DEF n
  <2>4. Track(p, r, q, new, n)
    BY <1>3, <1>4, <1>5, <1>6, <2>1, <2>3 DEF Track
  <2> QED
    BY <2>4 DEF q, new
<1> QED
  BY <1>1, <1>7, <1>8

\* The start of a thread.
LEMMA TrackBegin ==
  ASSUME NEW p, IsProgram(p), NEW r \in Roles(p), NEW f \in Starts(p, r)
  PROVE  Track(p, r, <<p.entry[f]>>, 0, 0)
<1> DEFINE s == <<p.entry[f]>>
<1>1. f \in RoleFunctions(p, r) /\ f \in Functions(p)
  BY RoleFunctionsAre
<1>2. p.code[p.entry[f]].fn = f
  BY <1>1 DEF IsProgram, NodesOf
<1>3. Len(s) = 1 /\ s[1] = p.entry[f]
  OBVIOUS
<1> HIDE DEF s
<1>4. \A k \in 1 .. Len(s) : p.code[s[k]].fn \in RoleFunctions(p, r)
  BY <1>1, <1>2, <1>3
<1> QED
  BY <1>3, <1>4 DEF Track, s

\* Into the function a call goes to, whether it is known to go there or not.
LEMMA TrackCall ==
  ASSUME NEW p, IsProgram(p), NEW r \in Roles(p), Hidden(p, r) \cap RoleFunctions(p, r) = {},
         NEW s \in Seq(Code(p)), s # <<>>, NEW last, NEW m, Track(p, r, s, last, m),
         s[1] \in Calls(p), p.code[s[1]].goes # "none", Within(p, s[1]), NEW i \in p.code[s[1]].next
  PROVE  \E n : Track(p, r, <<p.entry[p.code[s[1]].goes], i>> \o Tail(s), Latest(p, r, s, last), n)
<1> DEFINE g == p.code[s[1]].goes
           q == <<p.entry[g], i>> \o Tail(s)
           new == Latest(p, r, s, last)
<1>1. s[1] \in Code(p) /\ Len(s) \in Nat \ {0} /\ m \in Nat /\ m < Len(s)
  BY Replaced DEF Track
<1>2. i \in Code(p) /\ p.code[i].fn = p.code[s[1]].fn /\ i \in Successors(p)[s[1]]
  BY <1>1 DEF IsProgram, NodesOf, Successors
<1>3. g \in Functions(p)
  BY <1>1 DEF IsProgram
<1>4. p.entry[g] \in Code(p) /\ p.code[p.entry[g]].fn = g
  BY <1>3 DEF IsProgram, NodesOf
<1>5. /\ q \in Seq(Code(p)) /\ Len(q) = Len(s) + 1 /\ q[1] = p.entry[g] /\ q[2] = i
      /\ \A k \in 3 .. Len(s) + 1 : q[k] = s[k - 1]
  BY <1>2, <1>4, Stacks
<1> HIDE DEF q, new, g
<1>6. \A k \in 2 .. Len(s) + 1 : p.code[q[k]].fn = p.code[s[k - 1]].fn
  <2> SUFFICES ASSUME NEW k \in 2 .. Len(s) + 1 PROVE p.code[q[k]].fn = p.code[s[k - 1]].fn
    OBVIOUS
  <2>1. CASE k = 2
    BY <1>2, <1>5, <2>1
  <2>2. CASE k # 2
    BY <1>1, <1>5, <2>2
  <2> QED
    BY <2>1, <2>2
<1>7. ASSUME NEW k \in 2 .. Len(s), k > m + 1 PROVE Linked(p, q[k], q[k + 1])
  <2>1. k - 1 \in m + 1 .. Len(s) - 1 /\ k \in 2 .. Len(s) + 1 /\ k + 1 \in 3 .. Len(s) + 1
    BY <1>1, <1>7
  <2>2. Linked(p, s[k - 1], s[(k - 1) + 1])
    BY <2>1 DEF Track
  <2>3. q[k + 1] = s[(k - 1) + 1]
    <3>1. q[k + 1] = s[(k + 1) - 1]
      BY <1>5, <2>1
    <3>2. (k + 1) - 1 = (k - 1) + 1
      BY <1>1
    <3> QED
      BY <3>1, <3>2
  <2>4. p.code[q[k]].fn = p.code[s[k - 1]].fn
    BY <1>6, <2>1
  <2> QED
    BY <2>2, <2>3, <2>4 DEF Linked
<1>8. CASE m = 0 /\ g \in p.code[s[1]].callees
  <2>1. p.code[s[1]].fn \in RoleFunctions(p, r)
    BY <1>8, GoingOn
  <2>2. g \in RoleFunctions(p, r)
    BY <1>8, <2>1, RoleFunctionsAre
  <2>3. ASSUME NEW k \in 1 .. Len(q) PROVE p.code[q[k]].fn \in RoleFunctions(p, r)
    <3>1. CASE k = 1
      BY <1>4, <1>5, <2>2, <3>1
    <3>2. CASE k # 1
      <4>1. k \in 2 .. Len(s) + 1 /\ k - 1 \in m + 1 .. Len(s)
        BY <1>1, <1>5, <1>8, <3>2
      <4> QED
        BY <1>6, <4>1 DEF Track
    <3> QED
      BY <3>1, <3>2
  <2>4. ASSUME NEW k \in 1 .. Len(q) - 1 PROVE Linked(p, q[k], q[k + 1])
    <3>1. CASE k = 1
      <4>1. q[k + 1] = i /\ p.code[q[k]].fn = g
        BY <1>4, <1>5, <3>1
      <4> QED
        BY <1>8, <4>1 DEF Linked
    <3>2. CASE k # 1
      <4>1. k \in 2 .. Len(s) /\ k > m + 1
        BY <1>1, <1>5, <1>8, <3>2
      <4> QED
        BY <1>7, <4>1
    <3> QED
      BY <3>1, <3>2
  <2>5. p.entry[g] \in Successors(p)[s[1]]
    BY <1>1, <1>8 DEF Successors
  <2>6. new # 0 => new \in Code(p) /\ Here(p, r, new) # {} /\ q[1] \in Ahead(p, r, new)
    BY <1>5, <1>8, <2>5, GoingOn DEF new
  <2>7. Track(p, r, q, new, 0)
    BY <1>1, <1>5, <2>3, <2>4, <2>6 DEF Track
  <2> QED
    BY <2>7 DEF q, new, g
<1>9. CASE m = 0 /\ g \notin p.code[s[1]].callees
  <2>1. p.code[s[1]].fn \in RoleFunctions(p, r)
    BY <1>9, GoingOn
  <2>2. g \in Hidden(p, r)
    BY <1>9, <2>1, HiddenIs DEF g
  <2>3. ~ p.code[s[1]].closed /\ p.code[s[1]].op = "indirect"
    BY <1>1, <1>9 DEF IsProgram, Calls, g
  <2>4. KindOf(p, p.code[s[1]]) = {"Opaque"}
    BY <2>3 DEF KindOf
  <2>5. Here(p, r, s[1]) # {} /\ \A e \in Here(p, r, s[1]) : e.kind \in OpaqueKinds
    BY <1>1, <2>1, <2>4, HereIs DEF OpaqueKinds
  <2>6. new = s[1]
    BY <2>5 DEF Latest, new
  <2>7. new \in Code(p) /\ Here(p, r, new) # {} /\ i \in Ahead(p, r, new) /\ new # 0
    BY <1>1, <1>2, <1>9, <2>5, <2>6, GoingOn DEF IsProgram, new
  <2>8. ASSUME NEW k \in 2 .. Len(q) PROVE p.code[q[k]].fn \in RoleFunctions(p, r)
    <3>1. k \in 2 .. Len(s) + 1 /\ k - 1 \in m + 1 .. Len(s)
      BY <1>1, <1>5, <1>9
    <3> QED
      BY <1>6, <3>1 DEF Track
  <2>9. ASSUME NEW k \in 2 .. Len(q) - 1 PROVE Linked(p, q[k], q[k + 1])
    <3>1. k \in 2 .. Len(s) /\ k > m + 1
      BY <1>1, <1>5, <1>9
    <3> QED
      BY <1>7, <3>1
  <2>10. \A k \in 1 .. 1 : p.code[q[k]].fn \in Hidden(p, r)
    BY <1>4, <1>5, <2>2
  <2>11. Track(p, r, q, new, 1)
    <3>1. 1 < Len(q) /\ 1 + 1 = 2
      BY <1>1, <1>5
    <3>2. new \in Calls(p) /\ Left(p, new)
      BY <1>9, <2>6 DEF Left, g
    <3> QED
      BY <1>5, <2>5, <2>6, <2>7, <2>8, <2>9, <2>10, <3>1, <3>2 DEF Track
  <2> QED
    BY <2>11 DEF q, new, g
<1>10. CASE m > 0
  <2>1. new = last
    BY <1>10, GoingOn DEF new
  <2>2. p.code[s[1]].fn \in Hidden(p, r)
    BY <1>1, <1>10 DEF Track
  <2>3. g \in Hidden(p, r)
    BY <2>2, HiddenIs DEF g
  <2>4. m + 1 \in Nat /\ m + 1 < Len(q)
    BY <1>1, <1>5
  <2>5. ASSUME NEW k \in 1 .. m + 1 PROVE p.code[q[k]].fn \in Hidden(p, r)
    <3>1. CASE k = 1
      BY <1>4, <1>5, <2>3, <3>1
    <3>2. CASE k # 1
      <4>1. k \in 2 .. Len(s) + 1 /\ k - 1 \in 1 .. m
        BY <1>1, <1>10, <3>2
      <4> QED
        BY <1>6, <4>1 DEF Track
    <3> QED
      BY <3>1, <3>2
  <2>6. ASSUME NEW k \in (m + 1) + 1 .. Len(q) PROVE p.code[q[k]].fn \in RoleFunctions(p, r)
    <3>1. k \in 2 .. Len(s) + 1 /\ k - 1 \in m + 1 .. Len(s)
      BY <1>1, <1>5, <1>10
    <3> QED
      BY <1>6, <3>1 DEF Track
  <2>7. ASSUME NEW k \in (m + 1) + 1 .. Len(q) - 1 PROVE Linked(p, q[k], q[k + 1])
    <3>1. k \in 2 .. Len(s) /\ k > m + 1
      BY <1>1, <1>5, <1>10
    <3> QED
      BY <1>7, <3>1
  <2>8. q[(m + 1) + 1] = s[m + 1]
    <3>1. m + 2 \in 3 .. Len(s) + 1 /\ (m + 2) - 1 = m + 1 /\ (m + 1) + 1 = m + 2
      BY <1>1, <1>10
    <3> QED
      BY <1>5, <3>1
  <2>9. last # 0 /\ last \in Code(p) /\ Here(p, r, last) # {} /\ s[m + 1] \in Ahead(p, r, last)
        /\ last \in Calls(p) /\ Left(p, last) /\ \A e \in Here(p, r, last) : e.kind \in OpaqueKinds
    BY <1>10 DEF Track
  <2>10. Track(p, r, q, new, m + 1)
    BY <2>1, <2>4, <2>5, <2>6, <2>7, <2>8, <2>9 DEF Track
  <2> QED
    BY <2>10 DEF q, new, g
<1>11. m = 0 \/ m > 0
  BY <1>1
<1> QED
  BY <1>8, <1>9, <1>10, <1>11

-----------------------------------------------------------------------------
(* Threads.                                                                  *)

\* The records a thread of the program may have.
ThreadRecords(p) ==
  [state : {"none", "running", "waiting", "ended"}, role : {0} \cup Code(p), stack : Seq(Code(p)),
   last : {0} \cup Code(p)]

\* A thread that has started and not ended.
Moving(a) == a.state \in {"running", "waiting"}

\* The thread goes on with the stack s, its event behind it.
Advance(p, a, s) ==
  [state |-> "running", role |-> a.role, stack |-> s, last |-> Latest(p, a.role, a.stack, a.last)]

\* What one step of its own makes of a thread.
Onward(p, a, b) ==
  LET i == a.stack[1]
  IN  \/ \E j \in p.code[i].next : b = Advance(p, a, <<j>> \o Tail(a.stack))
      \/ /\ i \in Calls(p) /\ p.code[i].goes # "none"
         /\ \E j \in p.code[i].next : b = Advance(p, a, <<p.entry[p.code[i].goes], j>> \o Tail(a.stack))
      \/ /\ p.code[i].op = "return" /\ Len(a.stack) > 1
         /\ b = Advance(p, a, <<>> \o Tail(a.stack))

\* The start of a thread at the creation or the region i.
Begun(p, i) == [state |-> "running", role |-> i, stack |-> <<p.entry[p.code[i].goes]>>, last |-> 0]

\* A thread that has a stack is in code, and where its events can be told.
Sound(p, a) ==
  /\ a \in ThreadRecords(p)
  /\ a.state # "none" => a.stack # <<>>
  /\ a.state = "waiting" => p.code[a.stack[1]].op = "region"
  /\ /\ Moving(a) /\ a.role \in Roles(p) /\ Starts(p, a.role) # {}
     /\ Hidden(p, a.role) \cap RoleFunctions(p, a.role) = {}
     => \E m : Track(p, a.role, a.stack, a.last, m)

\* A step of its own keeps a thread on its track.
LEMMA SoundOnward ==
  ASSUME NEW p, IsProgram(p), NEW a, Sound(p, a), Moving(a), Within(p, a.stack[1]), NEW b, Onward(p, a, b)
  PROVE  Sound(p, b)
<1> DEFINE s == a.stack
           i == s[1]
           r == a.role
<1>1. a \in ThreadRecords(p) /\ s \in Seq(Code(p)) /\ s # <<>> /\ r \in {0} \cup Code(p)
  BY DEF Sound, Moving, ThreadRecords
<1>2. i \in Code(p) /\ Len(s) \in Nat \ {0}
  BY <1>1, Replaced
<1>3. Latest(p, r, s, a.last) \in {0} \cup Code(p)
  BY <1>1, <1>2 DEF Latest, ThreadRecords
<1>4. \A j \in p.code[i].next : j \in Code(p)
  BY <1>2 DEF IsProgram, NodesOf
<1>5. i \in Calls(p) /\ p.code[i].goes # "none" => p.entry[p.code[i].goes] \in Code(p)
  <2> SUFFICES ASSUME i \in Calls(p), p.code[i].goes # "none" PROVE p.entry[p.code[i].goes] \in Code(p)
    OBVIOUS
  <2>1. p.code[i].goes \in Functions(p)
    BY <1>2 DEF IsProgram
  <2> QED
    BY <2>1 DEF IsProgram, NodesOf
<1>6. ASSUME NEW q \in Seq(Code(p)), q # <<>>, b = Advance(p, a, q),
             r \in Roles(p) /\ Starts(p, r) # {} /\ Hidden(p, r) \cap RoleFunctions(p, r) = {}
               => \E m : Track(p, r, q, Latest(p, r, s, a.last), m)
      PROVE  Sound(p, b)
  <2>1. b.state = "running" /\ b.role = r /\ b.stack = q /\ b.last = Latest(p, r, s, a.last)
    BY <1>6 DEF Advance
  <2>2. b \in ThreadRecords(p)
    BY <1>1, <1>3, <1>6 DEF Advance, ThreadRecords
  <2> QED
    BY <1>6, <2>1, <2>2 DEF Sound
<1> DEFINE tracked == r \in Roles(p) /\ Starts(p, r) # {} /\ Hidden(p, r) \cap RoleFunctions(p, r) = {}
<1>7. tracked => \E m : Track(p, r, s, a.last, m)
  BY DEF Sound
<1>8. CASE \E j \in p.code[i].next : b = Advance(p, a, <<j>> \o Tail(s))
  <2>1. PICK j \in p.code[i].next : b = Advance(p, a, <<j>> \o Tail(s))
    BY <1>8
  <2>2. /\ <<j>> \o Tail(s) \in Seq(Code(p)) /\ Len(<<j>> \o Tail(s)) = Len(s)
        /\ (<<j>> \o Tail(s))[1] = j
    BY <1>1, <1>4, Stacks
  <2> DEFINE q == <<j>> \o Tail(s)
  <2>3. tracked => \E m : Track(p, r, q, Latest(p, r, s, a.last), m)
    <3> SUFFICES ASSUME tracked PROVE \E m : Track(p, r, q, Latest(p, r, s, a.last), m)
      OBVIOUS
    <3>1. PICK m : Track(p, r, s, a.last, m)
      BY <1>7
    <3>2. Track(p, r, q, Latest(p, r, s, a.last), m)
      BY <1>1, <3>1, TrackNext
    <3> QED
      BY <3>2
  <2>4. q \in Seq(Code(p)) /\ Len(q) > 0 /\ b = Advance(p, a, q)
    BY <1>2, <2>1, <2>2
  <2> HIDE DEF q, tracked
  <2>5. q # <<>>
    BY <2>4
  <2> QED
    BY <1>6, <2>3, <2>4, <2>5 DEF tracked
<1>9. CASE /\ i \in Calls(p) /\ p.code[i].goes # "none"
           /\ \E j \in p.code[i].next : b = Advance(p, a, <<p.entry[p.code[i].goes], j>> \o Tail(s))
  <2>1. PICK j \in p.code[i].next : b = Advance(p, a, <<p.entry[p.code[i].goes], j>> \o Tail(s))
    BY <1>9
  <2> DEFINE e == p.entry[p.code[i].goes]
  <2>2. <<e, j>> \o Tail(s) \in Seq(Code(p)) /\ Len(<<e, j>> \o Tail(s)) = Len(s) + 1
    <3>1. e \in Code(p) /\ j \in Code(p)
      BY <1>4, <1>5, <1>9
    <3> HIDE DEF e, s
    <3> QED
      BY <1>1, <3>1, Stacks
  <2> DEFINE q == <<e, j>> \o Tail(s)
  <2>3. tracked => \E m : Track(p, r, q, Latest(p, r, s, a.last), m)
    <3> SUFFICES ASSUME tracked PROVE \E m : Track(p, r, q, Latest(p, r, s, a.last), m)
      OBVIOUS
    <3>1. PICK m : Track(p, r, s, a.last, m)
      BY <1>7
    <3> QED
      BY <1>1, <1>9, <3>1, TrackCall
  <2>4. q \in Seq(Code(p)) /\ Len(q) > 0 /\ b = Advance(p, a, q)
    BY <1>2, <2>1, <2>2
  <2> HIDE DEF q, tracked
  <2>5. q # <<>>
    BY <2>4
  <2> QED
    BY <1>6, <2>3, <2>4, <2>5 DEF tracked
<1>10. CASE /\ p.code[i].op = "return" /\ Len(s) > 1
            /\ b = Advance(p, a, <<>> \o Tail(s))
  <2>1. <<>> \o Tail(s) \in Seq(Code(p)) /\ Len(<<>> \o Tail(s)) = Len(s) - 1
    BY <1>1, <1>2, Stacks
  <2> DEFINE q == <<>> \o Tail(s)
  <2>2. tracked => \E m : Track(p, r, q, Latest(p, r, s, a.last), m)
    <3> SUFFICES ASSUME tracked PROVE \E m : Track(p, r, q, Latest(p, r, s, a.last), m)
      OBVIOUS
    <3>1. PICK m : Track(p, r, s, a.last, m)
      BY <1>7
    <3> QED
      BY <1>1, <1>10, <3>1, TrackReturn
  <2>3. q \in Seq(Code(p)) /\ Len(q) > 0 /\ b = Advance(p, a, q)
    BY <1>2, <1>10, <2>1
  <2> HIDE DEF q, tracked
  <2>4. q # <<>>
    BY <2>3
  <2> QED
    BY <1>6, <2>2, <2>3, <2>4 DEF tracked
<1> QED
  BY <1>8, <1>9, <1>10 DEF Onward

\* A thread starts in a function its role starts with, if that is known.
LEMMA SoundBegun ==
  ASSUME NEW p, IsProgram(p), NEW i \in Creates(p) \cup Regions(p)
  PROVE  Sound(p, Begun(p, i))
<1> DEFINE g == p.code[i].goes
           b == Begun(p, i)
<1>1. i \in Code(p) /\ g \in Functions(p)
  BY DEF IsProgram, Creates, Regions
<1>2. p.entry[g] \in Code(p)
  BY <1>1 DEF IsProgram, NodesOf
<1>3. b.state = "running" /\ b.role = i /\ b.stack = <<p.entry[g]>> /\ b.last = 0 /\ b.stack # <<>>
  BY DEF Begun
<1>4. b \in ThreadRecords(p)
  BY <1>1, <1>2 DEF Begun, ThreadRecords
<1>5. ASSUME i \in Roles(p), Starts(p, i) # {} PROVE \E m : Track(p, i, <<p.entry[g]>>, 0, m)
  <2>1. i # 0
    BY <1>1 DEF IsProgram
  <2>2. p.code[i].closed /\ Starts(p, i) = p.code[i].callees
    BY <1>5, <2>1 DEF Starts
  <2>3. g \in p.code[i].callees
    <3>1. g \in p.code[i].callees \cup {"none"} /\ g # "none"
      BY <1>1, <2>2 DEF IsProgram
    <3> QED
      BY <3>1
  <2> QED
    BY <1>5, <2>2, <2>3, TrackBegin
<1> HIDE DEF g, b
<1>6. b.role \in Roles(p) /\ Starts(p, b.role) # {} => \E m : Track(p, b.role, b.stack, b.last, m)
  BY <1>3, <1>5
<1> QED
  BY <1>3, <1>4, <1>6 DEF Sound, b

\* The same for main.
LEMMA SoundMain ==
  ASSUME NEW p, IsProgram(p)
  PROVE  /\ Sound(p, [state |-> "running", role |-> 0, stack |-> <<p.entry["main"]>>, last |-> 0])
         /\ Sound(p, Nobody)
<1> DEFINE b == [state |-> "running", role |-> 0, stack |-> <<p.entry["main"]>>, last |-> 0]
<1>1. p.entry["main"] \in Code(p) /\ 0 \in Roles(p) /\ Starts(p, 0) = {"main"}
  BY DEF IsProgram, NodesOf, Roles, Starts
<1>2. b.state = "running" /\ b.role = 0 /\ b.stack = <<p.entry["main"]>> /\ b.last = 0 /\ b.stack # <<>>
  OBVIOUS
<1>3. b \in ThreadRecords(p)
  BY <1>1 DEF ThreadRecords
<1>4. Track(p, 0, <<p.entry["main"]>>, 0, 0)
  BY <1>1, TrackBegin
<1> HIDE DEF b
<1>5. Sound(p, b)
  BY <1>2, <1>3, <1>4 DEF Sound
<1>6. Sound(p, Nobody)
  <2>1. Nobody \in ThreadRecords(p) /\ Nobody.state = "none"
    BY DEF Nobody, ThreadRecords
  <2> QED
    BY <2>1 DEF Sound, Moving
<1> QED
  BY <1>5, <1>6 DEF b

\* A thread that ends or waits stays where it is.
LEMMA SoundStays ==
  ASSUME NEW p, NEW a, Sound(p, a), Moving(a), NEW st \in {"running", "waiting", "ended"},
         st = "waiting" => p.code[a.stack[1]].op = "region"
  PROVE  Sound(p, [a EXCEPT !.state = st])
<1> DEFINE b == [a EXCEPT !.state = st]
<1>1. a \in ThreadRecords(p)
  BY DEF Sound
<1>2. /\ b \in ThreadRecords(p) /\ b.state = st /\ b.role = a.role /\ b.stack = a.stack
      /\ b.last = a.last
  BY <1>1 DEF ThreadRecords
<1> HIDE DEF b
<1> QED
  <2>1. b.stack # <<>>
    BY <1>2 DEF Sound, Moving
  <2>2. /\ b.role \in Roles(p) /\ Starts(p, b.role) # {}
        /\ Hidden(p, b.role) \cap RoleFunctions(p, b.role) = {}
        => \E m : Track(p, b.role, b.stack, b.last, m)
    BY <1>2 DEF Sound
  <2> QED
    BY <1>2, <2>1, <2>2 DEF Sound, b

-----------------------------------------------------------------------------
(* The run as a whole.                                                       *)

\* The events and their order are those of the program.
Recovered == events = Extracted(prog) /\ order = ProgramOrder(prog, events)

\* What the analysis has computed so far, and that nothing runs before the end.
StagesInv ==
  /\ prog \in Programs
  /\ stage = "recovered" => events = {}
  /\ events # {} => Recovered
  /\ events # {} /\ stage \notin {"recovered", "extracted"} => shared = SharedStateOf(prog, events, order)
  /\ stage = "running" => events # {}
  /\ stage # "running" => \A t \in Threads : threads[t] = Nobody

\* Every thread of the run is on its track.
RunInv ==
  /\ StagesInv
  /\ DOMAIN threads = Threads
  /\ \A t \in Threads : Sound(prog, threads[t])

\* A thread in the run is at an instruction of the program, with its events.
LEMMA EventsAtIs ==
  ASSUME RunInv, stage = "running", NEW t \in Threads, Moving(threads[t])
  PROVE  /\ IsProgram(prog) /\ Recovered
         /\ threads[t] \in ThreadRecords(prog) /\ threads[t].stack # <<>>
         /\ At(t) = threads[t].stack[1] /\ At(t) \in Code(prog)
         /\ EventsAt(t) = Here(prog, threads[t].role, At(t))
<1>1. IsProgram(prog) /\ Recovered
  BY ProgramsAreRecovered DEF RunInv, StagesInv
<1>2. threads[t] \in ThreadRecords(prog) /\ threads[t].stack # <<>>
  BY DEF RunInv, Sound, Moving
<1>3. At(t) = threads[t].stack[1] /\ At(t) \in Code(prog)
  <2>1. threads[t].stack \in Seq(Code(prog))
    BY <1>2 DEF ThreadRecords
  <2> QED
    BY <1>2, <2>1, Replaced DEF At
<1>4. EventsAt(t) = Here(prog, threads[t].role, At(t))
  BY <1>1 DEF Recovered, EventsAt, Here
<1> QED
  BY <1>1, <1>2, <1>3, <1>4

\* Past and Advance make the same record.
LEMMA PastIs ==
  ASSUME RunInv, stage = "running", NEW t \in Threads, Moving(threads[t]), NEW s
  PROVE  /\ threads[t].state = "running" => Past(t, s) = Advance(prog, threads[t], s \o Tail(threads[t].stack))
         /\ [Past(t, s) EXCEPT !.state = "running"] = Advance(prog, threads[t], s \o Tail(threads[t].stack))
<1> DEFINE a == threads[t]
           last == IF EventsAt(t) = {} THEN a.last ELSE At(t)
<1>1. a \in ThreadRecords(prog)
  BY EventsAtIs
<1>2. last = Latest(prog, a.role, a.stack, a.last)
  BY EventsAtIs DEF Latest
<1>3. Past(t, s) = [a EXCEPT !.stack = s \o Tail(a.stack), !.last = last]
  BY <1>1 DEF Past, ThreadRecords
<1> HIDE DEF a, last
<1>4. Past(t, s) = [state |-> a.state, role |-> a.role, stack |-> s \o Tail(a.stack), last |-> last]
  BY <1>1, <1>3 DEF ThreadRecords
<1> DEFINE q == s \o Tail(a.stack)
<1>5. Advance(prog, a, q) = [state |-> "running", role |-> a.role, stack |-> q, last |-> last]
  BY <1>2 DEF Advance
<1>6. Past(t, s) = [state |-> a.state, role |-> a.role, stack |-> q, last |-> last]
  BY <1>4
<1> HIDE DEF q
<1>7. [Past(t, s) EXCEPT !.state = "running"] = Advance(prog, a, q)
  BY <1>5, <1>6
<1>8. a.state = "running" => Past(t, s) = Advance(prog, a, q)
  BY <1>5, <1>6
<1> QED
  BY <1>7, <1>8 DEF a, q

\* What one step of the thread t makes of a thread, which has become b.
Became(t, u, b) ==
  \/ b = threads[u] \/ b = Nobody
  \/ u = t /\ b = [threads[t] EXCEPT !.state = "ended"]
  \/ u = t /\ b = [threads[t] EXCEPT !.state = "waiting"] /\ Instr(t).op = "region"
  \/ At(t) \in Creates(prog) \cup Regions(prog) /\ b = Begun(prog, At(t))
  \/ u = t /\ Onward(prog, threads[t], b)

\* No thread of a run in scope is at an instruction that fails.
LEMMA ScopeIs ==
  ASSUME RunInv, stage = "running", InScope, NEW t \in Threads, Moving(threads[t])
  PROVE  Within(prog, threads[t].stack[1])
<1>1. t \in Alive /\ At(t) = threads[t].stack[1]
  BY EventsAtIs DEF Alive, Moving
<1> QED
  BY <1>1 DEF InScope, Within

\* What one step of the run makes of every thread, and of the locks.
LEMMA MoveIs ==
  ASSUME RunInv, stage = "running", NEW t \in Threads, Move(t)
  PROVE  /\ Moving(threads[t])
         /\ DOMAIN threads' = Threads
         /\ \A u \in Threads : Became(t, u, threads'[u])
         /\ \/ held' = held /\ Instr(t).op \notin {"acquire", "release"}
            \/ /\ Instr(t).op = "acquire" /\ held' = held \cup {<<Lock(t), t>>}
               /\ Onward(prog, threads[t], threads'[t])
            \/ /\ Instr(t).op = "release" /\ held' = held \ {<<Lock(t), t>>}
               /\ Onward(prog, threads[t], threads'[t])
<1>1. Moving(threads[t])
  BY DEF Move, RegionEnds, Running, Moving
<1>2. DOMAIN threads = Threads
  BY DEF RunInv
<1>3. /\ At(t) = threads[t].stack[1] /\ At(t) \in Code(prog) /\ Instr(t) = prog.code[At(t)]
      /\ Instr(t) = prog.code[threads[t].stack[1]]
  BY <1>1, EventsAtIs DEF Instr
<1> DEFINE a == threads[t]
           old == threads
<1>4. ASSUME NEW i \in Instr(t).next, Running(t)
      PROVE  /\ DOMAIN Goto(t, i) = Threads
             /\ Goto(t, i)[t] = Past(t, <<i>>) /\ Onward(prog, threads[t], Past(t, <<i>>))
             /\ \A u \in Threads \ {t} : Goto(t, i)[u] = threads[u]
             /\ \A u \in Threads : Became(t, u, Goto(t, i)[u])
  <2>1. /\ DOMAIN Goto(t, i) = Threads /\ Goto(t, i)[t] = Past(t, <<i>>)
        /\ \A u \in Threads \ {t} : Goto(t, i)[u] = threads[u]
    BY <1>2 DEF Goto
  <2>2. Past(t, <<i>>) = Advance(prog, threads[t], <<i>> \o Tail(threads[t].stack))
    BY <1>1, <1>4, PastIs DEF Running
  <2>3. Onward(prog, threads[t], Past(t, <<i>>))
    BY <1>3, <1>4, <2>2 DEF Onward
  <2>4. ASSUME NEW u \in Threads PROVE Became(t, u, Goto(t, i)[u])
    BY <2>1, <2>3 DEF Became
  <2> QED
    BY <2>1, <2>3, <2>4
<1>5. CASE Running(t) /\ Plain(t)
  <2>1. PICK i \in Instr(t).next : threads' = Goto(t, i)
    BY <1>5 DEF Plain
  <2>2. held' = held /\ Instr(t).op \notin {"acquire", "release"}
    BY <1>5 DEF Plain
  <2> QED
    BY <1>1, <1>4, <1>5, <2>1, <2>2
<1>6. CASE Running(t) /\ Call(t)
  <2>1. held' = held /\ Instr(t).op \in {"call", "indirect"}
    BY <1>6 DEF Call
  <2>2. Instr(t).op \notin {"acquire", "release"}
    BY <2>1
  <2>3. PICK i \in Instr(t).next :
          threads' = IF Instr(t).goes = "none" THEN Goto(t, i)
                     ELSE [threads EXCEPT ![t] = Past(t, <<prog.entry[Instr(t).goes], i>>)]
    BY <1>6 DEF Call
  <2>4. CASE Instr(t).goes = "none"
    BY <1>1, <1>4, <1>6, <2>1, <2>2, <2>3, <2>4
  <2>5. CASE Instr(t).goes # "none"
    <3> DEFINE b == Past(t, <<prog.entry[Instr(t).goes], i>>)
    <3>1. b = Advance(prog, threads[t], <<prog.entry[Instr(t).goes], i>> \o Tail(threads[t].stack))
      BY <1>1, <1>6, PastIs DEF Running
    <3>2. At(t) \in Calls(prog)
      BY <1>3, <2>1 DEF Calls
    <3>3. Onward(prog, threads[t], b)
      BY <1>3, <2>5, <3>1, <3>2 DEF Onward
    <3> HIDE DEF b
    <3>4. threads' = [threads EXCEPT ![t] = b]
      BY <2>3, <2>5 DEF b
    <3>5. DOMAIN threads' = Threads /\ threads'[t] = b /\ \A u \in Threads \ {t} : threads'[u] = threads[u]
      BY <1>2, <3>4
    <3>6. ASSUME NEW u \in Threads PROVE Became(t, u, threads'[u])
      BY <3>3, <3>5 DEF Became
    <3> QED
      BY <1>1, <2>1, <2>2, <3>5, <3>6
  <2> QED
    BY <2>4, <2>5
<1>7. CASE Running(t) /\ Return(t)
  <2>1. held' = held /\ Instr(t).op = "return"
    BY <1>7 DEF Return
  <2> DEFINE b == IF Len(a.stack) > 1 THEN Past(t, <<>>) ELSE [a EXCEPT !.state = "ended"]
  <2>2. threads' = [threads EXCEPT ![t] = b]
    BY <1>2, <1>7 DEF Return
  <2>3. Len(a.stack) > 1 => Onward(prog, threads[t], b)
    <3> SUFFICES ASSUME Len(a.stack) > 1 PROVE Onward(prog, threads[t], b)
      OBVIOUS
    <3>1. b = Advance(prog, threads[t], <<>> \o Tail(threads[t].stack))
      BY <1>1, <1>7, PastIs DEF Running
    <3> QED
      BY <1>3, <2>1, <3>1 DEF Onward
  <2>4. ~ Len(a.stack) > 1 => b = [threads[t] EXCEPT !.state = "ended"]
    OBVIOUS
  <2> HIDE DEF b
  <2>5. DOMAIN threads' = Threads /\ threads'[t] = b /\ \A u \in Threads \ {t} : threads'[u] = threads[u]
    BY <1>2, <2>2
  <2>6. ASSUME NEW u \in Threads PROVE Became(t, u, threads'[u])
    BY <2>3, <2>4, <2>5 DEF Became
  <2>7. Instr(t).op \notin {"acquire", "release"}
    BY <2>1
  <2> QED
    BY <1>1, <2>1, <2>5, <2>6, <2>7
<1>8. CASE Running(t) /\ Exit(t)
  <2>1. held' = held /\ Instr(t).op = "exit" /\ threads' = [u \in Threads |-> Nobody]
    BY <1>8 DEF Exit
  <2>2. DOMAIN threads' = Threads /\ \A u \in Threads : threads'[u] = Nobody
    BY <2>1
  <2>3. ASSUME NEW u \in Threads PROVE Became(t, u, threads'[u])
    BY <2>2 DEF Became
  <2>4. Instr(t).op \notin {"acquire", "release"}
    BY <2>1
  <2> QED
    BY <1>1, <2>1, <2>2, <2>3, <2>4
<1>9. CASE Running(t) /\ Create(t)
  <2> DEFINE free == {u \in Workers : threads[u].state = "none"}
  <2>1. held' = held /\ Instr(t).op = "create" /\ Instr(t).op \notin {"acquire", "release"}
    BY <1>9 DEF Create
  <2>2. PICK i \in Instr(t).next :
          threads' = IF free = {} THEN Goto(t, i)
                     ELSE [Goto(t, i) EXCEPT ![Min(free)] = Begin(At(t), Instr(t).goes)]
    BY <1>9 DEF Create
  <2>3. Begin(At(t), Instr(t).goes) = Begun(prog, At(t)) /\ At(t) \in Creates(prog)
    BY <1>3, <2>1 DEF Begin, Begun, Creates
  <2> HIDE DEF free
  <2>4. CASE free = {}
    BY <1>1, <1>4, <1>9, <2>1, <2>2, <2>4
  <2>5. CASE free # {}
    <3> DEFINE g == Goto(t, i)
               n == Min(free)
               b == Begin(At(t), Instr(t).goes)
    <3>1. threads' = [g EXCEPT ![n] = b] /\ DOMAIN g = Threads
      BY <1>4, <1>9, <2>2, <2>5
    <3>2. \A u \in Threads : Became(t, u, g[u]) /\ Became(t, u, b)
      BY <1>4, <1>9, <2>3 DEF Became
    <3> HIDE DEF g, n, b
    <3>3. DOMAIN threads' = Threads /\ \A u \in Threads : threads'[u] = g[u] \/ threads'[u] = b
      BY <3>1
    <3>4. ASSUME NEW u \in Threads PROVE Became(t, u, threads'[u])
      BY <3>2, <3>3
    <3> QED
      BY <1>1, <2>1, <3>3, <3>4
  <2> QED
    BY <2>4, <2>5
<1>10. CASE Running(t) /\ Join(t)
  <2>1. held' = held /\ Instr(t).op = "join" /\ Instr(t).op \notin {"acquire", "release"}
    BY <1>10 DEF Join
  <2>2. PICK i \in Instr(t).next :
          threads' = [u \in Threads |-> IF u \in Workers THEN Nobody ELSE Goto(t, i)[u]]
    BY <1>10 DEF Join
  <2> DEFINE g == Goto(t, i)
  <2>3. \A u \in Threads : Became(t, u, g[u]) /\ Became(t, u, Nobody)
    BY <1>4, <1>10 DEF Became
  <2> HIDE DEF g
  <2>4. DOMAIN threads' = Threads /\ \A u \in Threads : threads'[u] = g[u] \/ threads'[u] = Nobody
    BY <2>2 DEF g
  <2>5. ASSUME NEW u \in Threads PROVE Became(t, u, threads'[u])
    BY <2>3, <2>4
  <2> QED
    BY <1>1, <2>1, <2>4, <2>5
<1>11. CASE Running(t) /\ Region(t)
  <2>1. held' = held /\ Instr(t).op = "region" /\ Instr(t).op \notin {"acquire", "release"}
    BY <1>11 DEF Region
  <2> DEFINE w == [threads[t] EXCEPT !.state = "waiting"]
             b == Begin(At(t), Instr(t).goes)
  <2>2. threads' = [u \in Threads |-> IF u = t THEN w ELSE IF u \in Workers THEN b ELSE threads[u]]
    BY <1>11 DEF Region
  <2>3. b = Begun(prog, At(t)) /\ At(t) \in Regions(prog)
    BY <1>3, <2>1 DEF Begin, Begun, Regions
  <2>4. \A u \in Threads : Became(t, u, b) /\ Became(t, u, threads[u]) /\ Became(t, t, w)
    BY <2>1, <2>3 DEF Became
  <2> HIDE DEF b, w
  <2>5. /\ DOMAIN threads' = Threads /\ threads'[t] = w
        /\ \A u \in Threads \ {t} : threads'[u] = b \/ threads'[u] = threads[u]
    BY <2>2
  <2>6. ASSUME NEW u \in Threads PROVE Became(t, u, threads'[u])
    BY <2>4, <2>5
  <2> QED
    BY <1>1, <2>1, <2>5, <2>6
<1>12. CASE Running(t) /\ Acquire(t)
  <2>1. Instr(t).op = "acquire" /\ held' = held \cup {<<Lock(t), t>>}
    BY <1>12 DEF Acquire
  <2>2. PICK i \in Instr(t).next : threads' = Goto(t, i)
    BY <1>12 DEF Acquire
  <2>3. Onward(prog, threads[t], threads'[t])
    BY <1>4, <1>12, <2>2
  <2> QED
    BY <1>1, <1>4, <1>12, <2>1, <2>2, <2>3
<1>13. CASE Running(t) /\ Release(t)
  <2>1. Instr(t).op = "release" /\ held' = held \ {<<Lock(t), t>>}
    BY <1>13 DEF Release
  <2>2. PICK i \in Instr(t).next : threads' = Goto(t, i)
    BY <1>13 DEF Release
  <2>3. Onward(prog, threads[t], threads'[t])
    BY <1>4, <1>13, <2>2
  <2> QED
    BY <1>1, <1>4, <1>13, <2>1, <2>2, <2>3
<1>14. CASE RegionEnds(t)
  <2>1. held' = held /\ threads[t].state = "waiting"
    BY <1>14 DEF RegionEnds
  <2>2. Instr(t).op \notin {"acquire", "release"}
    <3>1. prog.code[threads[t].stack[1]].op = "region"
      BY <2>1 DEF RunInv, Sound
    <3> QED
      BY <1>3, <3>1
  <2>3. PICK i \in Instr(t).next :
          threads' = [u \in Threads |->
            IF u = t THEN [Past(t, <<i>>) EXCEPT !.state = "running"]
            ELSE IF u \in Workers THEN Nobody ELSE threads[u]]
    BY <1>14 DEF RegionEnds
  <2> DEFINE b == [Past(t, <<i>>) EXCEPT !.state = "running"]
  <2>4. b = Advance(prog, threads[t], <<i>> \o Tail(threads[t].stack))
    BY <1>1, PastIs
  <2>5. Onward(prog, threads[t], b)
    BY <1>3, <2>4 DEF Onward
  <2>6. \A u \in Threads : Became(t, u, Nobody) /\ Became(t, u, threads[u]) /\ Became(t, t, b)
    BY <2>5 DEF Became
  <2>7. /\ DOMAIN threads' = Threads /\ threads'[t] = b
        /\ \A u \in Threads \ {t} : threads'[u] = Nobody \/ threads'[u] = threads[u]
    BY <2>3
  <2> HIDE DEF b
  <2>8. ASSUME NEW u \in Threads PROVE Became(t, u, threads'[u])
    BY <2>6, <2>7
  <2> QED
    BY <1>1, <2>1, <2>2, <2>7, <2>8
<1> QED
  BY <1>5, <1>6, <1>7, <1>8, <1>9, <1>10, <1>11, <1>12, <1>13, <1>14 DEF Move

\* A thread stays sound whatever the step made of it.
LEMMA SoundBecame ==
  ASSUME RunInv, stage = "running", InScope, NEW t \in Threads, Moving(threads[t]), NEW u \in Threads,
         NEW b, Became(t, u, b)
  PROVE  Sound(prog, b)
<1>1. IsProgram(prog) /\ Sound(prog, threads[u]) /\ Sound(prog, threads[t])
  BY EventsAtIs DEF RunInv
<1>2. Instr(t) = prog.code[threads[t].stack[1]]
  BY EventsAtIs DEF Instr
<1>3. CASE b = threads[u] \/ b = Nobody
  BY <1>1, <1>3, SoundMain
<1>4. CASE b = [threads[t] EXCEPT !.state = "ended"]
  BY <1>1, <1>4, SoundStays
<1>5. CASE b = [threads[t] EXCEPT !.state = "waiting"] /\ Instr(t).op = "region"
  BY <1>1, <1>2, <1>5, SoundStays
<1>6. CASE At(t) \in Creates(prog) \cup Regions(prog) /\ b = Begun(prog, At(t))
  BY <1>1, <1>6, SoundBegun
<1>7. CASE Onward(prog, threads[t], b)
  BY <1>1, <1>7, ScopeIs, SoundOnward
<1> QED
  BY <1>3, <1>4, <1>5, <1>6, <1>7 DEF Became

\* Every step of the analysis leaves the run alone, until it starts.
LEMMA StageSteps ==
  ASSUME StagesInv, [Next]_vars
  PROVE  /\ prog' = prog
         /\ \/ /\ stage \notin {"judged", "running"} /\ stage' \notin {"recovered", "running"}
               /\ threads' = threads
            \/ stage = "judged" /\ Start
            \/ stage = "running" /\ Run
            \/ UNCHANGED vars
BY DEF Next, Extract, ExtractionFails, Share, Slice, Verify, Start, Run, vars, run, static

\* The stages of the analysis are inductive.
LEMMA StagesInductive ==
  /\ Init => StagesInv
  /\ StagesInv /\ [Next]_vars => StagesInv'
<1>1. ASSUME Init PROVE StagesInv
  BY <1>1 DEF Init, StagesInv
<1>2. ASSUME StagesInv, [Next]_vars PROVE StagesInv'
  <2>1. CASE Extract
    <3>1. /\ prog' = prog /\ stage' = "extracted" /\ stage # "running" /\ threads' = threads
          /\ events' = Extracted(prog) /\ order' = ProgramOrder(prog, events')
      BY <2>1 DEF Extract, run
    <3>2. Recovered'
      BY <3>1 DEF Recovered
    <3> QED
      BY <1>2, <3>1, <3>2 DEF StagesInv
  <2>2. CASE ExtractionFails
    BY <1>2, <2>2 DEF ExtractionFails, run, StagesInv
  <2>3. CASE Share
    <3>1. /\ prog' = prog /\ stage' = "shared" /\ stage = "extracted" /\ threads' = threads
          /\ events' = events /\ order' = order /\ shared' = SharedStateOf(prog, events, order)
      BY <2>3 DEF Share, run
    <3>2. Recovered' <=> Recovered
      BY <3>1 DEF Recovered
    <3>3. shared' = SharedStateOf(prog', events', order')
      BY <3>1
    <3> QED
      BY <1>2, <3>1, <3>2, <3>3 DEF StagesInv
  <2>4. CASE Slice \/ Verify
    <3>1. /\ prog' = prog /\ stage \in {"shared", "sliced"} /\ stage' \in {"sliced", "judged"}
          /\ threads' = threads /\ events' = events /\ order' = order /\ shared' = shared
      BY <2>4 DEF Slice, Verify, run
    <3>2. Recovered' <=> Recovered
      BY <3>1 DEF Recovered
    <3>3. SharedStateOf(prog', events', order') = SharedStateOf(prog, events, order)
      BY <3>1
    <3> QED
      BY <1>2, <3>1, <3>2, <3>3 DEF StagesInv
  <2>5. CASE Start \/ Run \/ UNCHANGED vars
    <3>1. /\ prog' = prog /\ events' = events /\ order' = order /\ shared' = shared
          /\ \/ stage = "judged" /\ stage' = "running" /\ events # {}
             \/ stage' = stage /\ stage = "running"
             \/ stage' = stage /\ threads' = threads
      BY <2>5 DEF Start, Run, vars, static, run
    <3>2. Recovered' <=> Recovered
      BY <3>1 DEF Recovered
    <3>3. SharedStateOf(prog', events', order') = SharedStateOf(prog, events, order)
      BY <3>1
    <3> QED
      BY <1>2, <3>1, <3>2, <3>3 DEF StagesInv
  <2> QED
    BY <1>2, <2>1, <2>2, <2>3, <2>4, <2>5 DEF Next
<1> QED
  BY <1>1, <1>2

\* So are the tracks of the threads.
LEMMA RunInductive ==
  /\ Init => RunInv
  /\ RunInv /\ [Next]_vars => RunInv'
<1>1. ASSUME Init PROVE RunInv
  <2>1. StagesInv
    BY <1>1, StagesInductive
  <2>2. DOMAIN threads = Threads /\ \A t \in Threads : threads[t] = Nobody
    BY <1>1 DEF Init
  <2>3. Sound(prog, Nobody)
    BY <2>1, ProgramsAreRecovered, SoundMain DEF StagesInv
  <2> QED
    BY <2>1, <2>2, <2>3 DEF RunInv
<1>2. ASSUME RunInv, [Next]_vars PROVE RunInv'
  <2>1. StagesInv /\ StagesInv' /\ prog' = prog
    BY <1>2, StagesInductive, StageSteps DEF RunInv
  <2>2. SUFFICES /\ DOMAIN threads' = Threads
                 /\ \A u \in Threads : Sound(prog, threads'[u])
    BY <2>1 DEF RunInv
  <2>3. CASE threads' = threads
    BY <1>2, <2>3 DEF RunInv
  <2>4. CASE Start
    <3> DEFINE b == Begin(0, "main")
    <3>1. threads' = [threads EXCEPT ![0] = b]
      BY <2>4 DEF Start
    <3>2. Sound(prog, b)
      BY <2>1, ProgramsAreRecovered, SoundMain DEF StagesInv, Begin
    <3> HIDE DEF b
    <3> QED
      BY <1>2, <3>1, <3>2 DEF RunInv
  <2>5. CASE Run
    <3>1. PICK t \in Threads : Move(t)
      BY <2>5 DEF Run
    <3>2. stage = "running" /\ InScope
      BY <2>5 DEF Run
    <3>3. Moving(threads[t]) /\ DOMAIN threads' = Threads /\ \A u \in Threads : Became(t, u, threads'[u])
      BY <1>2, <3>1, <3>2, MoveIs
    <3>4. ASSUME NEW u \in Threads PROVE Sound(prog, threads'[u])
      BY <1>2, <3>2, <3>3, SoundBecame
    <3> QED
      BY <3>3, <3>4
  <2> QED
    <3>1. UNCHANGED vars => threads' = threads
      BY DEF vars, run
    <3> QED
      BY <1>2, <2>1, <2>3, <2>4, <2>5, <3>1, StageSteps
<1> QED
  BY <1>1, <1>2

\* What follows about the order from the run so far.
LEMMA OrderNow == RunInv => OrderCoversExecution
<1> SUFFICES ASSUME RunInv, NEW t \in Threads, stage = "running", Running(t), threads[t].last # 0,
                    EventsAt(t) # {}, HiddenApart(prog)
    PROVE  \E e \in events : /\ e.pc = threads[t].last /\ e.role = threads[t].role
                             /\ \E f \in EventsAt(t) : <<e, f>> \in order
  BY DEF OrderCoversExecution
<1> DEFINE a == threads[t]
           r == a.role
           i == At(t)
<1>1. Moving(a)
  BY DEF Running, Moving
<1>2. /\ IsProgram(prog) /\ Recovered /\ i = a.stack[1] /\ i \in Code(prog)
      /\ EventsAt(t) = Here(prog, r, i) /\ a.stack # <<>> /\ a \in ThreadRecords(prog)
  BY <1>1, EventsAtIs
<1>3. r \in Roles(prog) /\ prog.code[i].fn \in RoleFunctions(prog, r)
  BY <1>2, HereIs
<1>4. Starts(prog, r) # {} /\ Hidden(prog, r) \cap RoleFunctions(prog, r) = {}
  BY <1>2, <1>3, RoleFunctionsAre DEF HiddenApart
<1>5. Sound(prog, a)
  BY DEF RunInv
<1> HIDE DEF a, r, i
<1>6. PICK m : Track(prog, r, a.stack, a.last, m)
  BY <1>1, <1>3, <1>4, <1>5 DEF Sound, r
<1>7. m = 0
  BY <1>2, <1>3, <1>4, <1>6 DEF Track
<1>8. a.last \in Code(prog) /\ Here(prog, r, a.last) # {} /\ i \in Ahead(prog, r, a.last)
  BY <1>2, <1>6, <1>7 DEF Track, a
<1>9. PICK e \in Final(Here(prog, r, a.last)), f \in First(Here(prog, r, i)) : TRUE
  BY <1>2, <1>8, HereHasEnds
<1>10. e \in Here(prog, r, a.last) /\ f \in Here(prog, r, i)
  BY <1>9 DEF Final, First
<1>11. <<e, f>> \in ProgramOrder(prog, Extracted(prog))
  BY <1>3, <1>8, <1>9, <1>10, EdgesAre
<1>12. e.pc = a.last /\ e.role = r /\ e \in Extracted(prog)
  BY <1>10 DEF Here, Placed
<1> QED
  BY <1>2, <1>10, <1>11, <1>12 DEF Recovered, a, r

(***************************************************************************)
(* The order that the lock and phase proofs read covers every execution,   *)
(* for every program, every number of threads and every run.               *)
(***************************************************************************)
THEOREM OrderCovers == Spec => []OrderCoversExecution
BY OrderNow, RunInductive, PTL DEF Spec

-----------------------------------------------------------------------------
(* Locks held on every path.                                                 *)

\* A program has finitely many events.
LEMMA ExtractedFinite ==
  ASSUME NEW p, IsProgram(p)
  PROVE  IsFiniteSet(Extracted(p))
<1> DEFINE kinds == {"Load", "Store", "Rmw", "Fence", "Create", "Join", "Barrier", "Acquire",
                     "Release", "Opaque", "Syscall", "Effect"}
           S == (({0} \cup Code(p)) \X Code(p)) \X kinds
           of == [x \in S |-> Event(x[1][1], x[1][2], x[2], AddressOf(p.code[x[1][2]], x[2]))]
           T == {of[x] : x \in S}
<1>1. IsFiniteSet(S)
  <2>1. IsFiniteSet({0} \cup Code(p)) /\ IsFiniteSet(Code(p))
    BY FS_Singleton, FS_Union, GraphsTyped
  <2>2. IsFiniteSet(kinds)
    <3>1. \A s, x : IsFiniteSet(s) => IsFiniteSet(s \cup {x})
      BY FS_AddElement
    <3> DEFINE a == (((({} \cup {"Load"}) \cup {"Store"}) \cup {"Rmw"}) \cup {"Fence"})
               b == ((((a \cup {"Create"}) \cup {"Join"}) \cup {"Barrier"}) \cup {"Acquire"})
               c == ((((b \cup {"Release"}) \cup {"Opaque"}) \cup {"Syscall"}) \cup {"Effect"})
    <3>2. IsFiniteSet(a)
      BY <3>1, FS_EmptySet
    <3>3. IsFiniteSet(b)
      <4> HIDE DEF a
      <4> QED
        BY <3>1, <3>2
    <3>4. IsFiniteSet(c)
      <4> HIDE DEF b
      <4> QED
        BY <3>1, <3>3
    <3>5. kinds = c
      OBVIOUS
    <3> QED
      BY <3>4, <3>5
  <2> HIDE DEF kinds
  <2> QED
    BY <2>1, <2>2, FS_Product
<1>2. \A i \in Code(p) : KindOf(p, p.code[i]) \subseteq kinds
  BY DEF KindOf
<1>3. Extracted(p) \subseteq T
  <2> SUFFICES ASSUME NEW e \in Extracted(p) PROVE e \in T
    OBVIOUS
  <2>1. CASE e \in Sentinels(p)
    <3>1. PICK r \in Roles(p) : Starts(p, r) = {} /\ e = Event(r, r, "Effect", Nowhere)
      BY <2>1 DEF Sentinels
    <3>2. r \in Code(p)
      BY <3>1 DEF Roles, Considered, Creates, Regions, Starts
    <3>3. <<<<r, r>>, "Effect">> \in S
      BY <3>2
    <3>4. of[<<<<r, r>>, "Effect">>] = e
      BY <3>1, <3>3 DEF AddressOf
    <3> HIDE DEF of, S
    <3> QED
      BY <3>3, <3>4
  <2>2. CASE e \notin Sentinels(p)
    <3>1. PICK x \in Roles(p) \X Code(p) :
            e \in {Event(x[1], x[2], k, AddressOf(p.code[x[2]], k)) : k \in KindOf(p, p.code[x[2]])}
      BY <2>2 DEF Extracted
    <3>2. PICK k \in KindOf(p, p.code[x[2]]) : e = Event(x[1], x[2], k, AddressOf(p.code[x[2]], k))
      BY <3>1
    <3>3. x[1] \in {0} \cup Code(p) /\ x[2] \in Code(p) /\ k \in kinds
      <4>1. x[1] \in Roles(p) /\ x[2] \in Code(p)
        BY <3>1
      <4>2. Roles(p) \subseteq {0} \cup Code(p)
        BY DEF Roles, Considered, Creates, Regions
      <4> HIDE DEF kinds
      <4> QED
        BY <1>2, <3>2, <4>1, <4>2
    <3> HIDE DEF kinds
    <3>4. <<<<x[1], x[2]>>, k>> \in S
      BY <3>3
    <3>5. of[<<<<x[1], x[2]>>, k>>] = e
      BY <3>2, <3>4
    <3> HIDE DEF of, S
    <3> QED
      BY <3>4, <3>5
  <2> QED
    BY <2>1, <2>2
<1>4. of \in Surjection(S, T)
  <2> HIDE DEF S
  <2> QED
    BY DEF Surjection
<1> HIDE DEF of, S, T
<1>5. IsFiniteSet(T)
  BY <1>1, <1>4, FS_Surjection
<1> QED
  BY <1>3, <1>5, FS_Subset

\* The events the analysis reaches, and those it reaches without the lock l.
Onto(E, O) == [e \in E |-> {o[2] : o \in {x \in O : x[1] = e}}]
Seen(E, O) == Reach(Onto(E, O), FirstEvents(E, O))
Lost(E, O, l) == {f \in E : \E e \in Seen(E, O) : f \in Onto(E, O)[e] /\ Drops(e, l)}
Bare(E, O, l) ==
  Reach([e \in E |-> IF Takes(e, l) THEN {} ELSE Onto(E, O)[e]], FirstEvents(E, O) \cup Lost(E, O, l))

\* What the analysis does with an edge.
LEMMA LocksAre ==
  ASSUME NEW p, IsProgram(p), NEW E, E = Extracted(p), NEW O, O = ProgramOrder(p, E), NEW l
  PROVE  /\ Unlocked(E, O, l) = Bare(E, O, l) \cup (E \ Seen(E, O))
         /\ FirstEvents(E, O) \subseteq Seen(E, O) /\ FirstEvents(E, O) \subseteq Bare(E, O, l)
         /\ \A e \in Seen(E, O) : \A f : <<e, f>> \in O => f \in Seen(E, O)
         /\ \A e \in Seen(E, O) : \A f : <<e, f>> \in O /\ Drops(e, l) => f \in Bare(E, O, l)
         /\ \A e \in Bare(E, O, l) : \A f : <<e, f>> \in O /\ ~ Takes(e, l) => f \in Bare(E, O, l)
         /\ \A C \in SUBSET E : /\ FirstEvents(E, O) \subseteq C
                                /\ \A x \in C : \A f : <<x, f>> \in O => f \in C
                                => Seen(E, O) \subseteq C
<1> DEFINE next == Onto(E, O)
           keep == [e \in E |-> IF Takes(e, l) THEN {} ELSE next[e]]
           first == FirstEvents(E, O)
<1>1. Unlocked(E, O, l) = Bare(E, O, l) \cup (E \ Seen(E, O))
  BY DEF Unlocked, Bare, Seen, Lost, Onto
<1>2. \A o \in O : o[1] \in E /\ o[2] \in E /\ o = <<o[1], o[2]>>
  BY EdgesTyped
<1>3. next \in [E -> SUBSET E] /\ \A e \in E : \A f : f \in next[e] <=> <<e, f>> \in O
  <2>1. next \in [E -> SUBSET E]
    BY <1>2 DEF Onto
  <2>2. ASSUME NEW e \in E, NEW f PROVE f \in next[e] <=> <<e, f>> \in O
    BY <1>2 DEF Onto
  <2> QED
    BY <2>1, <2>2
<1>4. \A e, f : <<e, f>> \in O => e \in E /\ f \in E
  <2> SUFFICES ASSUME NEW e, NEW f, <<e, f>> \in O PROVE e \in E /\ f \in E
    OBVIOUS
  <2> QED
    BY <1>2
<1>5. first \in SUBSET E
  BY DEF FirstEvents
<1>6. IsFiniteSet(E)
  BY ExtractedFinite
<1> HIDE DEF next, first
<1>7. keep \in [E -> SUBSET E] /\ \A e \in E : keep[e] = IF Takes(e, l) THEN {} ELSE next[e]
  BY <1>3
<1> HIDE DEF keep
<1>8. Seen(E, O) = Reach(next, first)
  BY DEF Seen, next, first
<1>9. /\ first \subseteq Seen(E, O) /\ Seen(E, O) \subseteq E
      /\ \A x \in Seen(E, O) : next[x] \subseteq Seen(E, O)
      /\ \A C \in SUBSET E : first \subseteq C /\ (\A x \in C : next[x] \subseteq C) => Seen(E, O) \subseteq C
  BY <1>3, <1>5, <1>6, <1>8, ReachIsClosed
<1> DEFINE start == first \cup Lost(E, O, l)
<1>10. start \in SUBSET E
  BY <1>5 DEF Lost
<1>11. Bare(E, O, l) = Reach(keep, start)
  BY DEF Bare, keep, next, first
<1> HIDE DEF start
<1>12. start \subseteq Bare(E, O, l) /\ Bare(E, O, l) \subseteq E /\ \A x \in Bare(E, O, l) : keep[x] \subseteq Bare(E, O, l)
  BY <1>6, <1>7, <1>10, <1>11, ReachIsClosed
<1>13. first \subseteq Bare(E, O, l) /\ Lost(E, O, l) \subseteq Bare(E, O, l)
  BY <1>12 DEF start
<1>14. ASSUME NEW e \in Seen(E, O), NEW f, <<e, f>> \in O PROVE f \in Seen(E, O)
  BY <1>3, <1>4, <1>9, <1>14
<1>15. ASSUME NEW e \in Seen(E, O), NEW f, <<e, f>> \in O, Drops(e, l) PROVE f \in Bare(E, O, l)
  <2>1. f \in E /\ f \in next[e]
    BY <1>3, <1>4, <1>15
  <2>2. f \in Lost(E, O, l)
    BY <1>15, <2>1 DEF Lost, next
  <2> QED
    BY <1>13, <2>2
<1>16. ASSUME NEW e \in Bare(E, O, l), NEW f, <<e, f>> \in O, ~ Takes(e, l) PROVE f \in Bare(E, O, l)
  BY <1>3, <1>4, <1>7, <1>12, <1>16
<1>17. ASSUME NEW C \in SUBSET E, first \subseteq C, \A x \in C : \A f : <<x, f>> \in O => f \in C
       PROVE  Seen(E, O) \subseteq C
  <2>1. \A x \in C : next[x] \subseteq C
    BY <1>3, <1>17
  <2> QED
    BY <1>9, <1>17, <2>1
<1> QED
  BY <1>1, <1>9, <1>13, <1>14, <1>15, <1>16, <1>17 DEF first

\* A role that takes no lock holds none.
LEMMA NoLockNoSection ==
  ASSUME NEW p, IsProgram(p), NEW E, E = Extracted(p), NEW O, O = ProgramOrder(p, E), NEW l,
         NEW r, \A e \in E : e.role = r => e.kind # "Acquire", NEW g \in Seen(E, O), g.role = r
  PROVE  g \in Bare(E, O, l)
<1> DEFINE C == {e \in E : e.role = r => e \in Bare(E, O, l)}
<1>1. FirstEvents(E, O) \subseteq C
  <2>1. FirstEvents(E, O) \subseteq E
    BY DEF FirstEvents
  <2>2. FirstEvents(E, O) \subseteq Bare(E, O, l)
    BY LocksAre
  <2> QED
    BY <2>1, <2>2
<1>2. ASSUME NEW x \in C, NEW f, <<x, f>> \in O PROVE f \in C
  <2>1. f \in E /\ f.role = x.role
    <3>1. <<x, f>>[1] = x /\ <<x, f>>[2] = f
      OBVIOUS
    <3> QED
      BY <1>2, <3>1, EdgesTyped
  <2>2. f.role = r => x \in Bare(E, O, l) /\ ~ Takes(x, l)
    BY <2>1 DEF Takes
  <2>3. f.role = r => f \in Bare(E, O, l)
    BY <1>2, <2>2, LocksAre
  <2> QED
    BY <2>1, <2>3
<1>3. C \in SUBSET E
  OBVIOUS
<1> HIDE DEF C
<1>4. Seen(E, O) \subseteq C
  BY <1>1, <1>2, <1>3, LocksAre
<1> QED
  BY <1>4 DEF C

\* What the kind of an event says of the instruction.
LEMMA LockKinds ==
  ASSUME NEW p, NEW c
  PROVE  /\ "Acquire" \in KindOf(p, c) => c.op = "acquire"
         /\ "Release" \in KindOf(p, c) => c.op = "release"
         /\ c.op = "acquire" => KindOf(p, c) = {"Acquire"} \/ KindOf(p, c) = {"Opaque"}
         /\ c.op = "release" => KindOf(p, c) = {"Release"} \/ KindOf(p, c) = {"Opaque"}
<1>1. c.op = "acquire" => KindOf(p, c) = {IF p.synced THEN "Acquire" ELSE "Opaque"}
  BY DEF KindOf
<1>2. c.op = "release" => KindOf(p, c) = {IF p.synced THEN "Release" ELSE "Opaque"}
  BY DEF KindOf
<1>3. "Acquire" \in KindOf(p, c) => c.op = "acquire"
  BY DEF KindOf
<1>4. "Release" \in KindOf(p, c) => c.op = "release"
  BY DEF KindOf
<1> QED
  BY <1>1, <1>2, <1>3, <1>4

\* The lock of an event names the object and the byte that the instruction locks.
LEMMA LockNames ==
  ASSUME NEW p, IsProgram(p), NEW r, NEW i, NEW e \in Here(p, r, i), e.kind \in {"Acquire", "Release"}
  PROVE  /\ p.code[i].op = IF e.kind = "Acquire" THEN "acquire" ELSE "release"
         /\ \A l \in LockOf(e) :
              /\ LockOf(e) = {l} /\ l[2][1] = p.code[i].obj /\ l[2][2] + l[3] = p.code[i].at
              /\ l = IF p.code[i].region = "Global"
                       THEN <<p.code[i].region, <<p.code[i].obj, p.code[i].at>>, 0>>
                       ELSE <<p.code[i].region, <<p.code[i].obj, 0>>, p.code[i].at>>
<1> DEFINE c == p.code[i]
<1>1. /\ i \in Code(p) /\ e.kind \in KindOf(p, c) /\ c.at \in Nat
      /\ e = Event(r, i, e.kind, AddressOf(c, e.kind))
  BY HereIs DEF IsProgram
<1>2. c.op = IF e.kind = "Acquire" THEN "acquire" ELSE "release"
  BY <1>1, LockKinds
<1>3. e.address = Address(c)
  <2>1. AddressOf(c, e.kind) = Address(c)
    BY DEF AddressOf
  <2>2. e.address = AddressOf(c, e.kind)
    BY <1>1 DEF Event
  <2> QED
    BY <2>1, <2>2
<1>4. ASSUME NEW l \in LockOf(e)
      PROVE  /\ LockOf(e) = {l} /\ l[2][1] = c.obj /\ l[2][2] + l[3] = c.at
             /\ l = IF c.region = "Global" THEN <<c.region, <<c.obj, c.at>>, 0>>
                    ELSE <<c.region, <<c.obj, 0>>, c.at>>
  <2>1. /\ e.address.kind \in {"Global", "Heap", "Stack", "TLS"} /\ LockOf(e) = {l}
        /\ l = <<e.address.kind, e.address.base, e.address.offset>>
    BY DEF LockOf
  <2>2. c.known # "none" /\ c.known # "index"
    BY <1>3, <2>1 DEF Address, Nowhere
  <2>3. /\ e.address.kind = c.region
        /\ e.address.base = IF c.region = "Global" THEN <<c.obj, c.at>> ELSE <<c.obj, 0>>
        /\ e.address.offset = IF c.region = "Global" THEN 0 ELSE c.at
    BY <1>3, <2>2 DEF Address
  <2>4. l = IF c.region = "Global" THEN <<c.region, <<c.obj, c.at>>, 0>>
            ELSE <<c.region, <<c.obj, 0>>, c.at>>
    BY <2>1, <2>3
  <2> HIDE DEF c
  <2>5. l[2][1] = c.obj /\ l[2][2] + l[3] = c.at
    BY <1>1, <2>4
  <2> QED
    BY <2>1, <2>4, <2>5
<1> QED
  BY <1>2, <1>4

\* The byte that the instruction i locks is that of the lock l.
Named(p, i, l) == p.code[i].obj = l[2][1] /\ p.code[i].at = l[2][2] + l[3]

\* What gives a lock back drops it.
LEMMA ReleaseDrops ==
  ASSUME NEW p, IsProgram(p), NEW l \in Locks(Extracted(p)), NEW r, NEW i, NEW e \in Here(p, r, i),
         p.code[i].op = "release", Named(p, i, l)
  PROVE  Drops(e, l)
<1>1. e.kind \in KindOf(p, p.code[i]) /\ i \in Code(p)
  BY HereIs
<1>2. CASE e.kind = "Opaque"
  BY <1>2 DEF Drops, OpaqueKinds
<1>3. CASE e.kind = "Release" /\ LockOf(e) = {}
  BY <1>3 DEF Drops
<1>4. CASE e.kind = "Release" /\ LockOf(e) # {}
  <2>1. PICK k \in LockOf(e) : TRUE
    BY <1>4
  <2>2. PICK g \in Extracted(p) : g.kind = "Acquire" /\ l \in LockOf(g)
    BY DEF Locks
  <2> DEFINE j == g.pc
             q == g.role
  <2>3. g \in Here(p, q, j)
    BY <2>2 DEF Here, Placed
  <2>4. /\ p.code[j].op = "acquire" /\ l[2][1] = p.code[j].obj /\ l[2][2] + l[3] = p.code[j].at
        /\ l = IF p.code[j].region = "Global"
                 THEN <<p.code[j].region, <<p.code[j].obj, p.code[j].at>>, 0>>
                 ELSE <<p.code[j].region, <<p.code[j].obj, 0>>, p.code[j].at>>
    BY <2>2, <2>3, LockNames
  <2>5. /\ LockOf(e) = {k}
        /\ k = IF p.code[i].region = "Global"
                 THEN <<p.code[i].region, <<p.code[i].obj, p.code[i].at>>, 0>>
                 ELSE <<p.code[i].region, <<p.code[i].obj, 0>>, p.code[i].at>>
    BY <1>4, <2>1, LockNames
  <2>6. j \in Code(p)
    BY <2>3, HereIs
  <2> HIDE DEF j, q
  <2>7. p.code[i].obj = p.code[j].obj /\ p.code[i].at = p.code[j].at
    BY <2>4 DEF Named
  <2>8. p.code[i].region = p.code[j].region
    BY <1>1, <2>4, <2>6, <2>7 DEF IsProgram
  <2>9. k = l
    BY <2>4, <2>5, <2>7, <2>8
  <2> QED
    BY <1>4, <2>5, <2>9 DEF Drops
<1>5. e.kind = "Release" \/ e.kind = "Opaque"
  BY <1>1, LockKinds
<1> QED
  BY <1>2, <1>3, <1>4, <1>5

-----------------------------------------------------------------------------
(* A thread holds what the analysis says it holds.                           *)

\* The thread t holds the lock l, hs being what is held.
Holds(hs, t, l) == \E h \in hs : h[2] = t /\ h[1][1] = l[2][1] /\ h[1][2] = l[2][2] + l[3]

\* Program order over the events of the program.
Known(p) == ProgramOrder(p, Extracted(p))

\* A role that takes locks, whose threads start where the lock analysis starts,
\* and which the code behind its open calls does not call back.
Locking(p, r) ==
  /\ r \in Roles(p) /\ Hidden(p, r) \cap RoleFunctions(p, r) = {}
  /\ \E e \in Extracted(p) : e.role = r /\ e.kind = "Acquire"
  /\ \A f \in Starts(p, r) :
       /\ Here(p, r, p.entry[f]) # {}
       /\ First(Here(p, r, p.entry[f])) \subseteq FirstEvents(Extracted(p), Known(p))

(***************************************************************************)
(* Behind its latest event a thread holds the lock, or the analysis has    *)
(* told on this path that it may not; a thread without an event so far is  *)
(* at the start of its role.                                               *)
(***************************************************************************)
Covered(p, r, last, l, hs, t) ==
  \E e \in Final(Here(p, r, last)) :
    /\ e \in Seen(Extracted(p), Known(p))
    /\ Holds(hs, t, l) \/ Drops(e, l) \/ (e \in Bare(Extracted(p), Known(p), l) /\ ~ Takes(e, l))

\* What is known of a thread that runs in a role that takes locks.
Guarded(p, a, l, hs, t) ==
  Moving(a) /\ Locking(p, a.role) =>
    /\ a.last = 0 => \E f \in Starts(p, a.role) : a.stack[1] = p.entry[f]
    /\ a.last # 0 => Covered(p, a.role, a.last, l, hs, t)

\* At an event the same holds of the event.
LEMMA EventGuarded ==
  ASSUME NEW p, IsProgram(p), NEW a, Sound(p, a), Moving(a), Locking(p, a.role), NEW l, NEW hs, NEW t,
         Guarded(p, a, l, hs, t), NEW g \in Here(p, a.role, a.stack[1])
  PROVE  /\ g \in Seen(Extracted(p), Known(p))
         /\ Holds(hs, t, l) \/ g \in Bare(Extracted(p), Known(p), l)
<1> DEFINE r == a.role
           s == a.stack
           i == s[1]
           E == Extracted(p)
           O == Known(p)
<1>1. r \in Roles(p) /\ Hidden(p, r) \cap RoleFunctions(p, r) = {}
  BY DEF Locking
<1>2. i \in Code(p) /\ p.code[i].fn \in RoleFunctions(p, r)
  BY HereIs
<1>3. Starts(p, r) # {}
  BY <1>1, <1>2, RoleFunctionsAre
<1>4. PICK m : Track(p, r, s, a.last, m)
  BY <1>1, <1>3 DEF Sound
<1>5. m = 0
  <2>1. p.code[i].fn \notin Hidden(p, r)
    BY <1>1, <1>2
  <2>2. s \in Seq(Code(p)) /\ s # <<>>
    BY DEF Sound, Moving, ThreadRecords
  <2>3. Len(s) \in Nat \ {0}
    BY <2>2
  <2> QED
    BY <1>4, <2>1, <2>3 DEF Track
<1>6. ASSUME NEW f \in First(Here(p, r, i))
      PROVE  f \in Seen(E, O) /\ (Holds(hs, t, l) \/ f \in Bare(E, O, l))
  <2>1. CASE a.last = 0
    <3>1. f \in FirstEvents(E, O)
      BY <2>1 DEF Guarded, Locking
    <3> QED
      BY <3>1, LocksAre DEF Known
  <2>2. CASE a.last # 0
    <3>1. Covered(p, r, a.last, l, hs, t)
      BY <2>2 DEF Guarded
    <3>2. PICK e \in Final(Here(p, r, a.last)) :
            /\ e \in Seen(E, O)
            /\ Holds(hs, t, l) \/ Drops(e, l) \/ (e \in Bare(E, O, l) /\ ~ Takes(e, l))
      BY <3>1 DEF Covered
    <3>3. a.last \in Code(p) /\ i \in Ahead(p, r, a.last)
      BY <1>4, <1>5, <2>2 DEF Track
    <3>4. <<e, f>> \in O
      BY <1>1, <3>2, <3>3, EdgesAre DEF Final, Known
    <3> HIDE DEF i, s, r
    <3> QED
      BY <3>2, <3>4, LocksAre DEF Known
  <2> QED
    BY <2>1, <2>2
<1>7. CASE g \in First(Here(p, r, i))
  BY <1>6, <1>7
<1>8. CASE \E f \in First(Here(p, r, i)) : Before(f, g) /\ f.kind = "Load"
  <2>1. PICK f \in First(Here(p, r, i)) : Before(f, g) /\ f.kind = "Load"
    BY <1>8
  <2>2. f \in Seen(E, O) /\ (Holds(hs, t, l) \/ f \in Bare(E, O, l))
    BY <1>6
  <2>3. <<f, g>> \in O
    BY <1>1, <1>2, <2>1, EdgesAre DEF First, Known
  <2>4. ~ Takes(f, l)
    BY <2>1 DEF Takes
  <2> HIDE DEF i, s, r
  <2> QED
    BY <2>2, <2>3, <2>4, LocksAre DEF Known
<1> QED
  BY <1>7, <1>8, HereHasEnds

\* A thread that goes on, with what the instruction does to the locks.
LEMMA GuardedOnward ==
  ASSUME NEW p, IsProgram(p), NEW a, Sound(p, a), Moving(a), NEW l \in Locks(Extracted(p)), NEW t,
         NEW hs, NEW hsNext, Guarded(p, a, l, hs, t), NEW b, Onward(p, a, b),
         \/ Holds(hs, t, l) => Holds(hsNext, t, l)
         \/ p.code[a.stack[1]].op = "release" /\ Named(p, a.stack[1], l),
         p.code[a.stack[1]].op = "acquire" /\ Named(p, a.stack[1], l) => Holds(hsNext, t, l)
  PROVE  Guarded(p, b, l, hsNext, t)
<1> DEFINE r == a.role
           s == a.stack
           i == s[1]
           E == Extracted(p)
           O == Known(p)
           new == Latest(p, r, s, a.last)
<1>1. b.role = r /\ b.last = new
  <2>1. \E q : b = Advance(p, a, q)
    BY DEF Onward
  <2> QED
    BY <2>1 DEF Advance
<1>2. SUFFICES ASSUME Locking(p, r)
               PROVE  new # 0 /\ Covered(p, r, new, l, hsNext, t)
  BY <1>1 DEF Guarded
<1>3. r \in Roles(p) /\ Hidden(p, r) \cap RoleFunctions(p, r) = {}
  BY <1>2 DEF Locking
<1>4. Starts(p, r) # {}
  <2>1. PICK e \in Extracted(p) : e.role = r /\ e.kind = "Acquire"
    BY <1>2 DEF Locking
  <2>2. e \in Here(p, r, e.pc)
    BY <2>1 DEF Here, Placed
  <2>3. RoleFunctions(p, r) # {}
    BY <2>2, HereIs
  <2> QED
    BY <1>3, <2>3, RoleFunctionsAre
<1>5. PICK m : Track(p, r, s, a.last, m)
  BY <1>3, <1>4 DEF Sound
<1>6. s \in Seq(Code(p)) /\ s # <<>>
  BY DEF Sound, Moving, ThreadRecords
<1>7. i \in Code(p) /\ m \in Nat /\ Len(s) \in Nat \ {0} /\ 0 \notin Code(p)
  BY <1>5, <1>6, Replaced DEF Track, IsProgram
<1>8. CASE Here(p, r, i) = {}
  <2>1. new = a.last
    BY <1>8 DEF Latest
  <2>2. a.last # 0
    <3>1. SUFFICES ASSUME a.last = 0 PROVE FALSE
      OBVIOUS
    <3>2. PICK f \in Starts(p, r) : i = p.entry[f]
      BY <1>2, <3>1 DEF Guarded
    <3> QED
      BY <1>2, <1>8, <3>2 DEF Locking
  <2>3. PICK e \in Final(Here(p, r, a.last)) :
          /\ e \in Seen(E, O)
          /\ Holds(hs, t, l) \/ Drops(e, l) \/ (e \in Bare(E, O, l) /\ ~ Takes(e, l))
    BY <1>2, <2>2 DEF Guarded, Covered
  <2>4. CASE m > 0
    <3>1. e.kind \in OpaqueKinds
      BY <1>5, <2>3, <2>4 DEF Track, Final
    <3>2. Drops(e, l)
      BY <3>1 DEF Drops
    <3> QED
      BY <2>1, <2>2, <2>3, <3>2 DEF Covered
  <2>5. CASE m = 0
    <3>1. p.code[i].fn \in RoleFunctions(p, r)
      BY <1>5, <1>7, <2>5 DEF Track
    <3>2. p.code[i].op # "release"
      <4>1. SUFFICES ASSUME p.code[i].op = "release" PROVE FALSE
        OBVIOUS
      <4>2. \E k \in KindOf(p, p.code[i]) : k # "Effect"
        <5>1. KindOf(p, p.code[i]) = {"Release"} \/ KindOf(p, p.code[i]) = {"Opaque"}
          BY <4>1, LockKinds
        <5> QED
          BY <5>1
      <4>3. Here(p, r, i) # {}
        BY <1>3, <1>7, <3>1, <4>2, HereIs
      <4> QED
        BY <1>8, <4>3
    <3>3. Holds(hs, t, l) => Holds(hsNext, t, l)
      BY <3>2
    <3> QED
      BY <2>1, <2>2, <2>3, <3>3 DEF Covered
  <2> QED
    BY <1>7, <2>4, <2>5
<1>9. CASE Here(p, r, i) # {}
  <2>1. new = i /\ i # 0
    BY <1>7, <1>9 DEF Latest
  <2>2. PICK e \in Final(Here(p, r, i)) : TRUE
    BY <1>9, HereHasEnds
  <2>3. e \in Here(p, r, i)
    BY <2>2 DEF Final
  <2>4. e \in Seen(E, O) /\ (Holds(hs, t, l) \/ e \in Bare(E, O, l))
    BY <1>2, <2>3, EventGuarded
  <2>5. Takes(e, l) => Holds(hsNext, t, l)
    <3>1. SUFFICES ASSUME Takes(e, l) PROVE Holds(hsNext, t, l)
      OBVIOUS
    <3>2. e.kind = "Acquire" /\ l \in LockOf(e)
      BY <3>1 DEF Takes
    <3>3. p.code[i].op = "acquire" /\ Named(p, i, l)
      BY <2>3, <3>2, LockNames DEF Named
    <3> QED
      BY <3>3
  <2>6. p.code[i].op = "release" /\ Named(p, i, l) => Drops(e, l)
    BY <2>3, ReleaseDrops
  <2>7. Holds(hsNext, t, l) \/ Drops(e, l) \/ (e \in Bare(E, O, l) /\ ~ Takes(e, l))
    BY <2>4, <2>5, <2>6
  <2> QED
    BY <2>1, <2>2, <2>4, <2>7 DEF Covered
<1> QED
  BY <1>8, <1>9

\* A thread that starts.
LEMMA GuardedBegun ==
  ASSUME NEW p, IsProgram(p), NEW l, NEW hs, NEW t
  PROVE  /\ \A i \in Creates(p) \cup Regions(p) : Guarded(p, Begun(p, i), l, hs, t)
         /\ Guarded(p, [state |-> "running", role |-> 0, stack |-> <<p.entry["main"]>>, last |-> 0], l, hs, t)
         /\ Guarded(p, Nobody, l, hs, t)
<1>1. ASSUME NEW i \in Creates(p) \cup Regions(p) PROVE Guarded(p, Begun(p, i), l, hs, t)
  <2> DEFINE g == p.code[i].goes
             b == Begun(p, i)
  <2>1. b.role = i /\ b.stack = <<p.entry[g]>> /\ b.last = 0
    BY DEF Begun
  <2>2. i \in Code(p) /\ g \in Functions(p) /\ i # 0
    BY DEF IsProgram, Creates, Regions
  <2>3. ASSUME Locking(p, i) PROVE g \in Starts(p, i)
    <3>1. PICK e \in Extracted(p) : e.role = i /\ e.kind = "Acquire"
      BY <2>3 DEF Locking
    <3>2. e \in Here(p, i, e.pc)
      BY <3>1 DEF Here, Placed
    <3>3. i \in Roles(p) /\ RoleFunctions(p, i) # {}
      BY <3>2, HereIs
    <3>4. Starts(p, i) # {}
      BY <3>3, RoleFunctionsAre
    <3>5. p.code[i].closed /\ Starts(p, i) = p.code[i].callees
      BY <2>2, <3>4 DEF Starts
    <3>6. g \in p.code[i].callees \cup {"none"} /\ g # "none"
      BY <2>2, <3>5 DEF IsProgram
    <3> QED
      BY <3>5, <3>6
  <2> HIDE DEF b, g
  <2>4. b.stack[1] = p.entry[g]
    BY <2>1
  <2> QED
    BY <2>1, <2>3, <2>4 DEF Guarded, b
<1>2. Guarded(p, [state |-> "running", role |-> 0, stack |-> <<p.entry["main"]>>, last |-> 0], l, hs, t)
  BY DEF Guarded, Starts
<1>3. Guarded(p, Nobody, l, hs, t)
  BY DEF Guarded, Nobody, Moving
<1> QED
  BY <1>1, <1>2, <1>3

\* Every thread is guarded for every lock.
LockInv == \A l \in Locks(events), t \in Threads : Guarded(prog, threads[t], l, held, t)

\* A step of one thread changes what that thread holds, as the instruction says.
LEMMA HeldBy ==
  ASSUME NEW hs, NEW k, NEW u, NEW l
  PROVE  /\ Holds(hs \cup {<<k, u>>}, u, l) <=> Holds(hs, u, l) \/ (k[1] = l[2][1] /\ k[2] = l[2][2] + l[3])
         /\ Holds(hs, u, l) => Holds(hs \ {<<k, u>>}, u, l) \/ (k[1] = l[2][1] /\ k[2] = l[2][2] + l[3])
         /\ \A t : t # u => /\ Holds(hs \cup {<<k, u>>}, t, l) <=> Holds(hs, t, l)
                            /\ Holds(hs \ {<<k, u>>}, t, l) <=> Holds(hs, t, l)
<1> DEFINE x == <<k, u>>
<1>1. x[1] = k /\ x[2] = u
  OBVIOUS
<1> HIDE DEF x
<1>2. Holds(hs \cup {x}, u, l) <=> Holds(hs, u, l) \/ (k[1] = l[2][1] /\ k[2] = l[2][2] + l[3])
  BY <1>1 DEF Holds
<1>3. Holds(hs, u, l) => Holds(hs \ {x}, u, l) \/ (k[1] = l[2][1] /\ k[2] = l[2][2] + l[3])
  BY <1>1 DEF Holds
<1>4. ASSUME NEW t, t # u
      PROVE  /\ Holds(hs \cup {x}, t, l) <=> Holds(hs, t, l)
             /\ Holds(hs \ {x}, t, l) <=> Holds(hs, t, l)
  BY <1>1, <1>4 DEF Holds
<1> QED
  BY <1>2, <1>3, <1>4 DEF x

\* A thread stays guarded as long as it keeps its lock.
LEMMA GuardedSame ==
  ASSUME NEW p, NEW a, NEW l, NEW hs, NEW new, NEW t, Guarded(p, a, l, hs, t),
         Holds(hs, t, l) => Holds(new, t, l)
  PROVE  Guarded(p, a, l, new, t)
BY DEF Guarded, Covered

\* A step of the run keeps every thread guarded.
LEMMA LocksInductive ==
  /\ Init => LockInv
  /\ RunInv /\ LockInv /\ [Next]_vars => LockInv'
<1>1. ASSUME Init PROVE LockInv
  <2>1. events = {}
    BY <1>1 DEF Init
  <2> QED
    BY <2>1 DEF LockInv, Locks
<1>2. ASSUME RunInv, LockInv, [Next]_vars PROVE LockInv'
  <2>1. StagesInv /\ StagesInv' /\ prog' = prog /\ IsProgram(prog)
    BY <1>2, ProgramsAreRecovered, StagesInductive, StageSteps DEF RunInv, StagesInv
  <2>2. CASE threads' = threads /\ stage' # "running"
    <3>1. \A t \in Threads : threads'[t] = Nobody
      BY <2>1, <2>2 DEF StagesInv
    <3>2. \A l \in Locks(events'), t \in Threads : Guarded(prog, threads'[t], l, held', t)
      BY <2>1, <3>1, GuardedBegun
    <3> QED
      BY <2>1, <3>2 DEF LockInv
  <2>3. CASE UNCHANGED vars
    <3>1. threads' = threads /\ held' = held /\ events' = events
      BY <2>3 DEF vars, run, static
    <3> QED
      BY <1>2, <2>1, <3>1 DEF LockInv
  <2>4. CASE Start
    <3> DEFINE b == Begin(0, "main")
    <3>1. threads' = [threads EXCEPT ![0] = b] /\ stage # "running"
      BY <2>4 DEF Start
    <3>2. \A l, t : Guarded(prog, b, l, held', t) /\ Guarded(prog, Nobody, l, held', t)
      BY <2>1, GuardedBegun DEF Begin
    <3> HIDE DEF b
    <3>3. \A t \in Threads : threads'[t] = b \/ threads'[t] = Nobody
      BY <1>2, <2>1, <3>1 DEF RunInv, StagesInv
    <3>4. \A l \in Locks(events'), t \in Threads : Guarded(prog, threads'[t], l, held', t)
      BY <3>2, <3>3
    <3> QED
      BY <2>1, <3>4 DEF LockInv
  <2>5. CASE Run
    <3>1. stage = "running" /\ events' = events
      BY <2>5 DEF Run, static
    <3>2. PICK t \in Threads : Move(t)
      BY <2>5 DEF Run
    <3>3. /\ Moving(threads[t]) /\ \A u \in Threads : Became(t, u, threads'[u])
          /\ \/ held' = held /\ Instr(t).op \notin {"acquire", "release"}
             \/ /\ Instr(t).op = "acquire" /\ held' = held \cup {<<Lock(t), t>>}
                /\ Onward(prog, threads[t], threads'[t])
             \/ /\ Instr(t).op = "release" /\ held' = held \ {<<Lock(t), t>>}
                /\ Onward(prog, threads[t], threads'[t])
      BY <1>2, <3>1, <3>2, MoveIs
    <3>4. /\ Recovered /\ At(t) = threads[t].stack[1] /\ Instr(t) = prog.code[At(t)]
          /\ \A u \in Threads : Sound(prog, threads[u])
      BY <1>2, <3>1, <3>3, EventsAtIs DEF Instr, RunInv
    <3>5. SUFFICES ASSUME NEW l \in Locks(events), NEW u \in Threads
                   PROVE  Guarded(prog, threads'[u], l, held', u)
      BY <2>1, <3>1 DEF LockInv
    <3>6. Guarded(prog, threads[u], l, held, u) /\ Guarded(prog, threads[t], l, held, t)
      BY <1>2 DEF LockInv
    <3>7. l \in Locks(Extracted(prog))
      BY <3>4 DEF Recovered
    <3>8. \A k \in {Lock(t)} : k[1] = Instr(t).obj /\ k[2] = Instr(t).at
      BY DEF Lock
    <3>9. u # t => (Holds(held, u, l) => Holds(held', u, l))
      BY <3>3, HeldBy
    <3>10. /\ \/ Holds(held, t, l) => Holds(held', t, l)
              \/ Instr(t).op = "release" /\ Named(prog, At(t), l)
           /\ Instr(t).op = "acquire" /\ Named(prog, At(t), l) => Holds(held', t, l)
      <4> DEFINE k == Lock(t)
      <4>1. Named(prog, At(t), l) <=> k[1] = l[2][1] /\ k[2] = l[2][2] + l[3]
        BY <3>4, <3>8 DEF Named
      <4> HIDE DEF k
      <4>2. CASE held' = held /\ Instr(t).op \notin {"acquire", "release"}
        BY <4>2
      <4>3. CASE Instr(t).op = "acquire" /\ held' = held \cup {<<k, t>>}
        <5>1. Holds(held \cup {<<k, t>>}, t, l) <=> Holds(held, t, l) \/ Named(prog, At(t), l)
          BY <4>1, HeldBy, Zenon
        <5> QED
          BY <4>3, <5>1
      <4>4. CASE Instr(t).op = "release" /\ held' = held \ {<<k, t>>}
        <5>1. Holds(held, t, l) => Holds(held \ {<<k, t>>}, t, l) \/ Named(prog, At(t), l)
          BY <4>1, HeldBy, Zenon
        <5> QED
          BY <4>4, <5>1
      <4> QED
        BY <3>3, <4>2, <4>3, <4>4 DEF k
    <3>11. CASE u = t /\ Onward(prog, threads[t], threads'[t])
      BY <2>1, <3>3, <3>4, <3>6, <3>7, <3>10, <3>11, GuardedOnward
    <3>12. CASE ~ (u = t /\ Onward(prog, threads[t], threads'[t]))
      <4>1. Holds(held, u, l) => Holds(held', u, l)
        BY <3>3, <3>9, <3>12
      <4>2. CASE threads'[u] = threads[u]
        BY <3>6, <4>1, <4>2, GuardedSame
      <4>3. CASE threads'[u] = Nobody
        BY <2>1, <4>3, GuardedBegun
      <4>4. CASE At(t) \in Creates(prog) \cup Regions(prog) /\ threads'[u] = Begun(prog, At(t))
        BY <2>1, <4>4, GuardedBegun
      <4>5. CASE \E st \in {"ended", "waiting"} : u = t /\ threads'[u] = [threads[t] EXCEPT !.state = st]
        <5>1. PICK st \in {"ended", "waiting"} : u = t /\ threads'[u] = [threads[t] EXCEPT !.state = st]
          BY <4>5
        <5> DEFINE a == threads[t]
                   b == [a EXCEPT !.state = st]
        <5>2. a \in ThreadRecords(prog)
          BY <3>4 DEF Sound
        <5>3. b.role = a.role /\ b.stack = a.stack /\ b.last = a.last
          BY <5>2 DEF ThreadRecords
        <5>4. Guarded(prog, a, l, held', t)
          BY <3>6, <4>1, <5>1, GuardedSame
        <5> HIDE DEF a, b
        <5>5. Guarded(prog, b, l, held', t)
          BY <3>3, <5>3, <5>4 DEF Guarded, a
        <5> QED
          BY <5>1, <5>5 DEF a, b
      <4>6. Became(t, u, threads'[u])
        BY <3>3
      <4> QED
        BY <3>12, <4>2, <4>3, <4>4, <4>5, <4>6 DEF Became
    <3> QED
      BY <3>11, <3>12
  <2> QED
    BY <1>2, <2>1, <2>2, <2>3, <2>4, <2>5, StageSteps DEF RunInv
<1> QED
  BY <1>1, <1>2

\* What is known behind the latest event holds at the next one.
LEMMA LocksNow == RunInv /\ LockInv => DefiniteLocksHeld
<1> SUFFICES ASSUME RunInv, LockInv, NEW l \in DOMAIN shared.locks, NEW t \in Threads,
                    stage = "running", Running(t), EventsAt(t) \cap shared.locks[l] # {},
                    StartsFirst(threads[t].role), HiddenApart(prog)
    PROVE  \E h \in held : h[2] = t /\ h[1][1] = l[2][1] /\ h[1][2] = l[2][2] + l[3]
  BY DEF DefiniteLocksHeld
<1> DEFINE a == threads[t]
           r == a.role
           E == Extracted(prog)
           O == Known(prog)
<1>1. Moving(a)
  BY DEF Running, Moving
<1>2. IsProgram(prog) /\ Recovered /\ Sound(prog, a) /\ EventsAt(t) = Here(prog, r, a.stack[1])
  BY <1>1, EventsAtIs DEF RunInv
<1>3. events = E /\ order = O /\ shared = SharedStateOf(prog, events, order)
  BY <1>2 DEF RunInv, StagesInv, Recovered, Known
<1>4. l \in Locks(E) /\ shared.locks[l] = E \ Unlocked(E, O, l)
  <2>1. shared.locks = DefiniteLocks(events, order)
    BY <1>3 DEF SharedStateOf
  <2> QED
    BY <1>3, <2>1 DEF DefiniteLocks
<1>5. PICK g \in EventsAt(t) : g \in shared.locks[l]
  OBVIOUS
<1>6. g \in Seen(E, O) /\ g \notin Bare(E, O, l) /\ g.role = r /\ g \in Here(prog, r, a.stack[1])
  <2>1. Unlocked(E, O, l) = Bare(E, O, l) \cup (E \ Seen(E, O))
    BY <1>2, LocksAre DEF Known
  <2>2. g \in E /\ g \notin Unlocked(E, O, l) /\ g.role = r
    BY <1>2, <1>3, <1>4, <1>5 DEF Here, Placed
  <2> QED
    BY <1>2, <1>5, <2>1, <2>2
<1>7. \E e \in E : e.role = r /\ e.kind = "Acquire"
  BY <1>2, <1>6, NoLockNoSection DEF Known
<1>8. Locking(prog, r)
  <2>1. r \in Roles(prog)
    BY <1>6, HereIs
  <2>2. Hidden(prog, r) \cap RoleFunctions(prog, r) = {}
    BY <2>1 DEF HiddenApart
  <2>3. \A f \in Starts(prog, r) :
          /\ Here(prog, r, prog.entry[f]) # {}
          /\ First(Here(prog, r, prog.entry[f])) \subseteq FirstEvents(E, O)
    BY <1>3, <1>7 DEF StartsFirst, Here, First
  <2> QED
    BY <1>7, <2>1, <2>2, <2>3 DEF Locking
<1>9. Guarded(prog, a, l, held, t)
  BY <1>3, <1>4 DEF LockInv
<1> HIDE DEF a, r, E, O
<1>10. Holds(held, t, l)
  BY <1>1, <1>2, <1>6, <1>8, <1>9, EventGuarded DEF r, E, O
<1> QED
  BY <1>10 DEF Holds

(***************************************************************************)
(* A lock that counts as held on every path is held, for every program,    *)
(* every number of threads and every run.                                  *)
(***************************************************************************)
THEOREM LocksAreHeld == Spec => []DefiniteLocksHeld
BY LocksNow, RunInductive, LocksInductive, PTL DEF Spec

-----------------------------------------------------------------------------
(* A lock keeps others out.                                                  *)

\* Every lock that is held has one holder, if the threads share their locks.
HeldInv ==
  /\ stage # "running" => held = {}
  /\ LocksShared(prog) => /\ \A h \in held : h = <<<<h[1][1], h[1][2], {}>>, h[2]>>
                          /\ \A g, h \in held : g[1] = h[1] => g[2] = h[2]

\* An acquire waits until the lock is free, so a second holder never comes.
LEMMA HeldInductive ==
  /\ Init => HeldInv
  /\ RunInv /\ HeldInv /\ [Next]_vars => HeldInv'
<1>1. ASSUME Init PROVE HeldInv
  BY <1>1 DEF Init, HeldInv
<1>2. ASSUME RunInv, HeldInv, [Next]_vars PROVE HeldInv'
  <2>1. prog' = prog /\ StagesInv
    BY <1>2, StageSteps DEF RunInv
  <2>2. CASE held' = held /\ (stage # "running" \/ stage' = stage)
    BY <1>2, <2>1, <2>2 DEF HeldInv
  <2>3. CASE Run
    <3>1. stage = "running" /\ stage' = stage
      BY <2>3 DEF Run, static
    <3>2. PICK t \in Threads : Move(t)
      BY <2>3 DEF Run
    <3>3. Moving(threads[t])
      BY <1>2, <3>1, <3>2, MoveIs
    <3>4. At(t) \in Code(prog) /\ Instr(t) = prog.code[At(t)]
      BY <1>2, <3>1, <3>3, EventsAtIs DEF Instr
    <3>5. CASE held' \subseteq held
      BY <1>2, <2>1, <3>1, <3>5 DEF HeldInv
    <3>6. CASE Acquire(t)
      <4> DEFINE k == Lock(t)
      <4>1. held' = held \cup {<<k, t>>} /\ \A h \in held : h[1] # k
        BY <3>6 DEF Acquire
      <4>2. LocksShared(prog) => k = <<k[1], k[2], {}>>
        BY <3>4, <3>6 DEF LocksShared, Lock, Acquire
      <4> HIDE DEF k
      <4> DEFINE x == <<k, t>>
      <4>3. x[1] = k /\ x[2] = t /\ (LocksShared(prog) => x = <<<<x[1][1], x[1][2], {}>>, x[2]>>)
        BY <4>2
      <4> HIDE DEF x
      <4>4. held' = held \cup {x}
        BY <4>1 DEF x
      <4>5. SUFFICES ASSUME LocksShared(prog)
                     PROVE  /\ \A h \in held' : h = <<<<h[1][1], h[1][2], {}>>, h[2]>>
                            /\ \A g, h \in held' : g[1] = h[1] => g[2] = h[2]
        BY <2>1, <3>1 DEF HeldInv
      <4>6. /\ \A h \in held : h = <<<<h[1][1], h[1][2], {}>>, h[2]>>
            /\ \A g, h \in held : g[1] = h[1] => g[2] = h[2]
        BY <1>2, <4>5 DEF HeldInv
      <4>7. \A h \in held' : h = <<<<h[1][1], h[1][2], {}>>, h[2]>>
        <5> SUFFICES ASSUME NEW h \in held' PROVE h = <<<<h[1][1], h[1][2], {}>>, h[2]>>
          OBVIOUS
        <5>1. CASE h = x
          BY <4>3, <4>5, <5>1
        <5>2. CASE h \in held
          BY <4>6, <5>2
        <5> QED
          BY <4>4, <5>1, <5>2
      <4>8. \A g, h \in held' : g[1] = h[1] => g[2] = h[2]
        BY <4>1, <4>3, <4>4, <4>6
      <4> QED
        BY <4>7, <4>8
    <3> QED
      <4>1. Acquire(t) \/ held' \subseteq held
        BY <3>2 DEF Move, RegionEnds, Plain, Call, Return, Exit, Create, Join, Region, Release
      <4> QED
        BY <3>5, <3>6, <4>1
  <2>4. (held' = held /\ (stage # "running" \/ stage' = stage)) \/ Run
    BY <1>2 DEF Next, Extract, ExtractionFails, Share, Slice, Verify, Start, vars, run, static
  <2> QED
    BY <2>2, <2>3, <2>4
<1> QED
  BY <1>1, <1>2

(***************************************************************************)
(* lock_protection_candidates: accesses that one lock protects in every    *)
(* thread need no other order.  Two threads are never both at an event at  *)
(* which the same lock counts as held, in a program whose threads share    *)
(* their locks, under the conditions of DefiniteLocksHeld.                 *)
(***************************************************************************)
SectionsApart ==
  LocksShared(prog) /\ HiddenApart(prog) /\ (\A r \in Roles(prog) : StartsFirst(r)) =>
    \A l \in DOMAIN shared.locks, t, u \in Threads :
      /\ stage = "running" /\ Running(t) /\ Running(u)
      /\ EventsAt(t) \cap shared.locks[l] # {} /\ EventsAt(u) \cap shared.locks[l] # {}
      => t = u

\* One holder of a lock that is held at both events.
LEMMA SectionsNow == StagesInv /\ HeldInv /\ DefiniteLocksHeld => SectionsApart
<1> SUFFICES ASSUME StagesInv, HeldInv, DefiniteLocksHeld, LocksShared(prog), HiddenApart(prog),
                    \A r \in Roles(prog) : StartsFirst(r),
                    NEW l \in DOMAIN shared.locks, NEW t \in Threads, NEW u \in Threads,
                    stage = "running", Running(t), Running(u),
                    EventsAt(t) \cap shared.locks[l] # {}, EventsAt(u) \cap shared.locks[l] # {}
    PROVE  t = u
  BY DEF SectionsApart
<1>1. ASSUME NEW w \in Threads, Running(w), EventsAt(w) \cap shared.locks[l] # {}
      PROVE  \E h \in held : h[2] = w /\ h[1][1] = l[2][1] /\ h[1][2] = l[2][2] + l[3]
  <2>1. PICK e \in EventsAt(w) : TRUE
    BY <1>1
  <2>2. e \in Extracted(prog) /\ e.kind # "Effect" /\ e.role = threads[w].role /\ e.pc = At(w)
    BY <2>1 DEF EventsAt, Placed, StagesInv, Recovered
  <2>3. e \in Here(prog, threads[w].role, At(w))
    BY <2>2 DEF Here, Placed
  <2>4. StartsFirst(threads[w].role)
    BY <2>3, HereIs
  <2> QED
    BY <1>1, <2>4 DEF DefiniteLocksHeld
<1>2. PICK g \in held : g[2] = t /\ g[1][1] = l[2][1] /\ g[1][2] = l[2][2] + l[3]
  BY <1>1
<1>3. PICK h \in held : h[2] = u /\ h[1][1] = l[2][1] /\ h[1][2] = l[2][2] + l[3]
  BY <1>1
<1>4. /\ g = <<<<g[1][1], g[1][2], {}>>, g[2]>> /\ h = <<<<h[1][1], h[1][2], {}>>, h[2]>>
      /\ g[1] = h[1] => g[2] = h[2]
  BY DEF HeldInv
<1>5. g[1] = <<g[1][1], g[1][2], {}>> /\ h[1] = <<h[1][1], h[1][2], {}>>
  BY <1>4
<1>6. g[1] = h[1]
  <2> DEFINE a == l[2][1]
             b == l[2][2] + l[3]
  <2>1. g[1][1] = a /\ g[1][2] = b /\ h[1][1] = a /\ h[1][2] = b
    BY <1>2, <1>3
  <2> HIDE DEF a, b
  <2> QED
    BY <1>5, <2>1
<1> QED
  BY <1>2, <1>3, <1>4, <1>6

\* The sections of one lock exclude one another, in every execution.
THEOREM LocksExclude == Spec => []SectionsApart
<1>1. RunInv => StagesInv
  BY DEF RunInv
<1> QED
  BY <1>1, SectionsNow, RunInductive, HeldInductive, LocksAreHeld, PTL DEF Spec

-----------------------------------------------------------------------------
(* Paths of the program, and what the phase proofs read off them.            *)

\* A path goes on, and stays in every set that it cannot leave.
LEMMA PathIs ==
  ASSUME NEW p, IsProgram(p), NEW i \in Code(p)
  PROVE  /\ Path(p, i, i)
         /\ \A j : Path(p, i, j) => j \in Code(p) /\ \A k \in Successors(p)[j] : Path(p, i, k)
         /\ \A C \in SUBSET Code(p) :
              i \in C /\ (\A x \in C : Successors(p)[x] \subseteq C) => \A j : Path(p, i, j) => j \in C
<1>1. IsFiniteSet(Code(p)) /\ Successors(p) \in [Code(p) -> SUBSET Code(p)]
  BY GraphsTyped
<1>2. {i} \in SUBSET Code(p)
  OBVIOUS
<1>3. /\ {i} \subseteq Reach(Successors(p), {i}) /\ Reach(Successors(p), {i}) \subseteq Code(p)
      /\ \A x \in Reach(Successors(p), {i}) : Successors(p)[x] \subseteq Reach(Successors(p), {i})
      /\ \A C \in SUBSET Code(p) : {i} \subseteq C /\ (\A x \in C : Successors(p)[x] \subseteq C)
                                   => Reach(Successors(p), {i}) \subseteq C
  BY <1>1, <1>2, ReachIsClosed
<1> QED
  BY <1>3 DEF Path

\* Paths are joined.
LEMMA PathsJoin ==
  ASSUME NEW p, IsProgram(p), NEW i \in Code(p), NEW j, NEW k, Path(p, i, j), Path(p, j, k)
  PROVE  Path(p, i, k)
<1> DEFINE C == {x \in Code(p) : Path(p, i, x)}
<1>1. j \in Code(p) /\ j \in C
  BY PathIs
<1>2. \A x \in C : Successors(p)[x] \subseteq C
  BY PathIs
<1>3. C \in SUBSET Code(p)
  OBVIOUS
<1> HIDE DEF C
<1>4. k \in C
  BY <1>1, <1>2, <1>3, PathIs
<1> QED
  BY <1>4 DEF C

\* What is reached from behind a creation without a join in between.
Until(p) == [i \in Code(p) |-> IF i \in Joins(p) THEN {} ELSE Successors(p)[i]]

\* A path leads to each of these places, and only a join ends it.
LEMMA UntilIs ==
  ASSUME NEW p, IsProgram(p), NEW c \in Code(p)
  PROVE  /\ Successors(p)[c] \subseteq Reach(Until(p), Successors(p)[c])
         /\ \A i \in Reach(Until(p), Successors(p)[c]) :
              /\ i \in Code(p) /\ \E j \in Successors(p)[c] : j \in Code(p) /\ Path(p, j, i)
              /\ i \notin Joins(p) => Successors(p)[i] \subseteq Reach(Until(p), Successors(p)[c])
<1> DEFINE s == Successors(p)[c]
           C == {i \in Code(p) : \E j \in s : j \in Code(p) /\ Path(p, j, i)}
<1>1. IsFiniteSet(Code(p)) /\ Successors(p) \in [Code(p) -> SUBSET Code(p)]
  BY GraphsTyped
<1>2. Until(p) \in [Code(p) -> SUBSET Code(p)] /\ s \in SUBSET Code(p)
  BY <1>1 DEF Until
<1>3. \A i \in Code(p) : Until(p)[i] \subseteq Successors(p)[i]
                         /\ (i \notin Joins(p) => Until(p)[i] = Successors(p)[i])
  BY DEF Until
<1>4. s \subseteq C
  BY <1>2, PathIs
<1>5. \A x \in C : Until(p)[x] \subseteq C
  BY <1>1, <1>3, PathIs
<1>6. C \in SUBSET Code(p)
  OBVIOUS
<1>10. \A i \in C : i \in Code(p) /\ \E j \in s : j \in Code(p) /\ Path(p, j, i)
  OBVIOUS
<1> HIDE DEF C, s
<1>7. /\ s \subseteq Reach(Until(p), s) /\ Reach(Until(p), s) \subseteq Code(p)
      /\ \A x \in Reach(Until(p), s) : Until(p)[x] \subseteq Reach(Until(p), s)
      /\ Reach(Until(p), s) \subseteq C
  BY <1>1, <1>2, <1>4, <1>5, <1>6, ReachIsClosed
<1>8. \A i \in Reach(Until(p), s) : i \notin Joins(p) => Successors(p)[i] \subseteq Reach(Until(p), s)
  BY <1>3, <1>7
<1>9. \A i \in Reach(Until(p), s) : i \in Code(p) /\ \E j \in s : j \in Code(p) /\ Path(p, j, i)
  BY <1>7, <1>10
<1> QED
  BY <1>7, <1>8, <1>9 DEF s

\* The function that the lifecycle ends in; what in it is behind that end, and
\* where one may be without having passed it.
Ending(p) == p.code[p.lifecycle.post].fn
Behind(p) == Reach(Inside(p, Ending(p)), {p.lifecycle.post})
Bypass(p) ==
  LET post == p.lifecycle.post
  IN  Reach([j \in NodesOf(p, Ending(p)) |-> IF j = post THEN {} ELSE Inside(p, Ending(p))[j] \ {post}],
            {p.entry[Ending(p)]} \ {post})

\* Steps keep to both sets, and the accesses behind the join are never in the bypass.
LEMMA EndingIs ==
  ASSUME NEW p, IsProgram(p), p.lifecycle.proven
  PROVE  /\ p.lifecycle.post \in Code(p) /\ Ending(p) \in Functions(p)
         /\ p.lifecycle.post \in Behind(p) /\ Behind(p) \subseteq Code(p)
         /\ p.lifecycle.post \notin Bypass(p)
         /\ p.entry[Ending(p)] # p.lifecycle.post => p.entry[Ending(p)] \in Bypass(p)
         /\ \A x \in Code(p) : p.code[x].fn = Ending(p) =>
              \A y \in p.code[x].next :
                /\ x \in Behind(p) => y \in Behind(p)
                /\ x \in Bypass(p) => y \in Bypass(p) \/ y = p.lifecycle.post
         /\ \A i \in Code(p) : PostJoin(p, i) => p.code[i].fn = Ending(p) /\ i \notin Bypass(p)
<1> DEFINE post == p.lifecycle.post
           f == Ending(p)
           N == NodesOf(p, f)
           skip == [j \in N |-> IF j = post THEN {} ELSE Inside(p, f)[j] \ {post}]
           B == N \ {post}
<1>1. post \in Code(p) /\ f \in Functions(p) /\ post \in N /\ p.entry[f] \in N /\ N \subseteq Code(p)
  BY DEF IsProgram, Ending, NodesOf
<1>2. IsFiniteSet(N)
  BY <1>1, GraphsTyped, FS_Subset
<1>3. Inside(p, f) \in [N -> SUBSET N]
  BY DEF Inside
<1>4. skip \in [N -> SUBSET N] /\ {p.entry[f]} \ {post} \in SUBSET N /\ {post} \in SUBSET N
  BY <1>1, <1>3
<1>5. \A x \in Code(p) : p.code[x].fn = f => x \in N /\ p.code[x].next \subseteq Inside(p, f)[x]
  BY DEF IsProgram, Inside, NodesOf, Successors
<1>6. Behind(p) = Reach(Inside(p, f), {post}) /\ Bypass(p) = Reach(skip, {p.entry[f]} \ {post})
  BY DEF Behind, Bypass
<1>7. \A x \in N : x # post => skip[x] = Inside(p, f)[x] \ {post}
  OBVIOUS
<1>8. {p.entry[f]} \ {post} \subseteq B /\ \A x \in B : skip[x] \subseteq B
  BY <1>1, <1>3
<1>9. \A i \in Code(p) : PostJoin(p, i) =>
         p.code[i].fn = f /\ (i = post \/ i \notin Reach(skip, {p.entry[f]} \ {post}))
  BY DEF PostJoin, Ending
<1>20. B \in SUBSET N /\ post \notin B
  OBVIOUS
<1> HIDE DEF skip, N, B, f
<1>10. /\ {post} \subseteq Reach(Inside(p, f), {post}) /\ Reach(Inside(p, f), {post}) \subseteq N
       /\ \A x \in Reach(Inside(p, f), {post}) : Inside(p, f)[x] \subseteq Reach(Inside(p, f), {post})
  BY <1>2, <1>3, <1>4, ReachIsClosed
<1>11. /\ {p.entry[f]} \ {post} \subseteq Reach(skip, {p.entry[f]} \ {post})
       /\ Reach(skip, {p.entry[f]} \ {post}) \subseteq N
       /\ \A x \in Reach(skip, {p.entry[f]} \ {post}) : skip[x] \subseteq Reach(skip, {p.entry[f]} \ {post})
       /\ Reach(skip, {p.entry[f]} \ {post}) \subseteq B
  BY <1>2, <1>4, <1>8, <1>20, ReachIsClosed
<1>12. ASSUME NEW x \in Code(p), p.code[x].fn = f, NEW y \in p.code[x].next
       PROVE  /\ x \in Behind(p) => y \in Behind(p)
              /\ x \in Bypass(p) => y \in Bypass(p) \/ y = post
  <2>1. x \in N /\ y \in Inside(p, f)[x]
    BY <1>5, <1>12
  <2>2. x \in Behind(p) => y \in Behind(p)
    BY <1>6, <1>10, <2>1
  <2>3. ASSUME x \in Bypass(p), y # post PROVE y \in Bypass(p)
    <3>1. x # post
      BY <1>6, <1>11, <1>20, <2>3
    <3>2. y \in skip[x]
      BY <1>7, <2>1, <2>3, <3>1
    <3> QED
      BY <1>6, <1>11, <2>3, <3>2
  <2> QED
    BY <2>2, <2>3
<1>13. /\ post \in Behind(p) /\ Behind(p) \subseteq Code(p) /\ post \notin Bypass(p)
       /\ p.entry[f] # post => p.entry[f] \in Bypass(p)
  BY <1>1, <1>6, <1>10, <1>11, <1>20
<1>14. \A i \in Code(p) : PostJoin(p, i) => p.code[i].fn = f /\ i \notin Bypass(p)
  BY <1>6, <1>9, <1>13
<1> QED
  BY <1>1, <1>12, <1>13, <1>14 DEF f

\* What is called from behind the end of the lifecycle.
Called(p) == Reach(CallGraph(p, Calls(p)), UNION {p.code[i].callees : i \in Behind(p) \cap Calls(p)})

\* Nothing behind the end creates, and one comes there through a join.
LEMMA JoinedIs ==
  ASSUME NEW p, IsProgram(p), p.lifecycle.proven, JoinedForGood(p), NEW c \in Creates(p)
  PROVE  /\ p.lifecycle.post \notin Reach(Until(p), Successors(p)[c])
         /\ c \notin Behind(p) /\ p.code[c].fn \notin Called(p)
         /\ \A i \in Calls(p) : i \in Behind(p) \/ p.code[i].fn \in Called(p) => p.code[i].callees \subseteq Called(p)
<1> DEFINE graph == CallGraph(p, Calls(p))
           s == UNION {p.code[i].callees : i \in Behind(p) \cap Calls(p)}
<1>1. /\ p.lifecycle.post \notin Reach(Until(p), Successors(p)[c])
      /\ c \notin Behind(p) /\ p.code[c].fn \notin Called(p)
  BY DEF JoinedForGood, Until, Behind, Ending, Called
<1>2. graph \in [Functions(p) -> SUBSET Functions(p)] /\ IsFiniteSet(Functions(p))
  BY GraphsTyped
<1>3. \A i \in Calls(p) : /\ p.code[i].fn \in Functions(p) /\ p.code[i].callees \subseteq Functions(p)
                          /\ p.code[i].callees \subseteq graph[p.code[i].fn]
  BY DEF IsProgram, Calls, CallGraph, NodesOf
<1>4. s \in SUBSET Functions(p)
  BY <1>3
<1>5. \A i \in Calls(p) : i \in Behind(p) => p.code[i].callees \subseteq s
  OBVIOUS
<1>6. Called(p) = Reach(graph, s)
  BY DEF Called
<1> HIDE DEF graph, s
<1>7. s \subseteq Reach(graph, s) /\ \A f \in Reach(graph, s) : graph[f] \subseteq Reach(graph, s)
  BY <1>2, <1>4, ReachIsClosed
<1> QED
  BY <1>1, <1>3, <1>5, <1>6, <1>7

\* A call of main with a known target has this one target.
LEMMA SingleIs ==
  ASSUME NEW p, IsProgram(p), SingleTargets(p), NEW i \in Calls(p), p.code[i].fn \in RoleFunctions(p, 0),
         NEW f \in p.code[i].callees
  PROVE  p.code[i].callees = {f} /\ i \in SingleCalls(p)
<1> DEFINE S == p.code[i].callees
<1>1. S \subseteq Functions(p) /\ IsFiniteSet(Functions(p))
  BY DEF IsProgram, Calls
<1>2. Cardinality(S) <= 1
  BY DEF SingleTargets
<1>3. f \in S
  OBVIOUS
<1> HIDE DEF S
<1>4. IsFiniteSet(S) /\ Cardinality(S) \in Nat
  BY <1>1, FS_Subset, FS_CardinalityType
<1>5. Cardinality(S) # 0
  BY <1>3, <1>4, FS_EmptySet
<1>6. Cardinality(S) = 1
  BY <1>2, <1>4, <1>5
<1>7. PICK x : S = {x}
  BY <1>4, <1>6, FS_Singleton
<1> QED
  BY <1>3, <1>6, <1>7 DEF S, SingleCalls

\* From a place in a stack to all places above it.
LEMMA DownTheChain ==
  ASSUME NEW n \in Nat, NEW P, \A k \in 2 .. n : k \in P => k - 1 \in P,
         NEW k \in 1 .. n, k \in P, NEW j \in 1 .. k
  PROVE  j \in P
<1> DEFINE S == {d \in Nat : \A i \in 1 .. k : k - i = d => i \in P}
<1>1. 0 \in S
  <2> SUFFICES ASSUME NEW i \in 1 .. k, k - i = 0 PROVE i \in P
    OBVIOUS
  <2>1. i = k
    OBVIOUS
  <2> QED
    BY <2>1
<1>2. ASSUME NEW d \in S PROVE d + 1 \in S
  <2> SUFFICES ASSUME NEW i \in 1 .. k, k - i = d + 1 PROVE i \in P
    OBVIOUS
  <2>1. i + 1 \in 1 .. k /\ k - (i + 1) = d /\ i + 1 \in 2 .. n /\ (i + 1) - 1 = i
    OBVIOUS
  <2>2. i + 1 \in P
    BY <2>1
  <2> QED
    BY <2>1, <2>2
<1>3. S \in SUBSET Nat
  OBVIOUS
<1>5. k - j \in Nat
  OBVIOUS
<1>4. S = Nat
  <2> HIDE DEF S
  <2> QED
    BY <1>1, <1>2, <1>3, NumbersInOrder
<1> QED
  BY <1>4, <1>5

-----------------------------------------------------------------------------
(* Where main is.                                                            *)

(***************************************************************************)
(* The instructions main has come to in the functions it is known to call: *)
(* xs[1] is the innermost, each other one a call that leads to the function*)
(* of the one before.                                                      *)
(***************************************************************************)
Chain(p, n, xs) ==
  /\ n \in Nat \ {0} /\ xs \in [1 .. n -> Code(p)]
  /\ \A k \in 2 .. n : xs[k] \in Calls(p) /\ p.code[xs[k - 1]].fn \in p.code[xs[k]].callees
  /\ \A k \in 1 .. n : p.code[xs[k]].fn \in RoleFunctions(p, 0) /\ Path(p, xs[k], xs[1])
  /\ p.code[xs[n]].fn = "main"

\* The stack s belongs to the chain: its first m frames run code that nobody
\* has recovered, behind the call xs[1], the others are the chain's.
Stacked(p, s, m, n, xs) ==
  /\ m \in Nat /\ Len(s) = m + n
  /\ \A k \in 1 .. m : p.code[s[k]].fn \in Hidden(p, 0)
  /\ m = 0 => xs[1] = s[1]
  /\ m > 0 => xs[1] \in Calls(p) /\ Left(p, xs[1]) /\ s[m + 1] \in p.code[xs[1]].next
  /\ \A k \in 2 .. n : s[m + k] \in p.code[xs[k]].next

\* What a step makes of a chain: nothing behind a call that nobody could follow,
\* or main goes on in its function, comes into another or back to the one before.
Moved(p, n, xs, l, ys) ==
  \/ xs[1] \in Calls(p) /\ l = n /\ ys = xs
  \/ l = n /\ ys[1] \in p.code[xs[1]].next /\ \A k \in 2 .. n : ys[k] = xs[k]
  \/ /\ l = n + 1 /\ xs[1] \in Calls(p)
     /\ \E f \in p.code[xs[1]].callees : ys[1] = p.entry[f]
     /\ \A k \in 2 .. l : ys[k] = xs[k - 1]
  \/ /\ n > 1 /\ l = n - 1 /\ p.code[xs[1]].op = "return"
     /\ ys[1] \in p.code[xs[2]].next /\ \A k \in 2 .. l : ys[k] = xs[k + 1]

\* It is a chain again.
LEMMA ChainMoved ==
  ASSUME NEW p, IsProgram(p), NEW n, NEW xs, Chain(p, n, xs),
         NEW l \in Nat \ {0}, NEW ys \in [1 .. l -> Code(p)], Moved(p, n, xs, l, ys)
  PROVE  /\ Chain(p, l, ys)
         /\ (xs[1] \in Calls(p) /\ l = n /\ ys = xs) \/ ys[1] \in Successors(p)[xs[1]]
<1>1. /\ n \in Nat \ {0} /\ xs \in [1 .. n -> Code(p)]
      /\ \A k \in 2 .. n : xs[k] \in Calls(p) /\ p.code[xs[k - 1]].fn \in p.code[xs[k]].callees
      /\ \A k \in 1 .. n : p.code[xs[k]].fn \in RoleFunctions(p, 0) /\ Path(p, xs[k], xs[1])
      /\ p.code[xs[n]].fn = "main" /\ xs[1] \in Code(p) /\ ys[1] \in Code(p)
  BY DEF Chain
<1>2. \A i \in Code(p) : \A j \in p.code[i].next : p.code[j].fn = p.code[i].fn /\ j \in Successors(p)[i] /\ j \in Code(p)
  BY DEF IsProgram, NodesOf, Successors
<1>3. 0 \in Roles(p)
  BY DEF Roles
<1>4. ASSUME ys[1] \in Successors(p)[xs[1]]
      PROVE  \A k \in 1 .. n : Path(p, xs[k], ys[1])
  BY <1>1, <1>4, PathIs
<1>5. Path(p, ys[1], ys[1])
  BY <1>1, PathIs
<1>6. CASE xs[1] \in Calls(p) /\ l = n /\ ys = xs
  BY <1>6
<1>7. CASE l = n /\ ys[1] \in p.code[xs[1]].next /\ \A k \in 2 .. n : ys[k] = xs[k]
  <2>1. ys[1] \in Successors(p)[xs[1]] /\ p.code[ys[1]].fn = p.code[xs[1]].fn
    BY <1>1, <1>2, <1>7
  <2>2. \A k \in 1 .. n : p.code[ys[k]].fn = p.code[xs[k]].fn
    <3> SUFFICES ASSUME NEW k \in 1 .. n PROVE p.code[ys[k]].fn = p.code[xs[k]].fn
      OBVIOUS
    <3>1. k = 1 \/ k \in 2 .. n
      BY <1>1
    <3> QED
      BY <1>7, <2>1, <3>1
  <2>3. \A k \in 1 .. n : Path(p, ys[k], ys[1])
    <3> SUFFICES ASSUME NEW k \in 1 .. n PROVE Path(p, ys[k], ys[1])
      OBVIOUS
    <3>1. k = 1 \/ k \in 2 .. n
      BY <1>1
    <3> QED
      BY <1>4, <1>5, <1>7, <2>1, <3>1
  <2>4. ASSUME NEW k \in 2 .. n PROVE ys[k] \in Calls(p) /\ p.code[ys[k - 1]].fn \in p.code[ys[k]].callees
    <3>1. k \in 1 .. n /\ k - 1 \in 1 .. n
      BY <1>1
    <3> QED
      BY <1>1, <1>7, <2>2, <3>1
  <2>5. n \in 1 .. n
    BY <1>1
  <2> QED
    BY <1>1, <1>7, <2>1, <2>2, <2>3, <2>4, <2>5 DEF Chain
<1>8. CASE /\ l = n + 1 /\ xs[1] \in Calls(p)
           /\ \E f \in p.code[xs[1]].callees : ys[1] = p.entry[f]
           /\ \A k \in 2 .. l : ys[k] = xs[k - 1]
  <2>1. PICK f \in p.code[xs[1]].callees : ys[1] = p.entry[f]
    BY <1>8
  <2>2. p.code[xs[1]].fn \in RoleFunctions(p, 0)
    BY <1>1
  <2>3. f \in RoleFunctions(p, 0) /\ f \in Functions(p)
    BY <1>3, <1>8, <2>2, RoleFunctionsAre
  <2>4. p.code[ys[1]].fn = f
    BY <2>1, <2>3 DEF IsProgram, NodesOf
  <2>5. ys[1] \in Successors(p)[xs[1]]
    BY <1>1, <1>8, <2>1 DEF Successors
  <2>6. \A k \in 2 .. l : k - 1 \in 1 .. n /\ ys[k] = xs[k - 1]
    BY <1>1, <1>8
  <2>7. \A k \in 1 .. l : p.code[ys[k]].fn \in RoleFunctions(p, 0) /\ Path(p, ys[k], ys[1])
    <3> SUFFICES ASSUME NEW k \in 1 .. l
                 PROVE  p.code[ys[k]].fn \in RoleFunctions(p, 0) /\ Path(p, ys[k], ys[1])
      OBVIOUS
    <3>1. k = 1 \/ k \in 2 .. l
      BY <1>1
    <3>2. CASE k = 1
      BY <1>5, <2>3, <2>4, <3>2
    <3>3. CASE k \in 2 .. l
      BY <1>1, <1>4, <2>5, <2>6, <3>3
    <3> QED
      BY <3>1, <3>2, <3>3
  <2>8. ASSUME NEW k \in 2 .. l PROVE ys[k] \in Calls(p) /\ p.code[ys[k - 1]].fn \in p.code[ys[k]].callees
    <3>1. k = 2 \/ k \in 3 .. l
      BY <1>1
    <3>2. CASE k = 2
      BY <1>8, <2>1, <2>4, <2>6, <3>2
    <3>3. CASE k \in 3 .. l
      <4>1. k - 1 \in 2 .. l /\ k - 1 \in 2 .. n /\ (k - 1) - 1 = k - 2 /\ ys[k] = xs[k - 1]
        BY <1>1, <1>8, <2>6, <3>3
      <4>2. ys[k - 1] = xs[k - 2]
        BY <2>6, <4>1
      <4> QED
        BY <1>1, <4>1, <4>2
    <3> QED
      BY <3>1, <3>2, <3>3
  <2>9. l \in 2 .. l /\ l - 1 = n
    BY <1>1, <1>8
  <2>10. p.code[ys[l]].fn = "main"
    BY <1>1, <2>6, <2>9
  <2> QED
    BY <2>5, <2>7, <2>8, <2>10 DEF Chain
<1>9. CASE /\ n > 1 /\ l = n - 1 /\ p.code[xs[1]].op = "return"
           /\ ys[1] \in p.code[xs[2]].next /\ \A k \in 2 .. l : ys[k] = xs[k + 1]
  <2>1. 2 \in 2 .. n /\ 2 \in 1 .. n /\ 2 - 1 = 1
    BY <1>1, <1>9
  <2>2. xs[2] \in Calls(p) /\ p.code[xs[1]].fn \in p.code[xs[2]].callees /\ xs[2] \in Code(p)
    BY <1>1, <2>1
  <2>3. ys[1] \in Successors(p)[xs[1]]
    BY <1>1, <1>9, <2>2 DEF Successors
  <2>4. p.code[ys[1]].fn = p.code[xs[2]].fn
    BY <1>2, <1>9, <2>2
  <2>5. \A k \in 2 .. l : k + 1 \in 1 .. n /\ ys[k] = xs[k + 1]
    BY <1>1, <1>9
  <2>6. \A k \in 1 .. l : k + 1 \in 1 .. n /\ p.code[ys[k]].fn = p.code[xs[k + 1]].fn
    <3> SUFFICES ASSUME NEW k \in 1 .. l
                 PROVE  k + 1 \in 1 .. n /\ p.code[ys[k]].fn = p.code[xs[k + 1]].fn
      OBVIOUS
    <3>1. k = 1 \/ k \in 2 .. l
      BY <1>1
    <3>2. CASE k = 1
      BY <2>1, <2>4, <3>2
    <3> QED
      BY <2>5, <3>1, <3>2
  <2>7. \A k \in 1 .. l : Path(p, ys[k], ys[1])
    <3> SUFFICES ASSUME NEW k \in 1 .. l PROVE Path(p, ys[k], ys[1])
      OBVIOUS
    <3>1. k = 1 \/ k \in 2 .. l
      BY <1>1
    <3> QED
      BY <1>4, <1>5, <2>3, <2>5, <3>1
  <2>8. ASSUME NEW k \in 2 .. l PROVE ys[k] \in Calls(p) /\ p.code[ys[k - 1]].fn \in p.code[ys[k]].callees
    <3>1. k + 1 \in 2 .. n /\ (k + 1) - 1 = k /\ k - 1 \in 1 .. l /\ (k - 1) + 1 = k
      BY <1>1, <1>9
    <3>2. xs[k + 1] \in Calls(p) /\ p.code[xs[k]].fn \in p.code[xs[k + 1]].callees
      BY <1>1, <3>1
    <3>3. p.code[ys[k - 1]].fn = p.code[xs[k]].fn
      BY <2>6, <3>1
    <3> QED
      BY <2>5, <3>2, <3>3
  <2>9. l \in 1 .. l /\ l + 1 = n
    BY <1>1, <1>9
  <2>10. p.code[ys[l]].fn = "main"
    BY <1>1, <2>6, <2>9
  <2>11. \A k \in 1 .. l : p.code[ys[k]].fn \in RoleFunctions(p, 0)
    BY <1>1, <2>6
  <2> QED
    BY <2>3, <2>7, <2>8, <2>10, <2>11 DEF Chain
<1> QED
  BY <1>6, <1>7, <1>8, <1>9 DEF Moved

\* What the chain of a stack becomes with a step of main.
Follows(p, n, xs, s) ==
  \E m \in Nat : \E l \in Nat \ {0} : \E ys \in [1 .. l -> Code(p)] :
    Moved(p, n, xs, l, ys) /\ Stacked(p, s, m, l, ys)

\* To the next instruction.
LEMMA StackNext ==
  ASSUME NEW p, IsProgram(p), NEW n, NEW xs, Chain(p, n, xs),
         NEW s \in Seq(Code(p)), s # <<>>, NEW m, Stacked(p, s, m, n, xs),
         NEW j \in p.code[s[1]].next
  PROVE  Follows(p, n, xs, <<j>> \o Tail(s))
<1> DEFINE q == <<j>> \o Tail(s)
<1>1. n \in Nat \ {0} /\ m \in Nat /\ Len(s) = m + n /\ xs \in [1 .. n -> Code(p)]
  BY DEF Chain, Stacked
<1>2. s[1] \in Code(p)
  BY Replaced
<1>3. j \in Code(p) /\ p.code[j].fn = p.code[s[1]].fn
  BY <1>2 DEF IsProgram, NodesOf
<1>4. Len(q) = Len(s) /\ q[1] = j /\ \A k \in 2 .. Len(s) : q[k] = s[k]
  BY <1>3, Stacks
<1> HIDE DEF q
<1>5. CASE m = 0
  <2> DEFINE ys == [k \in 1 .. n |-> IF k = 1 THEN j ELSE xs[k]]
  <2>1. xs[1] = s[1] /\ ys \in [1 .. n -> Code(p)] /\ ys[1] = j /\ \A k \in 2 .. n : ys[k] = xs[k]
    BY <1>1, <1>3, <1>5 DEF Stacked
  <2> HIDE DEF ys
  <2>2. Moved(p, n, xs, n, ys)
    BY <2>1 DEF Moved
  <2>3. ASSUME NEW k \in 2 .. n PROVE q[0 + k] \in p.code[ys[k]].next
    <3>1. k \in 2 .. Len(s) /\ 0 + k = k
      BY <1>1, <1>5
    <3>2. s[k] \in p.code[xs[k]].next
      BY <1>5, <3>1 DEF Stacked
    <3> QED
      BY <1>4, <2>1, <3>1, <3>2
  <2>4. Stacked(p, q, 0, n, ys)
    BY <1>1, <1>4, <1>5, <2>1, <2>3 DEF Stacked
  <2> QED
    BY <1>1, <2>1, <2>2, <2>4 DEF Follows, q
<1>6. CASE m > 0
  <2>1. \A k \in 1 .. m : p.code[q[k]].fn = p.code[s[k]].fn
    <3> SUFFICES ASSUME NEW k \in 1 .. m PROVE p.code[q[k]].fn = p.code[s[k]].fn
      OBVIOUS
    <3>1. k = 1 \/ k \in 2 .. Len(s)
      BY <1>1
    <3> QED
      BY <1>3, <1>4, <3>1
  <2>2. ASSUME NEW k \in 1 .. n PROVE q[m + k] = s[m + k]
    <3>1. m + k \in 2 .. Len(s)
      BY <1>1, <1>6
    <3> QED
      BY <1>4, <3>1
  <2>3. q[m + 1] = s[m + 1] /\ \A k \in 2 .. n : q[m + k] = s[m + k]
    BY <1>1, <2>2, 1 \in 1 .. n
  <2>4. Stacked(p, q, m, n, xs)
    BY <1>1, <1>4, <1>6, <2>1, <2>3 DEF Stacked
  <2>5. Moved(p, n, xs, n, xs)
    BY <1>6 DEF Moved, Stacked
  <2> QED
    BY <1>1, <2>4, <2>5 DEF Follows, q
<1> QED
  BY <1>1, <1>5, <1>6

\* Into the function that a call goes to.
LEMMA StackCall ==
  ASSUME NEW p, IsProgram(p), NEW n, NEW xs, Chain(p, n, xs),
         NEW s \in Seq(Code(p)), s # <<>>, NEW m, Stacked(p, s, m, n, xs),
         s[1] \in Calls(p), p.code[s[1]].goes # "none", Within(p, s[1]), NEW j \in p.code[s[1]].next
  PROVE  Follows(p, n, xs, <<p.entry[p.code[s[1]].goes], j>> \o Tail(s))
<1> DEFINE g == p.code[s[1]].goes
           e == p.entry[g]
           q == <<e, j>> \o Tail(s)
<1>1. n \in Nat \ {0} /\ m \in Nat /\ Len(s) = m + n /\ xs \in [1 .. n -> Code(p)]
  BY DEF Chain, Stacked
<1>2. s[1] \in Code(p) /\ 0 \in Roles(p)
  BY Replaced DEF Roles
<1>3. j \in Code(p) /\ p.code[j].fn = p.code[s[1]].fn /\ g \in Functions(p)
  BY <1>2 DEF IsProgram, NodesOf
<1>4. e \in Code(p) /\ p.code[e].fn = g
  BY <1>3 DEF IsProgram, NodesOf
<1> HIDE DEF e
<1>5. /\ Len(q) = Len(s) + 1 /\ q[1] = e /\ q[2] = j
      /\ \A k \in 3 .. Len(s) + 1 : q[k] = s[k - 1]
  BY <1>3, <1>4, Stacks
<1> HIDE DEF q
<1>6. \A k \in 2 .. n : s[m + k] \in p.code[xs[k]].next
  BY DEF Stacked
<1>7. ASSUME g \notin p.code[s[1]].callees \/ m > 0 PROVE Stacked(p, q, m + 1, n, xs)
  <2>1. g \in Hidden(p, 0)
    <3>1. CASE m = 0
      <4>1. p.code[s[1]].fn \in RoleFunctions(p, 0)
        BY <1>1, <3>1 DEF Chain, Stacked
      <4> QED
        BY <1>2, <1>7, <3>1, <4>1, HiddenIs
    <3>2. CASE m > 0
      <4>1. p.code[s[1]].fn \in Hidden(p, 0)
        BY <1>1, <3>2 DEF Stacked
      <4> QED
        BY <1>2, <4>1, HiddenIs
    <3> QED
      BY <1>1, <3>1, <3>2
  <2>2. ASSUME NEW k \in 1 .. m + 1 PROVE p.code[q[k]].fn \in Hidden(p, 0)
    <3>1. CASE k = 1
      BY <1>4, <1>5, <2>1, <3>1
    <3>2. CASE k = 2
      <4>1. m > 0 /\ 1 \in 1 .. m
        BY <1>1, <3>2
      <4>2. p.code[s[1]].fn \in Hidden(p, 0)
        BY <4>1 DEF Stacked
      <4> QED
        BY <1>3, <1>5, <3>2, <4>2
    <3>3. CASE k > 2
      <4>1. k \in 3 .. Len(s) + 1 /\ k - 1 \in 1 .. m
        BY <1>1, <3>3
      <4>2. p.code[s[k - 1]].fn \in Hidden(p, 0)
        BY <4>1 DEF Stacked
      <4> QED
        BY <1>5, <4>1, <4>2
    <3> QED
      BY <1>1, <3>1, <3>2, <3>3
  <2>3. xs[1] \in Calls(p) /\ Left(p, xs[1]) /\ q[(m + 1) + 1] \in p.code[xs[1]].next
    <3>1. CASE m = 0
      <4>1. xs[1] = s[1] /\ (m + 1) + 1 = 2
        BY <3>1 DEF Stacked
      <4>2. Left(p, xs[1])
        BY <1>7, <3>1, <4>1 DEF Left
      <4> QED
        BY <1>5, <4>1, <4>2
    <3>2. CASE m > 0
      <4>1. xs[1] \in Calls(p) /\ Left(p, xs[1]) /\ s[m + 1] \in p.code[xs[1]].next
        BY <3>2 DEF Stacked
      <4>2. (m + 1) + 1 \in 3 .. Len(s) + 1 /\ ((m + 1) + 1) - 1 = m + 1
        BY <1>1, <3>2
      <4> QED
        BY <1>5, <4>1, <4>2
    <3> QED
      BY <1>1, <3>1, <3>2
  <2>4. ASSUME NEW k \in 2 .. n PROVE q[(m + 1) + k] \in p.code[xs[k]].next
    <3>1. (m + 1) + k \in 3 .. Len(s) + 1 /\ ((m + 1) + k) - 1 = m + k
      BY <1>1
    <3> QED
      BY <1>5, <1>6, <3>1
  <2>5. m + 1 \in Nat /\ Len(q) = (m + 1) + n /\ m + 1 # 0
    BY <1>1, <1>5
  <2> QED
    BY <2>2, <2>3, <2>4, <2>5 DEF Stacked
<1>8. CASE g \notin p.code[s[1]].callees \/ m > 0
  <2>2. m + 1 \in Nat /\ m + 1 > 0
    BY <1>1
  <2>1. Moved(p, n, xs, n, xs)
    BY <1>7, <1>8, <2>2 DEF Moved, Stacked
  <2> QED
    BY <1>1, <1>7, <1>8, <2>1, <2>2 DEF Follows, q, e
<1>9. CASE g \in p.code[s[1]].callees /\ m = 0
  <2> DEFINE l == n + 1
             ys == [k \in 1 .. l |-> IF k = 1 THEN e ELSE xs[k - 1]]
  <2>1. xs[1] = s[1]
    BY <1>9 DEF Stacked
  <2>2. l \in Nat \ {0} /\ l - 1 = n
    BY <1>1
  <2>3. \A k \in 2 .. l : k - 1 \in 1 .. n
    BY <1>1
  <2>4. ys \in [1 .. l -> Code(p)] /\ ys[1] = e /\ \A k \in 2 .. l : ys[k] = xs[k - 1]
    BY <1>1, <1>4, <2>3
  <2> HIDE DEF ys
  <2>5. Moved(p, n, xs, l, ys)
    BY <1>9, <2>1, <2>4 DEF Moved, e
  <2>6. ASSUME NEW k \in 2 .. l PROVE q[0 + k] \in p.code[ys[k]].next
    <3>1. CASE k = 2
      BY <1>5, <2>1, <2>4, <3>1
    <3>2. CASE k > 2
      <4>1. k \in 3 .. Len(s) + 1 /\ k - 1 \in 2 .. n /\ m + (k - 1) = k - 1 /\ 0 + k = k
        BY <1>1, <1>9, <3>2
      <4>2. s[k - 1] \in p.code[xs[k - 1]].next
        BY <1>6, <4>1
      <4> QED
        BY <1>5, <2>4, <4>1, <4>2
    <3> QED
      BY <2>2, <3>1, <3>2
  <2>7. Stacked(p, q, 0, l, ys)
    BY <1>1, <1>5, <1>9, <2>4, <2>6 DEF Stacked
  <2> HIDE DEF l
  <2> QED
    BY <2>2, <2>4, <2>5, <2>7 DEF Follows, q, e
<1> QED
  BY <1>1, <1>8, <1>9

\* Back from a function.
LEMMA StackReturn ==
  ASSUME NEW p, IsProgram(p), NEW n, NEW xs, Chain(p, n, xs),
         NEW s \in Seq(Code(p)), s # <<>>, NEW m, Stacked(p, s, m, n, xs),
         p.code[s[1]].op = "return", Len(s) > 1
  PROVE  Follows(p, n, xs, <<>> \o Tail(s))
<1> DEFINE q == <<>> \o Tail(s)
<1>1. n \in Nat \ {0} /\ m \in Nat /\ Len(s) = m + n /\ xs \in [1 .. n -> Code(p)]
  BY DEF Chain, Stacked
<1>2. s[1] \in Code(p) /\ Len(s) \in Nat
  BY Replaced
<1>3. Len(q) = Len(s) - 1 /\ \A k \in 1 .. Len(s) - 1 : q[k] = s[k + 1]
  BY <1>2, Stacks
<1> HIDE DEF q
<1>6. \A k \in 2 .. n : s[m + k] \in p.code[xs[k]].next
  BY DEF Stacked
<1>4. CASE m = 0
  <2> DEFINE l == n - 1
             ys == [k \in 1 .. l |-> IF k = 1 THEN s[2] ELSE xs[k + 1]]
  <2>1. xs[1] = s[1] /\ n > 1 /\ l \in Nat \ {0} /\ 2 \in 2 .. n /\ m + 2 = 2
    BY <1>1, <1>4 DEF Stacked
  <2>2. s[2] \in p.code[xs[2]].next /\ xs[2] \in Code(p)
    BY <1>1, <1>6, <2>1
  <2>3. s[2] \in Code(p)
    BY <2>2 DEF IsProgram, NodesOf
  <2>4. \A k \in 2 .. l : k + 1 \in 1 .. n
    BY <1>1
  <2>5. ys \in [1 .. l -> Code(p)] /\ ys[1] = s[2] /\ \A k \in 2 .. l : ys[k] = xs[k + 1]
    BY <1>1, <2>1, <2>3, <2>4
  <2> HIDE DEF ys
  <2>6. Moved(p, n, xs, l, ys)
    BY <2>1, <2>2, <2>5 DEF Moved
  <2>7. ASSUME NEW k \in 2 .. l PROVE q[0 + k] \in p.code[ys[k]].next
    <3>1. k \in 1 .. Len(s) - 1 /\ k + 1 \in 2 .. n /\ m + (k + 1) = k + 1 /\ 0 + k = k
      BY <1>1, <1>4
    <3>2. s[k + 1] \in p.code[xs[k + 1]].next
      BY <1>6, <3>1
    <3> QED
      BY <1>3, <2>5, <3>1, <3>2
  <2>8. Len(q) = 0 + l /\ q[1] = s[2]
    BY <1>1, <1>3, <1>4, <2>1
  <2>9. Stacked(p, q, 0, l, ys)
    BY <2>5, <2>7, <2>8 DEF Stacked
  <2> HIDE DEF l
  <2> QED
    BY <2>1, <2>5, <2>6, <2>9 DEF Follows, q
<1>5. CASE m > 0
  <2>1. xs[1] \in Calls(p) /\ Left(p, xs[1]) /\ s[m + 1] \in p.code[xs[1]].next /\ xs[1] \in Code(p)
    BY <1>1, <1>5 DEF Stacked
  <2>2. \A k \in 1 .. n : q[(m - 1) + k] = s[m + k]
    <3> SUFFICES ASSUME NEW k \in 1 .. n PROVE q[(m - 1) + k] = s[m + k]
      OBVIOUS
    <3>1. (m - 1) + k \in 1 .. Len(s) - 1 /\ ((m - 1) + k) + 1 = m + k
      BY <1>1, <1>5
    <3> QED
      BY <1>3, <3>1
  <2>3. m - 1 \in Nat /\ Len(q) = (m - 1) + n /\ 1 \in 1 .. n
    BY <1>1, <1>3, <1>5
  <2>4. \A k \in 2 .. n : q[(m - 1) + k] = s[m + k]
    BY <2>2
  <2>5. q[(m - 1) + 1] = s[m + 1]
    BY <2>2, <2>3
  <2>6. CASE m = 1
    <3> DEFINE ys == [k \in 1 .. n |-> IF k = 1 THEN s[m + 1] ELSE xs[k]]
    <3>1. s[m + 1] \in Code(p)
      BY <2>1 DEF IsProgram, NodesOf
    <3>2. ys \in [1 .. n -> Code(p)] /\ ys[1] = s[m + 1] /\ \A k \in 2 .. n : ys[k] = xs[k]
      BY <1>1, <3>1
    <3> HIDE DEF ys
    <3>3. Moved(p, n, xs, n, ys)
      BY <2>1, <3>2 DEF Moved
    <3>4. q[1] = ys[1] /\ \A k \in 2 .. n : q[0 + k] \in p.code[ys[k]].next
      BY <1>6, <2>4, <2>5, <2>6, <3>2
    <3>5. Len(q) = 0 + n
      BY <2>3, <2>6
    <3>6. Stacked(p, q, 0, n, ys)
      BY <3>4, <3>5 DEF Stacked
    <3> QED
      BY <1>1, <3>2, <3>3, <3>6 DEF Follows, q
  <2>7. CASE m > 1
    <3>1. ASSUME NEW k \in 1 .. m - 1 PROVE p.code[q[k]].fn \in Hidden(p, 0)
      <4>1. k \in 1 .. Len(s) - 1 /\ k + 1 \in 1 .. m
        BY <1>1
      <4>2. p.code[s[k + 1]].fn \in Hidden(p, 0)
        BY <4>1 DEF Stacked
      <4> QED
        BY <1>3, <4>1, <4>2
    <3>2. \A k \in 2 .. n : q[(m - 1) + k] \in p.code[xs[k]].next
      BY <1>6, <2>4
    <3>4. m - 1 # 0
      BY <2>7
    <3>3. Stacked(p, q, m - 1, n, xs)
      BY <2>1, <2>3, <2>5, <3>1, <3>2, <3>4 DEF Stacked
    <3>5. Moved(p, n, xs, n, xs)
      BY <2>1 DEF Moved
    <3> QED
      BY <1>1, <2>3, <3>3, <3>5 DEF Follows, q
  <2> QED
    BY <1>1, <1>5, <2>6, <2>7
<1> QED
  BY <1>1, <1>4, <1>5

-----------------------------------------------------------------------------
(* Where main is while workers run.                                          *)

\* Where a place of the chain comes from.
LEMMA MovedFrames ==
  ASSUME NEW p, IsProgram(p), NEW n, NEW xs, Chain(p, n, xs),
         NEW l \in Nat \ {0}, NEW ys \in [1 .. l -> Code(p)], Moved(p, n, xs, l, ys), NEW k \in 1 .. l
  PROVE  \/ \E i \in 1 .. n : ys[k] = xs[i]
         \/ ys[k] = ys[1] /\ \E i \in 1 .. n : ys[k] \in p.code[xs[i]].next
         \/ ys[k] = ys[1] /\ xs[1] \in Calls(p) /\ \E f \in p.code[xs[1]].callees : ys[k] = p.entry[f]
<1>1. n \in Nat \ {0} /\ (k = 1 \/ k \in 2 .. l)
  BY DEF Chain
<1>2. CASE l = n /\ ys = xs
  BY <1>2
<1>3. CASE l = n /\ ys[1] \in p.code[xs[1]].next /\ \A i \in 2 .. n : ys[i] = xs[i]
  <2>1. 1 \in 1 .. n
    BY <1>1
  <2> QED
    BY <1>1, <1>3, <2>1
<1>4. CASE /\ l = n + 1 /\ xs[1] \in Calls(p)
           /\ \E f \in p.code[xs[1]].callees : ys[1] = p.entry[f]
           /\ \A i \in 2 .. l : ys[i] = xs[i - 1]
  <2>1. k \in 2 .. l => k - 1 \in 1 .. n
    BY <1>1, <1>4
  <2> QED
    BY <1>1, <1>4, <2>1
<1>5. CASE /\ n > 1 /\ l = n - 1 /\ p.code[xs[1]].op = "return"
           /\ ys[1] \in p.code[xs[2]].next /\ \A i \in 2 .. l : ys[i] = xs[i + 1]
  <2>1. 2 \in 1 .. n /\ (k \in 2 .. l => k + 1 \in 1 .. n)
    BY <1>1, <1>5
  <2> QED
    BY <1>1, <1>5, <2>1
<1> QED
  BY <1>2, <1>3, <1>4, <1>5 DEF Moved

\* In the function that the lifecycle ends in, main is beside that end or behind it.
Around(p, n, xs) ==
  p.lifecycle.proven =>
    \A k \in 1 .. n : p.code[xs[k]].fn = Ending(p) => xs[k] \in Bypass(p) \cup Behind(p)

\* The places of main from which SiteApart sees workers come.
Entries(p) ==
  {j \in Creates(p) \cup SingleCalls(p) :
     /\ p.code[j].fn = "main"
     /\ j \in Creates(p) \/ p.code[j].callees \subseteq Concurrent(p)}

(***************************************************************************)
(* What holds of main while a worker runs: it comes from a creation without*)
(* a join in between, in the function main from what leads to one, and has *)
(* not passed the end of the lifecycle.                                    *)
(***************************************************************************)
Beside(p, n, xs) ==
  /\ \E c \in Creates(p) : xs[1] \in Reach(Until(p), Successors(p)[c])
  /\ \A k \in 1 .. n : p.code[xs[k]].fn = "main" => \E j \in Entries(p) : Path(p, j, xs[k])
  /\ p.lifecycle.proven => \A k \in 1 .. n : p.code[xs[k]].fn = Ending(p) => xs[k] \in Bypass(p)

\* A step leaves main beside the end or takes it behind it.
LEMMA AroundMoved ==
  ASSUME NEW p, IsProgram(p), NEW n, NEW xs, Chain(p, n, xs), Around(p, n, xs),
         NEW l \in Nat \ {0}, NEW ys \in [1 .. l -> Code(p)], Moved(p, n, xs, l, ys)
  PROVE  Around(p, l, ys)
<1> SUFFICES ASSUME p.lifecycle.proven, NEW k \in 1 .. l, p.code[ys[k]].fn = Ending(p)
             PROVE  ys[k] \in Bypass(p) \/ ys[k] \in Behind(p)
  BY DEF Around
<1>1. n \in Nat \ {0} /\ xs \in [1 .. n -> Code(p)]
  BY DEF Chain
<1>2. \A i \in 1 .. n : p.code[xs[i]].fn = Ending(p) => xs[i] \in Bypass(p) \/ xs[i] \in Behind(p)
  BY DEF Around
<1>3. ASSUME NEW i \in 1 .. n, ys[k] \in p.code[xs[i]].next
      PROVE  ys[k] \in Bypass(p) \/ ys[k] \in Behind(p)
  <2>1. xs[i] \in Code(p)
    BY <1>1
  <2>2. p.code[ys[k]].fn = p.code[xs[i]].fn
    BY <1>3, <2>1 DEF IsProgram, NodesOf
  <2> QED
    BY <1>2, <1>3, <2>1, <2>2, EndingIs
<1>4. ASSUME xs[1] \in Calls(p), NEW f \in p.code[xs[1]].callees, ys[k] = p.entry[f]
      PROVE  ys[k] \in Bypass(p) \/ ys[k] \in Behind(p)
  <2>1. f \in Functions(p)
    BY <1>4 DEF IsProgram, Calls
  <2>2. f = Ending(p)
    BY <1>4, <2>1 DEF IsProgram, NodesOf
  <2> QED
    BY <1>4, <2>2, EndingIs
<1> QED
  BY <1>2, <1>3, <1>4, MovedFrames

\* While main does not join, what holds beside a worker goes on to hold.
LEMMA BesideMoved ==
  ASSUME NEW p, IsProgram(p), JoinedForGood(p), NEW n, NEW xs, Chain(p, n, xs), Beside(p, n, xs),
         NEW l \in Nat \ {0}, NEW ys \in [1 .. l -> Code(p)], Moved(p, n, xs, l, ys),
         xs[1] \notin Joins(p)
  PROVE  Beside(p, l, ys)
<1>1. /\ n \in Nat \ {0} /\ xs \in [1 .. n -> Code(p)] /\ p.code[xs[n]].fn = "main"
      /\ \A k \in 1 .. n : Path(p, xs[k], xs[1])
  BY DEF Chain
<1>2. (l = n /\ ys = xs) \/ ys[1] \in Successors(p)[xs[1]]
  BY ChainMoved
<1>3. PICK c \in Creates(p) : xs[1] \in Reach(Until(p), Successors(p)[c])
  BY DEF Beside
<1>4. c \in Code(p)
  BY DEF Creates
<1>5. ys[1] \in Reach(Until(p), Successors(p)[c])
  BY <1>2, <1>3, <1>4, UntilIs
<1>6. ASSUME NEW k \in 1 .. l, p.code[ys[k]].fn = "main" PROVE \E j \in Entries(p) : Path(p, j, ys[k])
  <2>1. \A j \in Entries(p) : j \in Code(p)
    BY DEF Entries, Creates, SingleCalls, Calls
  <2>2. \A i \in 1 .. n : p.code[xs[i]].fn = "main" => \E j \in Entries(p) : Path(p, j, xs[i])
    BY DEF Beside
  <2>3. ASSUME NEW i \in 1 .. n, ys[k] \in p.code[xs[i]].next PROVE \E j \in Entries(p) : Path(p, j, ys[k])
    <3>1. xs[i] \in Code(p) /\ ys[k] \in Successors(p)[xs[i]]
      BY <1>1, <2>3 DEF Successors
    <3>2. p.code[xs[i]].fn = "main"
      BY <1>6, <2>3, <3>1 DEF IsProgram, NodesOf
    <3>3. PICK j \in Entries(p) : Path(p, j, xs[i])
      BY <2>2, <3>2
    <3> QED
      BY <2>1, <3>1, <3>3, PathIs
  <2>4. ASSUME ys[k] = ys[1] PROVE \E j \in Entries(p) : Path(p, j, ys[k])
    <3>1. n \in 1 .. n /\ xs[n] \in Code(p)
      BY <1>1
    <3>2. PICK j \in Entries(p) : Path(p, j, xs[n])
      BY <1>1, <2>2, <3>1
    <3>3. Path(p, j, xs[1])
      BY <1>1, <2>1, <3>1, <3>2, PathsJoin
    <3>4. Path(p, j, ys[1])
      BY <1>2, <2>1, <3>3, PathIs
    <3> QED
      BY <2>4, <3>4
  <2> QED
    BY <1>6, <2>2, <2>3, <2>4, MovedFrames
<1>7. ASSUME p.lifecycle.proven, NEW k \in 1 .. l, p.code[ys[k]].fn = Ending(p) PROVE ys[k] \in Bypass(p)
  <2>1. \A i \in 1 .. n : p.code[xs[i]].fn = Ending(p) => xs[i] \in Bypass(p)
    BY <1>7 DEF Beside
  <2>2. ys[1] # p.lifecycle.post /\ xs[1] # p.lifecycle.post
    BY <1>3, <1>5, <1>7, JoinedIs
  <2>3. ASSUME NEW i \in 1 .. n, ys[k] \in p.code[xs[i]].next, ys[k] = ys[1] PROVE ys[k] \in Bypass(p)
    <3>1. xs[i] \in Code(p)
      BY <1>1
    <3>2. p.code[ys[k]].fn = p.code[xs[i]].fn
      BY <2>3, <3>1 DEF IsProgram, NodesOf
    <3> QED
      BY <1>7, <2>1, <2>2, <2>3, <3>1, <3>2, EndingIs
  <2>4. ASSUME xs[1] \in Calls(p), NEW f \in p.code[xs[1]].callees, ys[k] = p.entry[f], ys[k] = ys[1]
        PROVE  ys[k] \in Bypass(p)
    <3>1. f \in Functions(p)
      BY <2>4 DEF IsProgram, Calls
    <3>2. f = Ending(p)
      BY <1>7, <2>4, <3>1 DEF IsProgram, NodesOf
    <3> QED
      BY <1>7, <2>2, <2>4, <3>2, EndingIs
  <2> QED
    BY <1>7, <2>1, <2>3, <2>4, MovedFrames
<1> QED
  BY <1>5, <1>6, <1>7 DEF Beside

\* The calls of a chain have one target each, so the graph of such calls leads
\* from each of its functions to those above it.
LEMMA SingleChain ==
  ASSUME NEW p, IsProgram(p), SingleTargets(p), NEW n, NEW xs, Chain(p, n, xs)
  PROVE  /\ \A k \in 2 .. n : xs[k] \in SingleCalls(p) /\ p.code[xs[k]].callees = {p.code[xs[k - 1]].fn}
         /\ \A k \in 1 .. n : \A j \in 1 .. k :
              p.code[xs[j]].fn \in Reach(CallGraph(p, SingleCalls(p)), {p.code[xs[k]].fn})
<1> DEFINE graph == CallGraph(p, SingleCalls(p))
<1>1. n \in Nat \ {0} /\ xs \in [1 .. n -> Code(p)]
  BY DEF Chain
<1>2. ASSUME NEW k \in 2 .. n
      PROVE  xs[k] \in SingleCalls(p) /\ p.code[xs[k]].callees = {p.code[xs[k - 1]].fn}
  <2>1. k \in 1 .. n
    BY <1>1
  <2>2. xs[k] \in Calls(p) /\ p.code[xs[k - 1]].fn \in p.code[xs[k]].callees /\ p.code[xs[k]].fn \in RoleFunctions(p, 0)
    BY <2>1 DEF Chain
  <2> QED
    BY <2>2, SingleIs
<1>3. graph \in [Functions(p) -> SUBSET Functions(p)] /\ IsFiniteSet(Functions(p))
  BY GraphsTyped
<1>4. \A k \in 2 .. n : p.code[xs[k - 1]].fn \in graph[p.code[xs[k]].fn]
  <2> SUFFICES ASSUME NEW k \in 2 .. n PROVE p.code[xs[k - 1]].fn \in graph[p.code[xs[k]].fn]
    OBVIOUS
  <2>1. xs[k] \in Code(p) /\ k \in 1 .. n
    BY <1>1
  <2>2. p.code[xs[k]].fn \in Functions(p) /\ xs[k] \in NodesOf(p, p.code[xs[k]].fn)
    BY <2>1 DEF IsProgram, NodesOf
  <2> QED
    BY <1>2, <2>2 DEF CallGraph
<1> HIDE DEF graph
<1>5. ASSUME NEW k \in 1 .. n, NEW j \in 1 .. k PROVE p.code[xs[j]].fn \in Reach(graph, {p.code[xs[k]].fn})
  <2> DEFINE R == Reach(graph, {p.code[xs[k]].fn})
             P == {i \in 1 .. n : p.code[xs[i]].fn \in R}
  <2>1. p.code[xs[k]].fn \in Functions(p)
    BY <1>1 DEF IsProgram
  <2>2. {p.code[xs[k]].fn} \in SUBSET Functions(p)
    BY <2>1
  <2>3. {p.code[xs[k]].fn} \subseteq R /\ \A x \in R : graph[x] \subseteq R
    BY <1>3, <2>2, ReachIsClosed
  <2> HIDE DEF R
  <2>4. \A i \in 2 .. n : i \in P => i - 1 \in P
    <3> SUFFICES ASSUME NEW i \in 2 .. n, i \in P PROVE i - 1 \in P
      OBVIOUS
    <3>1. i - 1 \in 1 .. n
      BY <1>1
    <3> QED
      BY <1>4, <2>3, <3>1
  <2>5. k \in P /\ n \in Nat
    BY <1>1, <2>3
  <2> HIDE DEF P
  <2>6. j \in P
    BY <2>4, <2>5, DownTheChain
  <2> QED
    BY <2>6 DEF P, R
<1> QED
  BY <1>2, <1>5 DEF graph

(***************************************************************************)
(* Where main creates, it is not behind the end of the lifecycle.          *)
(***************************************************************************)
LEMMA BesideCreated ==
  ASSUME NEW p, IsProgram(p), JoinedForGood(p), SingleTargets(p),
         NEW n, NEW xs, Chain(p, n, xs), Around(p, n, xs), xs[1] \in Creates(p),
         NEW l \in Nat \ {0}, NEW ys \in [1 .. l -> Code(p)], Moved(p, n, xs, l, ys),
         ys[1] \in Successors(p)[xs[1]]
  PROVE  Beside(p, l, ys)
<1> DEFINE c == xs[1]
           graph == CallGraph(p, SingleCalls(p))
<1>1. /\ n \in Nat \ {0} /\ xs \in [1 .. n -> Code(p)] /\ p.code[xs[n]].fn = "main"
      /\ \A k \in 2 .. n : xs[k] \in Calls(p) /\ p.code[xs[k - 1]].fn \in p.code[xs[k]].callees
      /\ c \in Code(p) /\ c \notin Calls(p) /\ p.code[c].op = "create" /\ 1 \in 1 .. n /\ n \in 1 .. n
  BY DEF Chain, Creates, Calls
<1>2. ys[1] \in p.code[c].next /\ l = n /\ \A k \in 2 .. n : ys[k] = xs[k]
  <2>1. p.code[c].op # "return"
    BY <1>1
  <2>2. Successors(p)[c] = p.code[c].next
    BY <1>1, <2>1 DEF Successors
  <2> QED
    BY <1>1, <2>1, <2>2 DEF Moved
<1>3. ys[1] \in Reach(Until(p), Successors(p)[c])
  BY <1>1, UntilIs
<1>4. p.code[c].fn \in Functions(p) /\ p.code[ys[1]].fn = p.code[c].fn
  BY <1>1, <1>2 DEF IsProgram, NodesOf
<1>5. ASSUME p.lifecycle.proven, NEW k \in 1 .. n, p.code[xs[k]].fn = Ending(p)
      PROVE  xs[k] \in Bypass(p)
  <2>1. SUFFICES ASSUME xs[k] \in Behind(p) PROVE FALSE
    BY <1>5 DEF Around
  <2>2. /\ c \notin Behind(p) /\ p.code[c].fn \notin Called(p)
        /\ \A i \in Calls(p) : i \in Behind(p) \/ p.code[i].fn \in Called(p) => p.code[i].callees \subseteq Called(p)
    BY <1>5, JoinedIs
  <2> DEFINE P == {i \in 1 .. n : p.code[xs[i]].fn \in Called(p)}
  <2>3. k \in 2 .. n
    BY <1>1, <2>1, <2>2
  <2>4. k - 1 \in 1 .. n /\ k - 1 \in P /\ 1 \in 1 .. k - 1
    BY <1>1, <2>1, <2>2, <2>3
  <2>5. \A i \in 2 .. n : i \in P => i - 1 \in P
    <3> SUFFICES ASSUME NEW i \in 2 .. n, i \in P PROVE i - 1 \in P
      OBVIOUS
    <3>1. i - 1 \in 1 .. n
      BY <1>1
    <3> QED
      BY <1>1, <2>2, <3>1
  <2> HIDE DEF P
  <2>6. 1 \in P
    BY <1>1, <2>4, <2>5, DownTheChain
  <2> QED
    BY <2>2, <2>6 DEF P
<1>6. ASSUME NEW k \in 1 .. l, p.code[ys[k]].fn = "main" PROVE \E j \in Entries(p) : Path(p, j, ys[k])
  <2>1. CASE k = 1
    <3>1. c \in Entries(p)
      BY <1>4, <1>6, <2>1 DEF Entries
    <3>2. Path(p, c, ys[1])
      BY <1>1, PathIs
    <3> QED
      BY <2>1, <3>1, <3>2
  <2>2. CASE k # 1
    <3>1. k \in 2 .. n /\ k \in 1 .. n /\ k - 1 \in 1 .. n /\ 1 \in 1 .. k - 1 /\ ys[k] = xs[k] /\ xs[k] \in Code(p)
      BY <1>1, <1>2, <2>2
    <3> DEFINE f == p.code[xs[k - 1]].fn
               made == {p.code[i].fn : i \in {j \in Creates(p) : p.code[j].fn \in Reach(graph, {"main"})}}
    <3>2. xs[k] \in SingleCalls(p) /\ p.code[xs[k]].callees = {f}
      BY <3>1, SingleChain
    <3>10. \A i \in 1 .. n : \A j \in 1 .. i : p.code[xs[j]].fn \in Reach(graph, {p.code[xs[i]].fn})
      BY SingleChain
    <3>11. p.code[c].fn \in Reach(graph, {f})
      <4> HIDE DEF graph
      <4> QED
        BY <3>1, <3>10
    <3>12. p.code[c].fn \in Reach(graph, {p.code[xs[n]].fn})
      <4>1. 1 \in 1 .. n
        BY <1>1
      <4> HIDE DEF graph
      <4> QED
        BY <1>1, <3>10, <4>1
    <3>3. p.code[c].fn \in Reach(graph, {f}) /\ p.code[c].fn \in Reach(graph, {"main"})
      BY <1>1, <3>11, <3>12
    <3>4. f \in Functions(p)
      BY <1>1, <3>1 DEF IsProgram
    <3>5. p.code[c].fn \in made
      BY <3>3
    <3>6. Reach(graph, {f}) \cap made # {}
      BY <3>3, <3>5
    <3>9. Concurrent(p) = {h \in Functions(p) : Reach(graph, {h}) \cap made # {}}
      BY DEF Concurrent
    <3> HIDE DEF f, made, graph
    <3>7. f \in Concurrent(p)
      BY <3>4, <3>6, <3>9
    <3>8. xs[k] \in Entries(p)
      BY <1>6, <3>1, <3>2, <3>7 DEF Entries
    <3> QED
      BY <3>1, <3>8, PathIs
  <2> QED
    BY <2>1, <2>2
<1>7. ASSUME p.lifecycle.proven, NEW k \in 1 .. l, p.code[ys[k]].fn = Ending(p) PROVE ys[k] \in Bypass(p)
  <2>1. CASE k = 1
    <3>1. p.code[c].fn = Ending(p)
      BY <1>4, <1>7, <2>1
    <3>2. c \in Bypass(p)
      BY <1>1, <1>5, <1>7, <3>1
    <3>3. ys[1] # p.lifecycle.post
      BY <1>3, <1>7, JoinedIs
    <3> QED
      BY <1>1, <1>2, <1>7, <2>1, <3>1, <3>2, <3>3, EndingIs
  <2>2. CASE k # 1
    <3>1. k \in 2 .. n /\ k \in 1 .. n /\ ys[k] = xs[k]
      BY <1>1, <1>2, <2>2
    <3> QED
      BY <1>5, <1>7, <3>1
  <2> QED
    BY <2>1, <2>2
<1> HIDE DEF graph
<1>8. \E d \in Creates(p) : ys[1] \in Reach(Until(p), Successors(p)[d])
  BY <1>3
<1> QED
  BY <1>6, <1>7, <1>8 DEF Beside

-----------------------------------------------------------------------------
(* Main in the run.                                                          *)

\* Main is in its own functions or behind a call from them, and if it runs
\* beside a worker, where the analysis expects that.
Stands(p, a, beside) ==
  /\ a.role = 0
  /\ \E m \in Nat : \E n \in Nat \ {0} : \E xs \in [1 .. n -> Code(p)] :
       /\ Chain(p, n, xs) /\ Stacked(p, a.stack, m, n, xs) /\ Around(p, n, xs)
       /\ beside => Beside(p, n, xs)

MainBeside == Running(0) /\ \E u \in Workers : Running(u)

MainInv ==
  stage = "running" =>
    /\ \A u \in Workers : threads[u].state # "waiting"
    /\ CreatesTogether(prog) /\ JoinedForGood(prog) /\ SingleTargets(prog) /\ MainNotCalledBack(prog)
       => (Moving(threads[0]) => Stands(prog, threads[0], MainBeside))

\* Main starts on the chain of one place.
LEMMA MainStarts ==
  ASSUME NEW p, IsProgram(p)
  PROVE  Stands(p, [state |-> "running", role |-> 0, stack |-> <<p.entry["main"]>>, last |-> 0], FALSE)
<1> DEFINE i == p.entry["main"]
           xs == [k \in 1 .. 1 |-> i]
           s == <<i>>
<1>1. i \in Code(p) /\ p.code[i].fn = "main"
  BY DEF IsProgram, NodesOf
<1>2. "main" \in RoleFunctions(p, 0)
  <2>1. 0 \in Roles(p) /\ Starts(p, 0) = {"main"}
    BY DEF Roles, Starts
  <2> QED
    BY <2>1, RoleFunctionsAre
<1>3. Path(p, i, i)
  BY <1>1, PathIs
<1>4. xs \in [1 .. 1 -> Code(p)] /\ xs[1] = i /\ s[1] = i /\ Len(s) = 0 + 1
  BY <1>1
<1> HIDE DEF xs, s, i
<1>5. Chain(p, 1, xs)
  <2>1. \A k \in 1 .. 1 : k = 1
    OBVIOUS
  <2>2. \A k \in 2 .. 1 : FALSE
    OBVIOUS
  <2> QED
    BY <1>1, <1>2, <1>3, <1>4, <2>1, <2>2 DEF Chain
<1>6. Stacked(p, s, 0, 1, xs)
  BY <1>4 DEF Stacked
<1>7. Around(p, 1, xs)
  <2> SUFFICES ASSUME p.lifecycle.proven, p.code[i].fn = Ending(p) PROVE i \in Bypass(p) \/ i \in Behind(p)
    BY <1>4 DEF Around
  <2> QED
    BY <1>1, EndingIs DEF i
<1>8. 0 \in Nat /\ 1 \in Nat \ {0}
  OBVIOUS
<1> DEFINE a == [state |-> "running", role |-> 0, stack |-> s, last |-> 0]
<1>9. a.role = 0 /\ a.stack = s
  OBVIOUS
<1>10. \E m \in Nat : \E n \in Nat \ {0} : \E x \in [1 .. n -> Code(p)] :
          Chain(p, n, x) /\ Stacked(p, s, m, n, x) /\ Around(p, n, x)
  BY <1>4, <1>5, <1>6, <1>7, <1>8
<1> HIDE DEF a
<1>11. Stands(p, a, FALSE)
  BY <1>9, <1>10 DEF Stands
<1> QED
  BY <1>11 DEF a, s, i

\* No number of a set is below its least.
LEMMA LeastIsFirst ==
  ASSUME NEW S \in SUBSET Nat, S # {}
  PROVE  Min(S) \in S /\ \A y \in S : Min(S) <= y
<1> DEFINE R == {x \in Nat \X Nat : x[1] < x[2]}
<1>1. IsWellFoundedOn(R, Nat)
  BY NatLessThanWellFounded DEF OpToRel
<1> HIDE DEF R
<1>2. PICK x \in S : \A y \in S : <<y, x>> \notin R
  BY <1>1, WFMin
<1>3. ASSUME NEW y \in S PROVE x <= y
  <2>1. x \in Nat /\ y \in Nat
    OBVIOUS
  <2>2. ~ y < x
    BY <1>2, <2>1 DEF R
  <2> QED
    BY <2>1, <2>2
<1> QED
  BY <1>3 DEF Min

\* What a step of a thread means for main and for the workers.
MainMoves(t) ==
  /\ \A u \in Workers : threads'[u].state # "waiting"
  /\ \/ ~ Moving(threads'[0])
     \/ t \in Workers /\ Running(t) /\ threads'[0] = threads[0]
     \/ /\ threads'[0].state = "waiting" /\ Moving(threads[0])
        /\ threads'[0].stack = threads[0].stack /\ threads'[0].role = threads[0].role
     \/ /\ Moving(threads[0]) /\ Onward(prog, threads[0], threads'[0])
        /\ \/ Running(0) /\ At(0) \in Creates(prog)
           \/ \A u \in Workers : threads'[u].state = "none"
           \/ Running(0) /\ At(0) \notin Joins(prog) /\ \A u \in Workers : threads'[u] = threads[u]

\* Every step of a thread is of this kind.
LEMMA MainMovesSo ==
  ASSUME RunInv, stage = "running", \A u \in Workers : threads[u].state # "waiting",
         NEW t \in Threads, Move(t)
  PROVE  MainMoves(t)
<1>1. /\ Moving(threads[t]) /\ DOMAIN threads' = Threads /\ DOMAIN threads = Threads
      /\ \A u \in Threads : threads[u] \in ThreadRecords(prog)
  BY MoveIs DEF RunInv, Sound
<1>2. /\ At(t) = threads[t].stack[1] /\ At(t) \in Code(prog) /\ Instr(t) = prog.code[At(t)]
      /\ Instr(t) = prog.code[threads[t].stack[1]]
  BY <1>1, EventsAtIs DEF Instr
<1>3. 0 \in Threads /\ 0 \notin Workers /\ Threads = {0} \cup Workers /\ (t = 0 \/ t \in Workers)
  BY WorkersAreNumbered DEF Threads
<1>4. Nobody.state = "none" /\ ~ Moving(Nobody)
  BY DEF Nobody, Moving
<1>5. ASSUME NEW s, Running(t) PROVE Past(t, s).state = "running"
  <2>1. Past(t, s) = Advance(prog, threads[t], s \o Tail(threads[t].stack))
    BY <1>1, <1>5, PastIs DEF Running
  <2> QED
    BY <2>1 DEF Advance
\* A step that moves t on and no one else.
<1>6. ASSUME Running(t), NEW b, threads' = [threads EXCEPT ![t] = b], Onward(prog, threads[t], b),
             b.state = "running", Instr(t).op # "join"
      PROVE  MainMoves(t)
  <2>1. threads'[t] = b /\ \A u \in Threads \ {t} : threads'[u] = threads[u]
    BY <1>1, <1>6
  <2>2. \A u \in Workers : threads'[u].state # "waiting"
    BY <1>3, <1>6, <2>1
  <2>3. CASE t = 0
    <3>1. At(0) \notin Joins(prog)
      BY <1>2, <1>6, <2>3 DEF Joins
    <3>2. \A u \in Workers : threads'[u] = threads[u]
      BY <1>3, <2>1, <2>3
    <3> QED
      BY <1>1, <1>6, <2>1, <2>2, <2>3, <3>1, <3>2 DEF MainMoves
  <2>4. CASE t # 0
    BY <1>3, <1>6, <2>1, <2>2, <2>4 DEF MainMoves
  <2> QED
    BY <2>3, <2>4
<1>7. ASSUME NEW i \in Instr(t).next, Running(t)
      PROVE  /\ Goto(t, i) = [threads EXCEPT ![t] = Past(t, <<i>>)]
             /\ Onward(prog, threads[t], Past(t, <<i>>)) /\ Past(t, <<i>>).state = "running"
  <2>1. Past(t, <<i>>) = Advance(prog, threads[t], <<i>> \o Tail(threads[t].stack))
    BY <1>1, <1>7, PastIs DEF Running
  <2> QED
    BY <1>2, <1>5, <1>7, <2>1 DEF Onward, Goto
<1>8. CASE Running(t) /\ (Plain(t) \/ Acquire(t) \/ Release(t))
  <2>1. PICK i \in Instr(t).next : threads' = Goto(t, i)
    BY <1>8 DEF Plain, Acquire, Release
  <2>2. Instr(t).op # "join"
    BY <1>8 DEF Plain, Acquire, Release
  <2> QED
    BY <1>6, <1>7, <1>8, <2>1, <2>2
<1>9. CASE Running(t) /\ Call(t)
  <2>1. Instr(t).op \in {"call", "indirect"} /\ Instr(t).op # "join"
    BY <1>9 DEF Call
  <2>2. PICK i \in Instr(t).next :
          threads' = IF Instr(t).goes = "none" THEN Goto(t, i)
                     ELSE [threads EXCEPT ![t] = Past(t, <<prog.entry[Instr(t).goes], i>>)]
    BY <1>9 DEF Call
  <2>3. CASE Instr(t).goes = "none"
    BY <1>6, <1>7, <1>9, <2>1, <2>2, <2>3
  <2>4. CASE Instr(t).goes # "none"
    <3> DEFINE b == Past(t, <<prog.entry[Instr(t).goes], i>>)
    <3>1. b = Advance(prog, threads[t], <<prog.entry[Instr(t).goes], i>> \o Tail(threads[t].stack))
      BY <1>1, <1>9, PastIs DEF Running
    <3>2. At(t) \in Calls(prog)
      BY <1>2, <2>1 DEF Calls
    <3>3. Onward(prog, threads[t], b) /\ b.state = "running"
      BY <1>2, <1>5, <1>9, <2>4, <3>1, <3>2 DEF Onward
    <3>4. threads' = [threads EXCEPT ![t] = b]
      BY <2>2, <2>4
    <3> HIDE DEF b
    <3> QED
      BY <1>6, <1>9, <2>1, <3>3, <3>4
  <2> QED
    BY <2>3, <2>4
<1>10. CASE Running(t) /\ Return(t)
  <2> DEFINE a == threads[t]
             b == IF Len(a.stack) > 1 THEN Past(t, <<>>) ELSE [a EXCEPT !.state = "ended"]
  <2>1. threads' = [threads EXCEPT ![t] = b] /\ Instr(t).op = "return"
    BY <1>1, <1>10 DEF Return
  <2>2. CASE Len(a.stack) > 1
    <3>1. b = Past(t, <<>>)
      BY <2>2
    <3>2. b = Advance(prog, threads[t], <<>> \o Tail(threads[t].stack))
      BY <1>1, <1>10, <3>1, PastIs DEF Running
    <3>3. Onward(prog, threads[t], b) /\ b.state = "running"
      BY <1>2, <1>5, <1>10, <2>1, <2>2, <3>1, <3>2 DEF Onward
    <3> HIDE DEF b
    <3> QED
      BY <1>6, <1>10, <2>1, <3>3
  <2>3. CASE ~ Len(a.stack) > 1
    <3>1. b.state = "ended"
      BY <1>1, <2>3 DEF ThreadRecords
    <3> HIDE DEF b
    <3>2. threads'[t] = b /\ \A u \in Threads \ {t} : threads'[u] = threads[u]
      BY <1>1, <2>1
    <3>3. \A u \in Workers : threads'[u].state # "waiting"
      BY <1>3, <3>1, <3>2
    <3>4. t = 0 => ~ Moving(threads'[0])
      BY <3>1, <3>2 DEF Moving
    <3> QED
      BY <1>3, <1>10, <3>2, <3>3, <3>4 DEF MainMoves
  <2> QED
    BY <2>2, <2>3
<1>11. CASE Running(t) /\ Exit(t)
  <2>1. \A u \in Threads : threads'[u] = Nobody
    BY <1>11 DEF Exit
  <2> QED
    BY <1>3, <1>4, <2>1 DEF MainMoves
<1>12. CASE Running(t) /\ Create(t)
  <2> DEFINE free == {u \in Workers : threads[u].state = "none"}
  <2>1. Instr(t).op = "create" /\ At(t) \in Creates(prog)
    BY <1>2, <1>12 DEF Create, Creates
  <2>2. PICK i \in Instr(t).next :
          threads' = IF free = {} THEN Goto(t, i)
                     ELSE [Goto(t, i) EXCEPT ![Min(free)] = Begin(At(t), Instr(t).goes)]
    BY <1>12 DEF Create
  <2> DEFINE g == Goto(t, i)
             b == Begin(At(t), Instr(t).goes)
  <2>3. g = [threads EXCEPT ![t] = Past(t, <<i>>)] /\ Onward(prog, threads[t], Past(t, <<i>>))
        /\ Past(t, <<i>>).state = "running"
    BY <1>7, <1>12
  <2>4. DOMAIN g = Threads /\ g[t] = Past(t, <<i>>) /\ \A u \in Threads \ {t} : g[u] = threads[u]
    BY <1>1, <2>3
  <2>5. b.state = "running"
    BY DEF Begin
  <2>6. free # {} => Min(free) \in Workers
    <3> SUFFICES ASSUME free # {} PROVE Min(free) \in Workers
      OBVIOUS
    <3>1. free \subseteq Nat
      BY WorkersAreNumbered
    <3>2. Min(free) \in free
      <4> HIDE DEF free
      <4> QED
        BY <3>1, LeastIsFirst
    <3> QED
      BY <3>2
  <2>7. DOMAIN threads' = Threads /\ threads'[0] = g[0] /\ \A u \in Workers : threads'[u] = g[u] \/ threads'[u] = b
    <3> HIDE DEF g, b, free
    <3>1. CASE free = {}
      BY <1>1, <2>2, <3>1 DEF g
    <3>2. CASE free # {}
      <4>1. threads' = [g EXCEPT ![Min(free)] = b]
        BY <2>2, <3>2 DEF g, b
      <4> QED
        BY <1>3, <2>4, <2>6, <3>2, <4>1
    <3> QED
      BY <3>1, <3>2
  <2> HIDE DEF g, b, free
  <2>8. \A u \in Workers : threads'[u].state # "waiting"
    <3> SUFFICES ASSUME NEW u \in Workers PROVE threads'[u].state # "waiting"
      OBVIOUS
    <3>1. g[u].state # "waiting"
      BY <1>3, <2>3, <2>4
    <3> QED
      BY <2>5, <2>7, <3>1
  <2>9. CASE t = 0
    <3>1. threads'[0] = Past(0, <<i>>) /\ Onward(prog, threads[0], threads'[0])
      BY <2>3, <2>4, <2>7, <2>9
    <3> QED
      BY <1>1, <1>12, <2>1, <2>8, <2>9, <3>1 DEF MainMoves
  <2>10. CASE t # 0
    <3>1. threads'[0] = threads[0] /\ t \in Workers
      BY <1>3, <2>4, <2>7, <2>10
    <3> QED
      BY <1>12, <2>8, <3>1 DEF MainMoves
  <2> QED
    BY <2>9, <2>10
<1>13. CASE Running(t) /\ Join(t)
  <2>1. Instr(t).op = "join" /\ \A u \in Workers : threads[u].state # "running"
    BY <1>13 DEF Join
  <2>2. PICK i \in Instr(t).next :
          threads' = [u \in Threads |-> IF u \in Workers THEN Nobody ELSE Goto(t, i)[u]]
    BY <1>13 DEF Join
  <2>3. t = 0
    BY <1>3, <1>13, <2>1 DEF Running
  <2>4. threads'[0] = Goto(t, i)[0] /\ \A u \in Workers : threads'[u] = Nobody
    BY <1>3, <2>2
  <2>5. threads'[0] = Past(t, <<i>>) /\ Onward(prog, threads[0], threads'[0])
    BY <1>1, <1>3, <1>7, <1>13, <2>3, <2>4
  <2> QED
    BY <1>1, <1>4, <2>3, <2>4, <2>5 DEF MainMoves
<1>14. CASE Running(t) /\ Region(t)
  <2>1. Instr(t).op = "region" /\ \A u \in Workers : threads[u].state = "none"
    BY <1>14 DEF Region
  <2>2. t = 0
    BY <1>3, <1>14, <2>1 DEF Running
  <2> DEFINE w == [threads[t] EXCEPT !.state = "waiting"]
             b == Begin(At(t), Instr(t).goes)
  <2>3. threads' = [u \in Threads |-> IF u = t THEN w ELSE IF u \in Workers THEN b ELSE threads[u]]
    BY <1>14 DEF Region
  <2>4. w.state = "waiting" /\ w.stack = threads[t].stack /\ w.role = threads[t].role /\ b.state = "running"
    BY <1>1 DEF ThreadRecords, Begin
  <2> HIDE DEF w, b
  <2>5. threads'[0] = w /\ \A u \in Workers : threads'[u] = b
    BY <1>3, <2>2, <2>3
  <2> QED
    BY <1>1, <2>2, <2>4, <2>5 DEF MainMoves
<1>15. CASE RegionEnds(t)
  <2>1. threads[t].state = "waiting"
    BY <1>15 DEF RegionEnds
  <2>2. t = 0
    BY <1>3, <2>1
  <2>3. PICK i \in Instr(t).next :
          threads' = [u \in Threads |->
            IF u = t THEN [Past(t, <<i>>) EXCEPT !.state = "running"]
            ELSE IF u \in Workers THEN Nobody ELSE threads[u]]
    BY <1>15 DEF RegionEnds
  <2> DEFINE b == [Past(t, <<i>>) EXCEPT !.state = "running"]
  <2>4. b = Advance(prog, threads[t], <<i>> \o Tail(threads[t].stack))
    BY <1>1, PastIs
  <2>5. Onward(prog, threads[t], b)
    BY <1>2, <2>4 DEF Onward
  <2>6. threads'[0] = b /\ \A u \in Workers : threads'[u] = Nobody
    <3> HIDE DEF b
    <3>1. threads' = [u \in Threads |->
            IF u = t THEN b ELSE IF u \in Workers THEN Nobody ELSE threads[u]]
      BY <2>3 DEF b
    <3> QED
      BY <1>3, <2>2, <3>1
  <2> HIDE DEF b
  <2> QED
    BY <1>1, <1>4, <2>2, <2>5, <2>6 DEF MainMoves
<1> QED
  BY <1>8, <1>9, <1>10, <1>11, <1>12, <1>13, <1>14, <1>15 DEF Move

\* A step of main's own.
LEMMA StandsOnward ==
  ASSUME NEW p, IsProgram(p), CreatesTogether(p), JoinedForGood(p), SingleTargets(p), MainNotCalledBack(p),
         NEW a \in ThreadRecords(p), a.stack # <<>>, Within(p, a.stack[1]), NEW v \in BOOLEAN, Stands(p, a, v),
         NEW b, Onward(p, a, b), NEW w \in BOOLEAN,
         w => a.stack[1] \in Creates(p) \/ (v /\ a.stack[1] \notin Joins(p))
  PROVE  Stands(p, b, w)
<1> DEFINE s == a.stack
<1>1. PICK m \in Nat, n \in Nat \ {0} : \E xs \in [1 .. n -> Code(p)] :
        /\ Chain(p, n, xs) /\ Stacked(p, s, m, n, xs) /\ Around(p, n, xs)
        /\ v => Beside(p, n, xs)
  BY DEF Stands
<1>2. PICK xs \in [1 .. n -> Code(p)] :
        /\ Chain(p, n, xs) /\ Stacked(p, s, m, n, xs) /\ Around(p, n, xs)
        /\ v => Beside(p, n, xs)
  BY <1>1
<1>3. s \in Seq(Code(p)) /\ s # <<>> /\ s[1] \in Code(p) /\ Len(s) \in Nat \ {0}
  <2>1. s \in Seq(Code(p)) /\ s # <<>>
    BY DEF ThreadRecords
  <2> HIDE DEF s
  <2> QED
    BY <2>1, Replaced
<1>4. Follows(p, n, xs, b.stack) /\ b.role = a.role
  <2>1. CASE \E j \in p.code[s[1]].next : b = Advance(p, a, <<j>> \o Tail(s))
    <3>1. PICK j \in p.code[s[1]].next : b = Advance(p, a, <<j>> \o Tail(s))
      BY <2>1
    <3>2. b.stack = <<j>> \o Tail(s) /\ b.role = a.role
      BY <3>1 DEF Advance
    <3>3. Follows(p, n, xs, <<j>> \o Tail(s))
      BY <1>2, <1>3, StackNext
    <3> QED
      BY <3>2, <3>3
  <2>2. CASE /\ s[1] \in Calls(p) /\ p.code[s[1]].goes # "none"
             /\ \E j \in p.code[s[1]].next : b = Advance(p, a, <<p.entry[p.code[s[1]].goes], j>> \o Tail(s))
    <3>1. PICK j \in p.code[s[1]].next : b = Advance(p, a, <<p.entry[p.code[s[1]].goes], j>> \o Tail(s))
      BY <2>2
    <3>2. b.stack = <<p.entry[p.code[s[1]].goes], j>> \o Tail(s) /\ b.role = a.role
      BY <3>1 DEF Advance
    <3>3. Follows(p, n, xs, <<p.entry[p.code[s[1]].goes], j>> \o Tail(s))
      BY <1>2, <1>3, <2>2, StackCall
    <3> QED
      BY <3>2, <3>3
  <2>3. CASE /\ p.code[s[1]].op = "return" /\ Len(s) > 1
             /\ b = Advance(p, a, <<>> \o Tail(s))
    <3>1. b.stack = <<>> \o Tail(s) /\ b.role = a.role
      BY <2>3 DEF Advance
    <3>2. Follows(p, n, xs, <<>> \o Tail(s))
      BY <1>2, <1>3, <2>3, StackReturn
    <3> QED
      BY <3>1, <3>2
  <2> QED
    BY <2>1, <2>2, <2>3 DEF Onward
<1>5. PICK q \in Nat, l \in Nat \ {0} : \E ys \in [1 .. l -> Code(p)] :
        Moved(p, n, xs, l, ys) /\ Stacked(p, b.stack, q, l, ys)
  BY <1>4 DEF Follows
<1>6. PICK ys \in [1 .. l -> Code(p)] : Moved(p, n, xs, l, ys) /\ Stacked(p, b.stack, q, l, ys)
  BY <1>5
<1>7. /\ Chain(p, l, ys) /\ Around(p, l, ys)
      /\ (xs[1] \in Calls(p) /\ l = n /\ ys = xs) \/ ys[1] \in Successors(p)[xs[1]]
  BY <1>2, <1>6, ChainMoved, AroundMoved
<1>8. ASSUME s[1] \in Creates(p) PROVE Beside(p, l, ys)
  <2>1. m = 0
    <3>1. p.code[s[1]].fn \in RoleFunctions(p, 0)
      BY <1>8 DEF CreatesTogether
    <3>2. m > 0 => p.code[s[1]].fn \in Hidden(p, 0)
      BY <1>1, <1>2 DEF Stacked
    <3> QED
      BY <1>1, <3>1, <3>2 DEF MainNotCalledBack
  <2>2. xs[1] \in Creates(p)
    BY <1>2, <1>8, <2>1 DEF Stacked
  <2>3. xs[1] \notin Calls(p)
    BY <2>2 DEF Creates, Calls
  <2> QED
    BY <1>2, <1>6, <1>7, <2>2, <2>3, BesideCreated
<1>9. ASSUME v, s[1] \notin Joins(p) PROVE Beside(p, l, ys)
  <2>1. xs[1] \notin Joins(p)
    <3>1. CASE m = 0
      BY <1>2, <1>9, <3>1 DEF Stacked
    <3>2. CASE m > 0
      <4>1. xs[1] \in Calls(p)
        BY <1>2, <3>2 DEF Stacked
      <4> QED
        BY <4>1 DEF Calls, Joins
    <3> QED
      BY <1>1, <3>1, <3>2
  <2> QED
    BY <1>2, <1>6, <1>9, <2>1, BesideMoved
<1>10. w => Beside(p, l, ys)
  BY <1>8, <1>9
<1>11. b.role = 0
  BY <1>4 DEF Stands
<1> QED
  BY <1>5, <1>6, <1>7, <1>10, <1>11 DEF Stands

\* What holds of main holds at first and after every step.
LEMMA MainInductive ==
  /\ Init => MainInv
  /\ RunInv /\ MainInv /\ [Next]_vars => MainInv'
<1>1. Init => MainInv
  BY DEF Init, MainInv
<1>2. ASSUME RunInv, MainInv, [Next]_vars PROVE MainInv'
  <2>1. StagesInv /\ prog' = prog /\ DOMAIN threads = Threads
    BY <1>2, StageSteps DEF RunInv
  <2>2. IsProgram(prog)
    BY <2>1, ProgramsAreRecovered DEF StagesInv
  <2>3. 0 \in Threads /\ 0 \notin Workers /\ Threads = {0} \cup Workers
    BY WorkersAreNumbered DEF Threads
  <2>4. CASE stage' # "running"
    BY <2>4 DEF MainInv
  <2>5. CASE stage = "judged" /\ Start
    <3> DEFINE b == Begin(0, "main")
    <3>1. threads' = [threads EXCEPT ![0] = b] /\ \A u \in Threads : threads[u] = Nobody
      BY <2>1, <2>5 DEF Start, StagesInv
    <3>2. Stands(prog, b, FALSE)
      BY <2>2, MainStarts DEF Begin
    <3> HIDE DEF b
    <3>3. threads'[0] = b /\ \A u \in Workers : threads'[u].state = "none"
      BY <2>1, <2>3, <3>1 DEF Nobody
    <3>4. MainBeside' = FALSE
      BY <3>3 DEF MainBeside, Running
    <3>5. Stands(prog', threads'[0], MainBeside')
      BY <2>1, <3>2, <3>3, <3>4
    <3>6. \A u \in Workers : threads'[u].state # "waiting"
      BY <3>3
    <3> QED
      BY <3>5, <3>6 DEF MainInv
  <2>6. CASE UNCHANGED vars
    BY <1>2, <2>6 DEF vars, static, run, MainInv, MainBeside, Running
  <2>7. CASE stage = "running" /\ Run
    <3>1. PICK t \in Threads : Move(t)
      BY <2>7 DEF Run
    <3>2. \A u \in Workers : threads[u].state # "waiting"
      BY <1>2, <2>7 DEF MainInv
    <3>3. MainMoves(t)
      BY <1>2, <2>7, <3>1, <3>2, MainMovesSo
    <3>4. \A u \in Workers : threads'[u].state # "waiting"
      BY <3>3 DEF MainMoves
    <3>5. SUFFICES ASSUME CreatesTogether(prog), JoinedForGood(prog), SingleTargets(prog), MainNotCalledBack(prog),
                          Moving(threads'[0])
                   PROVE  Stands(prog, threads'[0], MainBeside')
      BY <2>1, <3>4 DEF MainInv
    <3> DEFINE v == MainBeside
               w == MainBeside'
    <3>6. v \in BOOLEAN /\ w \in BOOLEAN
      BY DEF MainBeside
    <3>7. w <=> threads'[0].state = "running" /\ \E u \in Workers : threads'[u].state = "running"
      BY DEF MainBeside, Running
    <3>8. v <=> threads[0].state = "running" /\ \E u \in Workers : threads[u].state = "running"
      BY DEF MainBeside, Running
    <3>9. Moving(threads[0]) => Stands(prog, threads[0], v)
      BY <1>2, <2>7, <3>5 DEF MainInv
    <3> HIDE DEF v, w
    <3>10. CASE t \in Workers /\ Running(t) /\ threads'[0] = threads[0]
      <4>1. Stands(prog, threads[0], v)
        BY <3>5, <3>9, <3>10
      <4>2. w => v
        BY <3>7, <3>8, <3>10 DEF Running
      <4> QED
        BY <3>10, <4>1, <4>2 DEF Stands, w
    <3>11. CASE /\ threads'[0].state = "waiting" /\ Moving(threads[0])
                /\ threads'[0].stack = threads[0].stack /\ threads'[0].role = threads[0].role
      <4>1. Stands(prog, threads[0], v)
        BY <3>9, <3>11
      <4>2. ~ w
        BY <3>7, <3>11
      <4> QED
        BY <3>11, <4>1, <4>2 DEF Stands, w
    <3>12. CASE /\ Moving(threads[0]) /\ Onward(prog, threads[0], threads'[0])
                /\ \/ Running(0) /\ At(0) \in Creates(prog)
                   \/ \A u \in Workers : threads'[u].state = "none"
                   \/ Running(0) /\ At(0) \notin Joins(prog) /\ \A u \in Workers : threads'[u] = threads[u]
      <4>1. Stands(prog, threads[0], v)
        BY <3>9, <3>12
      <4>2. threads[0] \in ThreadRecords(prog) /\ threads[0].stack # <<>> /\ At(0) = threads[0].stack[1]
        BY <1>2, <2>3, <2>7, <3>12, EventsAtIs
      <4>3. w => At(0) \in Creates(prog) \/ (v /\ At(0) \notin Joins(prog))
        BY <3>7, <3>8, <3>12 DEF Running
      <4>4. Within(prog, threads[0].stack[1])
        BY <1>2, <2>3, <2>7, <3>12, ScopeIs DEF Run
      <4>5. Stands(prog, threads'[0], w)
        BY <2>2, <3>5, <3>6, <3>12, <4>1, <4>2, <4>3, <4>4, StandsOnward
      <4> QED
        BY <4>5 DEF w
    <3> QED
      BY <3>3, <3>5, <3>10, <3>11, <3>12 DEF MainMoves
  <2>8. CASE threads' = threads /\ stage \notin {"judged", "running"} /\ stage' \notin {"recovered", "running"}
    BY <2>4, <2>8
  <2> QED
    BY <1>2, <2>1, <2>5, <2>6, <2>7, <2>8, StageSteps
<1> QED
  BY <1>1, <1>2

-----------------------------------------------------------------------------
(* What the phases say of such a place.                                      *)

\* An edge of the order is a path of the program, so what leads to an event
\* comes to its instruction.
LEMMA EdgeIsPath ==
  ASSUME NEW p, IsProgram(p), NEW o \in ProgramOrder(p, Extracted(p))
  PROVE  o[1].pc \in Code(p) /\ o[2].pc \in Code(p) /\ Path(p, o[1].pc, o[2].pc)
<1> DEFINE all(q) == {g \in Placed(p, Extracted(p)) : g.role = q}
           edges(q) == UNION {{<<a, f>> : f \in NextEvents(p, all(q), a)} : a \in all(q)}
<1>1. ProgramOrder(p, Extracted(p)) = UNION {edges(q) : q \in Roles(p)}
  BY DEF ProgramOrder
<1>2. \A q : \A x \in edges(q) : \E a \in all(q) : \E f \in NextEvents(p, all(q), a) : x = <<a, f>>
  OBVIOUS
<1>3. \A q, a, f : f \in NextEvents(p, all(q), a) => f \in all(q)
  BY DEF NextEvents
<1>4. \A q : \A g \in all(q) : g \in Here(p, q, g.pc)
  BY DEF Here
<1>5. \A q : \A g \in all(q) : g.pc \in Code(p)
  BY <1>4, HereIs
<1>6. ASSUME NEW q, NEW a \in all(q), NEW f \in NextEvents(p, all(q), a)
      PROVE  Path(p, a.pc, f.pc)
  <2> DEFINE busy  == {g.pc : g \in all(q)}
             empty == [i \in Code(p) |-> IF i \in busy THEN {} ELSE Successors(p)[i]]
             s == Successors(p)[a.pc]
             C == {x \in Code(p) : Path(p, a.pc, x)}
  <2>1. Before(a, f) \/ f.pc \in Reach(empty, s)
    BY DEF NextEvents
  <2>2. a.pc \in Code(p)
    BY <1>5
  <2>3. IsFiniteSet(Code(p)) /\ Successors(p) \in [Code(p) -> SUBSET Code(p)]
    BY GraphsTyped
  <2>4. empty \in [Code(p) -> SUBSET Code(p)] /\ s \in SUBSET Code(p)
    BY <2>2, <2>3
  <2>5. \A x \in Code(p) : empty[x] \subseteq Successors(p)[x]
    OBVIOUS
  <2>6. Path(p, a.pc, a.pc) /\ \A x : Path(p, a.pc, x) => \A k \in Successors(p)[x] : Path(p, a.pc, k)
    BY <2>2, PathIs
  <2>7. s \subseteq C /\ \A x \in C : empty[x] \subseteq C
    BY <2>3, <2>4, <2>5, <2>6
  <2>8. C \in SUBSET Code(p) /\ \A x \in C : Path(p, a.pc, x)
    OBVIOUS
  <2> HIDE DEF C, empty, s, busy
  <2>9. Reach(empty, s) \subseteq C
    BY <2>3, <2>4, <2>7, <2>8, ReachIsClosed
  <2>10. Before(a, f) => f.pc = a.pc
    BY DEF Before
  <2> QED
    BY <2>1, <2>6, <2>8, <2>9, <2>10
<1> HIDE DEF all, edges
<1>7. PICK q \in Roles(p) : o \in edges(q)
  BY <1>1
<1>8. PICK a \in all(q) : \E f \in NextEvents(p, all(q), a) : o = <<a, f>>
  BY <1>2, <1>7
<1>10. PICK f \in NextEvents(p, all(q), a) : o = <<a, f>>
  BY <1>8
<1>9. a.pc \in Code(p) /\ f.pc \in Code(p) /\ Path(p, a.pc, f.pc)
  BY <1>3, <1>5, <1>6
<1> QED
  BY <1>9, <1>10

\* Program order leads from an event to another along a path of the program only.
LEMMA LeadsToPath ==
  ASSUME NEW p, IsProgram(p), NEW e, e.pc \in Code(p), NEW f, LeadsTo(ProgramOrder(p, Extracted(p)), e, f)
  PROVE  Path(p, e.pc, f.pc)
<1> DEFINE O == ProgramOrder(p, Extracted(p))
           D == {o[1] : o \in O} \cup {o[2] : o \in O}
           next == [x \in D |-> {o[2] : o \in {y \in O : y[1] = x}}]
           C == {x \in D : Path(p, e.pc, x.pc)}
<1>1. CASE e = f
  BY <1>1, PathIs
<1>2. CASE e # f
  <2>1. After(O) = next
    BY DEF After
  <2>2. e \in D /\ f \in Reach(next, {e})
    BY <1>2, <2>1 DEF LeadsTo
  <2>3. D \subseteq Extracted(p)
    BY EdgesTyped
  <2>4. IsFiniteSet(D)
    <3> HIDE DEF D
    <3> QED
      BY <2>3, ExtractedFinite, FS_Subset
  <2>5. next \in [D -> SUBSET D] /\ {e} \in SUBSET D
    BY <2>2
  <2>6. {e} \subseteq C
    BY <2>2, PathIs
  <2>7. \A x \in C : next[x] \subseteq C
    <3> SUFFICES ASSUME NEW x \in C, NEW y \in next[x] PROVE y \in C
      OBVIOUS
    <3>1. PICK o \in O : o[1] = x /\ o[2] = y
      OBVIOUS
    <3>2. Path(p, x.pc, y.pc)
      BY <3>1, EdgeIsPath
    <3>3. Path(p, e.pc, x.pc) /\ y \in D
      BY <3>1
    <3> HIDE DEF D, next
    <3>4. Path(p, e.pc, y.pc)
      BY <3>2, <3>3, PathsJoin
    <3> QED
      BY <3>3, <3>4
  <2>8. C \in SUBSET D /\ \A x \in C : Path(p, e.pc, x.pc)
    OBVIOUS
  <2> HIDE DEF D, C, next, O
  <2>9. Reach(next, {e}) \subseteq C
    BY <2>4, <2>5, <2>6, <2>7, <2>8, ReachIsClosed
  <2> QED
    BY <2>2, <2>8, <2>9
<1> QED
  BY <1>1, <1>2

(***************************************************************************)
(* Functions that have a call of main from a function of theirs, at a site *)
(* that is not apart, are not taken for apart.                             *)
(***************************************************************************)
LEMMA ApartAvoids ==
  ASSUME NEW p, IsProgram(p), NEW B \in SUBSET Functions(p),
         \A f \in B : f # "main" =>
           \E i \in CallsOfMain(p) : /\ p.code[i].callees = {f} /\ p.code[i].fn \in B
                                     /\ ~ (p.code[i].fn = "main" /\ SiteApart(p, i))
  PROVE  ApartFunctions(p) \cap B = {}
<1> DEFINE sites(f) == {i \in CallsOfMain(p) : p.code[i].callees = {f}}
           loose == {p.code[i].fn : i \in {j \in Code(p) :
                      /\ p.code[j].op \in {"indirect", "jump"} /\ ~ p.code[j].closed
                      /\ p.code[j].fn \in Reach(CallGraph(p, SingleCalls(p)), {"main"})}}
           step(A) == {f \in Functions(p) \ ({"main"} \cup Concurrent(p)) :
                         /\ sites(f) # {} /\ loose \subseteq A
                         /\ \A i \in sites(f) : \/ p.code[i].fn \in A
                                                \/ p.code[i].fn = "main" /\ SiteApart(p, i)}
           apart == CHOOSE g : g = [k \in Nat |-> IF k = 0 THEN {} ELSE step(g[k - 1])]
           n == Cardinality(Functions(p))
<1>1. ApartFunctions(p) = IF p.lifecycle.proven /\ Concurrent(p) # {} THEN apart[n] ELSE {}
  BY DEF ApartFunctions
<1>2. \A A \in SUBSET Functions(p) : step(A) \in SUBSET Functions(p)
  OBVIOUS
<1>3. ASSUME NEW A, A \cap B = {} PROVE step(A) \cap B = {}
  <2> SUFFICES ASSUME NEW f \in B, f \in step(A) PROVE FALSE
    OBVIOUS
  <2>1. f # "main" /\ \A i \in sites(f) : \/ p.code[i].fn \in A
                                          \/ p.code[i].fn = "main" /\ SiteApart(p, i)
    OBVIOUS
  <2>2. PICK i \in CallsOfMain(p) : /\ p.code[i].callees = {f} /\ p.code[i].fn \in B
                                    /\ ~ (p.code[i].fn = "main" /\ SiteApart(p, i))
    BY <2>1
  <2>3. i \in sites(f)
    BY <2>2
  <2> QED
    BY <1>3, <2>1, <2>2, <2>3
<1>4. n \in Nat
  BY GraphsTyped, FS_CardinalityType
<1> HIDE DEF step, n
<1>5. \E g : g = [k \in Nat |-> IF k = 0 THEN {} ELSE step(g[k - 1])]
  <2> DEFINE V == SUBSET Functions(p)
             more == [A \in V |-> step(A)]
             none == {}
  <2>1. none \in V /\ more \in [V -> V] /\ none = {}
    BY <1>2
  <2> HIDE DEF more, V, none
  <2>6. \E g \in [Nat -> V] : g[0] = none /\ \A k \in Nat : g[k + 1] = more[g[k]]
    BY <2>1, RecursionExists, SMTT(60)
  <2>2. PICK g \in [Nat -> V] : g[0] = {} /\ \A k \in Nat : g[k + 1] = more[g[k]]
    BY <2>1, <2>6
  <2>5. \A A \in V : more[A] = step(A)
    BY DEF more
  <2>3. ASSUME NEW k \in Nat, k # 0 PROVE g[k] = step(g[k - 1])
    <3>1. k - 1 \in Nat /\ (k - 1) + 1 = k
      BY <2>3
    <3>2. g[k] = more[g[k - 1]] /\ g[k - 1] \in V
      BY <2>2, <3>1
    <3> QED
      BY <2>5, <3>2
  <2>4. g = [k \in Nat |-> IF k = 0 THEN {} ELSE step(g[k - 1])]
    BY <2>2, <2>3
  <2> QED
    BY <2>4
<1>6. apart = [k \in Nat |-> IF k = 0 THEN {} ELSE step(apart[k - 1])]
  BY <1>5
<1> HIDE DEF apart
<1> DEFINE S == {k \in Nat : apart[k] \cap B = {}}
<1>7. 0 \in S
  BY <1>6
<1>8. ASSUME NEW k \in S PROVE k + 1 \in S
  <2>1. k \in Nat /\ k + 1 \in Nat /\ k + 1 # 0 /\ (k + 1) - 1 = k
    OBVIOUS
  <2>2. apart[k + 1] = step(apart[k])
    BY <1>6, <2>1
  <2> QED
    BY <1>3, <2>1, <2>2
<1>9. S \in SUBSET Nat
  OBVIOUS
<1>10. S = Nat
  <2> HIDE DEF S
  <2> QED
    BY <1>7, <1>8, <1>9, NumbersInOrder
<1> QED
  BY <1>1, <1>4, <1>10

(***************************************************************************)
(* No function of the chain that main is in beside a worker is apart.      *)
(***************************************************************************)
LEMMA BesideNotApart ==
  ASSUME NEW p, IsProgram(p), SingleTargets(p), NEW n, NEW xs, Chain(p, n, xs), Beside(p, n, xs)
  PROVE  /\ \A k \in 1 .. n : ~ PostJoin(p, xs[k])
         /\ p.code[xs[1]].fn \notin ApartFunctions(p)
<1>1. n \in Nat \ {0} /\ xs \in [1 .. n -> Code(p)] /\ p.code[xs[n]].fn = "main" /\ 1 \in 1 .. n /\ n \in 1 .. n
  BY DEF Chain
<1>2. ASSUME NEW k \in 1 .. n, PostJoin(p, xs[k]) PROVE FALSE
  <2>1. p.lifecycle.proven /\ xs[k] \in Code(p)
    BY <1>1, <1>2 DEF PostJoin
  <2>2. p.code[xs[k]].fn = Ending(p) /\ xs[k] \notin Bypass(p)
    BY <1>2, <2>1, EndingIs
  <2> QED
    BY <2>1, <2>2 DEF Beside
<1>3. ASSUME NEW k \in 1 .. n, p.code[xs[k]].fn = "main" PROVE ~ SiteApart(p, xs[k])
  <2>1. PICK j \in Entries(p) : Path(p, j, xs[k])
    BY <1>3 DEF Beside
  <2>2. \A i : SiteApart(p, i) => PostJoin(p, i) \/ \A e \in Entries(p) : ~ Path(p, e, i)
    BY DEF SiteApart, Entries
  <2> QED
    BY <1>2, <2>1, <2>2
<1> DEFINE B == {p.code[xs[k]].fn : k \in 1 .. n}
<1>4. B \in SUBSET Functions(p)
  BY <1>1 DEF IsProgram
<1>5. ASSUME NEW f \in B, f # "main"
      PROVE  \E i \in CallsOfMain(p) : /\ p.code[i].callees = {f} /\ p.code[i].fn \in B
                                       /\ ~ (p.code[i].fn = "main" /\ SiteApart(p, i))
  <2>1. PICK k \in 1 .. n : f = p.code[xs[k]].fn
    OBVIOUS
  <2>2. k # n
    BY <1>1, <1>5, <2>1
  <2>3. k + 1 \in 2 .. n /\ k + 1 \in 1 .. n /\ (k + 1) - 1 = k
    BY <1>1, <2>2
  <2>4. xs[k + 1] \in SingleCalls(p) /\ p.code[xs[k + 1]].callees = {f}
    BY <2>1, <2>3, SingleChain
  <2>5. p.code[xs[k + 1]].fn \in Reach(CallGraph(p, SingleCalls(p)), {"main"})
    <3>1. \A a \in 1 .. n : \A j \in 1 .. a :
            p.code[xs[j]].fn \in Reach(CallGraph(p, SingleCalls(p)), {p.code[xs[a]].fn})
      BY SingleChain
    <3> QED
      BY <1>1, <2>3, <3>1
  <2>6. xs[k + 1] \in CallsOfMain(p)
    BY <2>4, <2>5 DEF CallsOfMain
  <2>7. p.code[xs[k + 1]].fn \in B
    BY <2>3
  <2>8. ~ (p.code[xs[k + 1]].fn = "main" /\ SiteApart(p, xs[k + 1]))
    BY <1>3, <2>3
  <2> HIDE DEF B
  <2> QED
    BY <2>4, <2>6, <2>7, <2>8
<1>6. p.code[xs[1]].fn \in B
  BY <1>1
<1> HIDE DEF B
<1>7. ApartFunctions(p) \cap B = {}
  BY <1>4, <1>5, ApartAvoids
<1> QED
  BY <1>2, <1>6, <1>7

\* Four lists one behind the other.
Four(a, b, c, d) == a \o b \o c \o d

\* Where the members of each list are found.
FourFound(S, a, b, c, d) ==
  /\ Four(a, b, c, d) \in Seq(S)
  /\ Len(Four(a, b, c, d)) = Len(a) + Len(b) + Len(c) + Len(d)
  /\ \A j \in 1 .. Len(a) : Four(a, b, c, d)[j] = a[j]
  /\ \A j \in 1 .. Len(b) : Four(a, b, c, d)[Len(a) + j] = b[j]
  /\ \A j \in 1 .. Len(c) : Four(a, b, c, d)[Len(a) + Len(b) + j] = c[j]
  /\ \A j \in 1 .. Len(d) : Four(a, b, c, d)[Len(a) + Len(b) + Len(c) + j] = d[j]

\* Each list is where the ones before it end.
LEMMA FourLists ==
  ASSUME NEW S, NEW a \in Seq(S), NEW b \in Seq(S), NEW c \in Seq(S), NEW d \in Seq(S)
  PROVE  FourFound(S, a, b, c, d)
<1>1. ASSUME NEW x \in Seq(S), NEW y \in Seq(S)
      PROVE  /\ x \o y \in Seq(S) /\ Len(x \o y) = Len(x) + Len(y)
             /\ \A j \in 1 .. Len(x) : (x \o y)[j] = x[j]
             /\ \A j \in 1 .. Len(y) : (x \o y)[Len(x) + j] = y[j]
             /\ Len(x) \in Nat /\ Len(y) \in Nat
  <2>1. /\ x \o y \in Seq(S) /\ Len(x \o y) = Len(x) + Len(y)
        /\ \A j \in 1 .. Len(x) + Len(y) : (x \o y)[j] = IF j <= Len(x) THEN x[j] ELSE y[j - Len(x)]
    BY ConcatProperties
  <2>2. Len(x) \in Nat /\ Len(y) \in Nat
    OBVIOUS
  <2>3. \A j \in 1 .. Len(x) : (x \o y)[j] = x[j]
    BY <2>1, <2>2
  <2>4. ASSUME NEW j \in 1 .. Len(y) PROVE (x \o y)[Len(x) + j] = y[j]
    <3>1. Len(x) + j \in 1 .. Len(x) + Len(y) /\ ~ Len(x) + j <= Len(x) /\ (Len(x) + j) - Len(x) = j
      BY <2>2
    <3> QED
      BY <2>1, <3>1
  <2> QED
    BY <2>1, <2>2, <2>3, <2>4
<1> DEFINE ab == a \o b
           abc == ab \o c
           all == abc \o d
<1>2. /\ ab \in Seq(S) /\ Len(ab) = Len(a) + Len(b)
      /\ \A j \in 1 .. Len(a) : ab[j] = a[j]
      /\ \A j \in 1 .. Len(b) : ab[Len(a) + j] = b[j]
      /\ Len(a) \in Nat /\ Len(b) \in Nat
  BY <1>1
<1> HIDE DEF ab
<1>3. /\ abc \in Seq(S) /\ Len(abc) = Len(ab) + Len(c)
      /\ \A j \in 1 .. Len(ab) : abc[j] = ab[j]
      /\ \A j \in 1 .. Len(c) : abc[Len(ab) + j] = c[j]
      /\ Len(c) \in Nat
  BY <1>1, <1>2
<1> HIDE DEF abc
<1>4. /\ all \in Seq(S) /\ Len(all) = Len(abc) + Len(d)
      /\ \A j \in 1 .. Len(abc) : all[j] = abc[j]
      /\ \A j \in 1 .. Len(d) : all[Len(abc) + j] = d[j]
      /\ Len(d) \in Nat
  BY <1>1, <1>3
<1> HIDE DEF all
<1>10. all = Four(a, b, c, d)
  BY DEF all, abc, ab, Four
<1>5. Len(all) = Len(a) + Len(b) + Len(c) + Len(d)
  BY <1>2, <1>3, <1>4
<1>6. \A j \in 1 .. Len(a) : all[j] = a[j]
  BY <1>2, <1>3, <1>4
<1>7. ASSUME NEW j \in 1 .. Len(b) PROVE all[Len(a) + j] = b[j]
  <2>1. Len(a) + j \in 1 .. Len(ab) /\ Len(a) + j \in 1 .. Len(abc)
    BY <1>2, <1>3
  <2> QED
    BY <1>2, <1>3, <1>4, <2>1
<1>8. ASSUME NEW j \in 1 .. Len(c) PROVE all[Len(a) + Len(b) + j] = c[j]
  <2>1. Len(ab) + j \in 1 .. Len(abc) /\ Len(ab) + j = Len(a) + Len(b) + j
    BY <1>2, <1>3
  <2> QED
    BY <1>3, <1>4, <2>1
<1>9. ASSUME NEW j \in 1 .. Len(d) PROVE all[Len(a) + Len(b) + Len(c) + j] = d[j]
  <2>1. Len(abc) + j = Len(a) + Len(b) + Len(c) + j
    BY <1>2, <1>3
  <2> QED
    BY <1>4, <2>1
<1> QED
  BY <1>4, <1>5, <1>6, <1>7, <1>8, <1>9, <1>10 DEF FourFound

\* A rule is a reason and whether it applies.
Applies(rule) == rule[2]

\* The first rule that applies, of four lists.
Chosen(a, b, c, d) ==
  LET rules == Four(a, b, c, d) IN rules[Min({k \in DOMAIN rules : Applies(rules[k])})]

\* It is of one of the lists S holds the rules of.
FirstFound(S, a, b, c, d) ==
  \/ \E j \in 1 .. Len(a) : Chosen(a, b, c, d) = a[j] /\ Applies(a[j])
  \/ \E j \in 1 .. Len(b) : Chosen(a, b, c, d) = b[j] /\ Applies(b[j]) /\ \A i \in 1 .. j - 1 : ~ Applies(b[i])
  \/ \E j \in 1 .. Len(c) : Chosen(a, b, c, d) = c[j] /\ Applies(c[j])
  \/ \E j \in 1 .. Len(d) : Chosen(a, b, c, d) = d[j] /\ Applies(d[j])

\* A rule is chosen, if the last list ends in one that always applies.
LEMMA FirstRule ==
  ASSUME NEW S, NEW a \in Seq(S), NEW b \in Seq(S), NEW c \in Seq(S), NEW d \in Seq(S),
         Len(d) = 4, Applies(d[4])
  PROVE  FirstFound(S, a, b, c, d)
<1> DEFINE rules == Four(a, b, c, d)
           T == {j \in DOMAIN rules : Applies(rules[j])}
           k == Min(T)
<1>1. /\ rules \in Seq(S) /\ Len(rules) = Len(a) + Len(b) + Len(c) + Len(d)
      /\ \A j \in 1 .. Len(a) : rules[j] = a[j]
      /\ \A j \in 1 .. Len(b) : rules[Len(a) + j] = b[j]
      /\ \A j \in 1 .. Len(c) : rules[Len(a) + Len(b) + j] = c[j]
      /\ \A j \in 1 .. Len(d) : rules[Len(a) + Len(b) + Len(c) + j] = d[j]
  <2>1. FourFound(S, a, b, c, d)
    BY FourLists
  <2> QED
    BY <2>1, Zenon DEF FourFound
<1>0. Chosen(a, b, c, d) = rules[k]
  BY DEF Chosen
<1>2. \A j : j \in T <=> j \in DOMAIN rules /\ Applies(rules[j])
  BY Zenon
<1> DEFINE na == Len(a)
           nb == Len(b)
           nc == Len(c)
<1>3. na \in Nat /\ nb \in Nat /\ nc \in Nat /\ Len(d) = 4
  OBVIOUS
<1> HIDE DEF rules, T, na, nb, nc
<1>4. DOMAIN rules = 1 .. (na + nb + nc + 4)
  BY <1>1, <1>3 DEF na, nb, nc
<1>5. \A j : j \in T => j \in 1 .. (na + nb + nc + 4)
  BY <1>2, <1>4
<1>6. na + nb + nc + 4 \in T
  <2>1. na + nb + nc + 4 \in DOMAIN rules
    BY <1>3, <1>4
  <2>2. rules[na + nb + nc + 4] = d[4]
    BY <1>1, <1>3 DEF na, nb, nc
  <2>3. Applies(rules[na + nb + nc + 4])
    BY <2>2, Zenon
  <2> QED
    BY <1>2, <2>1, <2>3, Zenon
<1>7. T \in SUBSET Nat
  BY <1>3, <1>5
<1>8. k \in T /\ \A y \in T : k <= y
  BY <1>6, <1>7, LeastIsFirst
<1> HIDE DEF k
<1>9. k \in 1 .. (na + nb + nc + 4) /\ Applies(rules[k])
  BY <1>2, <1>5, <1>8
<1>10. CASE k \in 1 .. na
  <2>1. rules[k] = a[k]
    BY <1>1, <1>10 DEF na
  <2>2. Applies(a[k])
    BY <1>9, <2>1, Zenon
  <2>3. \E j \in 1 .. Len(a) : rules[k] = a[j] /\ Applies(a[j])
    BY <1>10, <2>1, <2>2, Zenon DEF na
  <2> QED
    BY <1>0, <2>3, Zenon DEF FirstFound
<1>11. CASE k \in na + 1 .. na + nb
  <2> DEFINE j == k - na
  <2>1. j \in 1 .. nb /\ na + j = k
    BY <1>3, <1>11
  <2> HIDE DEF j
  <2>2. rules[k] = b[j]
    BY <1>1, <2>1 DEF na, nb
  <2>3. Applies(b[j])
    BY <1>9, <2>2, Zenon
  <2>4. ASSUME NEW i \in 1 .. j - 1, Applies(b[i]) PROVE FALSE
    <3>1. i \in 1 .. nb /\ na + i < k /\ na + i \in 1 .. (na + nb + nc + 4)
      BY <1>3, <2>1
    <3>2. rules[na + i] = b[i]
      BY <1>1, <3>1 DEF na, nb
    <3>3. Applies(rules[na + i])
      BY <2>4, <3>2, Zenon
    <3>4. na + i \in T
      BY <1>2, <1>4, <3>1, <3>3, Zenon
    <3>5. k <= na + i
      BY <1>8, <3>4
    <3> HIDE DEF k
    <3> QED
      BY <1>3, <1>9, <3>1, <3>5
  <2>5. \E h \in 1 .. Len(b) : rules[k] = b[h] /\ Applies(b[h]) /\ \A i \in 1 .. h - 1 : ~ Applies(b[i])
    BY <2>1, <2>2, <2>3, <2>4, Zenon DEF nb
  <2> QED
    BY <1>0, <2>5, Zenon DEF FirstFound
<1>12. CASE k \in na + nb + 1 .. na + nb + nc
  <2> DEFINE j == k - (na + nb)
  <2>1. j \in 1 .. nc /\ na + nb + j = k
    BY <1>3, <1>12
  <2> HIDE DEF j
  <2>2. rules[k] = c[j]
    BY <1>1, <2>1 DEF na, nb, nc
  <2>3. Applies(c[j])
    BY <1>9, <2>2, Zenon
  <2>4. \E h \in 1 .. Len(c) : rules[k] = c[h] /\ Applies(c[h])
    BY <2>1, <2>2, <2>3, Zenon DEF nc
  <2> QED
    BY <1>0, <2>4, Zenon DEF FirstFound
<1>13. CASE k \in na + nb + nc + 1 .. na + nb + nc + 4
  <2> DEFINE j == k - (na + nb + nc)
  <2>1. j \in 1 .. 4 /\ na + nb + nc + j = k
    BY <1>3, <1>13
  <2> HIDE DEF j
  <2>2. rules[k] = d[j]
    BY <1>1, <1>3, <2>1 DEF na, nb, nc
  <2>3. Applies(d[j])
    BY <1>9, <2>2, Zenon
  <2>4. \E h \in 1 .. Len(d) : rules[k] = d[h] /\ Applies(d[h])
    BY <1>3, <2>1, <2>2, <2>3, Zenon
  <2> QED
    BY <1>0, <2>4, Zenon DEF FirstFound
<1>14. \/ k \in 1 .. na \/ k \in na + 1 .. na + nb \/ k \in na + nb + 1 .. na + nb + nc
       \/ k \in na + nb + nc + 1 .. na + nb + nc + 4
  BY <1>3, <1>9
<1> QED
  BY <1>10, <1>11, <1>12, <1>13, <1>14

\* What the reasons say of the accesses to an object, seen as v.
Warranted(p, locks, v, published, r) ==
  LET kind == v.address.kind IN
  \/ r \in {"idle", "open", "shared"}
  \/ r = "SingleMainRole" /\ v.strange = {} /\ kind # "Unknown" /\ \A e \in v.object : e.role = 0
  \/ r = "ReadOnlyAfterCreate" /\ v.writers = {} /\ v.strange = {}
  \/ r = "AtomicCovered" /\ v.strange = {} /\ Protected(locks, v.running)
  \/ /\ r = "DisjointAffine" /\ p.lifecycle.proven /\ v.address.base[1] = p.lifecycle.arg
     /\ \A e \in v.object : e.role # 0
  \/ r = "TLSStorage" /\ kind = "TLS" /\ ~ p.tlsEscapes
  \/ r = "UnescapedStack" /\ kind = "Stack" /\ v.strange = {} /\ \A e \in v.running : e.role = 0
  \/ r = "UnescapedStack" /\ kind = "Stack" /\ {p.code[e.pc].fn : e \in v.object} \cap p.escapes = {}
  \/ r = "ReadOnlyAfterCreate" /\ kind = "Global" /\ published
  \/ r = "FreshAllocation" /\ kind \in {"Heap", "Affine"} /\ FreshObject(p, v)
  \/ /\ r = "DisjointAffine" /\ kind = "Affine" /\ v.address.base[1] \in p.split /\ v.workers
     /\ {w \in v.strange : w.role = 0 \/ w.address.base # v.address.base} = {}

\* A reason is only given where it is so.
LEMMA ReasonMeans ==
  ASSUME NEW p, NEW es, NEW o, NEW locks, NEW apart, NEW object
  PROVE  Warranted(p, locks, View(p, es, apart, object), PublishedReadOnly(p, es, o, apart, object),
                   Reason(p, es, o, locks, apart, object))
<1> DEFINE Names == {"idle", "SingleMainRole", "ReadOnlyAfterCreate", "AtomicCovered", "DisjointAffine", "open",
                     "TLSStorage", "FreshAllocation", "UnescapedStack", "shared"}
           S == Names \X BOOLEAN
           v == View(p, es, apart, object)
           published == PublishedReadOnly(p, es, o, apart, object)
           h == v.address.kind = "Global" /\ published
           a == SharingRules(p, locks, v)
           b == StorageRules(p, v)
           c == << <<"ReadOnlyAfterCreate", h>> >>
           d == AffineRules(p, v)
           reason == Reason(p, es, o, locks, apart, object)
<1>1. reason = Chosen(a, b, c, d)[1]
  BY DEF Reason, Chosen, Four, Applies
<1> HIDE DEF v, published, reason
<1> DEFINE warranted(r) == Warranted(p, locks, v, published, r)
<1>2. /\ a \in Seq(S) /\ Len(a) = 5
      /\ \A j \in 1 .. Len(a) : Applies(a[j]) => warranted(a[j][1])
  <2> DEFINE f1 == v.running = {}
             f2 == /\ \A e \in v.object : e.role = 0 /\ e.kind \notin OpaqueKinds
                   /\ v.address.kind \in {"Global", "Affine", "Heap"} /\ v.strange = {}
             f3 == v.writers = {} /\ v.strange = {}
             f4 == v.strange = {} /\ Protected(locks, v.running)
             f5 == /\ p.lifecycle.proven /\ v.address.base[1] = p.lifecycle.arg
                   /\ \A e \in v.object : e.role # 0
  <2>1. a = << <<"idle", f1>>, <<"SingleMainRole", f2>>, <<"ReadOnlyAfterCreate", f3>>,
               <<"AtomicCovered", f4>>, <<"DisjointAffine", f5>> >>
    BY Zenon DEF SharingRules
  <2>2. f1 \in BOOLEAN /\ f2 \in BOOLEAN /\ f3 \in BOOLEAN /\ f4 \in BOOLEAN /\ f5 \in BOOLEAN
    BY Zenon
  <2>3. warranted("idle")
    BY DEF Warranted
  <2>4. f2 => warranted("SingleMainRole")
    BY DEF Warranted
  <2>5. f3 => warranted("ReadOnlyAfterCreate")
    BY DEF Warranted
  <2>6. f4 => warranted("AtomicCovered")
    BY DEF Warranted
  <2>7. f5 => warranted("DisjointAffine")
    BY DEF Warranted
  <2> HIDE DEF f1, f2, f3, f4, f5, a, warranted
  <2>14. /\ <<"idle", f1>> \in S /\ <<"SingleMainRole", f2>> \in S /\ <<"ReadOnlyAfterCreate", f3>> \in S
         /\ <<"AtomicCovered", f4>> \in S /\ <<"DisjointAffine", f5>> \in S
    BY <2>2
  <2>8. a \in Seq(S) /\ Len(a) = 5
    <3> HIDE DEF S
    <3> QED
      BY <2>1, <2>14
  <2>9. /\ a[1][1] = "idle" /\ a[2][1] = "SingleMainRole" /\ a[3][1] = "ReadOnlyAfterCreate"
        /\ a[4][1] = "AtomicCovered" /\ a[5][1] = "DisjointAffine"
    BY <2>1
  <2>10. a[2][2] = f2 /\ a[3][2] = f3 /\ a[4][2] = f4 /\ a[5][2] = f5
    BY <2>1
  <2>11. /\ Applies(a[2]) => f2
         /\ Applies(a[3]) => f3
         /\ Applies(a[4]) => f4
         /\ Applies(a[5]) => f5
    BY <2>10, Zenon DEF Applies
  <2>12. \A j \in 1 .. Len(a) : j = 1 \/ j = 2 \/ j = 3 \/ j = 4 \/ j = 5
    BY <2>8
  <2>13. \A j \in 1 .. Len(a) : Applies(a[j]) => warranted(a[j][1])
    BY <2>3, <2>4, <2>5, <2>6, <2>7, <2>9, <2>11, <2>12, Zenon
  <2> QED
    BY <2>8, <2>13
<1>3. /\ b \in Seq(S) /\ Len(b) = 6
      /\ \A j \in 1 .. Len(b) : Applies(b[j]) /\ (\A i \in 1 .. j - 1 : ~ Applies(b[i])) => warranted(b[j][1])
  <2> DEFINE kind == v.address.kind
             g1 == kind = "TLS" /\ p.tlsEscapes
             g2 == kind = "TLS"
             g3 == kind = "Heap" /\ FreshObject(p, v)
             g4 == kind = "Stack" /\ v.strange = {} /\ \A e \in v.running : e.role = 0
             g5 == kind = "Stack" /\ {p.code[e.pc].fn : e \in v.object} \cap p.escapes = {}
             g6 == kind = "Stack"
  <2>1. b = << <<"open", g1>>, <<"TLSStorage", g2>>, <<"FreshAllocation", g3>>, <<"UnescapedStack", g4>>,
               <<"UnescapedStack", g5>>, <<"open", g6>> >>
    BY Zenon DEF StorageRules
  <2>2. /\ g1 \in BOOLEAN /\ g2 \in BOOLEAN /\ g3 \in BOOLEAN
        /\ g4 \in BOOLEAN /\ g5 \in BOOLEAN /\ g6 \in BOOLEAN
    BY Zenon
  <2>3. warranted("open")
    BY DEF Warranted
  <2>4. g2 /\ ~ g1 => warranted("TLSStorage")
    BY DEF Warranted
  <2>5. g3 => warranted("FreshAllocation")
    BY DEF Warranted
  <2>6. g4 => warranted("UnescapedStack")
    BY DEF Warranted
  <2>7. g5 => warranted("UnescapedStack")
    BY DEF Warranted
  <2> HIDE DEF g1, g2, g3, g4, g5, g6, b, warranted
  <2>14. /\ <<"open", g1>> \in S /\ <<"TLSStorage", g2>> \in S /\ <<"FreshAllocation", g3>> \in S
         /\ <<"UnescapedStack", g4>> \in S /\ <<"UnescapedStack", g5>> \in S /\ <<"open", g6>> \in S
    BY <2>2
  <2>8. b \in Seq(S) /\ Len(b) = 6
    <3> HIDE DEF S
    <3> QED
      BY <2>1, <2>14
  <2>9. /\ b[1][1] = "open" /\ b[2][1] = "TLSStorage" /\ b[3][1] = "FreshAllocation"
        /\ b[4][1] = "UnescapedStack" /\ b[5][1] = "UnescapedStack" /\ b[6][1] = "open"
    BY <2>1
  <2>10. b[1][2] = g1 /\ b[2][2] = g2 /\ b[3][2] = g3 /\ b[4][2] = g4 /\ b[5][2] = g5
    BY <2>1
  <2>11. /\ ~ Applies(b[1]) => ~ g1
         /\ Applies(b[2]) => g2
         /\ Applies(b[3]) => g3
         /\ Applies(b[4]) => g4
         /\ Applies(b[5]) => g5
    BY <2>10, Zenon DEF Applies
  <2>12. \A j \in 1 .. Len(b) : j = 1 \/ j = 2 \/ j = 3 \/ j = 4 \/ j = 5 \/ j = 6
    BY <2>8
  <2>13. ASSUME NEW j \in 1 .. Len(b), Applies(b[j]), \A i \in 1 .. j - 1 : ~ Applies(b[i]) PROVE warranted(b[j][1])
    <3>1. j = 2 => 1 \in 1 .. j - 1
      OBVIOUS
    <3> QED
      BY <2>3, <2>4, <2>5, <2>6, <2>7, <2>9, <2>11, <2>12, <2>13, <3>1, Zenon
  <2> QED
    BY <2>8, <2>13
<1>4. /\ c \in Seq(S) /\ Len(c) = 1
      /\ \A j \in 1 .. Len(c) : Applies(c[j]) => warranted(c[j][1])
  <2>1. h \in BOOLEAN
    BY Zenon
  <2>2. h => warranted("ReadOnlyAfterCreate")
    BY DEF Warranted
  <2> HIDE DEF h, warranted
  <2>8. <<"ReadOnlyAfterCreate", h>> \in S
    BY <2>1
  <2>3. c \in Seq(S) /\ Len(c) = 1
    <3> HIDE DEF S
    <3> QED
      BY <2>8
  <2>4. c[1][1] = "ReadOnlyAfterCreate" /\ c[1][2] = h
    OBVIOUS
  <2>5. \A j \in 1 .. Len(c) : j = 1
    BY <2>3
  <2> HIDE DEF c
  <2>6. Applies(c[1]) => h
    BY <2>4, Zenon DEF Applies
  <2>7. \A j \in 1 .. Len(c) : Applies(c[j]) => warranted(c[j][1])
    BY <2>2, <2>4, <2>5, <2>6, Zenon
  <2> QED
    BY <2>3, <2>7
<1>5. /\ d \in Seq(S) /\ Len(d) = 4 /\ Applies(d[4])
      /\ \A j \in 1 .. Len(d) : Applies(d[j]) => warranted(d[j][1])
  <2> DEFINE affine == v.address.kind = "Affine"
             k1 == affine /\ FreshObject(p, v)
             k2 == /\ affine /\ (v.address.base[1] \in p.split /\ v.workers) /\ v.writers # {}
                   /\ {w \in v.strange : w.role = 0 \/ w.address.base # v.address.base} = {}
             k3 == affine
  <2>1. d = << <<"FreshAllocation", k1>>, <<"DisjointAffine", k2>>, <<"open", k3>>, <<"shared", TRUE>> >>
    BY Zenon DEF AffineRules
  <2>2. k1 \in BOOLEAN /\ k2 \in BOOLEAN /\ k3 \in BOOLEAN
    BY Zenon
  <2>3. warranted("open") /\ warranted("shared")
    BY DEF Warranted
  <2>4. k1 => warranted("FreshAllocation")
    BY DEF Warranted
  <2>5. k2 => warranted("DisjointAffine")
    BY DEF Warranted
  <2> HIDE DEF k1, k2, k3, d, warranted
  <2> HIDE DEF affine
  <2>12. /\ <<"FreshAllocation", k1>> \in S /\ <<"DisjointAffine", k2>> \in S
         /\ <<"open", k3>> \in S /\ <<"shared", TRUE>> \in S
    BY <2>2
  <2>6. d \in Seq(S) /\ Len(d) = 4
    <3> HIDE DEF S
    <3> QED
      BY <2>1, <2>12
  <2>7. /\ d[1][1] = "FreshAllocation" /\ d[2][1] = "DisjointAffine" /\ d[3][1] = "open"
        /\ d[4][1] = "shared"
    BY <2>1
  <2>8. d[1][2] = k1 /\ d[2][2] = k2 /\ d[4][2] = TRUE
    BY <2>1
  <2>9. /\ Applies(d[1]) => k1
        /\ Applies(d[2]) => k2
    BY <2>8, Zenon DEF Applies
  <2>10. \A j \in 1 .. Len(d) : j = 1 \/ j = 2 \/ j = 3 \/ j = 4
    BY <2>6
  <2>11. \A j \in 1 .. Len(d) : Applies(d[j]) => warranted(d[j][1])
    BY <2>3, <2>4, <2>5, <2>7, <2>9, <2>10, Zenon
  <2>13. Applies(d[4])
    BY <2>8, Zenon DEF Applies
  <2> QED
    BY <2>6, <2>11, <2>13, Zenon
<1> HIDE DEF a, b, c, d, S, warranted
<1>6. FirstFound(S, a, b, c, d)
  BY <1>2, <1>3, <1>4, <1>5, FirstRule
<1>7. warranted(Chosen(a, b, c, d)[1])
  BY <1>2, <1>3, <1>4, <1>5, <1>6, Zenon DEF FirstFound
<1> QED
  BY <1>1, <1>7 DEF warranted, v, published, reason

\* What the rules of sharing say of an object never names a phase of main.
LEMMA ReasonsAre ==
  ASSUME NEW p, NEW es, NEW o, NEW locks, NEW apart, NEW object
  PROVE  Reason(p, es, o, locks, apart, object) \notin MainPhases
<1> DEFINE r == Reason(p, es, o, locks, apart, object)
           v == View(p, es, apart, object)
           published == PublishedReadOnly(p, es, o, apart, object)
<1>1. Warranted(p, locks, v, published, r)
  BY ReasonMeans
<1> HIDE DEF r, v, published
<1>2. r \in {"idle", "open", "shared", "SingleMainRole", "ReadOnlyAfterCreate", "AtomicCovered", "DisjointAffine",
             "TLSStorage", "UnescapedStack", "FreshAllocation"}
  BY <1>1 DEF Warranted
<1> QED
  BY <1>2 DEF MainPhases, r

\* The proofs that name a phase of main.
LEMMA PhasesAre ==
  ASSUME NEW p, NEW es, NEW o, NEW q \in SharedStateOf(p, es, o).proofs, q.reason \in MainPhases
  PROVE  q.events \subseteq BeforeCreate(p, es, o) \cup AfterJoin(p, es) \cup MainCallee(p, es)
<1> DEFINE locks  == DefiniteLocks(es, o)
           before == BeforeCreate(p, es, o)
           after  == AfterJoin(p, es)
           callee == MainCallee(p, es)
           never  == NonReturning(p, es)
           reasons == [x \in Objects(es) |->
                         Reason(p, es, o, locks, before \cup after \cup callee \cup never, x)]
           proven == {x \in DOMAIN reasons : reasons[x] \notin {"idle", "open", "shared"}}
           gone   == never \cup UNION proven
           phases == {[reason |-> "NonReturningPath", events |-> never],
                      [reason |-> "SequentialAfterJoin", events |-> after \ gone],
                      [reason |-> "SequentialMainCallee", events |-> callee \ (gone \cup after)],
                      [reason |-> "SequentialBeforeCreate",
                       events |-> before \ (gone \cup after \cup callee)]}
<1>1. SharedStateOf(p, es, o).proofs =
        {[reason |-> reasons[x], events |-> x] : x \in proven} \cup {y \in phases : y.events # {}}
  BY DEF SharedStateOf
<1>2. \A x \in DOMAIN reasons : reasons[x] \notin MainPhases
  BY ReasonsAre
<1> HIDE DEF reasons
<1>3. \A x \in proven : [reason |-> reasons[x], events |-> x].reason \notin MainPhases
  BY <1>2
<1>4. q \notin {[reason |-> reasons[x], events |-> x] : x \in proven}
  <2> HIDE DEF proven
  <2> QED
    BY <1>3
<1> HIDE DEF proven
<1>5. q \in phases
  BY <1>1, <1>4
<1> HIDE DEF before, after, callee, never, gone
<1>6. q.reason # "NonReturningPath"
  BY DEF MainPhases
<1>7. q.events \subseteq before \cup after \cup callee
  BY <1>5, <1>6
<1> QED
  BY <1>7 DEF before, after, callee

\* The events that a phase of main separates from the threads it makes.
Phased(p) ==
  BeforeCreate(p, Extracted(p), Known(p)) \cup AfterJoin(p, Extracted(p)) \cup MainCallee(p, Extracted(p))

\* An event where main is beside a worker is none of them, if nothing main does
\* at such a place leads back to a creation.
LEMMA BesideNotPhased ==
  ASSUME NEW p, IsProgram(p), CreatesTogether(p), SingleTargets(p),
         NEW n, NEW xs, Chain(p, n, xs), Beside(p, n, xs),
         NEW places, xs[1] \in places, NoWayBack(p, places), NEW e \in Extracted(p), e.pc = xs[1]
  PROVE  e \notin Phased(p)
<1> DEFINE x == xs[1]
           events1 == Extracted(p)
           order1 == Known(p)
<1>1. x \in Code(p) /\ p.code[x].fn \in RoleFunctions(p, 0)
  <2>1. 1 \in 1 .. n
    BY DEF Chain
  <2> QED
    BY <2>1 DEF Chain
<1>2. PICK c \in Creates(p) : x \in Reach(Until(p), Successors(p)[c])
  BY DEF Beside
<1>3. c \in Code(p) /\ p.code[c].op = "create"
  BY <1>2 DEF Creates
<1>4. PICK j \in Successors(p)[c] : j \in Code(p) /\ Path(p, j, x)
  BY <1>1, <1>2, <1>3, UntilIs
<1>5. ~ Path(p, x, c)
  BY <1>1, <1>2, <1>4 DEF NoWayBack
<1>6. Path(p, c, x)
  <2>1. Path(p, c, j)
    BY <1>3, <1>4, PathIs
  <2> QED
    BY <1>1, <1>3, <1>4, <2>1, PathsJoin
<1>7. \E d \in CreateEvents(events1) : d.pc = c
  <2>1. "Create" \in KindOf(p, p.code[c])
    BY <1>3 DEF KindOf
  <2>2. p.code[c].fn \in RoleFunctions(p, 0) /\ 0 \in Roles(p)
    BY <1>2 DEF CreatesTogether, Roles
  <2> DEFINE d == Event(0, c, "Create", AddressOf(p.code[c], "Create"))
  <2>3. d \in Here(p, 0, c)
    BY <1>3, <2>1, <2>2, HereIs
  <2>4. d.kind = "Create" /\ d.pc = c
    BY DEF Event
  <2> HIDE DEF d
  <2>5. d \in events1
    BY <2>3 DEF Here, Placed
  <2> QED
    BY <2>4, <2>5 DEF CreateEvents
<1>8. PICK d \in CreateEvents(events1) : d.pc = c
  BY <1>7
<1>9. ASSUME e \in BeforeCreate(p, events1, order1) PROVE FALSE
  <2>1. CASE \A y \in CreateEvents(events1) : LeadsTo(order1, e, y)
    <3>1. LeadsTo(ProgramOrder(p, Extracted(p)), e, d)
      BY <1>8, <2>1 DEF Known
    <3>2. e.pc \in Code(p) /\ e.pc = x /\ d.pc = c
      BY <1>1, <1>8
    <3>3. Path(p, e.pc, d.pc)
      BY <3>1, <3>2, LeadsToPath
    <3>4. Path(p, x, c)
      BY <3>2, <3>3
    <3> QED
      BY <1>5, <3>4
  <2>2. CASE NeverAfterCreate(p, events1, e)
    <3>1. PICK y \in CreateEvents(events1) : p.code[y.pc].fn = p.code[x].fn
      BY <2>2 DEF NeverAfterCreate
    <3>2. y.pc \in Creates(p)
      <4>1. y \in Extracted(p) /\ y.kind = "Create"
        BY <3>1 DEF CreateEvents
      <4>2. y \in Here(p, y.role, y.pc)
        BY <4>1 DEF Here, Placed
      <4>3. y.pc \in Code(p) /\ "Create" \in KindOf(p, p.code[y.pc])
        BY <4>1, <4>2, HereIs
      <4>4. p.code[y.pc].op = "create"
        BY <4>3 DEF KindOf
      <4> QED
        BY <4>3, <4>4 DEF Creates
    <3>3. p.code[c].fn = p.code[x].fn
      BY <1>2, <3>1, <3>2 DEF CreatesTogether
    <3>4. ~ Path(p, c, x)
      BY <1>8, <2>2, <3>3 DEF NeverAfterCreate
    <3> QED
      BY <1>6, <3>4
  <2> QED
    BY <1>9, <2>1, <2>2 DEF BeforeCreate
<1>10. ~ PostJoin(p, x) /\ p.code[x].fn \notin ApartFunctions(p)
  <2>1. 1 \in 1 .. n
    BY DEF Chain
  <2> QED
    BY <2>1, BesideNotApart
<1>11. e \notin AfterJoin(p, events1) /\ e \notin MainCallee(p, events1)
  BY <1>10 DEF AfterJoin, MainCallee
<1> QED
  BY <1>9, <1>11 DEF Phased

\* Where main stands, no worker is.
LEMMA AloneNow == RunInv /\ MainInv => SequentialRanAlone
<1> SUFFICES ASSUME RunInv, MainInv, NEW q \in shared.proofs,
                    q.reason \in MainPhases, stage = "running", Running(0), NEW e \in q.events,
                    e.role = 0, e.pc = At(0), Instr(0).op \in Reads \cup Writes,
                    PhasesApart(prog), CreatesTogether(prog), JoinedForGood(prog),
                    SingleTargets(prog), MainNotCalledBack(prog)
             PROVE  Alive = {0}
  BY DEF SequentialRanAlone
<1>1. 0 \in Threads /\ 0 \notin Workers /\ Threads = {0} \cup Workers /\ Moving(threads[0])
  BY WorkersAreNumbered DEF Threads, Running, Moving
<1>2. SUFFICES ASSUME NEW u \in Workers, Running(u) PROVE FALSE
  <2>1. \A u \in Workers : threads[u].state # "waiting"
    BY DEF MainInv
  <2>2. \A u \in Workers : u \notin Alive
    BY <1>2, <2>1 DEF Alive, Running
  <2>3. 0 \in Alive
    BY <1>1 DEF Alive, Running
  <2>4. Alive \subseteq Threads
    BY DEF Alive
  <2> QED
    BY <1>1, <2>2, <2>3, <2>4
<1> DEFINE x == At(0)
           a == threads[0]
<1>3. /\ IsProgram(prog) /\ Recovered /\ x \in Code(prog) /\ x = a.stack[1]
      /\ Instr(0) = prog.code[x]
  BY <1>1, EventsAtIs DEF Instr
<1>4. shared = SharedStateOf(prog, events, order)
  <2>1. events # {} /\ StagesInv
    BY DEF RunInv, StagesInv
  <2> QED
    BY <2>1 DEF StagesInv
<1>5. e \in BeforeCreate(prog, events, order) \cup AfterJoin(prog, events) \cup MainCallee(prog, events)
  BY <1>4, PhasesAre
<1>6. e \in Extracted(prog)
  BY <1>3, <1>5 DEF BeforeCreate, AfterJoin, MainCallee, Recovered
<1>7. prog.code[x].fn \in RoleFunctions(prog, 0)
  <2>1. e \notin Sentinels(prog)
    BY DEF Sentinels, Event, Starts
  <2>2. PICK y \in Roles(prog) \X Code(prog) :
          /\ prog.code[y[2]].fn \in RoleFunctions(prog, y[1])
          /\ e \in {Event(y[1], y[2], k, AddressOf(prog.code[y[2]], k)) : k \in KindOf(prog, prog.code[y[2]])}
    BY <1>6, <2>1 DEF Extracted
  <2>3. e.role = y[1] /\ e.pc = y[2]
    BY <2>2 DEF Event
  <2> QED
    BY <2>2, <2>3
<1>8. Stands(prog, a, TRUE)
  BY <1>1, <1>2 DEF MainInv, MainBeside
<1>9. PICK m \in Nat, n \in Nat \ {0} : \E xs \in [1 .. n -> Code(prog)] :
        Chain(prog, n, xs) /\ Stacked(prog, a.stack, m, n, xs) /\ Beside(prog, n, xs)
  BY <1>8 DEF Stands
<1>10. PICK xs \in [1 .. n -> Code(prog)] :
         Chain(prog, n, xs) /\ Stacked(prog, a.stack, m, n, xs) /\ Beside(prog, n, xs)
  BY <1>9
<1> HIDE DEF x, a
<1>11. m = 0
  <2>1. m > 0 => prog.code[a.stack[1]].fn \in Hidden(prog, 0)
    BY <1>9, <1>10 DEF Stacked
  <2> QED
    BY <1>3, <1>7, <1>9, <2>1 DEF MainNotCalledBack
<1>12. xs[1] = x /\ 1 \in 1 .. n
  BY <1>3, <1>9, <1>10, <1>11 DEF Stacked
<1>13. x \in Accesses(prog) /\ NoWayBack(prog, Accesses(prog))
  BY <1>3 DEF Accesses, PhasesApart
<1>14. e \in Extracted(prog) /\ e.pc = x
  BY <1>6 DEF x
<1>15. e \notin Phased(prog)
  BY <1>3, <1>10, <1>12, <1>13, <1>14, BesideNotPhased
<1> QED
  BY <1>3, <1>5, <1>15 DEF Phased, Recovered, Known

(***************************************************************************)
(* No thread is alive when main is at an access that a phase of main was   *)
(* to separate, for every program whose threads are created and joined as  *)
(* SequentialRanAlone says, every number of threads and every run.         *)
(***************************************************************************)
THEOREM PhasesRanAlone == Spec => []SequentialRanAlone
BY AloneNow, RunInductive, MainInductive, PTL DEF Spec

-----------------------------------------------------------------------------
(* What a program that is SAFE leaves to no other proof.                     *)

\* The slice that the verdict is about.
Judged(p, es, o, sh, app) ==
  IF app THEN ToApplication(SliceOf(p, es, o, sh)) ELSE SliceOf(p, es, o, sh)

\* What was judged, and by which facts.
JudgedInv ==
  /\ stage \in Sliced /\ events # {} => slice = Judged(prog, events, order, shared, application)
  /\ verdict = "SAFE" => open = OpenUnknowns(prog, slice, application)

\* It is inductive.
LEMMA JudgedInductive ==
  /\ Init => JudgedInv
  /\ StagesInv /\ SliceInv /\ JudgedInv /\ [Next]_vars => JudgedInv'
<1>1. Init => JudgedInv
  BY DEF Init, JudgedInv, Sliced
<1>2. ASSUME StagesInv, SliceInv, JudgedInv, [Next]_vars PROVE JudgedInv'
  <2>1. CASE Extract \/ Share
    <3>1. stage' \notin Sliced /\ verdict' = verdict /\ verdict = "none"
      BY <1>2, <2>1 DEF Extract, Share, Sliced, SliceInv
    <3> QED
      BY <3>1 DEF JudgedInv
  <2>2. CASE ExtractionFails
    <3>1. events' = {} /\ verdict' = verdict /\ verdict = "none"
      BY <1>2, <2>2 DEF ExtractionFails, StagesInv, SliceInv
    <3> QED
      BY <3>1 DEF JudgedInv
  <2>3. CASE Slice
    <3>1. /\ prog' = prog /\ application' = application /\ events' = events /\ order' = order
          /\ shared' = shared /\ verdict' = verdict /\ verdict = "none"
          /\ slice' = Judged(prog, events, order, shared, application)
      BY <1>2, <2>3 DEF Slice, SliceInv, Judged
    <3>2. slice' = Judged(prog', events', order', shared', application')
      BY <3>1
    <3> QED
      BY <3>1, <3>2 DEF JudgedInv
  <2>4. CASE Verify
    <3>1. /\ prog' = prog /\ application' = application /\ events' = events /\ order' = order
          /\ shared' = shared /\ slice' = slice /\ stage = "sliced"
          /\ open' = OpenUnknowns(prog, slice, application)
      BY <2>4 DEF Verify
    <3>2. events # {} => slice' = Judged(prog', events', order', shared', application')
      BY <1>2, <3>1 DEF JudgedInv, Sliced
    <3>3. open' = OpenUnknowns(prog', slice', application')
      BY <3>1
    <3> QED
      BY <3>1, <3>2, <3>3 DEF JudgedInv
  <2>5. CASE Start \/ Run \/ UNCHANGED vars
    <3>1. /\ prog' = prog /\ application' = application /\ events' = events /\ order' = order
          /\ shared' = shared /\ slice' = slice /\ open' = open /\ verdict' = verdict
          /\ stage' = stage \/ stage \in Sliced
      BY <2>5 DEF Start, Run, vars, static, Sliced
    <3>2. stage \in Sliced /\ events # {} => slice' = Judged(prog', events', order', shared', application')
      BY <1>2, <3>1 DEF JudgedInv
    <3>3. verdict = "SAFE" => open' = OpenUnknowns(prog', slice', application')
      BY <1>2, <3>1 DEF JudgedInv
    <3> QED
      BY <3>1, <3>2, <3>3 DEF JudgedInv
  <2> QED
    BY <1>2, <2>1, <2>2, <2>3, <2>4, <2>5 DEF Next
<1> QED
  BY <1>1, <1>2

\* The accesses to memory that have an address.
Plainly == {"Load", "Store", "Rmw"}

\* If no fact is open, the roles are known, and what may touch anything was
\* removed, or stands at a place that a sequential phase settles.
LEMMA NothingOpen ==
  ASSUME NEW p, NEW es, NEW o, NEW sh, NEW app \in BOOLEAN,
         OpenUnknowns(p, Judged(p, es, o, sh, app), app) = {}
  PROVE  /\ \A r \in Roles(p) : RoleComplete(p, r)
         /\ \A e \in es : e.kind \in OpaqueKinds => e \in sh.removed \/ RuntimeBoundary(e)
         /\ \A e \in es : e.kind \in Plainly /\ e.address.kind = "Unknown" =>
              \/ e \in sh.removed
              \/ \E q \in sh.proofs : q.reason \in SequentialReasons /\ \E y \in q.events : y.pc = e.pc
         /\ \A e \in es \ sh.removed : e.kind \in Plainly => e \in Judged(p, es, o, sh, app).events
<1> DEFINE sl == Judged(p, es, o, sh, app)
           s == SliceOf(p, es, o, sh)
           gone == {e \in s.events : RuntimeBoundary(e)}
           all == EventUnknowns(p, es) \cup sh.unknowns \cup ThreadUnknowns(p)
           phased == {e.pc : e \in UNION {q.events : q \in {x \in sl.phases : x.reason \in SequentialReasons}}}
           local == {"effect", "address", "open"}
           facts == {u \in sl.unknowns : /\ ~ (u.kind \in local /\ u.pc \in phased)
                                         /\ u.events = {} \/ ~ u.events \subseteq sl.removed}
           told == UNION {u.events : u \in facts}
           mute == {e \in sl.events : e.kind \in OpaqueKinds} \ told
           asked == {[kind |-> "effect", pc |-> e.pc, events |-> {e}] : e \in mute}
           roles == {[kind |-> "role", pc |-> r, events |-> {}] : r \in {q \in Roles(p) : ~ RoleComplete(p, q)}}
<1>1. facts = {} /\ asked = {} /\ roles = {}
  BY DEF OpenUnknowns
<1>2. s.events = es \ sh.removed /\ s.removed = sh.removed /\ s.phases = sh.proofs /\ s.unknowns = all
  BY DEF SliceOf
<1>3. /\ ToApplication(s).events = s.events \ gone /\ ToApplication(s).removed = s.removed \cup gone
      /\ ToApplication(s).phases = s.phases
      /\ ToApplication(s).unknowns = {u \in s.unknowns : u.events = {} \/ ~ u.events \subseteq gone}
  BY DEF ToApplication, SliceOf
<1>4. /\ sl.phases = sh.proofs
      /\ \A e \in es \ sh.removed : RuntimeBoundary(e) \/ e \in sl.events
      /\ \A e \in sl.removed : e \in sh.removed \/ RuntimeBoundary(e)
      /\ \A u \in all : u \in sl.unknowns \/ (u.events # {} /\ \A e \in u.events : RuntimeBoundary(e))
  <2> HIDE DEF s, all
  <2>1. CASE app
    <3>1. sl = ToApplication(s)
      BY <2>1 DEF Judged, s
    <3> HIDE DEF sl
    <3>2. sl.phases = sh.proofs /\ \A e \in es \ sh.removed : RuntimeBoundary(e) \/ e \in sl.events
      BY <1>2, <1>3, <3>1
    <3>3. \A e \in sl.removed : e \in sh.removed \/ RuntimeBoundary(e)
      BY <1>2, <1>3, <3>1
    <3>4. \A u \in all : u \in sl.unknowns \/ (u.events # {} /\ \A e \in u.events : RuntimeBoundary(e))
      BY <1>2, <1>3, <3>1
    <3> QED
      BY <3>2, <3>3, <3>4
  <2>2. CASE ~ app
    <3>1. sl = s
      BY <2>2 DEF Judged, s
    <3> HIDE DEF sl
    <3> QED
      BY <1>2, <3>1
  <2> QED
    BY <2>1, <2>2
<1>5. \A r \in Roles(p) : RoleComplete(p, r)
  <2> SUFFICES ASSUME NEW r \in Roles(p), ~ RoleComplete(p, r) PROVE FALSE
    OBVIOUS
  <2>1. [kind |-> "role", pc |-> r, events |-> {}] \in roles
    OBVIOUS
  <2> HIDE DEF roles
  <2> QED
    BY <1>1, <2>1
<1>6. ASSUME NEW e \in es, e.kind \in OpaqueKinds, e \notin sh.removed, ~ RuntimeBoundary(e) PROVE FALSE
  <2>1. e \in sl.events
    BY <1>4, <1>6
  <2> HIDE DEF sl, facts
  <2>2. told = {}
    BY <1>1
  <2> HIDE DEF told
  <2>3. e \in mute
    BY <1>6, <2>1, <2>2
  <2> HIDE DEF mute
  <2>4. [kind |-> "effect", pc |-> e.pc, events |-> {e}] \in asked
    BY <2>3
  <2> HIDE DEF asked
  <2> QED
    BY <1>1, <2>4
<1>7. ASSUME NEW e \in es, e.kind \in Plainly, e.address.kind = "Unknown", e \notin sh.removed
      PROVE  \E q \in sh.proofs : q.reason \in SequentialReasons /\ \E y \in q.events : y.pc = e.pc
  <2> DEFINE u == [kind |-> "address", pc |-> e.pc, events |-> {e}]
  <2>1. e.kind \notin OpaqueKinds
    BY <1>7 DEF Plainly, OpaqueKinds
  <2>2. u \in EventUnknowns(p, es)
    <3>1. e \in {f \in es : \/ f.kind \in OpaqueKinds
                            \/ f.kind \in {"Load", "Store", "Rmw"} /\ f.address.kind = "Unknown"}
      BY <1>7 DEF Plainly
    <3>2. u = [kind |-> IF e.kind \in OpaqueKinds THEN "effect" ELSE "address", pc |-> e.pc, events |-> {e}]
      BY <2>1
    <3> HIDE DEF u
    <3> QED
      BY <3>1, <3>2 DEF EventUnknowns
  <2>3. u.kind = "address" /\ u.pc = e.pc /\ u.events = {e}
    OBVIOUS
  <2>4. u \in all
    BY <2>2
  <2> HIDE DEF u, all
  <2>5. ~ RuntimeBoundary(e)
    BY <1>7, <2>1 DEF RuntimeBoundary, OpaqueKinds
  <2>6. u \in sl.unknowns
    BY <1>4, <2>3, <2>4, <2>5
  <2>7. e \notin sl.removed
    BY <1>4, <1>7, <2>5
  <2>8. u.pc \in phased
    <3> HIDE DEF sl, phased
    <3> QED
      BY <1>1, <2>3, <2>6, <2>7
  <2>9. PICK y \in UNION {q.events : q \in {x \in sl.phases : x.reason \in SequentialReasons}} : y.pc = e.pc
    <3> HIDE DEF sl
    <3> QED
      BY <2>3, <2>8
  <2>10. PICK q \in {x \in sl.phases : x.reason \in SequentialReasons} : y \in q.events
    <3> HIDE DEF sl
    <3> QED
      BY <2>9
  <2>11. q \in sh.proofs /\ q.reason \in SequentialReasons
    <3> HIDE DEF sl
    <3> QED
      BY <1>4, <2>10
  <2> QED
    BY <2>9, <2>10, <2>11
<1>8. ASSUME NEW e \in es \ sh.removed, e.kind \in Plainly PROVE e \in sl.events
  <2>1. ~ RuntimeBoundary(e)
    BY <1>8 DEF RuntimeBoundary, Plainly
  <2> HIDE DEF sl
  <2> QED
    BY <1>4, <2>1
<1> HIDE DEF sl
<1> QED
  BY <1>5, <1>6, <1>7, <1>8 DEF sl

-----------------------------------------------------------------------------
(* What is removed, and why.                                                 *)

\* The events that no rule needs to look at: those of paths that do not return
\* and of the phases of main.
Apart(p, es, o) ==
  BeforeCreate(p, es, o) \cup AfterJoin(p, es) \cup MainCallee(p, es) \cup NonReturning(p, es)

\* The reason the rules give for an object.
ReasonOf(p, es, o, x) == Reason(p, es, o, DefiniteLocks(es, o), Apart(p, es, o), x)

\* What is removed is of this kind or in an object with a reason for it, and
\* only events of this kind are in a proof of a sequential phase.
LEMMA RemovedIs ==
  ASSUME NEW p, NEW es, NEW o, NEW sh, sh = SharedStateOf(p, es, o)
  PROVE  /\ sh.locks = DefiniteLocks(es, o)
         /\ \A e \in sh.removed :
              \/ e \in Apart(p, es, o)
              \/ \E x \in Objects(es) :
                   /\ e \in x /\ ReasonOf(p, es, o, x) \notin {"idle", "open", "shared"}
                   /\ [reason |-> ReasonOf(p, es, o, x), events |-> x] \in sh.proofs
         /\ \A q \in sh.proofs : q.reason \in SequentialReasons => q.events \subseteq Apart(p, es, o)
<1> DEFINE locks  == DefiniteLocks(es, o)
           before == BeforeCreate(p, es, o)
           after  == AfterJoin(p, es)
           callee == MainCallee(p, es)
           never  == NonReturning(p, es)
           reasons == [x \in Objects(es) |->
                         Reason(p, es, o, locks, before \cup after \cup callee \cup never, x)]
           proven == {x \in DOMAIN reasons : reasons[x] \notin {"idle", "open", "shared"}}
           gone   == never \cup UNION proven
           phases == {[reason |-> "NonReturningPath", events |-> never],
                      [reason |-> "SequentialAfterJoin", events |-> after \ gone],
                      [reason |-> "SequentialMainCallee", events |-> callee \ (gone \cup after)],
                      [reason |-> "SequentialBeforeCreate",
                       events |-> before \ (gone \cup after \cup callee)]}
           judged == {[reason |-> reasons[x], events |-> x] : x \in proven}
<1>1. /\ sh.proofs = judged \cup {y \in phases : y.events # {}}
      /\ sh.removed = gone \cup after \cup callee \cup before
      /\ sh.locks = locks
  BY DEF SharedStateOf
<1>2. Apart(p, es, o) = before \cup after \cup callee \cup never
  BY DEF Apart
<1>3. \A x \in Objects(es) : reasons[x] = ReasonOf(p, es, o, x)
  BY <1>2 DEF ReasonOf
<1>4. DOMAIN reasons = Objects(es)
  OBVIOUS
<1>5. \A x \in Objects(es) : ReasonOf(p, es, o, x) \notin SequentialReasons
  <2> SUFFICES ASSUME NEW x \in Objects(es) PROVE ReasonOf(p, es, o, x) \notin SequentialReasons
    OBVIOUS
  <2> DEFINE r == ReasonOf(p, es, o, x)
             v == View(p, es, Apart(p, es, o), x)
             published == PublishedReadOnly(p, es, o, Apart(p, es, o), x)
  <2>1. Warranted(p, DefiniteLocks(es, o), v, published, r)
    BY ReasonMeans DEF ReasonOf
  <2> HIDE DEF r, v, published
  <2>2. r \in {"idle", "open", "shared", "SingleMainRole", "ReadOnlyAfterCreate", "AtomicCovered", "DisjointAffine",
               "TLSStorage", "UnescapedStack", "FreshAllocation"}
    BY <2>1 DEF Warranted
  <2> QED
    BY <2>2 DEF SequentialReasons, r
<1> HIDE DEF reasons, locks, before, after, callee, never
<1>6. ASSUME NEW e \in sh.removed, e \notin Apart(p, es, o)
      PROVE  \E x \in Objects(es) :
                   /\ e \in x /\ ReasonOf(p, es, o, x) \notin {"idle", "open", "shared"}
                   /\ [reason |-> ReasonOf(p, es, o, x), events |-> x] \in sh.proofs
  <2>1. e \in UNION proven
    <3> HIDE DEF proven
    <3> QED
      BY <1>1, <1>2, <1>6
  <2>2. PICK x \in proven : e \in x
    BY <2>1
  <2>3. x \in Objects(es) /\ reasons[x] \notin {"idle", "open", "shared"}
    BY <1>4, <2>2
  <2>4. [reason |-> reasons[x], events |-> x] \in judged
    BY <2>2
  <2> HIDE DEF judged
  <2> QED
    BY <1>1, <1>3, <2>2, <2>3, <2>4
<1>7. ASSUME NEW q \in sh.proofs, q.reason \in SequentialReasons PROVE q.events \subseteq Apart(p, es, o)
  <2>1. q \notin judged
    <3>1. \A x \in proven : [reason |-> reasons[x], events |-> x].reason \notin SequentialReasons
      BY <1>3, <1>4, <1>5
    <3> HIDE DEF proven
    <3> QED
      BY <1>7, <3>1
  <2> HIDE DEF judged, proven
  <2>2. q \in phases
    BY <1>1, <2>1
  <2> HIDE DEF gone
  <2>3. q.events \subseteq before \cup after \cup callee \cup never
    BY <2>2
  <2> QED
    BY <1>2, <2>3
<1> QED
  BY <1>1, <1>6, <1>7 DEF locks

-----------------------------------------------------------------------------
(* Addresses and objects.                                                    *)

\* Two events have one key if neither or both have no address, and the same one.
LEMMA KeyIs ==
  ASSUME NEW e, NEW f
  PROVE  Key(e) = Key(f) <=> \/ e.address.kind = "Unknown" /\ f.address.kind = "Unknown"
                             \/ /\ e.address.kind # "Unknown" /\ f.address.kind # "Unknown"
                                /\ e.address.kind = f.address.kind /\ e.address.base = f.address.base
                                /\ e.address.offset = f.address.offset
<1>1. \A x, y, z : <<"Unknown">> # <<x, y, z>>
  <2> SUFFICES ASSUME NEW x, NEW y, NEW z, <<"Unknown">> = <<x, y, z>> PROVE FALSE
    OBVIOUS
  <2>1. Len(<<"Unknown">>) = 1 /\ Len(<<x, y, z>>) = 3
    OBVIOUS
  <2> QED
    BY <2>1
<1>2. \A x, y, z, a, b, c : <<x, y, z>> = <<a, b, c>> <=> x = a /\ y = b /\ z = c
  OBVIOUS
<1> DEFINE ka == <<e.address.kind, e.address.base, e.address.offset>>
           kb == <<f.address.kind, f.address.base, f.address.offset>>
<1>3. /\ e.address.kind = "Unknown" => Key(e) = <<"Unknown">>
      /\ e.address.kind # "Unknown" => Key(e) = ka
      /\ f.address.kind = "Unknown" => Key(f) = <<"Unknown">>
      /\ f.address.kind # "Unknown" => Key(f) = kb
  BY DEF Key
<1>4. /\ ka # <<"Unknown">> /\ kb # <<"Unknown">>
      /\ ka = kb <=> /\ e.address.kind = f.address.kind /\ e.address.base = f.address.base
                     /\ e.address.offset = f.address.offset
  BY <1>1, <1>2
<1> HIDE DEF ka, kb
<1>5. CASE e.address.kind = "Unknown"
  BY <1>3, <1>4, <1>5
<1>6. CASE e.address.kind # "Unknown"
  BY <1>3, <1>4, <1>6
<1> QED
  BY <1>5, <1>6

\* An object is the events of one key that have an address.
LEMMA ObjectIs ==
  ASSUME NEW es, NEW x \in Objects(es), NEW g \in x
  PROVE  \A h : h \in x <=> h \in es /\ HasAddress(h) /\ Key(h) = Key(g)
<1> DEFINE of(k) == {e \in es : HasAddress(e) /\ Key(e) = k}
<1>1. PICK k : x = of(k)
  BY DEF Objects
<1>2. Key(g) = k
  BY <1>1
<1> QED
  BY <1>1, <1>2

\* What the recovered address of an instruction says of it.
LEMMA AddressIs ==
  ASSUME NEW p, ObjectsNamed(p), NEW i \in Code(p), NEW c, c = p.code[i]
  PROVE  /\ c.known = "none" => Address(c) = Nowhere /\ Address(c).kind = "Unknown"
         /\ c.known # "none" =>
              /\ Address(c).kind = IF c.known = "index" THEN "Affine" ELSE c.region
              /\ Address(c).kind # "Unknown" /\ Address(c).base[1] = c.obj
              /\ Address(c).heap = (c.region = "Heap") /\ Address(c).direct = c.direct
              /\ Address(c).made = c.made /\ Address(c).size = c.size
         /\ \A j \in Code(p) : LET d == p.code[j] IN
              c.obj = d.obj /\ c.at = d.at /\ c.known = d.known /\ c.known # "none" =>
                /\ Address(c).kind = Address(d).kind
                /\ Address(c).base = Address(d).base
                /\ Address(c).offset = Address(d).offset
<1>1. c.region \in {"Global", "Heap", "Stack", "TLS"} /\ c.known \in {"exact", "index", "none"}
  BY DEF ObjectsNamed
<1>2. \A d : d.known # "none" =>
        LET kind == IF d.known = "index" THEN "Affine" ELSE d.region
        IN  Address(d) =
              [kind |-> kind, base |-> IF kind = "Global" THEN <<d.obj, d.at>> ELSE <<d.obj, 0>>,
               offset |-> IF kind = "Global" THEN 0 ELSE d.at,
               size |-> d.size, heap |-> d.region = "Heap", direct |-> d.direct, made |-> d.made]
  BY DEF Address
<1>3. ASSUME c.known = "none" PROVE Address(c) = Nowhere /\ Address(c).kind = "Unknown"
  BY <1>3 DEF Address, Nowhere
<1>4. ASSUME NEW d, d.known # "none"
      PROVE  /\ Address(d).kind = IF d.known = "index" THEN "Affine" ELSE d.region
             /\ Address(d).base = IF Address(d).kind = "Global" THEN <<d.obj, d.at>> ELSE <<d.obj, 0>>
             /\ Address(d).offset = IF Address(d).kind = "Global" THEN 0 ELSE d.at
             /\ Address(d).heap = (d.region = "Heap") /\ Address(d).direct = d.direct
             /\ Address(d).made = d.made /\ Address(d).size = d.size
  <2> DEFINE kind == IF d.known = "index" THEN "Affine" ELSE d.region
             base == IF kind = "Global" THEN <<d.obj, d.at>> ELSE <<d.obj, 0>>
             offset == IF kind = "Global" THEN 0 ELSE d.at
             heap == d.region = "Heap"
  <2>1. Address(d) = [kind |-> kind, base |-> base, offset |-> offset, size |-> d.size, heap |-> heap,
                      direct |-> d.direct, made |-> d.made]
    BY <1>2, <1>4
  <2> HIDE DEF kind, base, offset, heap
  <2>2. /\ Address(d).kind = kind /\ Address(d).base = base /\ Address(d).offset = offset
        /\ Address(d).heap = heap /\ Address(d).direct = d.direct
        /\ Address(d).made = d.made /\ Address(d).size = d.size
    BY <2>1
  <2> QED
    BY <2>2 DEF kind, base, offset, heap
<1>5. ASSUME c.known # "none" PROVE Address(c).kind # "Unknown" /\ Address(c).base[1] = c.obj
  <2>1. /\ Address(c).kind = IF c.known = "index" THEN "Affine" ELSE c.region
        /\ Address(c).base = IF Address(c).kind = "Global" THEN <<c.obj, c.at>> ELSE <<c.obj, 0>>
    BY <1>4, <1>5
  <2>2. Address(c).kind # "Unknown"
    BY <1>1, <2>1
  <2>3. \A y : <<c.obj, y>>[1] = c.obj
    OBVIOUS
  <2>4. Address(c).base = <<c.obj, c.at>> \/ Address(c).base = <<c.obj, 0>>
    BY <2>1
  <2> QED
    BY <2>2, <2>3, <2>4
<1>6. ASSUME NEW j \in Code(p), NEW d, d = p.code[j],
             c.obj = d.obj, c.at = d.at, c.known = d.known, c.known # "none"
      PROVE  /\ Address(c).kind = Address(d).kind
             /\ Address(c).base = Address(d).base
             /\ Address(c).offset = Address(d).offset
  <2>1. c.region = d.region
    BY <1>6 DEF ObjectsNamed
  <2>2. /\ Address(c).kind = IF c.known = "index" THEN "Affine" ELSE c.region
        /\ Address(c).base = IF Address(c).kind = "Global" THEN <<c.obj, c.at>> ELSE <<c.obj, 0>>
        /\ Address(c).offset = IF Address(c).kind = "Global" THEN 0 ELSE c.at
    BY <1>4, <1>6
  <2>3. d.known # "none"
    BY <1>6
  <2>4. /\ Address(d).kind = IF d.known = "index" THEN "Affine" ELSE d.region
        /\ Address(d).base = IF Address(d).kind = "Global" THEN <<d.obj, d.at>> ELSE <<d.obj, 0>>
        /\ Address(d).offset = IF Address(d).kind = "Global" THEN 0 ELSE d.at
    BY <1>4, <2>3
  <2>5. Address(c).kind = Address(d).kind
    BY <1>6, <2>1, <2>2, <2>4
  <2> QED
    BY <1>6, <2>2, <2>4, <2>5
<1> QED
  BY <1>3, <1>4, <1>5, <1>6

\* An event that has an address has it from its instruction.
LEMMA PlainIs ==
  ASSUME NEW p, NEW e \in Extracted(p), e.kind \in Plainly
  PROVE  /\ e \in Here(p, e.role, e.pc) /\ e.role \in Roles(p) /\ e.pc \in Code(p)
         /\ p.code[e.pc].fn \in RoleFunctions(p, e.role)
         /\ e.address = Address(p.code[e.pc])
         /\ HasAddress(e)
<1>1. e.kind # "Effect"
  BY DEF Plainly
<1>2. e \in Here(p, e.role, e.pc)
  BY <1>1 DEF Here, Placed
<1>3. /\ e.role \in Roles(p) /\ e.pc \in Code(p) /\ p.code[e.pc].fn \in RoleFunctions(p, e.role)
      /\ e = Event(e.role, e.pc, e.kind, AddressOf(p.code[e.pc], e.kind))
  BY <1>2, HereIs
<1>4. e.address = AddressOf(p.code[e.pc], e.kind)
  BY <1>3 DEF Event
<1>5. AddressOf(p.code[e.pc], e.kind) = Address(p.code[e.pc])
  BY DEF AddressOf, Plainly
<1>6. HasAddress(e)
  BY DEF HasAddress, Plainly, SyncKinds
<1> QED
  BY <1>2, <1>3, <1>4, <1>5, <1>6

\* An event of the same object, which need not be an access, agrees on what the
\* object is.
LEMMA SameObject ==
  ASSUME NEW p, ObjectsNamed(p), NEW g \in Extracted(p), g.kind \in Plainly, g.address.kind # "Unknown",
         NEW s \in Extracted(p), Key(s) = Key(g)
  PROVE  /\ s.address.kind = g.address.kind /\ s.address.base = g.address.base
         /\ s.address.heap = g.address.heap /\ s.address.made = g.address.made
<1> DEFINE i == g.pc
           c == p.code[i]
<1>1. i \in Code(p) /\ g.address = Address(c)
  BY PlainIs
<1>2. c.known # "none" /\ c.obj # "runtime"
  BY <1>1, AddressIs DEF ObjectsNamed
<1>3. /\ g.address.base[1] = c.obj /\ g.address.heap = (c.region = "Heap") /\ g.address.made = c.made
  BY <1>1, <1>2, AddressIs
<1>4. /\ s.address.kind # "Unknown" /\ s.address.kind = g.address.kind /\ s.address.base = g.address.base
  BY KeyIs
<1>5. s.address # Nowhere
  BY <1>4 DEF Nowhere
<1>6. s \in Here(p, s.role, s.pc)
  <2>1. s.kind # "Effect"
    <3> SUFFICES ASSUME s.kind = "Effect" PROVE FALSE
      OBVIOUS
    <3>1. CASE s \in Sentinels(p)
      BY <1>5, <3>1 DEF Sentinels, Event
    <3>2. CASE s \notin Sentinels(p)
      <4>1. PICK x \in Roles(p) \X Code(p) :
              s \in {Event(x[1], x[2], k, AddressOf(p.code[x[2]], k)) : k \in KindOf(p, p.code[x[2]])}
        BY <3>2 DEF Extracted
      <4>2. PICK k \in KindOf(p, p.code[x[2]]) : s = Event(x[1], x[2], k, AddressOf(p.code[x[2]], k))
        BY <4>1
      <4>3. s.address = AddressOf(p.code[x[2]], k) /\ k = "Effect"
        BY <4>2 DEF Event
      <4> QED
        BY <1>5, <4>3 DEF AddressOf
    <3> QED
      BY <3>1, <3>2
  <2> QED
    BY <2>1 DEF Here, Placed
<1> DEFINE d == p.code[s.pc]
<1>7. s.pc \in Code(p) /\ s = Event(s.role, s.pc, s.kind, AddressOf(d, s.kind))
  BY <1>6, HereIs
<1>8. s.address = AddressOf(d, s.kind)
  BY <1>7 DEF Event
<1>9. AddressOf(d, s.kind) = Nowhere \/ AddressOf(d, s.kind) = RuntimeState(d) \/ AddressOf(d, s.kind) = Address(d)
  BY DEF AddressOf
<1>10. RuntimeState(d).base[1] = "runtime"
  BY DEF RuntimeState, Nowhere
<1> HIDE DEF c, d, i
<1>11. s.address = Address(d)
  BY <1>2, <1>3, <1>4, <1>5, <1>8, <1>9, <1>10
<1>12. d.known # "none" /\ Address(d).base[1] = d.obj /\ Address(d).heap = (d.region = "Heap") /\ Address(d).made = d.made
  BY <1>4, <1>7, <1>11, AddressIs DEF d
<1>13. d.obj = c.obj
  BY <1>3, <1>4, <1>11, <1>12
<1>14. d.region = c.region /\ d.made = c.made
  BY <1>1, <1>7, <1>13 DEF ObjectsNamed, c, d
<1> QED
  BY <1>3, <1>4, <1>11, <1>12, <1>14

\* An event of unknown address is nowhere.
LEMMA UnknownIsNowhere ==
  ASSUME NEW p, ObjectsNamed(p), NEW s \in Extracted(p), s.address.kind = "Unknown"
  PROVE  s.address = Nowhere /\ s.address.base[1] = "none" /\ ~ s.address.direct
<1>1. s.address = Nowhere
  <2>1. CASE s \in Sentinels(p)
    BY <2>1 DEF Sentinels, Event
  <2>2. CASE s \notin Sentinels(p)
    <3>1. PICK x \in Roles(p) \X Code(p) :
            s \in {Event(x[1], x[2], k, AddressOf(p.code[x[2]], k)) : k \in KindOf(p, p.code[x[2]])}
      BY <2>2 DEF Extracted
    <3> DEFINE d == p.code[x[2]]
    <3>2. PICK k \in KindOf(p, d) : s = Event(x[1], x[2], k, AddressOf(d, k))
      BY <3>1
    <3>3. s.address = AddressOf(d, k) /\ x[2] \in Code(p)
      BY <3>2 DEF Event
    <3>4. AddressOf(d, k) = Nowhere \/ AddressOf(d, k) = RuntimeState(d) \/ AddressOf(d, k) = Address(d)
      BY DEF AddressOf
    <3>5. RuntimeState(d).kind = "Global"
      BY DEF RuntimeState, Nowhere
    <3>6. Address(d) = Nowhere \/ Address(d).kind # "Unknown"
      BY <3>3, AddressIs
    <3> HIDE DEF d
    <3> QED
      BY <3>3, <3>4, <3>5, <3>6
  <2> QED
    BY <2>1, <2>2
<1>2. Nowhere.base[1] = "none" /\ ~ Nowhere.direct
  BY DEF Nowhere
<1> QED
  BY <1>1, <1>2

\* What the rules see of an object.
LEMMA ViewIs ==
  ASSUME NEW p, NEW es, NEW apart, NEW x, NEW g \in x, NEW v, v = View(p, es, apart, x)
  PROVE  /\ \E s \in x : v.address = s.address
         /\ v.object = x /\ v.running = x \ apart
         /\ \A e \in x \ apart : e.kind \in WriteKinds => e \in v.writers
         /\ v.workers => \A e \in x \ apart : e.role # 0
         /\ \A w \in es : /\ w \notin apart /\ w \notin x
                          /\ IsWild(w) /\ HasAddress(w) /\ w.address.base[1] = "none" /\ ~ w.address.direct
                          => w \in v.strange
<1> DEFINE some    == CHOOSE e \in x : TRUE
           running == x \ apart
           strange == {w \in es \ (apart \cup x) :
                         /\ IsWild(w) /\ HasAddress(w) /\ MayAlias(some.address, w.address)
                         /\ ~ (Fresh(p, w) /\ \A e \in running : Fresh(p, e))}
           writers == {e \in (IF p.lifecycle.proven THEN running ELSE x) : e.kind \in WriteKinds}
           allWork == \A e \in running : e.role # 0
<1>1. v = [address |-> some.address, object |-> x, running |-> running, strange |-> strange,
           writers |-> writers, workers |-> allWork]
  BY DEF View
<1>2. some \in x
  OBVIOUS
<1>3. ASSUME NEW w \in es, w \notin apart, w \notin x,
             IsWild(w), HasAddress(w), w.address.base[1] = "none", ~ w.address.direct
      PROVE  w \in strange
  <2>1. MayAlias(some.address, w.address)
    BY <1>3 DEF MayAlias
  <2>2. ~ Fresh(p, w)
    BY <1>3 DEF Fresh
  <2> HIDE DEF some, running
  <2> QED
    BY <1>3, <2>1, <2>2
<1>4. allWork => \A e \in x \ apart : e.role # 0
  OBVIOUS
<1>5. \A e \in x \ apart : e.kind \in WriteKinds => e \in writers
  OBVIOUS
<1> HIDE DEF some, strange, writers, allWork
<1>6. v.address = some.address /\ v.object = x /\ v.running = running /\ v.strange = strange
      /\ v.writers = writers
  BY <1>1
<1>7. v.workers = allWork
  <2>1. \A a, b, c, d, e, w :
          [address |-> a, object |-> b, running |-> c, strange |-> d, writers |-> e, workers |-> w].workers = w
    OBVIOUS
  <2>2. [address |-> some.address, object |-> x, running |-> running, strange |-> strange,
         writers |-> writers, workers |-> allWork].workers = allWork
    BY <2>1
  <2> QED
    BY <1>1, <2>2, Zenon
<1> QED
  BY <1>2, <1>3, <1>4, <1>5, <1>6, <1>7

\* The events that the sharing analysis of a program puts aside.
Aside(p) == Apart(p, Extracted(p), Known(p))

\* The rules that compare accesses found none that may be to any object.
BlindFree(sh) ==
  \A q \in sh.proofs :
    q.reason \in {"ReadOnlyAfterCreate", "AtomicCovered"} => \A e \in q.events : e.address.kind # "Unknown"

\* Of the events of unknown address only accesses that were only read or locked
\* are removed.
LEMMA UnknownKept ==
  ASSUME NEW p, ObjectsNamed(p), NEW sh, sh = SharedStateOf(p, Extracted(p), Known(p)),
         NEW g \in Extracted(p), g.address.kind = "Unknown", g \notin Aside(p), g \in sh.removed
  PROVE  /\ g.kind \notin OpaqueKinds
         /\ \E q \in sh.proofs : q.reason \in {"ReadOnlyAfterCreate", "AtomicCovered"} /\ g \in q.events
<1> DEFINE E == Extracted(p)
           locks == DefiniteLocks(E, Known(p))
<1>1. PICK x \in Objects(E) :
        /\ g \in x /\ ReasonOf(p, E, Known(p), x) \notin {"idle", "open", "shared"}
        /\ [reason |-> ReasonOf(p, E, Known(p), x), events |-> x] \in sh.proofs
  BY RemovedIs DEF Aside
<1> DEFINE r == ReasonOf(p, E, Known(p), x)
           v == View(p, E, Aside(p), x)
           published == PublishedReadOnly(p, E, Known(p), Aside(p), x)
<1>2. Warranted(p, locks, v, published, r)
  BY ReasonMeans DEF ReasonOf, Aside
<1>3. /\ \E s \in x : v.address = s.address
      /\ v.object = x /\ v.running = x \ Aside(p)
      /\ \A e \in x \ Aside(p) : e.kind \in WriteKinds => e \in v.writers
  BY <1>1, ViewIs
<1>4. r \notin {"idle", "open", "shared"}
  BY <1>1
<1> HIDE DEF r, v, published, E, locks
<1>5. PICK s \in x : v.address = s.address
  BY <1>3
<1>6. s \in Extracted(p) /\ Key(s) = Key(g)
  BY <1>1, ObjectIs DEF E
<1>7. s.address.kind = "Unknown" /\ s.address.base[1] = "none"
  BY <1>6, KeyIs, UnknownIsNowhere
<1>8. v.address.kind = "Unknown" /\ v.address.base[1] # p.lifecycle.arg
  BY <1>5, <1>7 DEF ObjectsNamed
<1>9. \/ r = "ReadOnlyAfterCreate" /\ v.writers = {}
      \/ r = "AtomicCovered" /\ Protected(locks, v.running)
  BY <1>2, <1>4, <1>8 DEF Warranted
<1>10. g \in v.running
  BY <1>1, <1>3
<1>11. g.kind \notin OpaqueKinds
  <2>1. CASE v.writers = {}
    <3>1. g.kind \notin WriteKinds
      BY <1>3, <1>10, <2>1
    <3> QED
      BY <3>1 DEF WriteKinds
  <2>2. CASE Protected(locks, v.running)
    <3>1. g.kind \in {"Load", "Store", "Rmw"}
      BY <1>10, <2>2 DEF Protected
    <3> QED
      BY <3>1 DEF OpaqueKinds
  <2> QED
    BY <1>9, <2>1, <2>2
<1>12. [reason |-> r, events |-> x] \in sh.proofs
  BY <1>1 DEF r, E
<1> QED
  BY <1>1, <1>9, <1>11, <1>12

\* What a verdict without open facts rests on.
Told(p, sh) ==
  /\ \A r \in Roles(p) : RoleComplete(p, r)
  /\ \A e \in Extracted(p) : e.kind \in OpaqueKinds => e \in sh.removed \/ RuntimeBoundary(e)
  /\ \A e \in Extracted(p) : e.kind \in Plainly /\ e.address.kind = "Unknown" =>
       \/ e \in sh.removed
       \/ \E q \in sh.proofs : q.reason \in SequentialReasons /\ \E y \in q.events : y.pc = e.pc

\* It rests on no event that may do anything, but those put aside.
LEMMA NothingOpaque ==
  ASSUME NEW p, ObjectsNamed(p), NEW sh, sh = SharedStateOf(p, Extracted(p), Known(p)), Told(p, sh),
         NEW e \in Extracted(p), e.kind \in OpaqueKinds, e.address = Nowhere
  PROVE  e \in Aside(p)
<1>1. e.address.kind = "Unknown" /\ ~ RuntimeBoundary(e)
  BY DEF Nowhere, RuntimeBoundary
<1>2. e \in sh.removed
  BY <1>1 DEF Told
<1> QED
  BY <1>1, <1>2, UnknownKept

\* Where an event of a worker stands, is what the other provers say of workers.
LEMMA OfWorkers ==
  ASSUME NEW p, NEW e \in Extracted(p), e.kind \in Plainly, e.role # 0
  PROVE  p.code[e.pc].fn \in WorkerFunctions(p)
<1>1. e.role \in Roles(p) \ {0} /\ p.code[e.pc].fn \in RoleFunctions(p, e.role)
  BY PlainIs
<1> QED
  BY <1>1 DEF WorkerFunctions

\* Two accesses of one byte by different threads, of which g has a known address
\* and one writes, which hold no lock in common.
Rivals(p, sh, g, h) ==
  /\ g \in Extracted(p) /\ h \in Extracted(p) /\ g.kind \in Plainly /\ h.kind \in Plainly
  /\ g.pc \in Accesses(p) /\ h.pc \in Accesses(p)
  /\ g \notin Aside(p) /\ h \notin Aside(p)
  /\ p.code[g.pc].obj = p.code[h.pc].obj /\ p.code[g.pc].at = p.code[h.pc].at
  /\ g.role # 0 \/ h.role # 0
  /\ g.kind \in WriteKinds \/ h.kind \in WriteKinds
  /\ \A l \in DOMAIN sh.locks : ~ (g \in sh.locks[l] /\ h \in sh.locks[l])
  /\ ~ (p.code[g.pc].own /\ p.code[h.pc].own)
  /\ h.address.kind = "Unknown" => h.role # 0

\* No rule removes an access whose rival may run beside it.
LEMMA RuleKeeps ==
  ASSUME NEW p, ObjectsNamed(p), FactsHold(p), IndexedAlone(p),
         NEW sh, sh = SharedStateOf(p, Extracted(p), Known(p)), BlindFree(sh),
         NEW g, NEW h, Rivals(p, sh, g, h)
  PROVE  g \notin sh.removed
<1> DEFINE E == Extracted(p)
           locks == DefiniteLocks(E, Known(p))
           i == g.pc
           j == h.pc
           c == p.code[i]
           d == p.code[j]
<1>1. /\ g \in E /\ h \in E /\ g.kind \in Plainly /\ h.kind \in Plainly
      /\ i \in Accesses(p) /\ j \in Accesses(p) /\ g \notin Aside(p) /\ h \notin Aside(p)
      /\ c.obj = d.obj /\ c.at = d.at
      /\ g.role # 0 \/ h.role # 0
  BY DEF Rivals
<1>2. /\ \A l \in DOMAIN sh.locks : ~ (g \in sh.locks[l] /\ h \in sh.locks[l])
      /\ ~ (c.own /\ d.own)
      /\ g.kind \in WriteKinds \/ h.kind \in WriteKinds
  BY DEF Rivals
<1>3. h.address.kind = "Unknown" => h.role # 0
  BY DEF Rivals
<1>4. SUFFICES ASSUME g \in sh.removed PROVE FALSE
  OBVIOUS
<1>5. g.address.kind # "Unknown"
  BY <1>1, <1>4, UnknownKept DEF BlindFree
<1>6. /\ i \in Code(p) /\ j \in Code(p) /\ g.address = Address(c) /\ h.address = Address(d)
      /\ HasAddress(g) /\ HasAddress(h)
  BY <1>1, PlainIs
<1>7. /\ c.known # "none" /\ g.address.kind = IF c.known = "index" THEN "Affine" ELSE c.region
      /\ g.address.base[1] = c.obj /\ g.address.heap = (c.region = "Heap")
      /\ g.address.direct = c.direct /\ g.address.made = c.made
  BY <1>5, <1>6, AddressIs
<1>8. PICK x \in Objects(E) :
        /\ g \in x /\ ReasonOf(p, E, Known(p), x) \notin {"idle", "open", "shared"}
  BY <1>1, <1>4, RemovedIs DEF Aside
<1> DEFINE r == ReasonOf(p, E, Known(p), x)
           v == View(p, E, Aside(p), x)
           published == PublishedReadOnly(p, E, Known(p), Aside(p), x)
<1>9. Warranted(p, locks, v, published, r)
  BY ReasonMeans DEF ReasonOf, Aside
<1>10. /\ \E s \in x : v.address = s.address
       /\ v.object = x /\ v.running = x \ Aside(p)
       /\ \A e \in x \ Aside(p) : e.kind \in WriteKinds => e \in v.writers
       /\ v.workers => \A e \in x \ Aside(p) : e.role # 0
       /\ \A w \in E : /\ w \notin Aside(p) /\ w \notin x
                       /\ IsWild(w) /\ HasAddress(w) /\ w.address.base[1] = "none" /\ ~ w.address.direct
                       => w \in v.strange
  BY <1>8, ViewIs
<1>11. sh.locks = locks
  BY RemovedIs
<1>12. published => PublishedReadOnly(p, E, Known(p), Aside(p), x)
  OBVIOUS
<1>13. r \notin {"idle", "open", "shared"}
  BY <1>8
<1> HIDE DEF r, v, published, locks
<1>14. PICK s \in x : v.address = s.address
  BY <1>10
<1>15. s \in E /\ Key(s) = Key(g)
  BY <1>8, ObjectIs
<1>16. /\ v.address.kind = g.address.kind /\ v.address.base = g.address.base
       /\ v.address.heap = g.address.heap /\ v.address.made = g.address.made
  BY <1>1, <1>5, <1>14, <1>15, SameObject
<1>17. g \in v.running
  BY <1>1, <1>8, <1>10
<1>18. c.region = d.region /\ c.made = d.made /\ c.obj # "none"
  BY <1>1, <1>6 DEF ObjectsNamed
\* The rival is an access to the same object, or one that may be to any.
<1>19. \/ /\ h \in x /\ h \in v.running /\ d.known = c.known /\ h.address.direct = d.direct
       \/ /\ h.role # 0 /\ h \in v.strange /\ IsWild(h) /\ h.address.base # v.address.base
  <2>1. CASE d.known # "none"
    <3>1. c.known = d.known
      <4>1. {c.known, d.known} # {"index", "exact"}
        BY <1>1 DEF IndexedAlone
      <4>2. c.known \in {"exact", "index"} /\ d.known \in {"exact", "index"}
        BY <1>6, <1>7, <2>1 DEF ObjectsNamed
      <4> QED
        BY <4>1, <4>2
    <3>2. /\ Address(c).kind = Address(d).kind /\ Address(c).base = Address(d).base
          /\ Address(c).offset = Address(d).offset
      BY <1>1, <1>6, <1>7, <3>1, AddressIs
    <3>3. h.address.kind = g.address.kind /\ h.address.base = g.address.base /\ h.address.offset = g.address.offset
      BY <1>6, <3>2
    <3>4. Key(h) = Key(g)
      BY <1>5, <3>3, KeyIs
    <3>5. h \in x
      BY <1>1, <1>6, <1>8, <3>4, ObjectIs
    <3>6. Address(d).direct = d.direct
      BY <1>6, <2>1, AddressIs
    <3> QED
      BY <1>1, <1>6, <1>10, <3>1, <3>5, <3>6
  <2>2. CASE d.known = "none"
    <3>1. h.address.kind = "Unknown"
      BY <1>6, <2>2, AddressIs
    <3>2. h.address.base[1] = "none" /\ ~ h.address.direct
      BY <1>1, <3>1, UnknownIsNowhere
    <3>3. h \notin x
      BY <1>5, <1>8, <3>1, ObjectIs, KeyIs
    <3>4. IsWild(h)
      BY <1>6, <3>1 DEF IsWild
    <3>5. h \in v.strange
      BY <1>1, <1>6, <1>10, <3>2, <3>3, <3>4
    <3>6. h.address.base # v.address.base
      BY <1>7, <1>16, <1>18, <3>2
    <3> QED
      BY <1>3, <3>1, <3>4, <3>5, <3>6
  <2> QED
    BY <2>1, <2>2
<1>20. /\ g.role # 0 => c.fn \in WorkerFunctions(p)
       /\ h.role # 0 => d.fn \in WorkerFunctions(p)
  BY <1>1, OfWorkers
<1>21. v.strange = {} => h \in x /\ h \in v.running
  BY <1>19
<1> HIDE DEF E, c, d
<1>22. ~ (r = "SingleMainRole" /\ v.strange = {} /\ \A e \in v.object : e.role = 0)
  BY <1>1, <1>8, <1>10, <1>21
<1>23. ~ (v.writers = {} /\ v.strange = {})
  BY <1>2, <1>10, <1>17, <1>21
<1>24. ~ (v.strange = {} /\ Protected(locks, v.running))
  <2> SUFFICES ASSUME v.strange = {}, Protected(locks, v.running) PROVE FALSE
    OBVIOUS
  <2>1. PICK l \in DOMAIN locks : v.running \subseteq locks[l]
    BY DEF Protected
  <2> QED
    BY <1>2, <1>11, <1>17, <1>21, <2>1
<1>25. ASSUME p.lifecycle.proven, v.address.base[1] = p.lifecycle.arg, \A e \in v.object : e.role # 0
       PROVE  FALSE
  <2>1. g.role # 0 /\ h.role # 0
    BY <1>8, <1>10, <1>19, <1>25
  <2>2. c.obj = p.lifecycle.arg
    BY <1>7, <1>16, <1>25
  <2>3. c.own
    BY <1>6, <1>20, <1>25, <2>1, <2>2 DEF FactsHold, c
  <2>4. d.own
    BY <1>1, <1>6, <1>20, <1>25, <2>1, <2>2 DEF FactsHold, d
  <2> QED
    BY <1>2, <2>3, <2>4
<1>26. ~ (v.address.kind = "TLS" /\ ~ p.tlsEscapes)
  <2> SUFFICES ASSUME v.address.kind = "TLS", ~ p.tlsEscapes PROVE FALSE
    OBVIOUS
  <2>1. c.region = "TLS"
    BY <1>7, <1>16
  <2>2. c.own
    BY <1>6, <2>1 DEF FactsHold, c
  <2>3. d.own
    BY <1>6, <1>18, <2>1 DEF FactsHold, d
  <2> QED
    BY <1>2, <2>2, <2>3
<1>27. ~ (v.strange = {} /\ \A e \in v.running : e.role = 0)
  BY <1>1, <1>17, <1>21
<1>28. ~ (v.address.kind = "Stack" /\ {p.code[e.pc].fn : e \in v.object} \cap p.escapes = {})
  <2> SUFFICES ASSUME v.address.kind = "Stack", {p.code[e.pc].fn : e \in v.object} \cap p.escapes = {} PROVE FALSE
    OBVIOUS
  <2>1. c.region = "Stack"
    BY <1>7, <1>16
  <2>2. c.fn \notin p.escapes
    BY <1>8, <1>10 DEF c
  <2>3. c.own
    BY <1>6, <1>7, <2>1, <2>2 DEF FactsHold, c
  <2>4. d.own
    <3>1. p.code[j].region = "Stack" /\ p.code[i].obj = p.code[j].obj
      BY <1>1, <1>18, <2>1 DEF c, d
    <3>2. p.code[i].known # "none" /\ p.code[i].fn \notin p.escapes
      BY <1>7, <2>2 DEF c
    <3> HIDE DEF i, j
    <3> QED
      BY <1>6, <3>1, <3>2 DEF FactsHold, d
  <2> QED
    BY <1>2, <2>3, <2>4
<1>29. ~ published
  <2> SUFFICES ASSUME published PROVE FALSE
    OBVIOUS
  <2> DEFINE writers == {e \in x : e.kind \in WriteKinds}
  <2>1. /\ \A e \in writers : e.role = 0
        /\ \A e \in E \ Aside(p) : ~ IsWild(e)
        /\ CreateEvents(E) # {}
        /\ \A e \in writers : \A y \in CreateEvents(E) : LeadsTo(Known(p), e, y)
    BY <1>12 DEF PublishedReadOnly
  <2>2. h \in x
    BY <1>1, <1>19, <2>1
  <2>3. \A w \in writers : w \in E => w \in BeforeCreate(p, E, Known(p))
    <3> SUFFICES ASSUME NEW w \in writers, w \in E PROVE w \in BeforeCreate(p, E, Known(p))
      OBVIOUS
    <3>1. w.role = 0 /\ \A y \in CreateEvents(E) : LeadsTo(Known(p), w, y)
      BY <2>1
    <3> HIDE DEF writers
    <3> QED
      BY <2>1, <3>1 DEF BeforeCreate
  <2>4. \E w \in {g, h} : w \in writers
    BY <1>2, <1>8, <2>2
  <2>5. BeforeCreate(p, E, Known(p)) \subseteq Aside(p)
    BY DEF Aside, Apart, E
  <2> HIDE DEF writers
  <2> QED
    BY <1>1, <2>3, <2>4, <2>5
<1>30. ~ FreshObject(p, v)
  <2> SUFFICES ASSUME FreshObject(p, v) PROVE FALSE
    OBVIOUS
  <2>1. /\ v.address.heap /\ v.address.made \in WorkerFunctions(p)
        /\ v.workers /\ v.strange = {} /\ \A e \in v.running : e.address.direct
    BY DEF FreshObject
  <2>2. h \in x /\ h \in v.running
    BY <1>21, <2>1
  <2>3. g.role # 0 /\ h.role # 0 /\ g.address.direct /\ h.address.direct
    BY <1>10, <1>17, <2>1, <2>2
  <2>4. c.region = "Heap" /\ c.made \in WorkerFunctions(p) /\ c.direct
    BY <1>7, <1>16, <2>1, <2>3
  <2>5. d.region = "Heap" /\ d.made \in WorkerFunctions(p)
    BY <1>18, <2>4
  <2>6. d.direct /\ d.known # "none"
    BY <1>6, <1>7, <2>3, AddressIs, UnknownIsNowhere, <1>1, <1>19, <2>1
  <2>7. c.own
    BY <1>6, <1>7, <1>20, <2>3, <2>4 DEF FactsHold, c
  <2>8. d.own
    BY <1>6, <1>20, <2>3, <2>5, <2>6 DEF FactsHold, d
  <2> QED
    BY <1>2, <2>7, <2>8
<1>31. ASSUME v.address.kind = "Affine", v.address.base[1] \in p.split, v.workers,
              {w \in v.strange : w.role = 0 \/ w.address.base # v.address.base} = {}
       PROVE  FALSE
  <2>1. h \in x /\ h \in v.running /\ d.known = c.known
    BY <1>19, <1>31
  <2>2. g.role # 0 /\ h.role # 0
    BY <1>10, <1>17, <1>31, <2>1
  <2>3. c.known = "index"
    <3>1. c.region \in {"Global", "Heap", "Stack", "TLS"}
      BY <1>6 DEF ObjectsNamed, c
    <3> QED
      BY <1>7, <1>16, <1>31, <3>1
  <2>4. c.obj \in p.split
    BY <1>7, <1>16, <1>31
  <2>5. c.own
    BY <1>6, <1>20, <2>2, <2>3, <2>4 DEF FactsHold, c
  <2>6. d.own
    BY <1>1, <1>6, <1>20, <2>1, <2>2, <2>3, <2>4 DEF FactsHold, d
  <2> QED
    BY <1>2, <2>5, <2>6
<1> QED
  BY <1>9, <1>13, <1>22, <1>23, <1>24, <1>25, <1>26, <1>27, <1>28, <1>29, <1>30, <1>31 DEF Warranted

-----------------------------------------------------------------------------
(* Where the threads are that run beside each other.                         *)

\* Nothing is put aside of a worker, or of main where no phase is told, unless
\* its path does not return.
LEMMA NotAside ==
  ASSUME NEW p, NEW e \in Extracted(p), Within(p, e.pc), e.role # 0 \/ e \notin Phased(p)
  PROVE  e \notin Aside(p)
<1>1. e \notin NonReturning(p, Extracted(p))
  BY DEF NonReturning, Within
<1>2. /\ \A y \in BeforeCreate(p, Extracted(p), Known(p)) : y.role = 0
      /\ \A y \in AfterJoin(p, Extracted(p)) : y.role = 0
      /\ \A y \in MainCallee(p, Extracted(p)) : y.role = 0
  BY DEF BeforeCreate, AfterJoin, MainCallee
<1>3. Phased(p) = BeforeCreate(p, Extracted(p), Known(p)) \cup AfterJoin(p, Extracted(p)) \cup MainCallee(p, Extracted(p))
  BY DEF Phased
<1>4. Aside(p) = BeforeCreate(p, Extracted(p), Known(p)) \cup AfterJoin(p, Extracted(p)) \cup MainCallee(p, Extracted(p))
                 \cup NonReturning(p, Extracted(p))
  BY DEF Aside, Apart
<1> QED
  BY <1>1, <1>2, <1>3, <1>4

\* Only events are put aside.
LEMMA AsideAreEvents ==
  ASSUME NEW p, NEW e \in Aside(p)
  PROVE  e \in Extracted(p)
BY DEF Aside, Apart, BeforeCreate, AfterJoin, MainCallee, NonReturning

\* If all threads are created where main is known to come, each creation is a role.
LEMMA AllAreRoles ==
  ASSUME NEW p, IsProgram(p), CreatesTogether(p)
  PROVE  Creates(p) \cup Regions(p) \subseteq Roles(p)
<1> DEFINE closed == {i \in Calls(p) : p.code[i].closed}
           graph == CallGraph(p, closed)
           all == CallGraph(p, Calls(p))
<1>1. ASSUME MainClosed(p) PROVE RoleFunctions(p, 0) \subseteq MainReach(p)
  <2>1. graph \in [Functions(p) -> SUBSET Functions(p)] /\ all \in [Functions(p) -> SUBSET Functions(p)]
        /\ IsFiniteSet(Functions(p)) /\ {"main"} \subseteq Functions(p)
    BY GraphsTyped DEF IsProgram
  <2>2. MainReach(p) = Reach(graph, {"main"}) /\ RoleFunctions(p, 0) = Reach(all, {"main"})
    BY DEF MainReach, RoleFunctions, Starts
  <2>3. \A f \in MainReach(p) : f \in Functions(p) => all[f] \subseteq graph[f]
    <3> SUFFICES ASSUME NEW f \in MainReach(p), f \in Functions(p) PROVE all[f] \subseteq graph[f]
      OBVIOUS
    <3>1. \A i \in Calls(p) \cap NodesOf(p, f) : i \in closed
      BY <1>1 DEF MainClosed, NodesOf
    <3>2. Calls(p) \cap NodesOf(p, f) \subseteq closed \cap NodesOf(p, f)
      BY <3>1
    <3>3. /\ all[f] = UNION {p.code[i].callees : i \in Calls(p) \cap NodesOf(p, f)}
          /\ graph[f] = UNION {p.code[i].callees : i \in closed \cap NodesOf(p, f)}
      BY DEF CallGraph
    <3> HIDE DEF closed
    <3> QED
      BY <3>2, <3>3
  <2> HIDE DEF graph, all
  <2> DEFINE m == MainReach(p)
             start == {"main"}
  <2> HIDE DEF start
  <2>4. /\ start \subseteq m /\ m \subseteq Functions(p)
        /\ \A f \in m : graph[f] \subseteq m
    BY <2>1, <2>2, ReachIsClosed DEF start
  <2>5. \A f \in m : all[f] \subseteq m
    BY <2>3, <2>4
  <2>6. Reach(all, start) \subseteq m
    <3>1. \A C \in SUBSET Functions(p) : start \subseteq C /\ (\A f \in C : all[f] \subseteq C) => Reach(all, start) \subseteq C
      BY <2>1, ReachIsClosed DEF start
    <3> HIDE DEF m
    <3> QED
      BY <2>4, <2>5, <3>1
  <2> QED
    BY <2>2, <2>6 DEF start
<1>2. ASSUME NEW c \in Creates(p) \cup Regions(p) PROVE c \in Roles(p)
  <2>1. p.code[c].fn \in RoleFunctions(p, 0)
    BY <1>2 DEF CreatesTogether
  <2>2. MainClosed(p) => p.code[c].fn \in MainReach(p)
    BY <1>1, <2>1
  <2> QED
    BY <1>2, <2>2 DEF Roles, Considered
<1> QED
  BY <1>2

\* A worker is in the code of its role: nothing it runs is behind a call that
\* could not be followed.
LEMMA WorkerFollowed ==
  ASSUME NEW p, IsProgram(p), ObjectsNamed(p), HiddenApart(p),
         NEW sh, sh = SharedStateOf(p, Extracted(p), Known(p)), Told(p, sh),
         NEW a, Sound(p, a), Moving(a), a.role \in Roles(p), a.role # 0
  PROVE  p.code[a.stack[1]].fn \in RoleFunctions(p, a.role)
<1> DEFINE r == a.role
           s == a.stack
<1>1. r \in Creates(p) \cup Regions(p) /\ r \in Code(p)
  BY DEF Roles, Considered, Creates, Regions
<1>2. p.code[r].closed
  BY DEF Told, RoleComplete
<1>3. p.code[r].goes \in p.code[r].callees
  BY <1>1, <1>2 DEF IsProgram
<1>4. Starts(p, r) # {}
  BY <1>2, <1>3 DEF Starts
<1>5. Hidden(p, r) \cap RoleFunctions(p, r) = {}
  BY DEF HiddenApart
<1>6. s # <<>> /\ s \in Seq(Code(p)) /\ r \in {0} \cup Code(p)
  BY DEF Sound, Moving, ThreadRecords
<1>7. PICK m : Track(p, r, s, a.last, m)
  BY <1>4, <1>5 DEF Sound
<1> HIDE DEF s, r
<1>8. m \in Nat /\ m < Len(s) /\ Len(s) \in Nat
  BY <1>6, <1>7 DEF Track
<1>9. CASE m = 0
  <2>1. 1 \in m + 1 .. Len(s)
    BY <1>8, <1>9
  <2> QED
    BY <1>7, <2>1 DEF Track, s, r
<1>10. CASE m > 0
  <2> DEFINE i == a.last
  <2>1. /\ i \in Code(p) /\ Here(p, r, i) # {} /\ i \in Calls(p) /\ Left(p, i)
        /\ \A e \in Here(p, r, i) : e.kind \in OpaqueKinds
    BY <1>7, <1>10 DEF Track
  <2>2. PICK e \in Here(p, r, i) : e.kind \in OpaqueKinds
    BY <2>1
  <2>3. /\ e.kind # "Effect" /\ e = Event(r, i, e.kind, AddressOf(p.code[i], e.kind))
        /\ e \in Extracted(p)
    BY <2>2, HereIs
  <2>4. e.role = r /\ e.pc = i /\ e.address = AddressOf(p.code[i], e.kind)
    BY <2>3 DEF Event
  <2>5. p.code[i].op # "runtime"
    BY <2>1 DEF Calls
  <2>6. e.address = Nowhere
    <3>1. e.kind = "Opaque" \/ e.kind = "Syscall"
      BY <2>2, <2>3 DEF OpaqueKinds
    <3> QED
      BY <2>4, <2>5, <3>1 DEF AddressOf
  <2>7. e \notin Aside(p)
    BY <2>1, <2>3, <2>4, NotAside DEF Left, r
  <2> QED
    BY <2>2, <2>3, <2>6, <2>7, NothingOpaque
<1> QED
  BY <1>8, <1>9, <1>10

\* Nor is main beside a worker, and nothing is put aside of where it accesses.
LEMMA MainFollowed ==
  ASSUME NEW p, IsProgram(p), ObjectsNamed(p), CreatesTogether(p), SingleTargets(p),
         PhasesApart(p), OpenCallsApart(p),
         NEW sh, sh = SharedStateOf(p, Extracted(p), Known(p)), Told(p, sh),
         NEW a \in ThreadRecords(p), a.stack # <<>>, Stands(p, a, TRUE)
  PROVE  /\ a.role = 0 /\ p.code[a.stack[1]].fn \in RoleFunctions(p, 0)
         /\ a.stack[1] \in Accesses(p) /\ Within(p, a.stack[1]) =>
              \A e \in Extracted(p) : e.pc = a.stack[1] => e \notin Aside(p)
<1> DEFINE s == a.stack
<1>1. a.role = 0
  BY DEF Stands
<1>2. PICK m \in Nat, n \in Nat \ {0} : \E xs \in [1 .. n -> Code(p)] :
        Chain(p, n, xs) /\ Stacked(p, s, m, n, xs) /\ Beside(p, n, xs)
  BY DEF Stands
<1>3. PICK xs \in [1 .. n -> Code(p)] :
        Chain(p, n, xs) /\ Stacked(p, s, m, n, xs) /\ Beside(p, n, xs)
  BY <1>2
<1> DEFINE i == xs[1]
<1>4. 1 \in 1 .. n /\ i \in Code(p) /\ p.code[i].fn \in RoleFunctions(p, 0)
  <2>1. 1 \in 1 .. n
    BY <1>3 DEF Chain
  <2> QED
    BY <1>3, <2>1 DEF Chain
<1> HIDE DEF s
<1>5. ASSUME m > 0 PROVE FALSE
  <2>1. i \in Calls(p) /\ Left(p, i)
    BY <1>3, <1>5 DEF Stacked
  <2>2. ~ p.code[i].closed /\ p.code[i].op = "indirect"
    <3>1. p.code[i].goes \notin p.code[i].callees \cup {"none"}
      BY <2>1 DEF Left
    <3>2. ~ p.code[i].closed
      BY <1>4, <2>1, <3>1 DEF IsProgram
    <3> QED
      BY <1>4, <2>1, <3>2 DEF IsProgram, Calls
  <2> DEFINE e == Event(0, i, "Opaque", AddressOf(p.code[i], "Opaque"))
  <2>3. "Opaque" \in KindOf(p, p.code[i])
    BY <2>2 DEF KindOf
  <2>4. 0 \in Roles(p)
    BY DEF Roles
  <2>5. e \in Here(p, 0, i)
    BY <1>4, <2>3, <2>4, HereIs
  <2>6. e.role = 0 /\ e.pc = i /\ e.kind = "Opaque" /\ e.address = AddressOf(p.code[i], "Opaque")
    BY DEF Event
  <2>7. e.address = Nowhere
    BY <2>2, <2>6 DEF AddressOf
  <2> HIDE DEF e
  <2>8. e \in Extracted(p)
    BY <2>5, HereIs
  <2> DEFINE places == {y \in Calls(p) : ~ p.code[y].closed}
  <2>9. i \in places /\ NoWayBack(p, places)
    BY <2>1, <2>2 DEF OpenCallsApart
  <2> HIDE DEF places
  <2>10. e \notin Phased(p)
    BY <1>2, <1>3, <2>6, <2>8, <2>9, BesideNotPhased
  <2>11. e \notin Aside(p)
    BY <2>1, <2>6, <2>8, <2>10, NotAside DEF Left
  <2>12. e \in Aside(p)
    BY <2>6, <2>7, <2>8, NothingOpaque DEF OpaqueKinds
  <2> QED
    BY <2>11, <2>12
<1>6. i = s[1]
  BY <1>2, <1>3, <1>5 DEF Stacked
<1>7. ASSUME i \in Accesses(p), Within(p, i), NEW e \in Extracted(p), e.pc = i
      PROVE  e \notin Aside(p)
  <2>1. NoWayBack(p, Accesses(p))
    BY DEF PhasesApart
  <2>2. e \notin Phased(p)
    BY <1>2, <1>3, <1>7, <2>1, BesideNotPhased
  <2> QED
    BY <1>7, <2>2, NotAside
<1> QED
  BY <1>1, <1>4, <1>6, <1>7 DEF s

\* An access to memory where nothing is put aside is an event of the role with
\* an address of its own, a writing event if it writes.
LEMMA AccessHasEvent ==
  ASSUME NEW p, ObjectsNamed(p), NEW sh, sh = SharedStateOf(p, Extracted(p), Known(p)), Told(p, sh),
         NEW r \in Roles(p), NEW i \in Accesses(p), p.code[i].fn \in RoleFunctions(p, r),
         \A e \in Here(p, r, i) : e \notin Aside(p)
  PROVE  \E e \in Here(p, r, i) : e.kind \in Plainly /\ (p.code[i].op \in Writes => e.kind \in WriteKinds)
<1> DEFINE c == p.code[i]
           ev(k) == Event(r, i, k, AddressOf(c, k))
<1>1. i \in Code(p) /\ c.op \in Reads \cup Writes
  BY DEF Accesses
<1>2. ASSUME NEW k \in KindOf(p, c), k # "Effect"
      PROVE  ev(k) \in Here(p, r, i) /\ ev(k).kind = k /\ ev(k).address = AddressOf(c, k) /\ ev(k) \in Extracted(p)
  <2>1. ev(k) \in Here(p, r, i)
    BY <1>1, <1>2, HereIs
  <2>2. ev(k) \in Extracted(p)
    BY <2>1, HereIs
  <2>3. ev(k).kind = k /\ ev(k).address = AddressOf(c, k)
    BY DEF Event
  <2> QED
    BY <2>1, <2>2, <2>3
<1> HIDE DEF ev
<1>3. ASSUME NEW k \in {"Opaque", "Syscall"}, k \in KindOf(p, c), c.op # "runtime" PROVE FALSE
  <2>1. ev(k) \in Here(p, r, i) /\ ev(k).kind = k /\ ev(k).address = AddressOf(c, k) /\ ev(k) \in Extracted(p)
    BY <1>2, <1>3
  <2>2. AddressOf(c, k) = Nowhere
    BY <1>3 DEF AddressOf
  <2>3. ev(k) \in Aside(p)
    BY <1>3, <2>1, <2>2, NothingOpaque DEF OpaqueKinds
  <2> QED
    BY <2>1, <2>3
<1>4. c.op \notin {"opaque", "syscall"}
  <2>1. c.op = "opaque" => "Opaque" \in KindOf(p, c)
    BY DEF KindOf
  <2>2. c.op = "syscall" => "Syscall" \in KindOf(p, c)
    BY DEF KindOf
  <2> HIDE DEF c
  <2> QED
    BY <1>3, <2>1, <2>2
<1>5. \E k \in KindOf(p, c) : k \in Plainly /\ (c.op \in Writes => k \in WriteKinds)
  <2>1. c.op = "load" => "Load" \in KindOf(p, c)
    BY DEF KindOf
  <2>2. c.op \in {"store", "copy"} => "Store" \in KindOf(p, c)
    BY DEF KindOf
  <2>3. c.op = "rmw" => "Rmw" \in KindOf(p, c)
    BY DEF KindOf
  <2>4. c.op = "update" => "Store" \in KindOf(p, c)
    BY DEF KindOf
  <2>5. c.op \in {"load", "store", "copy", "rmw", "update"}
    BY <1>1, <1>4 DEF Reads, Writes
  <2> HIDE DEF c
  <2>6. "Load" \in Plainly /\ "Store" \in Plainly /\ "Rmw" \in Plainly
        /\ "Store" \in WriteKinds /\ "Rmw" \in WriteKinds /\ "load" \notin Writes
    BY DEF Plainly, WriteKinds, Writes
  <2> QED
    BY <2>1, <2>2, <2>3, <2>4, <2>5, <2>6
<1>6. PICK k \in KindOf(p, c) : k \in Plainly /\ (c.op \in Writes => k \in WriteKinds)
  BY <1>5
<1>7. k # "Effect"
  BY <1>6 DEF Plainly
<1> QED
  BY <1>2, <1>6, <1>7

\* Rivals that are both kept are a conflict of the slice.
LEMMA RivalsConflict ==
  ASSUME NEW p, IsProgram(p), ObjectsNamed(p), NEW sh, NEW g, NEW h, Rivals(p, sh, g, h),
         NEW kept, g \in kept, h \in kept
  PROVE  {g, h} \in AllConflicts(kept)
<1> DEFINE i == g.pc
           j == h.pc
           c == p.code[i]
           d == p.code[j]
<1>1. /\ g \in Extracted(p) /\ h \in Extracted(p) /\ g.kind \in Plainly /\ h.kind \in Plainly
      /\ c.obj = d.obj /\ c.at = d.at
      /\ g.role # 0 \/ h.role # 0
      /\ g.kind \in WriteKinds \/ h.kind \in WriteKinds
  BY DEF Rivals
<1>2. /\ i \in Code(p) /\ j \in Code(p) /\ g.address = Address(c) /\ h.address = Address(d)
  BY <1>1, PlainIs
<1>3. c.known \in {"exact", "index", "none"} /\ d.known \in {"exact", "index", "none"}
      /\ c.size \in Nat /\ d.size \in Nat /\ c.at \in Nat
  BY <1>2 DEF ObjectsNamed, IsProgram
<1>4. Overlap(g.address, h.address)
  <2>1. CASE c.known = "exact" /\ d.known = "exact"
    <3>1. /\ g.address.kind = h.address.kind /\ g.address.base = h.address.base
          /\ g.address.offset = h.address.offset
      BY <1>1, <1>2, <2>1, AddressIs
    <3>2. g.address.size = c.size /\ h.address.size = d.size
      BY <1>2, <2>1, AddressIs
    <3>3. g.address.offset \in Nat
      <4>1. g.address.offset = IF g.address.kind = "Global" THEN 0 ELSE c.at
        <5>1. c.known # "none" /\ c.known # "index"
          BY <2>1
        <5> QED
          BY <1>2, <5>1 DEF Address
      <4> QED
        BY <1>3, <4>1
    <3> QED
      BY <1>3, <3>1, <3>2, <3>3 DEF Overlap
  <2>2. CASE c.known # "exact" \/ d.known # "exact"
    <3>1. /\ c.known # "exact" => g.address.kind \in {"Unknown", "Affine"}
          /\ d.known # "exact" => h.address.kind \in {"Unknown", "Affine"}
      BY <1>2, <1>3, AddressIs
    <3> QED
      BY <2>2, <3>1 DEF Overlap
  <2> QED
    BY <2>1, <2>2
<1>5. Concurrently(g, h)
  BY <1>1 DEF Concurrently
<1>6. IsConflict(g, h) /\ {g.kind, h.kind} \subseteq MemoryKinds
  BY <1>1, <1>4, <1>5 DEF IsConflict, MemoryKinds, Plainly, ReadKinds, WriteKinds
<1> DEFINE x == <<g, h>>
<1>7. x[1] = g /\ x[2] = h /\ x \in kept \X kept
  OBVIOUS
<1> HIDE DEF x
<1>8. x \in {y \in kept \X kept : /\ {y[1].kind, y[2].kind} \subseteq MemoryKinds /\ IsConflict(y[1], y[2])}
  BY <1>6, <1>7
<1>9. {x[1], x[2]} \in AllConflicts(kept)
  BY <1>8 DEF AllConflicts
<1> QED
  BY <1>7, <1>9

-----------------------------------------------------------------------------
(* No race in a run of a program that is SAFE.                               *)

\* A worker has the role of the place it was started at.
RolesInv ==
  stage = "running" =>
    \A u \in Workers : Moving(threads[u]) => threads[u].role \in Creates(prog) \cup Regions(prog)

\* It is inductive.
LEMMA RolesInductive ==
  /\ Init => RolesInv
  /\ RunInv /\ RolesInv /\ [Next]_vars => RolesInv'
<1>1. Init => RolesInv
  BY DEF Init, RolesInv
<1>2. ASSUME RunInv, RolesInv, [Next]_vars PROVE RolesInv'
  <2>1. StagesInv /\ prog' = prog /\ DOMAIN threads = Threads
    BY <1>2, StageSteps DEF RunInv
  <2>2. 0 \in Threads /\ 0 \notin Workers /\ Threads = {0} \cup Workers
    BY WorkersAreNumbered DEF Threads
  <2>3. CASE stage' # "running"
    BY <2>3 DEF RolesInv
  <2>4. CASE stage = "judged" /\ Start
    <3>1. threads' = [threads EXCEPT ![0] = Begin(0, "main")] /\ \A u \in Threads : threads[u] = Nobody
      BY <2>1, <2>4 DEF Start, StagesInv
    <3>2. \A u \in Workers : threads'[u].state = "none"
      BY <2>1, <2>2, <3>1 DEF Nobody
    <3> QED
      BY <3>2 DEF RolesInv, Moving
  <2>5. CASE UNCHANGED vars
    BY <1>2, <2>5 DEF vars, static, run, RolesInv
  <2>6. CASE stage = "running" /\ Run
    <3>1. PICK t \in Threads : Move(t)
      BY <2>6 DEF Run
    <3>2. Moving(threads[t]) /\ \A u \in Threads : Became(t, u, threads'[u])
      BY <1>2, <2>6, <3>1, MoveIs
    <3>3. threads[t] \in ThreadRecords(prog)
      BY <1>2, <2>6, <3>2, EventsAtIs
    <3>4. ASSUME NEW u \in Workers, NEW b, Became(t, u, b), Moving(b)
          PROVE  b.role \in Creates(prog) \cup Regions(prog)
      <4>1. Moving(threads[u]) => threads[u].role \in Creates(prog) \cup Regions(prog)
        BY <1>2, <2>6 DEF RolesInv
      <4>2. CASE b = threads[u]
        BY <3>4, <4>1, <4>2
      <4>3. CASE b = Nobody
        BY <3>4, <4>3 DEF Nobody, Moving
      <4>4. CASE u = t /\ b = [threads[t] EXCEPT !.state = "ended"]
        BY <3>3, <3>4, <4>4 DEF ThreadRecords, Moving
      <4>5. CASE u = t /\ b = [threads[t] EXCEPT !.state = "waiting"]
        BY <3>2, <3>3, <4>1, <4>5 DEF ThreadRecords
      <4>6. CASE At(t) \in Creates(prog) \cup Regions(prog) /\ b = Begun(prog, At(t))
        BY <4>6 DEF Begun
      <4>7. CASE u = t /\ Onward(prog, threads[t], b)
        <5>1. \E s : b = Advance(prog, threads[t], s)
          BY <4>7, Zenon DEF Onward
        <5>2. b.role = threads[t].role
          BY <5>1 DEF Advance
        <5> QED
          BY <3>2, <4>1, <4>7, <5>2
      <4> QED
        BY <3>4, <4>2, <4>3, <4>4, <4>5, <4>6, <4>7 DEF Became
    <3>5. \A u \in Workers : Moving(threads'[u]) => threads'[u].role \in Creates(prog) \cup Regions(prog)
      BY <2>2, <3>2, <3>4
    <3> QED
      BY <2>1, <3>5 DEF RolesInv
  <2>7. CASE threads' = threads /\ stage \notin {"judged", "running"} /\ stage' \notin {"recovered", "running"}
    BY <2>3, <2>7
  <2> QED
    BY <1>2, <2>1, <2>4, <2>5, <2>6, <2>7, StageSteps
<1> QED
  BY <1>1, <1>2

\* The conditions of PlainSafeMeansNoRace.
Lawful ==
  /\ PhasesApart(prog) /\ OpenCallsApart(prog) /\ CreatesTogether(prog) /\ JoinedForGood(prog)
  /\ SingleTargets(prog) /\ HiddenApart(prog) /\ LocksShared(prog) /\ \A r \in Roles(prog) : StartsFirst(r)
  /\ SameStart(prog) /\ IndexedAlone(prog) /\ BlindKept

\* What the verdict SAFE says of a program in a run.
LEMMA SafeIsTold ==
  ASSUME StagesInv, SliceInv, JudgedInv, application \in BOOLEAN, stage = "running", verdict = "SAFE"
  PROVE  /\ prog \in Programs /\ IsProgram(prog) /\ ObjectsNamed(prog) /\ FactsHold(prog)
         /\ shared = SharedStateOf(prog, Extracted(prog), Known(prog))
         /\ Told(prog, shared)
         /\ AllConflicts(slice.events) = {}
         /\ \A e \in Extracted(prog) \ shared.removed : e.kind \in Plainly => e \in slice.events
<1>1. prog \in Programs /\ events # {} /\ Recovered /\ shared = SharedStateOf(prog, events, order)
  BY DEF StagesInv
<1>2. IsProgram(prog) /\ ObjectsNamed(prog) /\ FactsHold(prog)
  BY <1>1, ProgramsAreRecovered, ProversAreRight
<1>3. events = Extracted(prog) /\ order = Known(prog)
  BY <1>1 DEF Recovered, Known
<1>4. slice = Judged(prog, events, order, shared, application)
  BY <1>1 DEF JudgedInv, Sliced
<1>5. OpenUnknowns(prog, slice, application) = {} /\ slice.conflicts = {} /\ slice.conflicts = AllConflicts(slice.events)
  BY DEF JudgedInv, SliceInv, Sliced
<1>6. OpenUnknowns(prog, Judged(prog, events, order, shared, application), application) = {}
  BY <1>4, <1>5
<1>7. /\ \A r \in Roles(prog) : RoleComplete(prog, r)
      /\ \A e \in events : e.kind \in OpaqueKinds => e \in shared.removed \/ RuntimeBoundary(e)
      /\ \A e \in events : e.kind \in Plainly /\ e.address.kind = "Unknown" =>
           \/ e \in shared.removed
           \/ \E q \in shared.proofs : q.reason \in SequentialReasons /\ \E y \in q.events : y.pc = e.pc
      /\ \A e \in events \ shared.removed :
           e.kind \in Plainly => e \in Judged(prog, events, order, shared, application).events
  BY <1>6, NothingOpen
<1>8. Told(prog, shared)
  BY <1>3, <1>7 DEF Told
<1> QED
  BY <1>1, <1>2, <1>3, <1>4, <1>5, <1>7, <1>8

\* The event of a thread at the access it is about to make, beside another.
LEMMA RunnerHasEvent ==
  ASSUME RunInv, MainInv, RolesInv, SliceInv, JudgedInv, application \in BOOLEAN, Lawful, verdict = "SAFE",
         stage = "running", InScope, NEW t \in Threads, Running(t), At(t) \in Accesses(prog),
         t = 0 => \E u \in Workers : Running(u)
  PROVE  \E e \in EventsAt(t) :
           /\ e \in Extracted(prog) /\ e.pc = At(t) /\ e.kind \in Plainly /\ e \notin Aside(prog)
           /\ Instr(t).op \in Writes => e.kind \in WriteKinds
           /\ t # 0 => e.role # 0
           /\ t = 0 => e.address.kind # "Unknown"
<1> DEFINE a == threads[t]
           r == a.role
           i == At(t)
           p == prog
<1>1. Moving(a)
  BY DEF Running, Moving
<1>2. /\ IsProgram(p) /\ ObjectsNamed(p) /\ shared = SharedStateOf(p, Extracted(p), Known(p)) /\ Told(p, shared)
  BY SafeIsTold DEF RunInv
<1>3. /\ a \in ThreadRecords(p) /\ a.stack # <<>> /\ i = a.stack[1] /\ i \in Code(p)
      /\ EventsAt(t) = Here(p, r, i)
  BY <1>1, EventsAtIs
<1>4. Within(p, i)
  BY <1>1, <1>3, ScopeIs
<1>5. Sound(p, a)
  BY DEF RunInv
<1>6. /\ PhasesApart(p) /\ OpenCallsApart(p) /\ CreatesTogether(p) /\ JoinedForGood(p)
      /\ SingleTargets(p) /\ HiddenApart(p) /\ BlindFree(shared)
  BY DEF Lawful, BlindKept, BlindFree
<1>7. /\ r \in Roles(p) /\ p.code[i].fn \in RoleFunctions(p, r)
      /\ t # 0 => r # 0
      /\ t = 0 => r = 0 /\ \A e \in Extracted(p) : e.pc = i => e \notin Aside(p)
  <2>1. CASE t # 0
    <3>1. t \in Workers
      BY <2>1 DEF Threads
    <3>2. r \in Creates(p) \cup Regions(p)
      BY <1>1, <3>1 DEF RolesInv
    <3>3. r \in Roles(p) /\ r # 0
      BY <1>2, <1>6, <3>2, AllAreRoles DEF IsProgram, Creates, Regions
    <3>4. p.code[i].fn \in RoleFunctions(p, r)
      BY <1>1, <1>2, <1>3, <1>5, <1>6, <3>3, WorkerFollowed
    <3> QED
      BY <2>1, <3>3, <3>4
  <2>2. CASE t = 0
    <3>1. 0 \in Roles(p)
      BY DEF Roles
    <3>2. MainNotCalledBack(p)
      BY <1>6, <3>1 DEF HiddenApart, MainNotCalledBack
    <3>3. MainBeside
      BY <2>2 DEF MainBeside
    <3>4. Stands(p, a, MainBeside)
      BY <1>1, <1>6, <2>2, <3>2 DEF MainInv
    <3>5. MainBeside = TRUE
      BY <3>3 DEF MainBeside
    <3>6. Stands(p, a, TRUE)
      BY <3>4, <3>5
    <3> QED
      BY <1>2, <1>3, <1>4, <1>6, <2>2, <3>1, <3>6, MainFollowed
  <2> QED
    BY <2>1, <2>2
<1>8. \A e \in Here(p, r, i) : e \notin Aside(p)
  <2> SUFFICES ASSUME NEW e \in Here(p, r, i) PROVE e \notin Aside(p)
    OBVIOUS
  <2>1. e \in Extracted(p) /\ e.role = r /\ e.pc = i
    BY HereIs DEF Here
  <2> QED
    BY <1>4, <1>7, <2>1, NotAside
<1>9. PICK e \in Here(p, r, i) : e.kind \in Plainly /\ (p.code[i].op \in Writes => e.kind \in WriteKinds)
  BY <1>2, <1>7, <1>8, AccessHasEvent
<1>10. e \in Extracted(p) /\ e.role = r /\ e.pc = i /\ e \notin Aside(p)
  BY <1>8, HereIs DEF Here
<1>11. ASSUME t = 0, e.address.kind = "Unknown" PROVE FALSE
  <2>1. e \notin shared.removed
    BY <1>2, <1>6, <1>10, <1>11, UnknownKept DEF BlindFree
  <2>2. PICK q \in shared.proofs : q.reason \in SequentialReasons /\ \E y \in q.events : y.pc = e.pc
    BY <1>2, <1>9, <1>10, <1>11, <2>1 DEF Told
  <2>3. PICK y \in q.events : y.pc = e.pc
    BY <2>2
  <2>4. y \in Aside(p)
    BY <1>2, <2>2, <2>3, RemovedIs DEF Aside
  <2> QED
    BY <1>7, <1>10, <1>11, <2>3, <2>4, AsideAreEvents
<1> QED
  BY <1>3, <1>7, <1>9, <1>10, <1>11 DEF Instr

\* At one byte, both accesses have their events, and the rules keep them.
LEMMA RaceFreeNow ==
  /\ RunInv /\ MainInv /\ RolesInv /\ SliceInv /\ JudgedInv /\ application \in BOOLEAN
  /\ SectionsApart
  => PlainSafeMeansNoRace
<1> SUFFICES ASSUME RunInv, MainInv, RolesInv, SliceInv, JudgedInv, application \in BOOLEAN,
                    SectionsApart, Lawful, verdict = "SAFE", Race
             PROVE  FALSE
  BY DEF PlainSafeMeansNoRace, SafeMeansNoRace, Lawful
<1>1. PICK t \in Threads, u \in Threads :
        /\ stage = "running" /\ InScope
        /\ t # u /\ Running(t) /\ Running(u)
        /\ Instr(t).op \in Writes /\ Instr(u).op \in Reads \cup Writes
        /\ Touches(t) \cap Touches(u) # {}
  BY DEF Race
<1> DEFINE i == At(t)
           j == At(u)
           c == prog.code[i]
           d == prog.code[j]
<1>2. /\ IsProgram(prog) /\ ObjectsNamed(prog) /\ FactsHold(prog)
      /\ shared = SharedStateOf(prog, Extracted(prog), Known(prog))
      /\ Told(prog, shared) /\ AllConflicts(slice.events) = {}
      /\ \A e \in Extracted(prog) \ shared.removed : e.kind \in Plainly => e \in slice.events
  BY <1>1, SafeIsTold DEF RunInv
<1>3. /\ i \in Code(prog) /\ j \in Code(prog) /\ Instr(t) = c /\ Instr(u) = d
  BY <1>1, EventsAtIs DEF Instr, Running, Moving
<1>4. i \in Accesses(prog) /\ j \in Accesses(prog)
  BY <1>1, <1>3 DEF Accesses
<1>5. (t = 0 => \E w \in Workers : Running(w)) /\ (u = 0 => \E w \in Workers : Running(w))
  BY <1>1 DEF Threads
<1>6. PICK e \in EventsAt(t) :
        /\ e \in Extracted(prog) /\ e.pc = i /\ e.kind \in Plainly /\ e \notin Aside(prog)
        /\ Instr(t).op \in Writes => e.kind \in WriteKinds
        /\ t # 0 => e.role # 0
        /\ t = 0 => e.address.kind # "Unknown"
  BY <1>1, <1>4, <1>5, RunnerHasEvent
<1>7. PICK f \in EventsAt(u) :
        /\ f \in Extracted(prog) /\ f.pc = j /\ f.kind \in Plainly /\ f \notin Aside(prog)
        /\ u # 0 => f.role # 0
        /\ u = 0 => f.address.kind # "Unknown"
  BY <1>1, <1>4, <1>5, RunnerHasEvent
<1>8. c.obj = d.obj /\ c.at = d.at /\ ~ (c.own /\ d.own)
  <2>1. PICK byte : byte \in Touches(t) /\ byte \in Touches(u)
    BY <1>1
  <2>2. PICK w1 \in IF c.own THEN {t} ELSE Threads, b1 \in c.at .. c.at + Width(c) - 1 : byte = <<c.obj, w1, b1>>
    BY <1>3, <2>1 DEF Touches
  <2>3. PICK w2 \in IF d.own THEN {u} ELSE Threads, b2 \in d.at .. d.at + Width(d) - 1 : byte = <<d.obj, w2, b2>>
    BY <1>3, <2>1 DEF Touches
  <2>4. c.obj = d.obj /\ w1 = w2 /\ b1 = b2
    BY <2>2, <2>3
  <2>5. ~ (c.own /\ d.own)
    BY <1>1, <2>2, <2>3, <2>4
  <2>6. c.at \in Nat /\ d.at \in Nat /\ c.size \in Nat /\ d.size \in Nat
    BY <1>2, <1>3 DEF IsProgram, ObjectsNamed
  <2>7. Width(c) \in Nat /\ Width(d) \in Nat
    BY <2>6 DEF Width
  <2>8. /\ c.at < d.at => c.at + Width(c) <= d.at
        /\ d.at < c.at => d.at + Width(d) <= c.at
    BY <1>4, <2>4 DEF Lawful, SameStart
  <2> HIDE DEF c, d
  <2>9. c.at = d.at
    BY <2>2, <2>3, <2>4, <2>6, <2>7, <2>8
  <2> QED
    BY <2>4, <2>5, <2>9
<1>9. \A l \in DOMAIN shared.locks : ~ (e \in shared.locks[l] /\ f \in shared.locks[l])
  BY <1>1, <1>6, <1>7 DEF SectionsApart, Lawful
<1>10. e.role # 0 \/ f.role # 0
  BY <1>1, <1>6, <1>7
<1>11. e.kind \in WriteKinds
  BY <1>1, <1>6
<1>12. (e.address.kind = "Unknown" => e.role # 0) /\ (f.address.kind = "Unknown" => f.role # 0)
  BY <1>6, <1>7
<1>13. Rivals(prog, shared, e, f) /\ Rivals(prog, shared, f, e)
  BY <1>4, <1>6, <1>7, <1>8, <1>9, <1>10, <1>11, <1>12 DEF Rivals
<1>14. IndexedAlone(prog) /\ BlindFree(shared)
  BY DEF Lawful, BlindKept, BlindFree
<1>15. e \notin shared.removed /\ f \notin shared.removed
  BY <1>2, <1>13, <1>14, RuleKeeps
<1>16. e \in slice.events /\ f \in slice.events
  BY <1>2, <1>6, <1>7, <1>15
<1> QED
  BY <1>2, <1>13, <1>16, RivalsConflict

\* All that holds of the analysis and of the run at once.
AnalysisInv ==
  /\ RunInv /\ LockInv /\ HeldInv /\ MainInv /\ RolesInv /\ SliceInv /\ JudgedInv
  /\ application \in BOOLEAN

\* It is inductive.
LEMMA AnalysisInductive ==
  /\ Init => AnalysisInv
  /\ AnalysisInv /\ [Next]_vars => AnalysisInv'
<1>1. Init => AnalysisInv
  BY RunInductive, LocksInductive, HeldInductive, MainInductive, RolesInductive, SliceInvInit, JudgedInductive
     DEF Init, AnalysisInv
<1>2. ASSUME AnalysisInv, [Next]_vars PROVE AnalysisInv'
  <2>1. /\ RunInv /\ LockInv /\ HeldInv /\ MainInv /\ RolesInv /\ SliceInv /\ JudgedInv
        /\ StagesInv /\ application \in BOOLEAN
    BY <1>2 DEF AnalysisInv, RunInv
  <2>2. RunInv' /\ LockInv' /\ HeldInv' /\ MainInv' /\ RolesInv' /\ SliceInv' /\ JudgedInv'
    BY <1>2, <2>1, RunInductive, LocksInductive, HeldInductive, MainInductive, RolesInductive, SliceInvStep,
       JudgedInductive
  <2>3. application' = application
    BY <1>2 DEF Next, Extract, ExtractionFails, Share, Slice, Verify, Start, Run, vars, static
  <2> QED
    BY <2>1, <2>2, <2>3 DEF AnalysisInv
<1> QED
  BY <1>1, <1>2

\* What it says of the verdict and of the facts behind it.
LEMMA AnalysisSays ==
  AnalysisInv => /\ BucketsLoseNoPair /\ SafeMeansNoPair
                 /\ OrderCoversExecution /\ DefiniteLocksHeld /\ SectionsApart
                 /\ SequentialRanAlone /\ PlainSafeMeansNoRace
<1> SUFFICES ASSUME AnalysisInv
             PROVE  /\ BucketsLoseNoPair /\ SafeMeansNoPair
                    /\ OrderCoversExecution /\ DefiniteLocksHeld /\ SectionsApart
                    /\ SequentialRanAlone /\ PlainSafeMeansNoRace
  OBVIOUS
<1>1. /\ RunInv /\ LockInv /\ HeldInv /\ MainInv /\ RolesInv /\ SliceInv /\ JudgedInv
      /\ StagesInv /\ application \in BOOLEAN
  BY DEF AnalysisInv, RunInv
<1>2. BucketsLoseNoPair /\ SafeMeansNoPair
  BY <1>1 DEF SliceInv, BucketsLoseNoPair, SafeMeansNoPair, Sliced
<1>3. DefiniteLocksHeld
  BY <1>1, LocksNow
<1>4. SectionsApart
  BY <1>1, <1>3, SectionsNow
<1> QED
  BY <1>1, <1>2, <1>3, <1>4, OrderNow, AloneNow, RaceFreeNow

(***************************************************************************)
(* SAFE without conflicts means that no two threads are ever at one byte   *)
(* with one of them writing, for every program that PlainSafeMeansNoRace   *)
(* speaks of, every number of threads and every run, whatever rules removed*)
(* the accesses.                                                           *)
(***************************************************************************)
THEOREM SafeIsRaceFree == Spec => []PlainSafeMeansNoRace
BY AnalysisInductive, AnalysisSays, PTL DEF Spec

-----------------------------------------------------------------------------
(* What a walk through the pthread library finds is what a run of it does.   *)

Results == [returns : SUBSET SUBSET Full, complete : BOOLEAN]

Bodies(l) == [DOMAIN l.code -> Results]

\* An instruction adds effects only.
LEMMA AddedTyped ==
  ASSUME NEW l, IsLibrary(l), NEW i
  PROVE  Added(l, i) \in SUBSET Full
<1>1. Effects(i) \in SUBSET Full
  BY DEF Effects, Full, AcqRel, Relaxed
<1>2. l.syscall # Unknown => l.syscall \in SUBSET Full
  BY DEF IsLibrary
<1>3. Relaxed \in SUBSET Full
  BY DEF Relaxed
<1> QED
  BY <1>1, <1>2, <1>3 DEF Added

LEMMA FullIsFinite == IsFiniteSet(Full) /\ IsFiniteSet(SUBSET Full)
<1>1. Full = {"acquire", "release", "full"}
  BY DEF Full, AcqRel
<1>2. IsFiniteSet({"acquire", "release", "full"})
  <2>1. IsFiniteSet({"acquire"}) /\ IsFiniteSet({"release"}) /\ IsFiniteSet({"full"})
    BY FS_Singleton, Zenon
  <2>2. {"acquire", "release", "full"} = ({"acquire"} \cup {"release"}) \cup {"full"}
    OBVIOUS
  <2> QED
    <3> DEFINE a == {"acquire"}
               b == {"release"}
               c == {"full"}
    <3> HIDE DEF a, b, c
    <3>1. IsFiniteSet(a \cup b)
      BY <2>1, FS_Union DEF a, b
    <3>2. IsFiniteSet((a \cup b) \cup c)
      BY <2>1, <3>1, FS_Union DEF c
    <3> QED
      BY <2>2, <3>2 DEF a, b, c
<1>3. IsFiniteSet(Full)
  BY <1>1, <1>2
<1>4. IsFiniteSet(SUBSET Full)
  <2> HIDE DEF Full
  <2> QED
    BY <1>3, FS_SUBSET, Zenon
<1> QED
  BY <1>3, <1>4

LEMMA CalleeTyped ==
  ASSUME NEW l, NEW found \in Bodies(l), NEW i
  PROVE  Callee(found, i) \in Results
<1>1. Nothing \in Results
  BY Zenon DEF Nothing, Results
<1>2. i.to \in DOMAIN found => found[i.to] \in Results
  BY DEF Bodies
<1> QED
  BY <1>1, <1>2 DEF Callee

LEMMA PassedTyped ==
  ASSUME NEW l, IsLibrary(l), NEW found \in Bodies(l), NEW i, NEW e \in SUBSET Full
  PROVE  Passed(l, found, i, e) \subseteq SUBSET Full
<1>1. Added(l, i) \in SUBSET Full
  BY AddedTyped
<1>2. Callee(found, i) \in Results
  BY CalleeTyped
<1>3. \A r \in Callee(found, i).returns : r \in SUBSET Full
  BY <1>2 DEF Results
<1> QED
  BY <1>1, <1>3 DEF Passed

\* The states of a walk: the first place, and with a state those it goes on to.
Following(l, f, found) ==
  [s \in (DOMAIN l.code[f]) \X SUBSET Full |->
     (Places(l.code[f][s[1]], s[1]) \cap DOMAIN l.code[f]) \X Passed(l, found, l.code[f][s[1]], s[2])]

LEMMA VisitedCloses ==
  ASSUME NEW l, IsLibrary(l), NEW f \in DOMAIN l.code, NEW found \in Bodies(l)
  PROVE  /\ Visited(l, f, found) \subseteq (DOMAIN l.code[f]) \X SUBSET Full
         /\ <<1, Relaxed>> \in Visited(l, f, found)
         /\ \A s \in Visited(l, f, found) : Following(l, f, found)[s] \subseteq Visited(l, f, found)
<1> DEFINE body == l.code[f]
           N == DOMAIN l.code[f]
           D == N \X SUBSET Full
           next == Following(l, f, found)
           start == {<<1, Relaxed>>}
<1>1. IsFiniteSet(N) /\ 1 \in N
  BY DEF IsLibrary
<1>2. IsFiniteSet(D)
  <2> HIDE DEF N
  <2> QED
    BY <1>1, FullIsFinite, FS_Product
<1>3. next \in [D -> SUBSET D]
  <2>1. ASSUME NEW s \in D PROVE (Places(body[s[1]], s[1]) \cap N) \X Passed(l, found, body[s[1]], s[2]) \in SUBSET D
    <3>1. Passed(l, found, body[s[1]], s[2]) \subseteq SUBSET Full
      BY PassedTyped
    <3> QED
      BY <3>1
  <2> QED
    BY <2>1 DEF Following
<1>4. start \in SUBSET D
  BY <1>1 DEF Relaxed
<1>5. Visited(l, f, found) = Reach(next, start)
  BY DEF Visited, Following
<1>6. /\ start \subseteq Reach(next, start) /\ Reach(next, start) \subseteq D
      /\ \A x \in Reach(next, start) : next[x] \subseteq Reach(next, start)
  <2> HIDE DEF next, start, D
  <2> QED
    BY <1>2, <1>3, <1>4, ReachIsClosed
<1> HIDE DEF next
<1> QED
  BY <1>5, <1>6 DEF next

LEMMA VisitedTyped ==
  ASSUME NEW l, IsLibrary(l), NEW f \in DOMAIN l.code, NEW found \in Bodies(l), NEW s \in Visited(l, f, found)
  PROVE  s = <<s[1], s[2]>> /\ s[1] \in DOMAIN l.code[f] /\ s[2] \in SUBSET Full
<1>1. s \in (DOMAIN l.code[f]) \X SUBSET Full
  BY VisitedCloses
<1> QED
  BY <1>1

LEMMA VisitedOn ==
  ASSUME NEW l, IsLibrary(l), NEW f \in DOMAIN l.code, NEW found \in Bodies(l),
         NEW n, NEW e, <<n, e>> \in Visited(l, f, found),
         NEW m \in Places(l.code[f][n], n), m \in DOMAIN l.code[f],
         NEW x \in Passed(l, found, l.code[f][n], e)
  PROVE  <<m, x>> \in Visited(l, f, found)
<1> DEFINE N == DOMAIN l.code[f]
           body == l.code[f]
           all(s) == (Places(body[s[1]], s[1]) \cap N) \X Passed(l, found, body[s[1]], s[2])
           seen == Visited(l, f, found)
           here == <<n, e>>
<1>1. here \in seen /\ here \in N \X SUBSET Full
  BY VisitedCloses
<1>2. Following(l, f, found)[here] \subseteq seen
  <2> HIDE DEF here
  <2> QED
    BY <1>1, VisitedCloses
<1>3. Following(l, f, found)[here] = all(here)
  <2> HIDE DEF here
  <2> QED
    BY <1>1 DEF Following
<1>4. all(here) = (Places(body[n], n) \cap N) \X Passed(l, found, body[n], e)
  OBVIOUS
<1>5. <<m, x>> \in all(here)
  <2> HIDE DEF all
  <2> QED
    BY <1>4
<1> HIDE DEF all, seen, here
<1>6. <<m, x>> \in seen
  BY <1>2, <1>3, <1>5
<1> QED
  BY <1>6 DEF seen

LEMMA VisitedStarts ==
  ASSUME NEW l, IsLibrary(l), NEW f \in DOMAIN l.code, NEW found \in Bodies(l)
  PROVE  <<1, Relaxed>> \in Visited(l, f, found)
BY VisitedCloses

LEMMA WalkOneTyped ==
  ASSUME NEW l, IsLibrary(l), NEW f \in DOMAIN l.code, NEW found \in Bodies(l)
  PROVE  WalkOne(l, f, found) \in Results
<1> DEFINE body == l.code[f]
           seen == Visited(l, f, found)
           at(op) == {s \in seen : body[s[1]].op = op}
           after(s) == s[2] \cup Added(l, body[s[1]])
           through == UNION {{after(s) \cup r : r \in Callee(found, body[s[1]]).returns} : s \in at("tail")}
           returns == {after(s) : s \in at("return")} \cup through
           complete == /\ returns # {}
                       /\ \A s \in seen : /\ ~ Unclassified(l, body[s[1]])
                                          /\ Places(body[s[1]], s[1]) \subseteq DOMAIN body
                                          /\ Callee(found, body[s[1]]).complete
<1>1. WalkOne(l, f, found) = [returns |-> returns, complete |-> complete]
  BY DEF WalkOne
<1>2. ASSUME NEW s \in seen PROVE after(s) \in SUBSET Full
  <2>1. s[2] \in SUBSET Full
    BY VisitedTyped
  <2>2. Added(l, body[s[1]]) \in SUBSET Full
    BY AddedTyped
  <2> QED
    BY <2>1, <2>2
<1>3. ASSUME NEW s \in seen, NEW r \in Callee(found, body[s[1]]).returns PROVE r \in SUBSET Full
  BY CalleeTyped DEF Results
<1> HIDE DEF after, seen, body
<1>4. returns \subseteq SUBSET Full
  BY <1>2, <1>3
<1> HIDE DEF returns
<1>5. complete \in BOOLEAN
  BY Zenon
<1> HIDE DEF complete
<1> QED
  BY <1>1, <1>4, <1>5 DEF Results

\* What a walk may have found of the functions that its instructions lead to.
FoundAt(l, k, A) == [e \in DOMAIN l.code |-> Walks(l)[k][<<e, A>>]]
Founds(l) == {FoundAt(l, k, A) : k \in Nat, A \in SUBSET DOMAIN l.code}

\* A walk of one function is one of its instructions with what was found of the others.
LEMMA WalksIs ==
  ASSUME NEW l, IsLibrary(l)
  PROVE  /\ \A k \in Nat : \A w \in (DOMAIN l.code) \X SUBSET DOMAIN l.code : Walks(l)[k][w] \in Results
         /\ \A w \in (DOMAIN l.code) \X SUBSET DOMAIN l.code : Walks(l)[0][w] = CutOff
         /\ \A k \in Nat : \A g \in DOMAIN l.code, A \in SUBSET DOMAIN l.code :
              Walks(l)[k + 1][<<g, A>>] =
                IF g \in A THEN CutOff
                ELSE WalkOne(l, g, FoundAt(l, k, A \cup {g}))
<1> DEFINE F == DOMAIN l.code
           W == F \X SUBSET F
           V == [W -> Results]
           none == [w \in W |-> CutOff]
           others(u, w) == [g \in F |-> u[<<g, w[2] \cup {w[1]}>>]]
           one(u, w) == IF w[1] \in w[2] THEN CutOff ELSE WalkOne(l, w[1], others(u, w))
           more == [u \in V |-> [w \in W |-> one(u, w)]]
           upto == CHOOSE h : h = [k \in Nat |->
                     IF k = 0 THEN [w \in W |-> CutOff]
                     ELSE [w \in W |->
                            IF w[1] \in w[2] THEN CutOff
                            ELSE WalkOne(l, w[1], [g \in F |-> h[k - 1][<<g, w[2] \cup {w[1]}>>]])]]
<1>1. CutOff \in Results
  BY Zenon DEF CutOff, Results
<1>2. none \in V
  BY <1>1
<1>3. more \in [V -> V]
  <2>1. ASSUME NEW u \in V, NEW w \in W PROVE one(u, w) \in Results
    <3>1. w[1] \in F /\ \A g \in F : <<g, w[2] \cup {w[1]}>> \in W
      BY <2>1
    <3>2. others(u, w) \in Bodies(l)
      <4> HIDE DEF W
      <4> QED
        BY <2>1, <3>1 DEF Bodies
    <3> HIDE DEF others
    <3> QED
      BY <1>1, <3>1, <3>2, WalkOneTyped
  <2> HIDE DEF one, W
  <2> QED
    BY <2>1
<1>4. Walks(l) = upto
  BY DEF Walks
<1>5. PICK h \in [Nat -> V] : h[0] = none /\ \A k \in Nat : h[k + 1] = more[h[k]]
  <2> HIDE DEF V, none, more
  <2> QED
    BY <1>2, <1>3, RecursionExists, SMTT(60)
<1>6. h = [k \in Nat |->
             IF k = 0 THEN [w \in W |-> CutOff]
             ELSE [w \in W |->
                    IF w[1] \in w[2] THEN CutOff
                    ELSE WalkOne(l, w[1], [g \in F |-> h[k - 1][<<g, w[2] \cup {w[1]}>>]])]]
  <2>1. ASSUME NEW k \in Nat, k # 0 PROVE h[k] = [w \in W |-> one(h[k - 1], w)]
    <3>1. k - 1 \in Nat /\ (k - 1) + 1 = k
      BY <2>1
    <3>2. h[k - 1] \in V /\ h[k] = more[h[k - 1]]
      <4> HIDE DEF more, V
      <4> QED
        BY <1>5, <3>1
    <3> HIDE DEF one, V
    <3> QED
      BY <3>2
  <2>2. h[0] = [w \in W |-> CutOff]
    BY <1>5
  <2>3. h \in [Nat -> V]
    BY <1>5
  <2> HIDE DEF W, V
  <2> QED
    BY <2>1, <2>2, <2>3
<1>7. upto = [k \in Nat |->
             IF k = 0 THEN [w \in W |-> CutOff]
             ELSE [w \in W |->
                    IF w[1] \in w[2] THEN CutOff
                    ELSE WalkOne(l, w[1], [g \in F |-> upto[k - 1][<<g, w[2] \cup {w[1]}>>]])]]
  <2> HIDE DEF W, F
  <2> QED
    BY <1>6
<1> HIDE DEF upto
<1>8. upto[0] = none
  BY <1>7
<1>9. ASSUME NEW k \in Nat PROVE upto[k + 1] = [w \in W |-> one(upto[k], w)]
  <2>1. k + 1 \in Nat /\ k + 1 # 0 /\ (k + 1) - 1 = k
    OBVIOUS
  <2> HIDE DEF W
  <2>2. upto[k + 1] = [w \in W |->
                    IF w[1] \in w[2] THEN CutOff
                    ELSE WalkOne(l, w[1], [g \in F |-> upto[(k + 1) - 1][<<g, w[2] \cup {w[1]}>>]])]
    BY <1>7, <2>1
  <2> QED
    BY <2>1, <2>2
<1>10. \A k \in Nat : upto[k] \in V
  <2> DEFINE S == {k \in Nat : upto[k] \in V}
  <2> HIDE DEF V, W, one
  <2>1. 0 \in S
    BY <1>2, <1>8
  <2>2. ASSUME NEW k \in S PROVE k + 1 \in S
    <3>1. upto[k + 1] = [w \in W |-> one(upto[k], w)]
      BY <1>9
    <3>2. upto[k] \in V /\ more[upto[k]] = [w \in W |-> one(upto[k], w)]
      OBVIOUS
    <3>3. more[upto[k]] \in V
      <4> HIDE DEF more
      <4> QED
        BY <1>3, <3>2
    <3> HIDE DEF more
    <3> QED
      BY <3>1, <3>2, <3>3
  <2>3. S \in SUBSET Nat
    OBVIOUS
  <2> HIDE DEF S
  <2>4. S = Nat
    BY <2>1, <2>2, <2>3, NumbersInOrder
  <2> QED
    BY <2>4 DEF S
<1>11. \A k \in Nat : \A w \in W : upto[k][w] \in Results
  <2> HIDE DEF W
  <2> QED
    BY <1>10
<1>12. \A w \in W : upto[0][w] = CutOff
  BY <1>8
<1> DEFINE from(u, g, A) == [e \in F |-> u[<<e, A \cup {g}>>]]
<1>13. ASSUME NEW k \in Nat, NEW g \in F, NEW A \in SUBSET F
       PROVE  upto[k + 1][<<g, A>>] = IF g \in A THEN CutOff ELSE WalkOne(l, g, from(upto[k], g, A))
  <2> DEFINE w == <<g, A>>
  <2>1. w \in W /\ w[1] = g /\ w[2] = A
    OBVIOUS
  <2> HIDE DEF w, W
  <2>2. upto[k + 1][w] = one(upto[k], w)
    BY <1>9, <2>1
  <2>3. one(upto[k], w) = IF g \in A THEN CutOff ELSE WalkOne(l, g, from(upto[k], g, A))
    BY <2>1
  <2> HIDE DEF one, from
  <2> QED
    BY <2>2, <2>3 DEF w
<1>14. /\ \A k \in Nat : \A w \in W : Walks(l)[k][w] \in Results
       /\ \A w \in W : Walks(l)[0][w] = CutOff
  <2> HIDE DEF W
  <2> QED
    BY <1>4, <1>11, <1>12
<1> HIDE DEF from
<1>15. ASSUME NEW k \in Nat, NEW g \in F, NEW A \in SUBSET F
       PROVE  Walks(l)[k + 1][<<g, A>>] = IF g \in A THEN CutOff ELSE WalkOne(l, g, from(Walks(l)[k], g, A))
  BY <1>4, <1>13
<1>16. ASSUME NEW k \in Nat, NEW g \in F, NEW A \in SUBSET F
       PROVE  Walks(l)[k + 1][<<g, A>>] = IF g \in A THEN CutOff ELSE WalkOne(l, g, FoundAt(l, k, A \cup {g}))
  <2>1. from(Walks(l)[k], g, A) = FoundAt(l, k, A \cup {g})
    BY DEF from, FoundAt
  <2> QED
    BY <1>15, <2>1
<1> HIDE DEF W, F
<1> QED
  BY <1>14, <1>16, Zenon DEF W, F

LEMMA FoundsTyped ==
  ASSUME NEW l, IsLibrary(l), NEW found \in Founds(l)
  PROVE  found \in Bodies(l)
<1>1. PICK k \in Nat, A \in SUBSET DOMAIN l.code : found = FoundAt(l, k, A)
  BY DEF Founds
<1>2. \A e \in DOMAIN l.code : <<e, A>> \in (DOMAIN l.code) \X SUBSET DOMAIN l.code
  OBVIOUS
<1>3. \A e \in DOMAIN l.code : Walks(l)[k][<<e, A>>] \in Results
  BY <1>2, WalksIs
<1> QED
  BY <1>1, <1>3 DEF FoundAt, Bodies

\* A complete result is a walk, with what was found for it in turn.
LEMMA WalkUnfolds ==
  ASSUME NEW l, IsLibrary(l), NEW k \in Nat, NEW g \in DOMAIN l.code, NEW A \in SUBSET DOMAIN l.code,
         Walks(l)[k][<<g, A>>].complete
  PROVE  \E deeper \in Founds(l) : Walks(l)[k][<<g, A>>] = WalkOne(l, g, deeper)
<1> DEFINE w == <<g, A>>
<1>1. w \in (DOMAIN l.code) \X SUBSET DOMAIN l.code
  OBVIOUS
<1>2. CutOff.complete = FALSE
  BY DEF CutOff
<1>3. k # 0
  <2> HIDE DEF w
  <2>1. Walks(l)[0][w] = CutOff
    BY <1>1, WalksIs
  <2> QED
    BY <1>2, <2>1 DEF w
<1>4. k - 1 \in Nat /\ (k - 1) + 1 = k
  BY <1>3
<1> DEFINE j == k - 1
           deeper == FoundAt(l, j, A \cup {g})
<1>6. j \in Nat /\ j + 1 = k
  BY <1>4
<1> HIDE DEF deeper, j
<1>7. Walks(l)[j + 1][<<g, A>>] = IF g \in A THEN CutOff ELSE WalkOne(l, g, FoundAt(l, j, A \cup {g}))
  <2>1. \A m \in Nat : \A h \in DOMAIN l.code, B \in SUBSET DOMAIN l.code :
          Walks(l)[m + 1][<<h, B>>] = IF h \in B THEN CutOff ELSE WalkOne(l, h, FoundAt(l, m, B \cup {h}))
    BY WalksIs, Zenon
  <2> QED
    BY <1>6, <2>1
<1>8. Walks(l)[k][<<g, A>>] = IF g \in A THEN CutOff ELSE WalkOne(l, g, deeper)
  BY <1>6, <1>7 DEF deeper
<1>9. g \notin A
  BY <1>2, <1>8
<1>10. deeper \in Founds(l)
  BY <1>6 DEF deeper, Founds
<1> QED
  BY <1>8, <1>9, <1>10

LEMMA FoundUnfolds ==
  ASSUME NEW l, IsLibrary(l), NEW found \in Founds(l), NEW g \in DOMAIN l.code, found[g].complete
  PROVE  \E deeper \in Founds(l) : found[g] = WalkOne(l, g, deeper)
<1>1. PICK k \in Nat, A \in SUBSET DOMAIN l.code : found = FoundAt(l, k, A)
  BY DEF Founds
<1>2. found[g] = Walks(l)[k][<<g, A>>]
  BY <1>1 DEF FoundAt
<1> QED
  BY <1>2, WalkUnfolds

LEMMA WholeWalkUnfolds ==
  ASSUME NEW l, IsLibrary(l), NEW f \in DOMAIN l.code, Walk(l, f).complete
  PROVE  \E deeper \in Founds(l) : Walk(l, f) = WalkOne(l, f, deeper)
<1>1. Cardinality(DOMAIN l.code) \in Nat
  BY FS_CardinalityType DEF IsLibrary
<1>2. {} \in SUBSET DOMAIN l.code
  OBVIOUS
<1> QED
  BY <1>1, <1>2, WalkUnfolds DEF Walk

\* What a complete walk says of a state it came to.
LEMMA CompleteSays ==
  ASSUME NEW l, IsLibrary(l), NEW f \in DOMAIN l.code, NEW found \in Bodies(l),
         NEW n, NEW e, <<n, e>> \in Visited(l, f, found), WalkOne(l, f, found).complete
  PROVE  LET i == l.code[f][n]
             w == WalkOne(l, f, found)
         IN  /\ n \in DOMAIN l.code[f] /\ ~ Unclassified(l, i) /\ Places(i, n) \subseteq DOMAIN l.code[f]
             /\ Callee(found, i).complete
             /\ i.op = "return" => e \cup Added(l, i) \in w.returns
             /\ i.op = "tail" => \A r \in Callee(found, i).returns : (e \cup Added(l, i)) \cup r \in w.returns
<1> DEFINE body == l.code[f]
           seen == Visited(l, f, found)
           at(op) == {s \in seen : body[s[1]].op = op}
           after(s) == s[2] \cup Added(l, body[s[1]])
           behind(s) == {after(s) \cup r : r \in Callee(found, body[s[1]]).returns}
           returns == {after(s) : s \in at("return")} \cup UNION {behind(s) : s \in at("tail")}
           fine(s) == /\ ~ Unclassified(l, body[s[1]])
                      /\ Places(body[s[1]], s[1]) \subseteq DOMAIN body
                      /\ Callee(found, body[s[1]]).complete
           complete == returns # {} /\ \A s \in seen : fine(s)
           here == <<n, e>>
<1>1. WalkOne(l, f, found) = [returns |-> returns, complete |-> complete]
  BY DEF WalkOne
<1>2. WalkOne(l, f, found).returns = returns /\ WalkOne(l, f, found).complete = complete
  <2> HIDE DEF returns, complete
  <2> QED
    BY <1>1
<1>3. here \in seen /\ here[1] = n /\ here[2] = e
  OBVIOUS
<1>4. n \in DOMAIN body
  BY <1>3, VisitedTyped
<1>5. fine(here)
  <2> HIDE DEF fine, here, seen, returns
  <2> QED
    BY <1>2, <1>3
<1>6. body[n].op = "return" => after(here) \in returns
  <2> HIDE DEF after, behind, seen, here
  <2> QED
    BY <1>3
<1>7. body[n].op = "tail" => behind(here) \subseteq returns
  <2> HIDE DEF after, behind, seen, here
  <2> QED
    BY <1>3
<1>8. after(here) = e \cup Added(l, body[n]) /\ behind(here) = {(e \cup Added(l, body[n])) \cup r : r \in Callee(found, body[n]).returns}
  BY <1>3
<1>9. fine(here) = (/\ ~ Unclassified(l, body[n]) /\ Places(body[n], n) \subseteq DOMAIN body /\ Callee(found, body[n]).complete)
  BY <1>3
<1> HIDE DEF returns, complete, seen, after, behind, fine, here
<1> QED
  BY <1>2, <1>4, <1>5, <1>6, <1>7, <1>8, <1>9

(* A stack of frames: each is a place of a walk that is complete, whatever   *)
(* the frame above it returns with.  F has what was found for each frame, e  *)
(* what was collected in it before its call; the last frame is the API's.    *)

Frames(l) == (DOMAIN l.code) \X Nat

Enters(l, f, s, F, j, x) ==
  IF j <= Len(s) THEN <<s[j][2], x>> \in Visited(l, s[j][1], F[j]) ELSE x \in Walk(l, f).returns

Waits(l, f, s, F, e) ==
  \A i \in 1 .. Len(s) :
    /\ WalkOne(l, s[i][1], F[i]).complete
    /\ \A r \in WalkOne(l, s[i][1], F[i]).returns : Enters(l, f, s, F, i + 1, e[i + 1] \cup r)

\* s may go on with any of R collected in its first frame, and c in all.
MayGoOn(l, f, s, c, R) ==
  \E F \in [Nat -> Founds(l)], e \in [Nat -> SUBSET c] :
    Waits(l, f, s, F, e) /\ \A x \in R : Enters(l, f, s, F, 1, x)

LEMMA GoesOnMore ==
  ASSUME NEW l, NEW f, NEW s, NEW c, NEW c2, NEW R, NEW R2, c \subseteq c2, R2 \subseteq R,
         MayGoOn(l, f, s, c, R)
  PROVE  MayGoOn(l, f, s, c2, R2)
<1>1. PICK F \in [Nat -> Founds(l)], e \in [Nat -> SUBSET c] :
        Waits(l, f, s, F, e) /\ \A x \in R : Enters(l, f, s, F, 1, x)
  BY DEF MayGoOn
<1>2. e \in [Nat -> SUBSET c2]
  OBVIOUS
<1> QED
  BY <1>1, <1>2 DEF MayGoOn

LEMMA GoesOnAtEnd ==
  ASSUME NEW l, NEW f, NEW c, NEW a, MayGoOn(l, f, <<>>, c, {a})
  PROVE  a \in Walk(l, f).returns
<1>1. PICK F : Enters(l, f, <<>>, F, 1, a)
  BY DEF MayGoOn
<1> QED
  BY <1>1 DEF Enters

LEMMA GoesOnAtStart ==
  ASSUME NEW l, NEW f, NEW c, NEW D \in Founds(l)
  PROVE  MayGoOn(l, f, <<>>, c, Walk(l, f).returns)
<1> DEFINE F == [i \in Nat |-> D]
           e == [i \in Nat |-> {}]
<1>1. F \in [Nat -> Founds(l)] /\ e \in [Nat -> SUBSET c]
  OBVIOUS
<1>2. Waits(l, f, <<>>, F, e)
  BY DEF Waits
<1>3. \A x \in Walk(l, f).returns : Enters(l, f, <<>>, F, 1, x)
  BY DEF Enters
<1> HIDE DEF F, e
<1> QED
  BY <1>1, <1>2, <1>3 DEF MayGoOn

\* A frame on top of a stack that waits for what it returns.
LEMMA GoesOnPush ==
  ASSUME NEW l, NEW f, NEW s \in Seq(Frames(l)), NEW c, NEW x \in Frames(l), NEW D \in Founds(l),
         NEW b \in SUBSET c, NEW Q,
         WalkOne(l, x[1], D).complete, \A a \in Q : <<x[2], a>> \in Visited(l, x[1], D),
         MayGoOn(l, f, s, c, {b \cup r : r \in WalkOne(l, x[1], D).returns})
  PROVE  MayGoOn(l, f, <<x>> \o s, c, Q)
<1> DEFINE t == <<x>> \o s
           R == {b \cup r : r \in WalkOne(l, x[1], D).returns}
<1>1. PICK F \in [Nat -> Founds(l)], e \in [Nat -> SUBSET c] :
        Waits(l, f, s, F, e) /\ \A y \in R : Enters(l, f, s, F, 1, y)
  BY DEF MayGoOn
<1> DEFINE G == [i \in Nat |-> IF i <= 1 THEN D ELSE F[i - 1]]
           h == [i \in Nat |-> IF i <= 2 THEN b ELSE e[i - 1]]
<1>2. G \in [Nat -> Founds(l)] /\ G[1] = D /\ \A i \in Nat : i >= 2 => G[i] = F[i - 1]
  OBVIOUS
<1>3. h \in [Nat -> SUBSET c] /\ h[2] = b /\ \A i \in Nat : i >= 3 => h[i] = e[i - 1]
  OBVIOUS
<1>4. Len(s) \in Nat /\ Len(t) = Len(s) + 1 /\ t[1] = x /\ \A i \in 2 .. Len(t) : t[i] = s[i - 1]
  OBVIOUS
<1> HIDE DEF t, G, h, R
<1>5. ASSUME NEW j \in Nat, j >= 2, NEW y, Enters(l, f, s, F, j - 1, y) PROVE Enters(l, f, t, G, j, y)
  <2>1. CASE j <= Len(t)
    <3>1. j - 1 <= Len(s) /\ t[j] = s[j - 1] /\ G[j] = F[j - 1]
      BY <1>2, <1>4, <1>5, <2>1
    <3> QED
      BY <1>5, <2>1, <3>1 DEF Enters
  <2>2. CASE ~ j <= Len(t)
    <3>1. ~ j - 1 <= Len(s)
      BY <1>4, <2>2
    <3> QED
      BY <1>5, <2>2, <3>1 DEF Enters
  <2> QED
    BY <2>1, <2>2
<1>6. ASSUME NEW i \in 1 .. Len(t)
      PROVE  /\ WalkOne(l, t[i][1], G[i]).complete
             /\ \A r \in WalkOne(l, t[i][1], G[i]).returns : Enters(l, f, t, G, i + 1, h[i + 1] \cup r)
  <2>1. CASE i = 1
    <3>1. t[i] = x /\ G[i] = D /\ h[i + 1] = b
      BY <1>2, <1>3, <1>4, <2>1
    <3>2. ASSUME NEW r \in WalkOne(l, x[1], D).returns PROVE Enters(l, f, t, G, i + 1, b \cup r)
      <4>1. Enters(l, f, s, F, 1, b \cup r)
        BY <1>1 DEF R
      <4>2. i + 1 \in Nat /\ i + 1 >= 2 /\ (i + 1) - 1 = 1
        BY <2>1
      <4> QED
        BY <1>5, <4>1, <4>2
    <3> QED
      BY <3>1, <3>2
  <2>2. CASE i # 1
    <3> DEFINE k == i - 1
    <3>6. i \in 2 .. Len(t) /\ i \in Nat /\ i # 1
      BY <1>4, <1>6, <2>2
    <3>7. k \in 1 .. Len(s) /\ i = k + 1
      BY <1>4, <3>6
    <3>8. t[i] = s[k]
      BY <1>4, <3>6
    <3>9. G[i] = F[k]
      BY <1>2, <3>6
    <3>1. k \in 1 .. Len(s) /\ t[i] = s[k] /\ G[i] = F[k] /\ i = k + 1
      BY <3>7, <3>8, <3>9
    <3>2. h[i + 1] = e[k + 1]
      BY <1>3, <3>1, <2>2
    <3> HIDE DEF k
    <3>3. /\ WalkOne(l, s[k][1], F[k]).complete
          /\ \A r \in WalkOne(l, s[k][1], F[k]).returns : Enters(l, f, s, F, k + 1, e[k + 1] \cup r)
      BY <1>1, <3>1 DEF Waits
    <3>4. i + 1 \in Nat /\ i + 1 >= 2 /\ (i + 1) - 1 = k + 1
      BY <3>1
    <3>5. ASSUME NEW r \in WalkOne(l, s[k][1], F[k]).returns PROVE Enters(l, f, t, G, i + 1, e[k + 1] \cup r)
      <4>1. Enters(l, f, s, F, k + 1, e[k + 1] \cup r)
        BY <3>3
      <4> QED
        BY <1>5, <3>4, <4>1
    <3> QED
      BY <3>1, <3>2, <3>3, <3>5
  <2> QED
    BY <2>1, <2>2
<1>7. Waits(l, f, t, G, h)
  BY <1>6 DEF Waits
<1>8. \A y \in Q : Enters(l, f, t, G, 1, y)
  BY <1>2, <1>4 DEF Enters
<1>9. MayGoOn(l, f, t, c, Q)
  BY <1>2, <1>3, <1>7, <1>8 DEF MayGoOn
<1> QED
  BY <1>9 DEF t

\* The first frame of a stack, and the rest, which waits for what it returns.
TopIs(l, f, t, c, a, D, b) ==
  /\ WalkOne(l, t[1][1], D).complete /\ <<t[1][2], a>> \in Visited(l, t[1][1], D)
  /\ MayGoOn(l, f, Tail(t), c, {b \cup r : r \in WalkOne(l, t[1][1], D).returns})

LEMMA GoesOnPop ==
  ASSUME NEW l, NEW f, NEW t \in Seq(Frames(l)), t # <<>>, NEW c, NEW a, MayGoOn(l, f, t, c, {a})
  PROVE  \E D \in Founds(l), b \in SUBSET c : TopIs(l, f, t, c, a, D, b)
<1> DEFINE s == Tail(t)
<1>1. PICK F \in [Nat -> Founds(l)], e \in [Nat -> SUBSET c] :
        Waits(l, f, t, F, e) /\ \A y \in {a} : Enters(l, f, t, F, 1, y)
  BY DEF MayGoOn
<1> DEFINE D == F[1]
           b == e[2]
           R == {b \cup r : r \in WalkOne(l, t[1][1], D).returns}
           G == [i \in Nat |-> F[i + 1]]
           h == [i \in Nat |-> e[i + 1]]
<1>2. G \in [Nat -> Founds(l)] /\ \A i \in Nat : G[i] = F[i + 1]
  OBVIOUS
<1>3. h \in [Nat -> SUBSET c] /\ \A i \in Nat : h[i] = e[i + 1]
  OBVIOUS
<1>4. Len(s) \in Nat /\ Len(t) = Len(s) + 1 /\ \A i \in 1 .. Len(s) : s[i] = t[i + 1]
  OBVIOUS
<1>5. D \in Founds(l) /\ b \in SUBSET c
  OBVIOUS
<1> HIDE DEF s, G, h
<1>6. ASSUME NEW j \in Nat, j >= 1, NEW y, Enters(l, f, t, F, j + 1, y) PROVE Enters(l, f, s, G, j, y)
  <2>1. CASE j <= Len(s)
    <3>1. j + 1 <= Len(t) /\ s[j] = t[j + 1] /\ G[j] = F[j + 1]
      BY <1>2, <1>4, <1>6, <2>1
    <3> QED
      BY <1>6, <2>1, <3>1 DEF Enters
  <2>2. CASE ~ j <= Len(s)
    <3>1. ~ j + 1 <= Len(t)
      BY <1>4, <2>2
    <3> QED
      BY <1>6, <2>2, <3>1 DEF Enters
  <2> QED
    BY <2>1, <2>2
<1>7. ASSUME NEW i \in 1 .. Len(s)
      PROVE  /\ WalkOne(l, s[i][1], G[i]).complete
             /\ \A r \in WalkOne(l, s[i][1], G[i]).returns : Enters(l, f, s, G, i + 1, h[i + 1] \cup r)
  <2> DEFINE k == i + 1
  <2>1. k \in 1 .. Len(t) /\ k \in Nat /\ k >= 1 /\ s[i] = t[k] /\ G[i] = F[k]
    BY <1>2, <1>4
  <2>2. h[k] = e[k + 1]
    BY <1>3, <2>1
  <2>3. k = i + 1
    OBVIOUS
  <2> HIDE DEF k
  <2>4. /\ WalkOne(l, t[k][1], F[k]).complete
        /\ \A r \in WalkOne(l, t[k][1], F[k]).returns : Enters(l, f, t, F, k + 1, e[k + 1] \cup r)
    BY <1>1, <2>1 DEF Waits
  <2>5. ASSUME NEW r \in WalkOne(l, t[k][1], F[k]).returns PROVE Enters(l, f, s, G, k, e[k + 1] \cup r)
    BY <1>6, <2>1, <2>4
  <2> QED
    BY <2>1, <2>2, <2>3, <2>4, <2>5
<1>8. Waits(l, f, s, G, h)
  BY <1>7 DEF Waits
<1>9. 1 \in 1 .. Len(t) /\ 1 + 1 = 2
  BY <1>4
<1>10. WalkOne(l, t[1][1], D).complete /\ \A r \in WalkOne(l, t[1][1], D).returns : Enters(l, f, t, F, 2, b \cup r)
  BY <1>1, <1>9 DEF Waits
<1>11. <<t[1][2], a>> \in Visited(l, t[1][1], D)
  BY <1>1, <1>9 DEF Enters
<1>12. \A y \in R : Enters(l, f, s, G, 1, y)
  <2>1. \A r \in WalkOne(l, t[1][1], D).returns : Enters(l, f, s, G, 1, b \cup r)
    <3> HIDE DEF b, D
    <3> QED
      BY <1>6, <1>9, <1>10
  <2> QED
    BY <2>1
<1>13. MayGoOn(l, f, s, c, R)
  <2> HIDE DEF R
  <2> QED
    BY <1>2, <1>3, <1>8, <1>12 DEF MayGoOn
<1>14. TopIs(l, f, t, c, a, D, b)
  BY <1>10, <1>11, <1>13 DEF s, TopIs
<1> HIDE DEF D, b
<1> QED
  BY <1>5, <1>14

\* The instruction at the top of a stack, and what the walk it is in says of it.
TopSays(l, f, t, d, a, i, D, b) ==
  LET w == WalkOne(l, t[1][1], D)
      after == a \cup Added(l, i)
  IN  /\ TopIs(l, f, t, d, a, D, b)
      /\ ~ Unclassified(l, i) /\ Places(i, t[1][2]) \subseteq DOMAIN l.code[t[1][1]]
      /\ Callee(D, i).complete
      /\ i.op = "return" => after \in w.returns
      /\ i.op = "tail" => \A r \in Callee(D, i).returns : after \cup r \in w.returns

IsAt(l, t, i) == i = l.code[t[1][1]][t[1][2]]
Gets(l, c, i, d) == d = c \cup Added(l, i)

LEMMA TopOfStack ==
  ASSUME NEW l, IsLibrary(l), NEW f, NEW t \in Seq(Frames(l)), t # <<>>, NEW c, NEW a,
         MayGoOn(l, f, t, c, {a}), NEW i, IsAt(l, t, i), NEW d, Gets(l, c, i, d)
  PROVE  \E D \in Founds(l), b \in SUBSET d : TopSays(l, f, t, d, a, i, D, b)
<1> DEFINE g == t[1][1]
           n == t[1][2]
<1>1. PICK D \in Founds(l), b \in SUBSET c : TopIs(l, f, t, c, a, D, b)
  BY GoesOnPop
<1>2. g \in DOMAIN l.code
  BY DEF Frames
<1>3. D \in Bodies(l)
  BY FoundsTyped
<1>4. i = l.code[g][n]
  BY DEF IsAt
<1>5. c \subseteq d /\ b \in SUBSET d
  BY DEF Gets
<1>6. /\ WalkOne(l, g, D).complete /\ <<n, a>> \in Visited(l, g, D)
      /\ MayGoOn(l, f, Tail(t), c, {b \cup r : r \in WalkOne(l, g, D).returns})
  BY <1>1 DEF TopIs
<1> DEFINE R == {b \cup r : r \in WalkOne(l, g, D).returns}
<1>7. MayGoOn(l, f, Tail(t), d, R)
  <2> HIDE DEF R
  <2>1. MayGoOn(l, f, Tail(t), c, R)
    BY <1>6 DEF R
  <2> QED
    BY <1>5, <2>1, GoesOnMore
<1>8. TopIs(l, f, t, d, a, D, b)
  BY <1>6, <1>7 DEF TopIs
<1> HIDE DEF g, n
<1>9. LET j == l.code[g][n]
          w == WalkOne(l, g, D)
      IN  /\ n \in DOMAIN l.code[g] /\ ~ Unclassified(l, j) /\ Places(j, n) \subseteq DOMAIN l.code[g]
          /\ Callee(D, j).complete
          /\ j.op = "return" => a \cup Added(l, j) \in w.returns
          /\ j.op = "tail" => \A r \in Callee(D, j).returns : (a \cup Added(l, j)) \cup r \in w.returns
  BY <1>2, <1>3, <1>6, CompleteSays
<1>10. TopSays(l, f, t, d, a, i, D, b)
  BY <1>4, <1>8, <1>9 DEF TopSays, g, n
<1> QED
  BY <1>5, <1>10

\* Where the instruction leads, for one that a complete walk may contain.
Leads(l, t, i) ==
  LET g == t[1][1]
      n == t[1][2]
      on(m) == <<<<g, m>>>> \o Tail(t)
  IN  CASE i.op = "return" -> {Tail(t)}
        [] i.op = "call" -> {<<<<i.to, 1>>>> \o on(n + 1)}
        [] i.op = "tail" -> {<<<<i.to, 1>>>> \o Tail(t)}
        [] OTHER -> {on(m) : m \in Places(i, n)}

LEMMA StackGoesOn ==
  ASSUME NEW l, IsLibrary(l), NEW f, NEW t \in Seq(Frames(l)), t # <<>>, NEW c, NEW a \in SUBSET c,
         MayGoOn(l, f, t, c, {a}), NEW i, IsAt(l, t, i), NEW d, Gets(l, c, i, d),
         NEW t2 \in Leads(l, t, i)
  PROVE  t2 \in Seq(Frames(l)) /\ \E a2 \in SUBSET d : MayGoOn(l, f, t2, d, {a2})
<1>1. PICK D \in Founds(l), b \in SUBSET d : TopSays(l, f, t, d, a, i, D, b)
  BY TopOfStack
<1> DEFINE g == t[1][1]
           n == t[1][2]
           after == a \cup Added(l, i)
           s == Tail(t)
           on(m) == <<<<g, m>>>> \o s
<1>2. /\ WalkOne(l, g, D).complete /\ <<n, a>> \in Visited(l, g, D)
       /\ MayGoOn(l, f, s, d, {b \cup r : r \in WalkOne(l, g, D).returns})
  BY <1>1 DEF TopSays, TopIs
<1>3. LET w == WalkOne(l, g, D)
      IN  /\ w.complete /\ <<n, a>> \in Visited(l, g, D)
          /\ ~ Unclassified(l, i) /\ Places(i, n) \subseteq DOMAIN l.code[g]
          /\ Callee(D, i).complete
          /\ i.op = "return" => after \in w.returns
          /\ i.op = "tail" => \A r \in Callee(D, i).returns : after \cup r \in w.returns
  BY <1>1, <1>2 DEF TopSays
<1>4. g \in DOMAIN l.code /\ n \in Nat /\ s \in Seq(Frames(l))
  BY DEF Frames
<1>5. D \in Bodies(l) /\ DOMAIN D = DOMAIN l.code
  BY FoundsTyped DEF Bodies
<1>6. i = l.code[g][n] /\ after \in SUBSET d
  BY DEF IsAt, Gets
<1>7. t2 \in CASE i.op = "return" -> {s}
               [] i.op = "call" -> {<<<<i.to, 1>>>> \o on(n + 1)}
               [] i.op = "tail" -> {<<<<i.to, 1>>>> \o s}
               [] OTHER -> {on(m) : m \in Places(i, n)}
  BY DEF Leads
<1> HIDE DEF g, n, after, s
<1>8. \A m \in DOMAIN l.code[g] : m \in Nat /\ <<g, m>> \in Frames(l)
  BY <1>4 DEF Frames, IsLibrary
<1>9. ASSUME NEW m \in Places(i, n), NEW x \in Passed(l, D, i, a) PROVE <<m, x>> \in Visited(l, g, D)
  BY <1>3, <1>4, <1>5, <1>6, VisitedOn
<1>10. MayGoOn(l, f, s, d, {b \cup r : r \in WalkOne(l, g, D).returns}) /\ WalkOne(l, g, D).complete
  BY <1>2
<1>11. CASE i.op = "return"
  <2>1. t2 = s
    BY <1>7, <1>11
  <2>2. b \cup after \in {b \cup r : r \in WalkOne(l, g, D).returns}
    BY <1>3, <1>11
  <2>3. MayGoOn(l, f, s, d, {b \cup after})
    BY <1>10, <2>2, GoesOnMore
  <2>4. b \cup after \in SUBSET d
    BY <1>6
  <2> QED
    BY <1>4, <2>1, <2>3, <2>4
<1>12. ASSUME i.op \in {"call", "tail"}
       PROVE  /\ i.to \in DOMAIN l.code /\ <<i.to, 1>> \in Frames(l)
              /\ \E E \in Founds(l) : /\ Callee(D, i) = WalkOne(l, i.to, E) /\ WalkOne(l, i.to, E).complete
                                      /\ <<1, Relaxed>> \in Visited(l, i.to, E)
  <2>1. i.to \in DOMAIN l.code
    BY <1>3, <1>12 DEF Unclassified
  <2>2. Callee(D, i) = D[i.to] /\ D[i.to].complete
    BY <1>3, <1>5, <1>12, <2>1 DEF Callee
  <2>3. PICK E \in Founds(l) : D[i.to] = WalkOne(l, i.to, E)
    <3> DEFINE h == i.to
    <3> HIDE DEF h
    <3>1. h \in DOMAIN l.code /\ D[h].complete
      BY <2>1, <2>2 DEF h
    <3>2. \E E \in Founds(l) : D[h] = WalkOne(l, h, E)
      BY <3>1, FoundUnfolds
    <3> QED
      BY <3>2 DEF h
  <2>4. <<1, Relaxed>> \in Visited(l, i.to, E)
    BY <2>1, FoundsTyped, VisitedStarts
  <2> QED
    BY <2>1, <2>2, <2>3, <2>4 DEF Frames
<1>13. Relaxed \in SUBSET d
  BY DEF Relaxed
<1>14. CASE i.op = "call"
  <2>1. t2 = <<<<i.to, 1>>>> \o on(n + 1)
    BY <1>7, <1>14
  <2>2. PICK E \in Founds(l) : /\ Callee(D, i) = WalkOne(l, i.to, E) /\ WalkOne(l, i.to, E).complete
                               /\ <<1, Relaxed>> \in Visited(l, i.to, E)
    BY <1>12, <1>14
  <2>3. n + 1 \in Places(i, n)
    BY <1>14 DEF Places, Ends
  <2>4. <<g, n + 1>> \in Frames(l)
    BY <1>3, <1>8, <2>3
  <2> DEFINE ways == WalkOne(l, i.to, E).returns
             Q == {after \cup r : r \in ways}
  <2>5. \A x \in Q : x \in Passed(l, D, i, a)
    BY <1>14, <2>2 DEF Passed, after
  <2>6. \A x \in Q : <<n + 1, x>> \in Visited(l, g, D)
    <3> HIDE DEF Q
    <3> QED
      BY <1>9, <2>3, <2>5
  <2> DEFINE y == <<g, n + 1>>
             z == <<i.to, 1>>
             s2 == <<y>> \o s
  <2>7. y \in Frames(l) /\ y[1] = g /\ y[2] = n + 1 /\ s2 = on(n + 1)
    BY <2>4
  <2>8. z \in Frames(l) /\ z[1] = i.to /\ z[2] = 1
    BY <1>12, <1>14
  <2> HIDE DEF y, z
  <2>9. s2 \in Seq(Frames(l))
    BY <1>4, <2>7
  <2>10. MayGoOn(l, f, s2, d, Q)
    <3> HIDE DEF Q
    <3> QED
      BY <1>4, <1>10, <2>6, <2>7, GoesOnPush
  <2> HIDE DEF s2
  <2>11. MayGoOn(l, f, <<z>> \o s2, d, {Relaxed})
    <3>1. \A x \in {Relaxed} : <<z[2], x>> \in Visited(l, z[1], E)
      BY <2>2, <2>8
    <3>2. WalkOne(l, z[1], E).complete /\ MayGoOn(l, f, s2, d, {after \cup r : r \in WalkOne(l, z[1], E).returns})
      BY <2>2, <2>8, <2>10
    <3> QED
      BY <1>6, <2>8, <2>9, <3>1, <3>2, GoesOnPush
  <2>12. t2 = <<z>> \o s2
    BY <2>1, <2>7 DEF z
  <2>13. <<z>> \o s2 \in Seq(Frames(l))
    BY <2>8, <2>9
  <2> QED
    BY <1>13, <2>11, <2>12, <2>13
<1>15. CASE i.op = "tail"
  <2>1. t2 = <<<<i.to, 1>>>> \o s
    BY <1>7, <1>15
  <2>2. PICK E \in Founds(l) : /\ Callee(D, i) = WalkOne(l, i.to, E) /\ WalkOne(l, i.to, E).complete
                               /\ <<1, Relaxed>> \in Visited(l, i.to, E)
    BY <1>12, <1>15
  <2> DEFINE z == <<i.to, 1>>
             b2 == b \cup after
             Q == {b2 \cup r : r \in WalkOne(l, z[1], E).returns}
  <2>3. z \in Frames(l) /\ z[1] = i.to /\ z[2] = 1
    BY <1>12, <1>15
  <2>4. b2 \in SUBSET d
    BY <1>6
  <2> HIDE DEF z
  <2>5. Q \subseteq {b \cup r : r \in WalkOne(l, g, D).returns}
    <3>1. ASSUME NEW r \in WalkOne(l, z[1], E).returns PROVE b2 \cup r \in {b \cup q : q \in WalkOne(l, g, D).returns}
      <4>1. after \cup r \in WalkOne(l, g, D).returns
        BY <1>3, <1>15, <2>2, <2>3
      <4>2. b2 \cup r = b \cup (after \cup r)
        OBVIOUS
      <4> QED
        BY <4>1, <4>2
    <3> QED
      BY <3>1
  <2>6. MayGoOn(l, f, s, d, Q)
    <3> HIDE DEF Q
    <3> QED
      BY <1>10, <2>5, GoesOnMore
  <2> HIDE DEF b2
  <2>7. MayGoOn(l, f, <<z>> \o s, d, {Relaxed})
    <3>1. \A x \in {Relaxed} : <<z[2], x>> \in Visited(l, z[1], E)
      BY <2>2, <2>3
    <3>2. WalkOne(l, z[1], E).complete
      BY <2>2, <2>3
    <3> QED
      BY <1>4, <2>3, <2>4, <2>6, <3>1, <3>2, GoesOnPush
  <2>8. t2 = <<z>> \o s
    BY <2>1 DEF z
  <2>9. <<z>> \o s \in Seq(Frames(l))
    BY <1>4, <2>3
  <2> QED
    BY <1>13, <2>7, <2>8, <2>9
<1>16. CASE i.op \notin {"return", "call", "tail"}
  <2>1. PICK m \in Places(i, n) : t2 = on(m)
    BY <1>7, <1>16
  <2>2. m \in DOMAIN l.code[g]
    BY <1>3
  <2> DEFINE x == <<g, m>>
  <2>3. x \in Frames(l) /\ x[1] = g /\ x[2] = m
    BY <1>8, <2>2
  <2>4. Passed(l, D, i, a) = {after}
    BY <1>16 DEF Passed, after
  <2>5. <<m, after>> \in Visited(l, g, D)
    BY <1>9, <2>4
  <2> HIDE DEF x
  <2>6. \A y \in {after} : <<x[2], y>> \in Visited(l, x[1], D)
    BY <2>3, <2>5
  <2>7. MayGoOn(l, f, <<x>> \o s, d, {after})
    BY <1>4, <1>10, <2>3, <2>6, GoesOnPush
  <2>8. t2 = <<x>> \o s /\ <<x>> \o s \in Seq(Frames(l))
    BY <1>4, <2>1, <2>3 DEF x
  <2> QED
    BY <1>6, <2>7, <2>8
<1> QED
  BY <1>11, <1>14, <1>15, <1>16

\* An API that counts as an ordering orders what every walk of its versions met.
LEMMA ProvidedIsMet ==
  ASSUME NEW l, IsLibrary(l), Provided(l) # Unknown, NEW f \in l.versions, ~ SummaryOf(l, f).overridden
  PROVE  Walk(l, f).complete /\ Provided(l) = Meet(Walk(l, f).returns)
<1> DEFINE summaries == {SummaryOf(l, g) : g \in l.versions}
           targets == {s.target : s \in summaries}
           mine == SummaryOf(l, f)
           all == \A s \in summaries : s.complete /\ Covers(s.target, l.required)
<1>1. Provided(l) = IF summaries # {} /\ all /\ Cardinality(targets) = 1
                      THEN CHOOSE t \in targets : TRUE ELSE Unknown
  BY DEF Provided
<1>2. mine \in summaries /\ mine.target \in targets
  <2>1. mine \in summaries
    OBVIOUS
  <2> HIDE DEF mine, summaries
  <2> QED
    BY <2>1
<1> DEFINE w == Walk(l, f)
           overridden == /\ l.trust # "none" /\ Evidence(l, f)
                         /\ (~ w.complete \/ ~ Covers(Meet(w.returns), l.required))
                         /\ Covers(l.trusted, l.required)
<1>3. mine = [complete |-> w.complete \/ overridden,
              target |-> IF overridden THEN l.trusted ELSE Meet(w.returns),
              overridden |-> overridden]
  BY DEF SummaryOf
<1>4. mine.overridden = overridden /\ mine.complete = (w.complete \/ overridden)
      /\ mine.target = IF overridden THEN l.trusted ELSE Meet(w.returns)
  <2> HIDE DEF mine, overridden, w
  <2> QED
    BY <1>3
<1>5. IsFiniteSet(targets)
  <2>1. IsFiniteSet(l.versions)
    BY FS_Subset DEF IsLibrary
  <2> DEFINE h == [g \in l.versions |-> SummaryOf(l, g).target]
  <2>2. targets = {SummaryOf(l, g).target : g \in l.versions}
    OBVIOUS
  <2>3. h \in Surjection(l.versions, targets)
    <3>1. h \in [l.versions -> targets] /\ \A y \in targets : \E g \in l.versions : h[g] = y
      BY <2>2
    <3> HIDE DEF h, targets
    <3> QED
      BY <3>1 DEF Surjection
  <2> HIDE DEF h, targets
  <2> QED
    BY <2>1, <2>3, FS_Surjection
<1> HIDE DEF summaries, targets, mine, overridden, w, all
<1>6. all /\ Cardinality(targets) = 1 /\ Provided(l) = CHOOSE t \in targets : TRUE
  BY <1>1
<1>7. PICK x : targets = {x}
  BY <1>5, <1>6, FS_Singleton
<1>8. Provided(l) = mine.target
  BY <1>2, <1>6, <1>7
<1>9. mine.complete
  BY <1>2, <1>6 DEF all
<1>10. ~ overridden
  BY <1>4 DEF mine
<1> QED
  BY <1>4, <1>8, <1>9, <1>10 DEF w

RouteTyped ==
  /\ \E k \in Cases : lib = k[2]
  /\ collected \in SUBSET Full
  /\ provided \in {Unknown, Provided(lib)}

\* A trial of a function whose walk is complete is in states of complete walks.
TrialIsWalked ==
  stage = "trial" =>
    \E f \in lib.versions :
      Walk(lib, f).complete =>
        /\ trial \in Seq(Frames(lib))
        /\ \E a \in SUBSET collected : MayGoOn(lib, f, trial, collected, {a})

LEMMA RouteTypedKept ==
  ASSUME RouteTyped, [RouteNext]_routeVars
  PROVE  RouteTyped'
<1>1. IsLibrary(lib)
  BY LibrariesAreRecovered DEF RouteTyped
<1>2. lib' = lib
  BY DEF RouteNext, RecoverLibrary, Try, TrialStep, library, routeVars
<1>3. CASE RecoverLibrary
  BY <1>2, <1>3 DEF RecoverLibrary, RouteTyped
<1>4. CASE Try
  BY <1>2, <1>4 DEF Try, RouteTyped
<1>5. CASE TrialStep
  <2>1. Added(lib, Executed) \in SUBSET Full
    BY <1>1, AddedTyped
  <2>2. collected' = collected \cup Added(lib, Executed) /\ provided' = provided
    BY <1>5 DEF TrialStep
  <2> HIDE DEF Executed
  <2> QED
    BY <1>2, <2>1, <2>2 DEF RouteTyped
<1>6. CASE UNCHANGED library
  BY <1>6 DEF library, RouteTyped
<1> QED
  BY <1>3, <1>4, <1>5, <1>6 DEF RouteNext, routeVars

LEMMA TrialStarts ==
  ASSUME RouteTyped, Try
  PROVE  TrialIsWalked'
<1>1. IsLibrary(lib)
  BY LibrariesAreRecovered DEF RouteTyped
<1>2. PICK f \in lib.versions : trial' = <<<<f, 1>>>>
  BY DEF Try
<1>3. lib' = lib /\ collected' = collected
  BY DEF Try
<1>4. f \in DOMAIN lib.code
  BY <1>1 DEF IsLibrary
<1> DEFINE x == <<f, 1>>
           R == {{} \cup r : r \in Walk(lib, f).returns}
<1>5. x \in Frames(lib) /\ x[1] = f /\ x[2] = 1 /\ <<x>> \o <<>> = <<x>> /\ <<x>> \in Seq(Frames(lib))
  BY <1>4 DEF Frames
<1>6. ASSUME Walk(lib, f).complete
      PROVE  \E a \in SUBSET collected : MayGoOn(lib, f, <<x>>, collected, {a})
  <2>1. PICK D \in Founds(lib) : Walk(lib, f) = WalkOne(lib, f, D)
    BY <1>1, <1>4, <1>6, WholeWalkUnfolds
  <2>2. <<1, Relaxed>> \in Visited(lib, f, D)
    BY <1>1, <1>4, FoundsTyped, VisitedStarts
  <2> HIDE DEF x
  <2>3. MayGoOn(lib, f, <<>>, collected, R)
    <3>1. R \subseteq Walk(lib, f).returns
      OBVIOUS
    <3>2. MayGoOn(lib, f, <<>>, collected, Walk(lib, f).returns)
      BY GoesOnAtStart
    <3> HIDE DEF R
    <3> QED
      BY <3>1, <3>2, GoesOnMore
  <2>4. MayGoOn(lib, f, <<>>, collected, {{} \cup r : r \in WalkOne(lib, x[1], D).returns})
    BY <1>5, <2>1, <2>3
  <2>5. WalkOne(lib, x[1], D).complete /\ \A a \in {Relaxed} : <<x[2], a>> \in Visited(lib, x[1], D)
    BY <1>5, <1>6, <2>1, <2>2
  <2>6. {} \in SUBSET collected /\ <<>> \in Seq(Frames(lib))
    OBVIOUS
  <2>7. MayGoOn(lib, f, <<x>> \o <<>>, collected, {Relaxed})
    BY <1>5, <2>4, <2>5, <2>6, GoesOnPush
  <2> QED
    BY <1>5, <2>7 DEF Relaxed
<1>7. Walk(lib, f).complete =>
        <<x>> \in Seq(Frames(lib)) /\ \E a \in SUBSET collected : MayGoOn(lib, f, <<x>>, collected, {a})
  BY <1>5, <1>6
<1>8. trial' = <<x>>
  BY <1>2
<1> HIDE DEF x
<1> QED
  BY <1>3, <1>7, <1>8 DEF TrialIsWalked

LEMMA TrialGoesOn ==
  ASSUME RouteTyped, TrialIsWalked, TrialStep
  PROVE  TrialIsWalked'
<1>1. IsLibrary(lib)
  BY LibrariesAreRecovered DEF RouteTyped
<1>2. /\ stage = "trial" /\ trial # <<>> /\ lib' = lib
      /\ collected' = collected \cup Added(lib, Executed) /\ trial' \in Continued
  BY DEF TrialStep
<1>3. PICK f \in lib.versions :
        Walk(lib, f).complete =>
          /\ trial \in Seq(Frames(lib))
          /\ \E a \in SUBSET collected : MayGoOn(lib, f, trial, collected, {a})
  BY <1>2 DEF TrialIsWalked
<1>4. ASSUME Walk(lib, f).complete
      PROVE  /\ trial' \in Seq(Frames(lib))
             /\ \E a \in SUBSET (collected') : MayGoOn(lib, f, trial', collected', {a})
  <2>1. PICK a \in SUBSET collected : MayGoOn(lib, f, trial, collected, {a})
    BY <1>3, <1>4
  <2>2. trial \in Seq(Frames(lib))
    BY <1>3, <1>4
  <2> DEFINE i == lib.code[trial[1][1]][trial[1][2]]
             d == collected \cup Added(lib, i)
  <2>3. Head(trial) = trial[1]
    BY <1>2, <2>2
  <2>4. Executed = i /\ Top[1] = trial[1][1] /\ Top[2] = trial[1][2]
    BY <2>3 DEF Executed, Top
  <2>5. IsAt(lib, trial, i) /\ Gets(lib, collected, i, d)
    BY DEF IsAt, Gets
  <2>6. Continued \subseteq Leads(lib, trial, i)
    <3> DEFINE e == Executed
               g == trial[1][1]
               n == trial[1][2]
    <3>1. PICK D \in Founds(lib), b \in SUBSET d : TopSays(lib, f, trial, d, a, i, D, b)
      <4> HIDE DEF i, d
      <4> QED
        BY <1>1, <1>2, <2>1, <2>2, <2>5, TopOfStack
    <3>2. ~ Unclassified(lib, i)
      BY <3>1 DEF TopSays
    <3> HIDE DEF i
    <3>3. /\ i.op \notin {"icall", "ijump", "tailif"}
          /\ i.op \in {"call", "tail"} => i.to \in DOMAIN lib.code
      BY <3>2 DEF Unclassified
    <3> DEFINE s == Tail(trial)
               past == <<<<g, n + 1>>>> \o s
               into == IF i.to \in DOMAIN lib.code THEN <<<<i.to, 1>>>> ELSE <<>>
               there == <<<<g, i.to>>>> \o s
               on(m) == <<<<g, m>>>> \o s
    <3>4. Continued = CASE i.op = "return" -> {s}
                        [] i.op \in {"call", "icall"} -> {into \o past}
                        [] i.op \in {"tail", "ijump"} -> {into \o s}
                        [] i.op = "tailif" -> {into \o s, past}
                        [] i.op = "goto" -> {there}
                        [] i.op = "jump" -> {there, past}
                        [] OTHER -> {past}
      BY <2>4 DEF Continued
    <3>5. Leads(lib, trial, i) = CASE i.op = "return" -> {s}
                                   [] i.op = "call" -> {<<<<i.to, 1>>>> \o past}
                                   [] i.op = "tail" -> {<<<<i.to, 1>>>> \o s}
                                   [] OTHER -> {on(m) : m \in Places(i, n)}
      BY DEF Leads
    <3>6. past = on(n + 1) /\ there = on(i.to)
      OBVIOUS
    <3>7. i.op \in {"call", "tail"} => into = <<<<i.to, 1>>>>
      BY <3>3
    <3>8. /\ i.op = "goto" => Places(i, n) = {i.to}
          /\ i.op = "jump" => Places(i, n) = {i.to, n + 1}
          /\ i.op \notin {"return", "ijump", "tail", "goto", "jump"} => Places(i, n) = {n + 1}
      BY DEF Places, Ends
    <3> HIDE DEF past, into, there, on, s, g, n
    <3>9. CASE i.op \in {"return", "call", "tail"}
      BY <3>4, <3>5, <3>7, <3>9
    <3>10. CASE i.op = "goto"
      BY <3>4, <3>5, <3>6, <3>8, <3>10
    <3>11. CASE i.op = "jump"
      BY <3>4, <3>5, <3>6, <3>8, <3>11
    <3>12. CASE i.op \notin {"return", "call", "tail", "goto", "jump"}
      BY <3>3, <3>4, <3>5, <3>6, <3>8, <3>12
    <3> QED
      BY <3>9, <3>10, <3>11, <3>12
  <2>7. trial' \in Leads(lib, trial, i) /\ collected' = d
    BY <1>2, <2>4, <2>6
  <2> HIDE DEF i, d
  <2>8. trial' \in Seq(Frames(lib)) /\ \E a2 \in SUBSET d : MayGoOn(lib, f, trial', d, {a2})
    BY <1>1, <1>2, <2>1, <2>2, <2>5, <2>7, StackGoesOn
  <2> QED
    BY <2>7, <2>8
<1> QED
  BY <1>2, <1>3, <1>4 DEF TrialIsWalked

(***************************************************************************)
(* The inductive invariant of the route up to its trials: a run of the     *)
(* library, wherever it is and however deep its calls are, is at a place   *)
(* that the walks of pthread.py:189 visited, with no less collected than   *)
(* they had there, in every frame of its stack.                            *)
(***************************************************************************)
THEOREM RouteInductive == RouteSpec => [](RouteTyped /\ TrialIsWalked)
<1>1. RouteInit => RouteTyped /\ TrialIsWalked
  <2>1. Relaxed \in SUBSET Full
    BY DEF Relaxed
  <2> QED
    BY <2>1 DEF RouteInit, RouteTyped, TrialIsWalked
<1>2. RouteTyped /\ TrialIsWalked /\ [RouteNext]_routeVars => (RouteTyped /\ TrialIsWalked)'
  <2> SUFFICES ASSUME RouteTyped, TrialIsWalked, [RouteNext]_routeVars
               PROVE  RouteTyped' /\ TrialIsWalked'
    OBVIOUS
  <2>1. RouteTyped'
    BY RouteTypedKept
  <2>2. TrialIsWalked'
    <3>1. CASE RecoverLibrary
      BY <3>1 DEF RecoverLibrary, TrialIsWalked
    <3>2. CASE Try
      BY <3>2, TrialStarts
    <3>3. CASE TrialStep
      BY <3>3, TrialGoesOn
    <3>4. CASE Next /\ UNCHANGED library
      <4>1. stage' = "trial" => stage = "trial"
        BY <3>4 DEF Next, Extract, ExtractionFails, Share, Slice, Verify, Start, Run, static
      <4> QED
        BY <3>4, <4>1 DEF TrialIsWalked, library
    <3>5. CASE UNCHANGED routeVars
      BY <3>5 DEF routeVars, vars, static, library, TrialIsWalked
    <3> QED
      BY <3>1, <3>2, <3>3, <3>4, <3>5 DEF RouteNext
  <2> QED
    BY <2>1, <2>2
<1> QED
  BY <1>1, <1>2, PTL DEF RouteSpec

(***************************************************************************)
(* What the summary says that an API orders, every return of every version *)
(* has collected (OrderingIsCollected).                                    *)
(***************************************************************************)
THEOREM OrderingIsWhatRuns == RouteSpec => []OrderingIsCollected
<1>1. RouteTyped /\ TrialIsWalked => OrderingIsCollected
  <2> SUFFICES ASSUME RouteTyped, TrialIsWalked, stage = "trial", trial = <<>>, provided # Unknown,
                      \A f \in lib.versions : ~ SummaryOf(lib, f).overridden
               PROVE  provided \subseteq collected
    BY DEF OrderingIsCollected
  <2>1. IsLibrary(lib)
    BY LibrariesAreRecovered DEF RouteTyped
  <2>2. provided = Provided(lib) /\ Provided(lib) # Unknown
    BY DEF RouteTyped
  <2>3. PICK f \in lib.versions :
          Walk(lib, f).complete =>
            /\ trial \in Seq(Frames(lib))
            /\ \E a \in SUBSET collected : MayGoOn(lib, f, trial, collected, {a})
    BY DEF TrialIsWalked
  <2>4. Walk(lib, f).complete /\ Provided(lib) = Meet(Walk(lib, f).returns)
    BY <2>1, <2>2, ProvidedIsMet
  <2>5. PICK a \in SUBSET collected : MayGoOn(lib, f, <<>>, collected, {a})
    BY <2>3, <2>4
  <2>6. a \in Walk(lib, f).returns
    BY <2>5, GoesOnAtEnd
  <2> QED
    BY <2>2, <2>4, <2>6 DEF Meet
<1> QED
  BY <1>1, RouteInductive, PTL

(***************************************************************************)
(* The analysis behind the recovery of a library.                          *)
(***************************************************************************)
Untouched ==
  /\ application \in BOOLEAN
  /\ events = {} /\ order = {} /\ open = {} /\ slice = NoSlice
  /\ shared = [proofs |-> {}, locks |-> <<>>, removed |-> {}, unknowns |-> {}]
  /\ verdict = "none" /\ threads = [t \in Threads |-> Nobody] /\ held = {}

\* Nothing is analyzed before the library is known, or beside a trial.
RouteInv ==
  /\ stage = "opened" => Untouched /\ \E c \in Cases : prog = c[1]
  /\ stage = "recovered" => Init
  /\ stage = "trial" => Untouched
  /\ stage \notin {"opened", "recovered", "trial"} => AnalysisInv

\* What the stages and the run promise for a program on its own, they promise for
\* one that was bound to the summary of its library, whatever that is.
THEOREM RouteKeepsPromises ==
  RouteSpec => [](/\ BucketsLoseNoPair /\ OrderCoversExecution /\ DefiniteLocksHeld
                  /\ SequentialRanAlone /\ PlainSafeMeansNoRace)
<1> DEFINE Promises == /\ BucketsLoseNoPair /\ OrderCoversExecution /\ DefiniteLocksHeld
                       /\ SequentialRanAlone /\ PlainSafeMeansNoRace
<1>1. RouteInit => RouteInv
  BY DEF RouteInit, RouteInv, Untouched
<1>2. RouteInv /\ [RouteNext]_routeVars => RouteInv'
  <2> SUFFICES ASSUME RouteInv, [RouteNext]_routeVars PROVE RouteInv'
    OBVIOUS
  <2>1. CASE RecoverLibrary
    <3>1. PICK c \in Cases : prog = c[1]
      BY <2>1 DEF RecoverLibrary, RouteInv
    <3>2. prog' = [c[1] EXCEPT !.synced = provided' # Unknown] /\ (provided' # Unknown) \in BOOLEAN
      BY <2>1, <3>1 DEF RecoverLibrary
    <3>3. prog' \in Programs
      BY <3>2, CasesAreRecovered
    <3>4. stage' = "recovered" /\ Untouched'
      BY <2>1 DEF RecoverLibrary, RouteInv, Untouched, run
    <3>5. Init'
      BY <3>3, <3>4 DEF Init, Untouched
    <3> QED
      BY <3>4, <3>5 DEF RouteInv
  <2>2. CASE Try
    <3>1. stage' = "trial" /\ Untouched'
      BY <2>2 DEF Try, RouteInv, Init, Untouched, run
    <3> QED
      BY <3>1 DEF RouteInv
  <2>3. CASE TrialStep
    <3>1. stage = "trial" /\ stage' = "trial" /\ Untouched /\ UNCHANGED vars
      BY <2>3 DEF TrialStep, RouteInv, vars, static
    <3>2. Untouched'
      BY <3>1 DEF Untouched, vars, static, run
    <3> QED
      BY <3>1, <3>2 DEF RouteInv
  <2>4. CASE Next /\ UNCHANGED library
    <3>1. stage \notin {"opened", "trial"} /\ stage' \notin {"opened", "recovered", "trial"}
      BY <2>4 DEF Next, Extract, ExtractionFails, Share, Slice, Verify, Start, Run, static
    <3>2. AnalysisInv
      BY <3>1, AnalysisInductive DEF RouteInv
    <3>3. AnalysisInv'
      BY <2>4, <3>2, AnalysisInductive
    <3> QED
      BY <3>1, <3>3 DEF RouteInv
  <2>5. CASE UNCHANGED routeVars
    <3>1. UNCHANGED vars
      BY <2>5 DEF routeVars
    <3>2. prog' = prog /\ stage' = stage /\ (Untouched => Untouched') /\ (Init => Init')
      BY <3>1 DEF vars, static, run, Untouched, Init
    <3>3. AnalysisInv => AnalysisInv'
      BY <3>1, AnalysisInductive
    <3> QED
      BY <3>2, <3>3 DEF RouteInv
  <2> QED
    BY <2>1, <2>2, <2>3, <2>4, <2>5 DEF RouteNext
<1>3. RouteInv => Promises
  <2>1. CASE Untouched /\ stage \in {"opened", "trial"}
    BY <2>1 DEF Untouched, BucketsLoseNoPair, OrderCoversExecution, DefiniteLocksHeld, SequentialRanAlone,
                PlainSafeMeansNoRace, SafeMeansNoRace
  <2>2. CASE AnalysisInv
    BY <2>2, AnalysisSays
  <2> QED
    BY <2>1, <2>2, AnalysisInductive DEF RouteInv
<1> HIDE DEF Promises
<1>4. RouteSpec => []Promises
  BY <1>1, <1>2, <1>3, PTL DEF RouteSpec
<1> QED
  BY <1>4 DEF Promises

=============================================================================
