---------------------------- MODULE TraceCapture ----------------------------
(***************************************************************************)
(* The recorder inside the traced program (native/client.cpp), the         *)
(* directory it writes, the launcher that reads the directory back         *)
(* (capture/launcher.py) and the validation that decides whether a trace   *)
(* may be analysed at all (trace/validation.py).                           *)
(*                                                                         *)
(* Threads are thread instances; the kernel may give the id of an ended    *)
(* thread to a new one, and files are named by that id.  A record is its   *)
(* sequence number: kinds, addresses and tickets play no part here.        *)
(***************************************************************************)
EXTENDS Integers, Sequences, FiniteSets

CONSTANTS Threads,        \* thread instances
          Tids,           \* kernel thread ids
          Pid,            \* the id of the thread a process (or image) starts with
          BufferRecords,  \* kBufferRecords
          Budgets,        \* values of --max-thread-events, 0 for none
          MaxEvents       \* bound: how much one thread does besides its exit

ASSUME PidIsTid == Pid \in Tids
ASSUME TidsAreFinite == IsFiniteSet(Tids)
ASSUME BufferIsPositive == BufferRecords \in Nat \ {0}
ASSUME BudgetsAreNatural == Budgets \subseteq Nat

VARIABLES
  life,       \* of a thread instance: see Lives
  recorder,   \* its ThreadState, and the tid that names its file
  happened,   \* history: how many records its execution called for
  unprobed,   \* some block of code runs without a probe
  budget,     \* max_thread_events
  dropped,    \* dropped_events
  reasons,    \* dropped_by_reason
  phase,      \* of the process: running, exiting, or past a marker of process_exit
  metadataComplete,
  file,       \* events-<tid>.bin
  reasonsFile, droppedFile, completeFile,   \* the three markers
  exitCode,
  manifest,   \* manifest.json
  collected   \* the launcher has saved its last manifest

threadVars == <<life, recorder, happened>>
dropVars   == <<dropped, reasons>>
markers    == <<reasonsFile, droppedFile, completeFile>>
launcher   == <<manifest, collected>>
vars == <<threadVars, unprobed, budget, dropVars, phase, metadataComplete,
          file, markers, exitCode, launcher>>

Reasons == {"write", "missing_thread_state", "resource_limit",
            "instrumentation", "lifecycle", "unsupported"}
\* "reused": ended, and its file was opened again for a later thread of the same
\* id.  "replaced": of a program image that a successful exec has ended.
Lives   == {"unborn", "running", "ended", "reused", "replaced"}
Phases  == {"running", "exiting", "reasons written", "dropped written", "exited"}
Codes   == {"none", "zero", "nonzero"}
Unreadable == -1          \* .dropped is missing or holds no number

NoFile == [exists |-> FALSE, header |-> FALSE, records |-> <<>>, torn |-> FALSE]
NewState == [tid |-> Pid, open |-> FALSE, seq |-> 0, buffer |-> <<>>,
             limitReported |-> FALSE]

Running == {t \in Threads : life[t] = "running"}
\* The threads whose records the trace still promises.
Current == {t \in Threads : life[t] \in {"running", "ended"}}

-----------------------------------------------------------------------------
(* What one call of the recorder may do.  A handler works on a view of its   *)
(* thread's state, its file and the shared counters; writing to the file may *)
(* come up short, so a call has a set of outcomes.                           *)

View(t) == [open |-> recorder[t].open, seq |-> recorder[t].seq,
            buffer |-> recorder[t].buffer,
            limitReported |-> recorder[t].limitReported,
            file |-> file[recorder[t].tid],
            dropped |-> dropped, reasons |-> reasons]

NoteDrop(s, reason, count) ==
  [s EXCEPT !.dropped = @ + count,
            !.reasons = [s.reasons EXCEPT ![reason] = s.reasons[reason] + count]]

\* The buffer is given up, and the file then holds these records.
Flushed(s, records, torn) ==
  [s EXCEPT !.buffer = <<>>,
            !.file = [s.file EXCEPT !.records = records, !.torn = torn]]

\* Mutant: the count of bytes written is not looked at.
FlushStateUnchecked(s) ==
  IF ~ s.open \/ s.buffer = <<>> THEN {s}
  ELSE {Flushed(s, s.file.records \o SubSeq(s.buffer, 1, n), s.file.torn) :
          n \in 0 .. Len(s.buffer)}

\* A short write leaves some whole records and perhaps a piece of one.
FlushState(s) ==
  IF ~ s.open \/ s.buffer = <<>> THEN {s}
  ELSE {Flushed(s, s.file.records \o s.buffer, s.file.torn)} \cup
       {Flushed(NoteDrop(s, "write", Len(s.buffer)),
                s.file.records \o SubSeq(s.buffer, 1, n), s.file.torn \/ torn) :
          n \in 0 .. Len(s.buffer) - 1, torn \in BOOLEAN}

OverBudget(s) == budget # 0 /\ s.seq >= budget

Buffered(s) == [s EXCEPT !.seq = @ + 1, !.buffer = Append(@, s.seq + 1)]

\* Mutants: a record refused over the budget, or without a file, is not counted.
WriteRecordQuietLimit(s) ==
  IF ~ s.open THEN {NoteDrop(s, "missing_thread_state", 1)}
  ELSE IF OverBudget(s) THEN {[s EXCEPT !.limitReported = TRUE]}
  ELSE IF Len(s.buffer) + 1 = BufferRecords THEN FlushState(Buffered(s))
  ELSE {Buffered(s)}

WriteRecordNoFile(s) ==
  IF ~ s.open \/ (OverBudget(s) /\ s.limitReported) THEN {s}
  ELSE IF OverBudget(s)
       THEN {[NoteDrop(s, "resource_limit", 1) EXCEPT !.limitReported = TRUE]}
  ELSE IF Len(s.buffer) + 1 = BufferRecords THEN FlushState(Buffered(s))
  ELSE {Buffered(s)}

WriteRecord(s) ==
  IF ~ s.open THEN {NoteDrop(s, "missing_thread_state", 1)}
  ELSE IF OverBudget(s)
       THEN IF s.limitReported THEN {s}
            ELSE {[NoteDrop(s, "resource_limit", 1) EXCEPT !.limitReported = TRUE]}
  ELSE IF Len(s.buffer) + 1 = BufferRecords THEN FlushState(Buffered(s))
  ELSE {Buffered(s)}

\* Handlers write one record, or two when the thread's stack is known.
WriteRecords(s, n) ==
  IF n = 1 THEN WriteRecord(s) ELSE UNION {WriteRecord(x) : x \in WriteRecord(s)}

StateOf(k, s) == [tid |-> k, open |-> s.open, seq |-> s.seq, buffer |-> s.buffer,
                  limitReported |-> s.limitReported]

\* The thread goes on with outcome s; n records were called for.
Adopt(t, s, n) ==
  /\ recorder' = [recorder EXCEPT ![t] = StateOf(recorder[t].tid, s)]
  /\ file' = [file EXCEPT ![recorder[t].tid] = s.file]
  /\ dropped' = s.dropped
  /\ reasons' = s.reasons
  /\ happened' = [happened EXCEPT ![t] = @ + n]

-----------------------------------------------------------------------------
Init ==
  /\ life = [t \in Threads |-> "unborn"]
  /\ recorder = [t \in Threads |-> NewState]
  /\ happened = [t \in Threads |-> 0]
  /\ unprobed = FALSE
  /\ budget \in Budgets
  /\ dropped = 0
  /\ reasons = [r \in Reasons |-> 0]
  /\ phase = "running"
  /\ metadataComplete = TRUE
  /\ file = [k \in Tids |-> NoFile]
  /\ reasonsFile = [r \in Reasons |-> 0]      \* a reason without a line counts 0
  /\ droppedFile = Unreadable
  /\ completeFile = FALSE
  /\ exitCode = "none"
  /\ manifest = [complete |-> FALSE, exit_code |-> "none", dropped_events |-> 0]
  /\ collected = FALSE

-----------------------------------------------------------------------------
(* The traced program.                                                       *)

\* thread_init.  Only the first thread of an image has the process id; an id in
\* use is not given out.  If the file cannot be opened, an older one of that name
\* stays as it is; if it can, an older one is truncated.
ThreadInit(t, k, opened, header, n) ==
  /\ phase = "running" /\ life[t] = "unborn"
  /\ IF Running = {} THEN k = Pid ELSE k # Pid
  /\ \A u \in Running : recorder[u].tid # k
  /\ header => opened
  /\ LET fresh == [exists |-> TRUE, header |-> header, records |-> <<>>, torn |-> FALSE]
         start == [open |-> opened, seq |-> 0, buffer |-> <<>>, limitReported |-> FALSE,
                   file |-> IF opened THEN fresh ELSE file[k],
                   dropped |-> dropped, reasons |-> reasons]
         ready == IF opened /\ ~ header THEN NoteDrop(start, "write", 1) ELSE start
     IN  \E s \in WriteRecords(ready, n) :
           /\ recorder' = [recorder EXCEPT ![t] = StateOf(k, s)]
           /\ file' = [file EXCEPT ![k] = s.file]
           /\ dropped' = s.dropped
           /\ reasons' = s.reasons
           /\ happened' = [happened EXCEPT ![t] = n]
  /\ life' = [u \in Threads |->
       IF u = t THEN "running"
       ELSE IF opened /\ life[u] = "ended" /\ recorder[u].tid = k THEN "reused"
       ELSE life[u]]
  /\ UNCHANGED <<unprobed, budget, phase, metadataComplete, markers, exitCode, launcher>>

\* Any record a probe, a wrapper or a syscall handler writes for thread t.
Record(t) ==
  /\ phase = "running" /\ life[t] = "running" /\ happened[t] < MaxEvents
  /\ \E s \in WriteRecord(View(t)) : Adopt(t, s, 1)
  /\ UNCHANGED <<life, unprobed, budget, phase, metadataComplete, markers, exitCode,
                 launcher>>

\* fork, exec and shared or executable mappings: a drop, then the record.
UnsupportedCall(t) ==
  /\ phase = "running" /\ life[t] = "running" /\ happened[t] < MaxEvents
  /\ \E s \in WriteRecord(NoteDrop(View(t), "unsupported", 1)) : Adopt(t, s, 1)
  /\ UNCHANGED <<life, unprobed, budget, phase, metadataComplete, markers, exitCode,
                 launcher>>

\* A block is built in which some access has no probe.
EmitUnprobed ==
  /\ phase = "running" /\ Running # {} /\ ~ unprobed
  /\ unprobed' = TRUE
  /\ dropped' = dropped + 1
  /\ reasons' = [reasons EXCEPT !["instrumentation"] = @ + 1]
  /\ UNCHANGED <<threadVars, budget, phase, metadataComplete, file, markers, exitCode,
                 launcher>>

\* That access runs, again and again: nothing is recorded or counted.
RunUnprobed(t) ==
  /\ phase = "running" /\ life[t] = "running" /\ happened[t] < MaxEvents
  /\ unprobed
  /\ happened' = [happened EXCEPT ![t] = @ + 1]
  /\ UNCHANGED <<life, recorder, unprobed, budget, dropVars, phase, metadataComplete,
                 file, markers, exitCode, launcher>>

\* An allocation too large for the record format: a drop instead of a record.
OversizedAllocation(t) ==
  /\ phase = "running" /\ life[t] = "running" /\ happened[t] < MaxEvents
  /\ happened' = [happened EXCEPT ![t] = @ + 1]
  /\ dropped' = dropped + 1
  /\ reasons' = [reasons EXCEPT !["lifecycle"] = @ + 1]
  /\ UNCHANGED <<life, recorder, unprobed, budget, phase, metadataComplete, file, markers,
                 exitCode, launcher>>

\* thread_exit: the last records, a flush, the file closed.  The last running
\* thread leaves through the exit of the process.
ThreadExit(t, n) ==
  /\ phase \in {"running", "exiting"} /\ life[t] = "running"
  /\ phase = "running" => Running # {t}
  /\ \E s \in UNION {FlushState(x) : x \in WriteRecords(View(t), n)} : Adopt(t, s, n)
  /\ life' = [life EXCEPT ![t] = "ended"]
  /\ UNCHANGED <<unprobed, budget, phase, metadataComplete, markers, exitCode, launcher>>

\* A successful exec: the image goes without its exit handlers, buffers and counters
\* with it, and the client starts anew in the same process and directory.
ReplaceImage ==
  /\ phase = "running" /\ Running # {} /\ reasons["unsupported"] > 0
  /\ life' = [t \in Threads |-> IF life[t] = "unborn" THEN "unborn" ELSE "replaced"]
  /\ unprobed' = FALSE
  /\ dropped' = 0
  /\ reasons' = [r \in Reasons |-> 0]
  /\ UNCHANGED <<recorder, happened, budget, phase, metadataComplete, file, markers,
                 exitCode, launcher>>

\* The program ends, by itself or by a fault; the threads still running get their
\* exit callbacks first.
Exit(code) ==
  /\ phase = "running" /\ Running # {}
  /\ phase' = "exiting"
  /\ exitCode' = code
  /\ UNCHANGED <<threadVars, unprobed, budget, dropVars, metadataComplete, file, markers,
                 launcher>>

\* SIGKILL, at any moment: no callback runs.
Kill ==
  /\ phase # "exited"
  /\ phase' = "exited"
  /\ exitCode' = "nonzero"
  /\ UNCHANGED <<threadVars, unprobed, budget, dropVars, metadataComplete, file, markers,
                 launcher>>

-----------------------------------------------------------------------------
(* process_exit: the markers, in this order.                                 *)

\* Mutant: a failed line is a drop, but the last marker is written all the same.
WriteReasonsRegardless ==
  /\ phase = "exiting" /\ Running = {}
  /\ phase' = "reasons written"
  /\ \E failed \in SUBSET {r \in Reasons : reasons[r] > 0} :
       /\ reasonsFile' = [r \in Reasons |-> IF r \in failed THEN 0 ELSE reasons[r]]
       /\ dropped' = dropped + Cardinality(failed)
       /\ reasons' = [reasons EXCEPT !["write"] = @ + Cardinality(failed)]
       /\ metadataComplete' = TRUE
  /\ UNCHANGED <<threadVars, unprobed, budget, file, droppedFile, completeFile, exitCode,
                 launcher>>

\* Lines that fail are themselves drops, and forbid the last marker.
WriteReasons ==
  /\ phase = "exiting" /\ Running = {}
  /\ phase' = "reasons written"
  /\ \E failed \in SUBSET {r \in Reasons : reasons[r] > 0} :
       /\ reasonsFile' = [r \in Reasons |-> IF r \in failed THEN 0 ELSE reasons[r]]
       /\ dropped' = dropped + Cardinality(failed)
       /\ reasons' = [reasons EXCEPT !["write"] = @ + Cardinality(failed)]
       /\ metadataComplete' = (failed = {})
  /\ UNCHANGED <<threadVars, unprobed, budget, file, droppedFile, completeFile, exitCode,
                 launcher>>

ReasonsUnwritable ==
  /\ phase = "exiting" /\ Running = {}
  /\ phase' = "reasons written"
  /\ dropped' = dropped + 1
  /\ reasons' = [reasons EXCEPT !["write"] = @ + 1]
  /\ metadataComplete' = FALSE
  /\ UNCHANGED <<threadVars, unprobed, budget, file, markers, exitCode, launcher>>

WriteDropped ==
  /\ phase = "reasons written"
  /\ phase' = "dropped written"
  /\ droppedFile' = dropped
  /\ UNCHANGED <<threadVars, unprobed, budget, dropVars, metadataComplete, file,
                 reasonsFile, completeFile, exitCode, launcher>>

\* The file cannot be opened, or holds less than the number: nothing, or its first
\* digits, which are zero only for a count of zero.
DroppedUnwritable ==
  /\ phase = "reasons written"
  /\ phase' = "dropped written"
  /\ \E seen \in {Unreadable} \cup 0 .. dropped :
       /\ seen = 0 => dropped = 0
       /\ droppedFile' = seen
  /\ metadataComplete' = FALSE
  /\ UNCHANGED <<threadVars, unprobed, budget, dropVars, file, reasonsFile, completeFile,
                 exitCode, launcher>>

WriteComplete ==
  /\ phase = "dropped written"
  /\ phase' = "exited"
  /\ completeFile' \in BOOLEAN            \* FALSE: it could not be opened
  /\ completeFile' => metadataComplete
  /\ UNCHANGED <<threadVars, unprobed, budget, dropVars, metadataComplete, file,
                 reasonsFile, droppedFile, exitCode, launcher>>

-----------------------------------------------------------------------------
(* The launcher, once the process is gone.  moduleErrors: lines of           *)
(* modules.tsv it could not turn into a fingerprint.                         *)

Collect(moduleErrors) ==
  /\ phase = "exited" /\ ~ collected
  /\ manifest' = [complete |-> completeFile, exit_code |-> exitCode,
                  dropped_events |-> moduleErrors +
                    IF droppedFile = Unreadable THEN 1 ELSE droppedFile]
  /\ collected' = TRUE
  /\ UNCHANGED <<threadVars, unprobed, budget, dropVars, phase, metadataComplete, file,
                 markers, exitCode>>

Done == collected /\ UNCHANGED vars

Next ==
  \/ \E t \in Threads :
       \/ \E k \in Tids, opened, header \in BOOLEAN, n \in 1 .. 2 :
            ThreadInit(t, k, opened, header, n)
       \/ Record(t) \/ UnsupportedCall(t) \/ RunUnprobed(t) \/ OversizedAllocation(t)
       \/ \E n \in 1 .. 2 : ThreadExit(t, n)
  \/ EmitUnprobed \/ ReplaceImage \/ Kill
  \/ \E code \in {"zero", "nonzero"} : Exit(code)
  \/ WriteReasons \/ ReasonsUnwritable \/ WriteDropped \/ DroppedUnwritable
  \/ WriteComplete
  \/ \E moduleErrors \in 0 .. 1 : Collect(moduleErrors)
  \/ Done

Spec == Init /\ [][Next]_vars

-----------------------------------------------------------------------------
(* validate_trace, over what is on disk at any moment.                       *)

EventFiles == {k \in Tids : file[k].exists}
ThreadIds  == {k \in EventFiles : file[k].records # <<>>}

InSequence(records) == \A i \in 1 .. Len(records) : records[i] = i

FileValid(f) == f.header /\ ~ f.torn /\ f.records # <<>> /\ InSequence(f.records)

TraceValid ==
  /\ manifest.complete
  /\ manifest.exit_code \in {"none", "zero"}
  /\ manifest.dropped_events = 0
  /\ EventFiles # {}
  /\ \A k \in EventFiles : FileValid(file[k])

\* The trace is TRACE_SAFE without any analysis of communication.
SingleThreadRoute == TraceValid /\ Cardinality(ThreadIds) = 1

-----------------------------------------------------------------------------
Recorder == [tid : Tids, open : BOOLEAN, seq : Nat, buffer : Seq(Nat),
             limitReported : BOOLEAN]
File     == [exists : BOOLEAN, header : BOOLEAN, records : Seq(Nat), torn : BOOLEAN]
Manifest == [complete : BOOLEAN, exit_code : Codes, dropped_events : Nat]

TypeOK ==
  /\ life \in [Threads -> Lives]
  /\ recorder \in [Threads -> Recorder]
  /\ happened \in [Threads -> Nat]
  /\ unprobed \in BOOLEAN
  /\ budget \in Nat
  /\ dropped \in Nat
  /\ reasons \in [Reasons -> Nat]
  /\ phase \in Phases
  /\ metadataComplete \in BOOLEAN
  /\ file \in [Tids -> File]
  /\ reasonsFile \in [Reasons -> Nat]
  /\ droppedFile \in Nat \cup {Unreadable}
  /\ completeFile \in BOOLEAN
  /\ exitCode \in Codes
  /\ manifest \in Manifest
  /\ collected \in BOOLEAN

\* As long as the counter stands at zero, every record that a thread's execution
\* called for is in its file or in its buffer, in program order, with no gap: a
\* record is refused, torn or never probed for only under a counted drop.
NothingLostSilently ==
  dropped = 0 => \A t \in Current :
    LET f == file[recorder[t].tid]
        kept == f.records \o recorder[t].buffer
    IN  /\ f.header /\ ~ f.torn
        /\ Len(kept) = happened[t] /\ InSequence(kept)

\* The last marker is a commit point: where it exists, the two files before it hold
\* the final counters, and no thread has anything left to write.
CompleteIsCommit ==
  completeFile =>
    /\ droppedFile = dropped
    /\ reasonsFile = reasons
    /\ \A t \in Current : life[t] = "ended" /\ recorder[t].buffer = <<>>

\* A trace that validates holds the whole execution of every thread of the last
\* program image whose id was not given out again, in program order.
ValidTraceIsWhole ==
  TraceValid => \A t \in Current :
    LET records == file[recorder[t].tid].records
    IN  life[t] = "ended" /\ Len(records) = happened[t] /\ InSequence(records)

\* The route that skips the analysis is taken only if no second thread ever ran in
\* the last image, not even one whose records were overwritten.
SingleThreadRanAlone ==
  SingleThreadRoute =>
    \A t, u \in Threads :
      {life[t], life[u]} \subseteq {"running", "ended", "reused"} => t = u
=============================================================================
