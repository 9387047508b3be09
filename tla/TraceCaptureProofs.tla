------------------------- MODULE TraceCaptureProofs -------------------------
(***************************************************************************)
(* A trace that validates is whole, for any threads, ids, buffer size and  *)
(* budget.  The argument runs through the drop counter: while it stands at *)
(* zero, file and buffer of a thread together hold everything the thread   *)
(* did; the last marker is only written after the counter has reached the  *)
(* disk; and validation asks for that marker and a counter of zero.        *)
(***************************************************************************)
EXTENDS TraceCapture, FiniteSetTheorems, TLAPS

StepState == [open : BOOLEAN, seq : Nat, buffer : Seq(Nat), limitReported : BOOLEAN,
              file : File, dropped : Nat, reasons : [Reasons -> Nat]]

\* What has reached the file or waits in the buffer.
Kept(s) == s.file.records \o s.buffer

\* With no drop counted, a thread that has called for n records has them all.
Intact(s, n) ==
  s.dropped = 0 =>
    /\ s.open /\ ~ s.limitReported
    /\ s.file.exists /\ s.file.header /\ ~ s.file.torn
    /\ s.seq = n /\ Len(Kept(s)) = n /\ InSequence(Kept(s))

\* A thread without a file has nothing in its buffer.
Sound(s) == s \in StepState /\ (~ s.open => s.buffer = <<>>)

-----------------------------------------------------------------------------
(* The recorder's operations, one call at a time.                            *)

LEMMA NoteDropSound ==
  ASSUME NEW s, Sound(s), NEW reason \in Reasons, NEW count \in Nat
  PROVE  /\ Sound(NoteDrop(s, reason, count))
         /\ NoteDrop(s, reason, count).dropped = s.dropped + count
         /\ NoteDrop(s, reason, count).buffer = s.buffer
         /\ NoteDrop(s, reason, count).open = s.open
         /\ NoteDrop(s, reason, count).file = s.file
<1> DEFINE more == [s.reasons EXCEPT ![reason] = s.reasons[reason] + count]
<1>1. more \in [Reasons -> Nat]
  BY DEF Sound, StepState
<1>2. s.dropped + count \in Nat
  BY DEF Sound, StepState
<1>3. NoteDrop(s, reason, count) = [s EXCEPT !.dropped = @ + count, !.reasons = more]
  BY DEF NoteDrop
<1> HIDE DEF more
<1> QED
  BY <1>1, <1>2, <1>3 DEF Sound, StepState

LEMMA FlushedSound ==
  ASSUME NEW s, Sound(s), NEW records \in Seq(Nat), NEW torn \in BOOLEAN
  PROVE  /\ Sound(Flushed(s, records, torn))
         /\ Flushed(s, records, torn).buffer = <<>>
         /\ Flushed(s, records, torn).dropped = s.dropped
         /\ Flushed(s, records, torn).open = s.open
         /\ Flushed(s, records, torn).seq = s.seq
         /\ Flushed(s, records, torn).limitReported = s.limitReported
         /\ Flushed(s, records, torn).file.records = records
         /\ Flushed(s, records, torn).file.torn = torn
         /\ Flushed(s, records, torn).file.exists = s.file.exists
         /\ Flushed(s, records, torn).file.header = s.file.header
<1> DEFINE f == [s.file EXCEPT !.records = records, !.torn = torn]
<1>1. /\ f \in File
      /\ f.records = records /\ f.torn = torn
      /\ f.exists = s.file.exists /\ f.header = s.file.header
  BY DEF Sound, StepState, File
<1>2. Flushed(s, records, torn) = [s EXCEPT !.buffer = <<>>, !.file = f]
  BY DEF Flushed
<1>3. <<>> \in Seq(Nat)
  OBVIOUS
<1> HIDE DEF f
<1> QED
  BY <1>1, <1>2, <1>3 DEF Sound, StepState

\* A flush that lost nothing.
Whole(s, x) ==
  /\ x.dropped = s.dropped /\ x.seq = s.seq /\ x.limitReported = s.limitReported
  /\ x.file.exists = s.file.exists /\ x.file.header = s.file.header
  /\ x.file.torn = s.file.torn /\ x.file.records = Kept(s)

LEMMA FlushOutcome ==
  ASSUME NEW s, Sound(s), NEW x \in FlushState(s)
  PROVE  /\ Sound(x) /\ x.buffer = <<>> /\ x.open = s.open
         /\ x.dropped > s.dropped \/ Whole(s, x)
<1>0. /\ s.file.records \in Seq(Nat) /\ s.buffer \in Seq(Nat)
      /\ s.file.torn \in BOOLEAN /\ s.dropped \in Nat
  BY DEF Sound, StepState, File
<1>1. CASE ~ s.open \/ s.buffer = <<>>
  <2>1. x = s
    BY <1>1 DEF FlushState
  <2>2. s.buffer = <<>>
    BY <1>1 DEF Sound
  <2>3. Kept(s) = s.file.records
    BY <1>0, <2>2 DEF Kept
  <2> QED
    BY <2>1, <2>2, <2>3 DEF Whole
<1>2. CASE s.open /\ s.buffer # <<>>
  <2>2. CASE x = Flushed(s, s.file.records \o s.buffer, s.file.torn)
    <3> DEFINE r == s.file.records \o s.buffer
               b == s.file.torn
    <3>1. r \in Seq(Nat)
      BY <1>0
    <3>2. b \in BOOLEAN
      BY <1>0
    <3>3. x = Flushed(s, r, b)
      BY <2>2
    <3> HIDE DEF r, b
    <3>4. Sound(x) /\ x.buffer = <<>> /\ x.open = s.open
      BY <3>1, <3>2, <3>3, FlushedSound
    <3>5. /\ x.dropped = s.dropped /\ x.seq = s.seq /\ x.limitReported = s.limitReported
          /\ x.file.exists = s.file.exists /\ x.file.header = s.file.header
          /\ x.file.torn = b /\ x.file.records = r
      BY <3>1, <3>2, <3>3, FlushedSound
    <3> QED
      BY <3>4, <3>5 DEF Whole, Kept, r, b
  <2>3. ASSUME NEW n \in 0 .. Len(s.buffer) - 1, NEW torn \in BOOLEAN,
               x = Flushed(NoteDrop(s, "write", Len(s.buffer)),
                           s.file.records \o SubSeq(s.buffer, 1, n), s.file.torn \/ torn)
        PROVE  Sound(x) /\ x.buffer = <<>> /\ x.dropped > s.dropped /\ x.open = s.open
    <3> DEFINE d == NoteDrop(s, "write", Len(s.buffer))
               r == s.file.records \o SubSeq(s.buffer, 1, n)
               b == s.file.torn \/ torn
    <3>1. "write" \in Reasons /\ Len(s.buffer) \in Nat /\ Len(s.buffer) > 0
      BY <1>0 DEF Reasons
    <3>2. r \in Seq(Nat)
      BY <1>0
    <3>3. b \in BOOLEAN
      OBVIOUS
    <3>4. Sound(d) /\ d.dropped = s.dropped + Len(s.buffer) /\ d.open = s.open
      BY <3>1, NoteDropSound
    <3>5. x = Flushed(d, r, b)
      BY <2>3
    <3> HIDE DEF d, r, b
    <3>6. Sound(x) /\ x.buffer = <<>> /\ x.dropped = d.dropped /\ x.open = d.open
      BY <3>2, <3>3, <3>4, <3>5, FlushedSound
    <3> QED
      BY <1>0, <3>1, <3>4, <3>6
  <2>4. \/ x = Flushed(s, s.file.records \o s.buffer, s.file.torn)
        \/ \E n \in 0 .. Len(s.buffer) - 1, torn \in BOOLEAN :
             x = Flushed(NoteDrop(s, "write", Len(s.buffer)),
                         s.file.records \o SubSeq(s.buffer, 1, n), s.file.torn \/ torn)
    BY <1>2 DEF FlushState
  <2> QED
    BY <2>2, <2>3, <2>4
<1> QED
  BY <1>1, <1>2 DEF Sound, StepState

LEMMA FlushKeeps ==
  ASSUME NEW s, Sound(s), NEW n \in Nat, Intact(s, n), NEW x \in FlushState(s)
  PROVE  /\ Sound(x) /\ Intact(x, n) /\ x.buffer = <<>>
         /\ x.dropped >= s.dropped /\ x.open = s.open
<1>1. /\ Sound(x) /\ x.buffer = <<>> /\ x.open = s.open
      /\ x.dropped > s.dropped \/ Whole(s, x)
  BY FlushOutcome
<1>2. s.dropped \in Nat /\ x.dropped \in Nat /\ Kept(s) \in Seq(Nat)
  BY <1>1 DEF Sound, StepState, File, Kept
<1>3. CASE x.dropped > s.dropped
  BY <1>1, <1>2, <1>3 DEF Intact
<1>4. CASE Whole(s, x)
  <2>1. Kept(x) = Kept(s)
    <3>1. Kept(s) \o <<>> = Kept(s)
      BY <1>2
    <3> QED
      BY <1>1, <1>4, <3>1 DEF Whole, Kept
  <2> QED
    BY <1>1, <1>2, <1>4, <2>1 DEF Whole, Intact
<1> QED
  BY <1>1, <1>3, <1>4

(* Sequences of the same length with the same elements are the same.         *)
LEMMA SeqEqual ==
  ASSUME NEW a \in Seq(Nat), NEW b \in Seq(Nat), Len(a) = Len(b),
         \A i \in 1 .. Len(a) : a[i] = b[i]
  PROVE  a = b
OBVIOUS

LEMMA AppendAfterJoin ==
  ASSUME NEW a \in Seq(Nat), NEW b \in Seq(Nat), NEW e \in Nat
  PROVE  a \o Append(b, e) = Append(a \o b, e)
<1>0. a \o Append(b, e) \in Seq(Nat) /\ Append(a \o b, e) \in Seq(Nat)
  OBVIOUS
<1>1. Len(a \o Append(b, e)) = Len(Append(a \o b, e))
  OBVIOUS
<1>2. ASSUME NEW i \in 1 .. Len(a \o Append(b, e))
      PROVE  (a \o Append(b, e))[i] = Append(a \o b, e)[i]
  <2>1. CASE i <= Len(a)
    BY <2>1
  <2>2. CASE i > Len(a) /\ i <= Len(a) + Len(b)
    BY <2>2
  <2>3. CASE i = Len(a) + Len(b) + 1
    BY <2>3
  <2> QED
    BY <2>1, <2>2, <2>3
<1> QED
  BY <1>0, <1>1, <1>2, SeqEqual

LEMMA BufferedKeeps ==
  ASSUME NEW s, Sound(s), s.open, NEW n \in Nat, Intact(s, n)
  PROVE  /\ Sound(Buffered(s)) /\ Intact(Buffered(s), n + 1)
         /\ Buffered(s).dropped = s.dropped /\ Buffered(s).open = s.open
<1> DEFINE x == Buffered(s)
<1>1. /\ s.file.records \in Seq(Nat) /\ s.buffer \in Seq(Nat)
      /\ s.seq \in Nat /\ s.dropped \in Nat /\ Append(s.buffer, s.seq + 1) \in Seq(Nat)
  BY DEF Sound, StepState, File
<1>2. /\ x \in StepState /\ x.open = s.open /\ x.dropped = s.dropped
      /\ x.limitReported = s.limitReported /\ x.file = s.file /\ x.seq = s.seq + 1
      /\ x.buffer = Append(s.buffer, s.seq + 1)
  <2> DEFINE a == s.seq + 1
             b == Append(s.buffer, s.seq + 1)
  <2>1. a \in Nat /\ b \in Seq(Nat)
    BY <1>1
  <2>2. x = [s EXCEPT !.seq = a, !.buffer = b]
    BY DEF Buffered
  <2> HIDE DEF x, a, b
  <2>3. /\ x \in StepState /\ x.open = s.open /\ x.dropped = s.dropped
        /\ x.limitReported = s.limitReported /\ x.file = s.file /\ x.seq = a
        /\ x.buffer = b
    BY <2>1, <2>2 DEF Sound, StepState
  <2> QED
    BY <2>3 DEF a, b
<1> HIDE DEF x
<1>3. Sound(x)
  BY <1>2 DEF Sound
<1>4. Kept(x) = Append(Kept(s), s.seq + 1)
  <2> DEFINE r == s.file.records
             b == s.buffer
             e == s.seq + 1
  <2>1. r \in Seq(Nat) /\ b \in Seq(Nat) /\ e \in Nat
    BY <1>1
  <2>2. Kept(x) = r \o Append(b, e) /\ Kept(s) = r \o b
    BY <1>2 DEF Kept
  <2> HIDE DEF r, b, e
  <2>3. Kept(x) = Append(Kept(s), e)
    BY <2>1, <2>2, AppendAfterJoin
  <2> QED
    BY <2>3 DEF e
<1>5. Kept(s) \in Seq(Nat)
  BY <1>1 DEF Kept
<1>6. Intact(x, n + 1)
  <2> SUFFICES ASSUME s.dropped = 0
               PROVE  Len(Kept(x)) = n + 1 /\ InSequence(Kept(x))
    BY <1>1, <1>2 DEF Intact
  <2>1. Len(Kept(s)) = n /\ InSequence(Kept(s)) /\ s.seq = n
    BY DEF Intact
  <2> QED
    BY <1>1, <1>4, <1>5, <2>1 DEF InSequence
<1> QED
  BY <1>2, <1>3, <1>6 DEF x

LEMMA WriteRecordKeeps ==
  ASSUME NEW s, Sound(s), NEW n \in Nat, Intact(s, n) \/ ~ s.open,
         NEW x \in WriteRecord(s)
  PROVE  Sound(x) /\ Intact(x, n + 1) /\ x.dropped >= s.dropped /\ x.open = s.open
<1>0. /\ s.dropped \in Nat /\ s.open \in BOOLEAN
      /\ "missing_thread_state" \in Reasons /\ "resource_limit" \in Reasons
      /\ 1 \in Nat
  BY DEF Sound, StepState, Reasons
<1>1. CASE ~ s.open
  <2> DEFINE r == "missing_thread_state"
  <2>1. x = NoteDrop(s, r, 1)
    BY <1>1 DEF WriteRecord
  <2>0. r \in Reasons
    BY <1>0
  <2> HIDE DEF r
  <2>2. Sound(x) /\ x.dropped = s.dropped + 1 /\ x.open = s.open
    BY <1>0, <2>1, <2>0, NoteDropSound
  <2> QED
    BY <1>0, <2>2 DEF Intact
<1>2. CASE s.open /\ OverBudget(s) /\ s.limitReported
  <2>1. x = s
    BY <1>2 DEF WriteRecord
  <2>2. s.dropped # 0
    BY <1>2 DEF Intact
  <2> QED
    BY <1>0, <2>1, <2>2 DEF Intact
<1>3. CASE s.open /\ OverBudget(s) /\ ~ s.limitReported
  <2> DEFINE r == "resource_limit"
             d == NoteDrop(s, r, 1)
  <2>1. x = [d EXCEPT !.limitReported = TRUE]
    BY <1>3 DEF WriteRecord
  <2>0. r \in Reasons
    BY <1>0
  <2> HIDE DEF r
  <2>2. Sound(d) /\ d.dropped = s.dropped + 1 /\ d.open = s.open
    BY <1>0, <2>0, NoteDropSound
  <2> HIDE DEF d
  <2>3. Sound(x) /\ x.dropped = d.dropped /\ x.open = d.open
    BY <2>1, <2>2 DEF Sound, StepState
  <2> QED
    BY <1>0, <2>2, <2>3 DEF Intact
<1>4. CASE s.open /\ ~ OverBudget(s)
  <2> DEFINE b == Buffered(s)
  <2>1. Sound(b) /\ Intact(b, n + 1) /\ b.dropped = s.dropped /\ b.open = s.open
    BY <1>4, BufferedKeeps
  <2>2. x = b \/ x \in FlushState(b)
    BY <1>4 DEF WriteRecord
  <2> HIDE DEF b
  <2>3. CASE x = b
    BY <1>0, <2>1, <2>3
  <2>4. CASE x \in FlushState(b)
    <3>1. n + 1 \in Nat
      OBVIOUS
    <3>2. Sound(x) /\ Intact(x, n + 1) /\ x.dropped >= b.dropped /\ x.open = b.open
      BY <2>1, <2>4, <3>1, FlushKeeps
    <3> QED
      BY <2>1, <3>2
  <2> QED
    BY <2>2, <2>3, <2>4
<1> QED
  BY <1>0, <1>1, <1>2, <1>3, <1>4

LEMMA WriteRecordsKeeps ==
  ASSUME NEW s, Sound(s), NEW n \in Nat, Intact(s, n) \/ ~ s.open,
         NEW k \in 1 .. 2, NEW x \in WriteRecords(s, k)
  PROVE  Sound(x) /\ Intact(x, n + k) /\ x.dropped >= s.dropped /\ x.open = s.open
<1>1. CASE k = 1
  BY <1>1, WriteRecordKeeps DEF WriteRecords
<1>2. CASE k = 2
  <2>1. PICK y \in WriteRecord(s) : x \in WriteRecord(y)
    BY <1>2 DEF WriteRecords
  <2>2. Sound(y) /\ Intact(y, n + 1) /\ y.dropped >= s.dropped /\ y.open = s.open
    BY WriteRecordKeeps
  <2>3. n + 1 \in Nat
    OBVIOUS
  <2>4. Sound(x) /\ Intact(x, (n + 1) + 1) /\ x.dropped >= y.dropped /\ x.open = y.open
    BY <2>1, <2>2, <2>3, WriteRecordKeeps
  <2>5. s.dropped \in Nat /\ y.dropped \in Nat /\ x.dropped \in Nat /\ (n + 1) + 1 = n + k
    BY <1>2, <2>2, <2>4 DEF Sound, StepState
  <2> QED
    BY <2>2, <2>4, <2>5
<1> QED
  BY <1>1, <1>2

-----------------------------------------------------------------------------
(* The invariant: what the recorder, the markers and the manifest keep.      *)

BuffersInv ==
  \A t \in Threads :
    ~ recorder[t].open \/ life[t] = "ended" => recorder[t].buffer = <<>>

\* Before the first drop no two threads share a file.
OwnFiles ==
  dropped = 0 => \A t, u \in Current : recorder[t].tid = recorder[u].tid => t = u

AllIntact == \A t \in Current : Intact(View(t), happened[t])

ThreadInv ==
  /\ BuffersInv
  /\ OwnFiles
  /\ AllIntact
  /\ unprobed => dropped > 0

MarkerInv ==
  /\ phase \in {"reasons written", "dropped written"} =>
       /\ Running = {} /\ (metadataComplete => reasonsFile = reasons)
  /\ phase = "dropped written" /\ metadataComplete => droppedFile = dropped
  /\ completeFile =>
       /\ phase = "exited" /\ Running = {}
       /\ reasonsFile = reasons /\ droppedFile = dropped

ManifestInv ==
  /\ collected => phase = "exited"
  /\ manifest.complete =>
       /\ collected /\ completeFile
       /\ manifest.dropped_events = 0 => droppedFile = 0

Inv == TypeOK /\ ThreadInv /\ MarkerInv /\ ManifestInv

LEMMA ViewIsSound ==
  ASSUME TypeOK, BuffersInv, NEW t \in Threads
  PROVE  Sound(View(t))
<1>1. recorder[t] \in Recorder /\ file[recorder[t].tid] \in File
  BY DEF TypeOK, Recorder
<1> QED
  BY <1>1 DEF Sound, StepState, View, TypeOK, BuffersInv, Recorder

\* Whether a view is intact depends on these fields only.
LEMMA IntactByFields ==
  ASSUME NEW s, NEW x, NEW n, Intact(s, n), s.dropped = 0,
         x.open = s.open, x.limitReported = s.limitReported, x.file = s.file,
         x.seq = s.seq, x.buffer = s.buffer
  PROVE  Intact(x, n)
BY DEF Intact, Kept

(***************************************************************************)
(* What a running thread's handler leaves behind.  Another thread has a    *)
(* file of its own as long as nothing was dropped, so it is not disturbed. *)
(***************************************************************************)
LEMMA AdoptKeeps ==
  ASSUME TypeOK, ThreadInv, NEW t \in Running, NEW s, Sound(s), NEW n \in Nat,
         Intact(s, happened[t] + n), s.dropped >= dropped, s.open = recorder[t].open,
         Adopt(t, s, n), unprobed' = unprobed,
         \/ life' = life
         \/ life' = [life EXCEPT ![t] = "ended"] /\ s.buffer = <<>>
  PROVE  /\ recorder' \in [Threads -> Recorder] /\ file' \in [Tids -> File]
         /\ happened' \in [Threads -> Nat] /\ life' \in [Threads -> Lives]
         /\ dropped' \in Nat /\ reasons' \in [Reasons -> Nat]
         /\ ThreadInv'
<1>0. /\ t \in Threads /\ life[t] = "running" /\ t \in Current
      /\ life \in [Threads -> Lives]
      /\ dropped \in Nat /\ dropped' = s.dropped
      /\ recorder \in [Threads -> Recorder] /\ recorder[t].tid \in Tids
      /\ file \in [Tids -> File] /\ happened \in [Threads -> Nat]
      /\ s.dropped \in Nat /\ s.file \in File /\ s.open \in BOOLEAN /\ s.seq \in Nat
      /\ s.buffer \in Seq(Nat) /\ s.limitReported \in BOOLEAN
      /\ s.reasons \in [Reasons -> Nat]
  BY DEF Running, Current, TypeOK, Recorder, Sound, StepState, Adopt
<1>1. /\ recorder' \in [Threads -> Recorder]
      /\ recorder'[t].tid = recorder[t].tid /\ recorder'[t].open = s.open
      /\ recorder'[t].seq = s.seq /\ recorder'[t].buffer = s.buffer
      /\ recorder'[t].limitReported = s.limitReported
      /\ \A u \in Threads \ {t} : recorder'[u] = recorder[u]
  BY <1>0 DEF Adopt, StateOf, Recorder
<1>2. /\ file' \in [Tids -> File] /\ file'[recorder[t].tid] = s.file
      /\ \A k \in Tids \ {recorder[t].tid} : file'[k] = file[k]
      /\ happened' \in [Threads -> Nat] /\ happened'[t] = happened[t] + n
      /\ \A u \in Threads \ {t} : happened'[u] = happened[u]
      /\ dropped' \in Nat /\ reasons' \in [Reasons -> Nat]
  BY <1>0 DEF Adopt
<1>3. /\ life' \in [Threads -> Lives] /\ life'[t] \in {"running", "ended"}
      /\ life'[t] = "ended" => s.buffer = <<>>
      /\ \A u \in Threads \ {t} : life'[u] = life[u]
  BY <1>0 DEF Lives
<1>4. Current' = Current
  BY <1>0, <1>3 DEF Current
<1>5. BuffersInv'
  BY <1>0, <1>1, <1>3 DEF ThreadInv, BuffersInv, Sound
<1>6. OwnFiles'
  <2>1. dropped' = 0 => dropped = 0
    BY <1>0
  <2>2. \A u \in Threads : recorder'[u].tid = recorder[u].tid
    BY <1>1
  <2> QED
    BY <1>4, <2>1, <2>2 DEF ThreadInv, OwnFiles, Current
<1>7. AllIntact'
  <2> SUFFICES ASSUME NEW u \in Current, dropped' = 0
               PROVE  Intact(View(u), happened[u])'
    BY <1>4 DEF AllIntact, Intact, View
  <2>0. dropped = 0 /\ s.dropped = 0 /\ u \in Threads
    BY <1>0 DEF Current
  <2>1. CASE u = t
    <3>1. /\ View(t)'.open = s.open /\ View(t)'.limitReported = s.limitReported
          /\ View(t)'.file = s.file /\ View(t)'.seq = s.seq /\ View(t)'.buffer = s.buffer
      BY <1>1, <1>2 DEF View
    <3>2. Intact(View(t)', happened[t] + n)
      BY <2>0, <3>1, IntactByFields
    <3> QED
      BY <1>2, <2>1, <3>2 DEF Intact, Kept
  <2>2. CASE u # t
    <3>1. recorder[u].tid # recorder[t].tid /\ recorder[u].tid \in Tids
      BY <1>0, <2>0, <2>2 DEF ThreadInv, OwnFiles, Recorder
    <3>2. /\ View(u)'.open = View(u).open
          /\ View(u)'.limitReported = View(u).limitReported
          /\ View(u)'.file = View(u).file /\ View(u)'.seq = View(u).seq
          /\ View(u)'.buffer = View(u).buffer
      BY <1>1, <1>2, <2>0, <2>2, <3>1 DEF View
    <3>3. Intact(View(u), happened[u]) /\ View(u).dropped = 0
      BY <2>0 DEF ThreadInv, AllIntact, View
    <3>4. Intact(View(u)', happened[u])
      BY <3>2, <3>3, IntactByFields
    <3> QED
      BY <1>2, <2>0, <2>2, <3>4 DEF Intact, Kept
  <2> QED
    BY <2>1, <2>2
<1>8. unprobed' => dropped' > 0
  BY <1>0 DEF ThreadInv
<1> QED
  BY <1>1, <1>2, <1>3, <1>5, <1>6, <1>7, <1>8 DEF ThreadInv

(***************************************************************************)
(* Steps that touch neither buffers nor files: the counter may only rise,  *)
(* and must have risen for a record that was called for and not written.   *)
(***************************************************************************)
LEMMA CountedKeeps ==
  ASSUME TypeOK, ThreadInv, dropped' \in Nat, dropped' >= dropped,
         UNCHANGED <<life, recorder, file>>,
         happened' = happened \/ dropped' > 0, unprobed' => dropped' > 0
  PROVE  ThreadInv'
<1>0. dropped \in Nat /\ (dropped' = 0 => dropped = 0) /\ Current' = Current
  BY DEF TypeOK, Current
<1>1. BuffersInv' /\ OwnFiles'
  BY <1>0 DEF ThreadInv, BuffersInv, OwnFiles
<1>2. AllIntact'
  <2> SUFFICES ASSUME NEW u \in Current, dropped' = 0
               PROVE  Intact(View(u), happened[u])'
    BY <1>0 DEF AllIntact, Intact, View
  <2>1. /\ View(u)'.open = View(u).open /\ View(u)'.limitReported = View(u).limitReported
        /\ View(u)'.file = View(u).file /\ View(u)'.seq = View(u).seq
        /\ View(u)'.buffer = View(u).buffer
    BY DEF View
  <2>2. Intact(View(u), happened[u]) /\ View(u).dropped = 0
    BY <1>0 DEF ThreadInv, AllIntact, View
  <2>3. Intact(View(u)', happened[u])
    BY <2>1, <2>2, IntactByFields
  <2>4. happened' = happened
    BY <1>0
  <2> QED
    BY <2>3, <2>4
<1> QED
  BY <1>1, <1>2 DEF ThreadInv

(***************************************************************************)
(* A new thread: if its file was opened, no current thread has that file   *)
(* any more; if it was not, its first record is a counted drop.            *)
(***************************************************************************)
LEMMA ThreadInitKeeps ==
  ASSUME TypeOK, ThreadInv, NEW t \in Threads, NEW k \in Tids,
         NEW opened \in BOOLEAN, NEW header \in BOOLEAN, NEW n \in 1 .. 2,
         ThreadInit(t, k, opened, header, n)
  PROVE  /\ recorder' \in [Threads -> Recorder] /\ file' \in [Tids -> File]
         /\ happened' \in [Threads -> Nat] /\ life' \in [Threads -> Lives]
         /\ dropped' \in Nat /\ reasons' \in [Reasons -> Nat]
         /\ dropped' >= dropped
         /\ ThreadInv'
<1> DEFINE fresh == [exists |-> TRUE, header |-> header, records |-> <<>>, torn |-> FALSE]
           first == IF opened THEN fresh ELSE file[k]
           start == [open |-> opened, seq |-> 0, buffer |-> <<>>, limitReported |-> FALSE,
                     file |-> first, dropped |-> dropped, reasons |-> reasons]
           ready == IF opened /\ ~ header THEN NoteDrop(start, "write", 1) ELSE start
<1>1. PICK s \in WriteRecords(ready, n) :
        /\ recorder' = [recorder EXCEPT ![t] = StateOf(k, s)]
        /\ file' = [file EXCEPT ![k] = s.file]
        /\ dropped' = s.dropped
        /\ reasons' = s.reasons
        /\ happened' = [happened EXCEPT ![t] = n]
  BY DEF ThreadInit
<1>2. /\ dropped \in Nat /\ reasons \in [Reasons -> Nat] /\ file \in [Tids -> File]
      /\ recorder \in [Threads -> Recorder] /\ life \in [Threads -> Lives]
      /\ happened \in [Threads -> Nat] /\ n \in Nat
  BY DEF TypeOK
<1>3. first \in File /\ (opened => first = fresh)
  BY <1>2 DEF File
<1>4. /\ Sound(start) /\ start.dropped = dropped /\ start.open = opened
      /\ (opened /\ header => Intact(start, 0))
  <2>1. Sound(start)
    <3> HIDE DEF first
    <3> QED
      BY <1>2, <1>3 DEF Sound, StepState
  <2>2. ASSUME opened, header PROVE Intact(start, 0)
    BY <1>3, <2>2 DEF Intact, Kept, InSequence
  <2> QED
    BY <2>1, <2>2
<1>5. /\ Sound(ready) /\ ready.dropped >= dropped /\ ready.open = opened
      /\ Intact(ready, 0) \/ ~ ready.open
  <2>1. CASE opened /\ ~ header
    <3> DEFINE r == "write"
    <3>1. r \in Reasons /\ 1 \in Nat /\ ready = NoteDrop(start, r, 1)
      BY <2>1 DEF Reasons
    <3> HIDE DEF r, start, ready
    <3>2. Sound(ready) /\ ready.dropped = start.dropped + 1 /\ ready.open = start.open
      BY <1>4, <3>1, NoteDropSound
    <3> QED
      BY <1>2, <1>4, <3>2 DEF Intact
  <2>2. CASE ~ (opened /\ ~ header)
    <3>1. ready = start
      BY <2>2
    <3> HIDE DEF start, ready
    <3> QED
      BY <1>2, <1>4, <2>2, <3>1
  <2> QED
    BY <2>1, <2>2
<1> HIDE DEF fresh, first, start, ready
<1>6. Sound(s) /\ Intact(s, n) /\ s.dropped >= dropped /\ s.open = opened
  <2>1. Sound(s) /\ Intact(s, 0 + n) /\ s.dropped >= ready.dropped /\ s.open = ready.open
    BY <1>1, <1>5, WriteRecordsKeeps
  <2>2. 0 + n = n
    BY <1>2
  <2>3. s.dropped \in Nat /\ ready.dropped \in Nat
    BY <1>5, <2>1 DEF Sound, StepState
  <2> QED
    BY <1>2, <1>5, <2>1, <2>2, <2>3
<1>7. /\ s.dropped \in Nat /\ s.file \in File /\ s.open \in BOOLEAN /\ s.seq \in Nat
      /\ s.buffer \in Seq(Nat) /\ s.limitReported \in BOOLEAN
      /\ s.reasons \in [Reasons -> Nat]
      /\ ~ s.open => s.buffer = <<>>
  BY <1>6 DEF Sound, StepState
<1>8. /\ recorder' \in [Threads -> Recorder]
      /\ recorder'[t] = StateOf(k, s)
      /\ \A u \in Threads \ {t} : recorder'[u] = recorder[u]
  BY <1>1, <1>2, <1>7 DEF StateOf, Recorder
<1>9. /\ recorder'[t].tid = k /\ recorder'[t].open = s.open /\ recorder'[t].seq = s.seq
      /\ recorder'[t].buffer = s.buffer /\ recorder'[t].limitReported = s.limitReported
  BY <1>8 DEF StateOf
<1>10. /\ file' \in [Tids -> File] /\ file'[k] = s.file
       /\ \A j \in Tids \ {k} : file'[j] = file[j]
       /\ happened' \in [Threads -> Nat] /\ happened'[t] = n
       /\ \A u \in Threads \ {t} : happened'[u] = happened[u]
       /\ dropped' = s.dropped /\ reasons' = s.reasons
  BY <1>1, <1>2, <1>7
<1>11. /\ life' \in [Threads -> Lives] /\ life'[t] = "running"
       /\ \A u \in Threads \ {t} : life'[u] = life[u] \/ life'[u] = "reused"
       /\ opened => \A u \in Threads \ {t} :
            life'[u] \in {"running", "ended"} => recorder[u].tid # k
  BY <1>2 DEF ThreadInit, Lives, Running
<1>12. BuffersInv'
  BY <1>7, <1>8, <1>9, <1>11 DEF ThreadInv, BuffersInv
<1>13. dropped' = 0 => dropped = 0 /\ opened
  BY <1>2, <1>6, <1>7, <1>10 DEF Intact
<1>14. \A u \in Threads \ {t} : u \in Current' => u \in Current
  BY <1>11 DEF Current
<1>15. OwnFiles'
  <2> SUFFICES ASSUME dropped' = 0, NEW u \in Current', NEW v \in Current',
                      recorder'[u].tid = recorder'[v].tid
               PROVE  u = v
    BY DEF OwnFiles
  <2>0. u \in Threads /\ v \in Threads /\ life'[u] \in {"running", "ended"}
        /\ life'[v] \in {"running", "ended"}
    BY DEF Current
  <2>1. CASE u # t /\ v # t
    BY <1>8, <1>13, <1>14, <2>0, <2>1 DEF ThreadInv, OwnFiles
  <2>2. CASE u = t \/ v = t
    BY <1>8, <1>9, <1>11, <1>13, <2>0, <2>2
  <2> QED
    BY <2>1, <2>2
<1>16. AllIntact'
  <2> SUFFICES ASSUME NEW u \in Current', dropped' = 0
               PROVE  Intact(View(u), happened[u])'
    BY DEF AllIntact, Intact, View
  <2>0. /\ dropped = 0 /\ opened /\ s.dropped = 0 /\ u \in Threads
        /\ life'[u] \in {"running", "ended"}
    BY <1>10, <1>13 DEF Current
  <2>1. CASE u = t
    <3>1. /\ View(t)'.open = s.open /\ View(t)'.limitReported = s.limitReported
          /\ View(t)'.file = s.file /\ View(t)'.seq = s.seq /\ View(t)'.buffer = s.buffer
      BY <1>9, <1>10 DEF View
    <3>2. Intact(View(t)', n)
      BY <1>6, <2>0, <3>1, IntactByFields
    <3> QED
      BY <1>10, <2>1, <3>2 DEF Intact, Kept
  <2>2. CASE u # t
    <3>1. recorder[u].tid # k /\ recorder[u].tid \in Tids /\ u \in Current
      BY <1>2, <1>11, <1>14, <2>0, <2>2 DEF Recorder
    <3>2. /\ View(u)'.open = View(u).open
          /\ View(u)'.limitReported = View(u).limitReported
          /\ View(u)'.file = View(u).file /\ View(u)'.seq = View(u).seq
          /\ View(u)'.buffer = View(u).buffer
      BY <1>8, <1>10, <2>0, <2>2, <3>1 DEF View
    <3>3. Intact(View(u), happened[u]) /\ View(u).dropped = 0
      BY <2>0, <3>1 DEF ThreadInv, AllIntact, View
    <3>4. Intact(View(u)', happened[u])
      BY <3>2, <3>3, IntactByFields
    <3> QED
      BY <1>10, <2>0, <2>2, <3>4 DEF Intact, Kept
  <2> QED
    BY <2>1, <2>2
<1>17. unprobed' => dropped' > 0
  BY <1>2, <1>6, <1>7, <1>10 DEF ThreadInv, ThreadInit
<1> QED
  BY <1>6, <1>7, <1>8, <1>10, <1>11, <1>12, <1>15, <1>16, <1>17 DEF ThreadInv

-----------------------------------------------------------------------------
(* One step of the invariant for each kind of action.                        *)

\* While the process runs its threads, no marker is on disk and nothing collected.
LEMMA NoMarkersYet ==
  ASSUME Inv, phase \in {"running", "exiting"}
  PROVE  ~ completeFile /\ ~ collected /\ ~ manifest.complete
BY DEF Inv, MarkerInv, ManifestInv

LEMMA InitInv == Init => Inv
<1> SUFFICES ASSUME Init PROVE Inv
  OBVIOUS
<1>1. <<>> \in Seq(Nat)
  OBVIOUS
<1>2. NewState \in Recorder /\ NoFile \in File /\ NewState.buffer = <<>>
  BY <1>1, PidIsTid DEF NewState, NoFile, Recorder, File
<1>3. manifest \in Manifest /\ ~ manifest.complete
  BY DEF Init, Manifest, Codes
<1>4. TypeOK
  BY <1>2, <1>3, BudgetsAreNatural
  DEF Init, TypeOK, Lives, Phases, Codes, Unreadable
<1>5. ThreadInv
  BY <1>2 DEF Init, ThreadInv, BuffersInv, OwnFiles, AllIntact, Current
<1>6. MarkerInv /\ ManifestInv
  BY <1>3 DEF Init, MarkerInv, ManifestInv
<1> QED
  BY <1>4, <1>5, <1>6 DEF Inv

LEMMA ThreadInitInv ==
  ASSUME Inv, NEW t \in Threads, NEW k \in Tids, NEW opened \in BOOLEAN,
         NEW header \in BOOLEAN, NEW n \in 1 .. 2, ThreadInit(t, k, opened, header, n)
  PROVE  Inv'
<1>1. /\ recorder' \in [Threads -> Recorder] /\ file' \in [Tids -> File]
      /\ happened' \in [Threads -> Nat] /\ life' \in [Threads -> Lives]
      /\ dropped' \in Nat /\ reasons' \in [Reasons -> Nat] /\ ThreadInv'
  BY ThreadInitKeeps DEF Inv
<1>2. /\ phase = "running"
      /\ UNCHANGED <<unprobed, budget, phase, metadataComplete, markers, exitCode, launcher>>
  BY DEF ThreadInit
<1>3. TypeOK'
  BY <1>1, <1>2 DEF Inv, TypeOK, markers, launcher
<1>4. MarkerInv' /\ ManifestInv'
  BY <1>2, NoMarkersYet DEF markers, launcher, MarkerInv, ManifestInv
<1> QED
  BY <1>1, <1>3, <1>4 DEF Inv

\* The handlers of a running thread, its exit among them.
LEMMA HandlerInv ==
  ASSUME Inv, NEW t \in Threads,
         \/ Record(t) \/ UnsupportedCall(t) \/ \E n \in 1 .. 2 : ThreadExit(t, n)
  PROVE  Inv'
<1>0. /\ t \in Running
      /\ phase \in {"running", "exiting"}
      /\ UNCHANGED <<unprobed, budget, phase, metadataComplete, markers, exitCode, launcher>>
  BY DEF Record, UnsupportedCall, ThreadExit, Running
<1>1. /\ Sound(View(t)) /\ Intact(View(t), happened[t]) /\ View(t).dropped = dropped
      /\ View(t).open = recorder[t].open /\ happened[t] \in Nat /\ dropped \in Nat
  <2>1. Sound(View(t))
    BY ViewIsSound DEF Inv, ThreadInv
  <2>2. Intact(View(t), happened[t])
    BY <1>0 DEF Inv, ThreadInv, AllIntact, Running, Current
  <2> QED
    BY <2>1, <2>2 DEF View, Inv, TypeOK
<1>2. /\ recorder' \in [Threads -> Recorder] /\ file' \in [Tids -> File]
      /\ happened' \in [Threads -> Nat] /\ life' \in [Threads -> Lives]
      /\ dropped' \in Nat /\ reasons' \in [Reasons -> Nat] /\ ThreadInv'
  <2>1. CASE Record(t)
    <3>1. PICK s \in WriteRecord(View(t)) : Adopt(t, s, 1)
      BY <2>1 DEF Record
    <3>2. Sound(s) /\ Intact(s, happened[t] + 1) /\ s.dropped >= dropped
          /\ s.open = recorder[t].open
      BY <1>1, WriteRecordKeeps
    <3>3. life' = life /\ unprobed' = unprobed /\ 1 \in Nat
      BY <2>1 DEF Record
    <3> QED
      BY <1>0, <3>1, <3>2, <3>3, AdoptKeeps DEF Inv
  <2>2. CASE UnsupportedCall(t)
    <3> DEFINE r == "unsupported"
               d == NoteDrop(View(t), r, 1)
    <3>1. PICK s \in WriteRecord(d) : Adopt(t, s, 1)
      BY <2>2 DEF UnsupportedCall
    <3>2. r \in Reasons /\ 1 \in Nat
      BY DEF Reasons
    <3> HIDE DEF r
    <3>3. Sound(d) /\ d.dropped = dropped + 1 /\ d.open = recorder[t].open
      BY <1>1, <3>2, NoteDropSound
    <3> HIDE DEF d
    <3>4. Intact(d, happened[t])
      BY <1>1, <3>3 DEF Intact
    <3>5. Sound(s) /\ Intact(s, happened[t] + 1) /\ s.dropped >= d.dropped
          /\ s.open = recorder[t].open
      BY <1>1, <3>3, <3>4, WriteRecordKeeps
    <3>6. s.dropped >= dropped
      BY <1>1, <3>3, <3>5 DEF Sound, StepState
    <3>7. life' = life /\ unprobed' = unprobed
      BY <2>2 DEF UnsupportedCall
    <3> QED
      BY <1>0, <3>1, <3>2, <3>5, <3>6, <3>7, AdoptKeeps DEF Inv
  <2>3. ASSUME NEW n \in 1 .. 2, ThreadExit(t, n)
        PROVE  /\ recorder' \in [Threads -> Recorder] /\ file' \in [Tids -> File]
               /\ happened' \in [Threads -> Nat] /\ life' \in [Threads -> Lives]
               /\ dropped' \in Nat /\ reasons' \in [Reasons -> Nat] /\ ThreadInv'
    <3>0. PICK x \in WriteRecords(View(t), n) : \E s \in FlushState(x) : Adopt(t, s, n)
      BY <2>3 DEF ThreadExit
    <3>1. PICK s \in FlushState(x) : Adopt(t, s, n)
      BY <3>0
    <3>2. Sound(x) /\ Intact(x, happened[t] + n) /\ x.dropped >= dropped
          /\ x.open = recorder[t].open
      BY <1>1, WriteRecordsKeeps
    <3>3. happened[t] + n \in Nat /\ n \in Nat
      BY <1>1
    <3>4. /\ Sound(s) /\ Intact(s, happened[t] + n) /\ s.buffer = <<>>
          /\ s.dropped >= x.dropped /\ s.open = x.open
      BY <3>1, <3>2, <3>3, FlushKeeps
    <3>5. s.dropped >= dropped
      BY <1>1, <3>2, <3>4 DEF Sound, StepState
    <3>6. life' = [life EXCEPT ![t] = "ended"] /\ unprobed' = unprobed
      BY <2>3 DEF ThreadExit
    <3> QED
      BY <1>0, <3>1, <3>2, <3>3, <3>4, <3>5, <3>6, AdoptKeeps DEF Inv
  <2> QED
    BY <2>1, <2>2, <2>3
<1>3. TypeOK'
  BY <1>0, <1>2 DEF Inv, TypeOK, markers, launcher
<1>4. MarkerInv' /\ ManifestInv'
  BY <1>0, NoMarkersYet DEF markers, launcher, MarkerInv, ManifestInv
<1> QED
  BY <1>2, <1>3, <1>4 DEF Inv

LEMMA ReasonsFinite == IsFiniteSet(Reasons)
<1> DEFINE a == {"write"} \cup {"missing_thread_state"}
           b == {"resource_limit"} \cup {"instrumentation"}
           c == {"lifecycle"} \cup {"unsupported"}
<1>1. IsFiniteSet(a) /\ IsFiniteSet(b) /\ IsFiniteSet(c)
  BY FS_Singleton, FS_Union
<1>2. Reasons = (a \cup b) \cup c
  BY DEF Reasons
<1> HIDE DEF a, b, c
<1>3. IsFiniteSet(a \cup b)
  BY <1>1, FS_Union
<1> QED
  BY <1>1, <1>2, <1>3, FS_Union

\* A counter raised by a natural number.
LEMMA RaisedReasons ==
  ASSUME NEW f \in [Reasons -> Nat], NEW r \in Reasons, NEW k \in Nat
  PROVE  [f EXCEPT ![r] = @ + k] \in [Reasons -> Nat]
OBVIOUS

\* Steps of the running program that only count, or only call for a record.
LEMMA CountingInv ==
  ASSUME Inv, EmitUnprobed \/ \E t \in Threads : RunUnprobed(t) \/ OversizedAllocation(t)
  PROVE  Inv'
<1>0. /\ phase = "running" /\ dropped \in Nat /\ reasons \in [Reasons -> Nat]
      /\ UNCHANGED <<life, recorder, file, budget, phase, metadataComplete, markers,
                     exitCode, launcher>>
  BY DEF EmitUnprobed, RunUnprobed, OversizedAllocation, threadVars, Inv, TypeOK
<1>1. /\ dropped' \in Nat /\ dropped' >= dropped /\ reasons' \in [Reasons -> Nat]
      /\ happened' \in [Threads -> Nat] /\ unprobed' \in BOOLEAN
      /\ happened' = happened \/ dropped' > 0
      /\ unprobed' => dropped' > 0
  <2>1. CASE EmitUnprobed
    <3> DEFINE r == "instrumentation"
    <3>1. r \in Reasons /\ 1 \in Nat
      BY DEF Reasons
    <3>2. reasons' = [reasons EXCEPT ![r] = @ + 1]
      BY <2>1 DEF EmitUnprobed
    <3> HIDE DEF r
    <3>3. reasons' \in [Reasons -> Nat]
      BY <1>0, <3>1, <3>2, RaisedReasons
    <3> QED
      BY <1>0, <2>1, <3>3 DEF EmitUnprobed, threadVars, Inv, TypeOK
  <2>2. ASSUME NEW t \in Threads, RunUnprobed(t)
        PROVE  /\ dropped' \in Nat /\ dropped' >= dropped /\ reasons' \in [Reasons -> Nat]
               /\ happened' \in [Threads -> Nat] /\ unprobed' \in BOOLEAN
               /\ happened' = happened \/ dropped' > 0
               /\ unprobed' => dropped' > 0
    BY <1>0, <2>2 DEF RunUnprobed, dropVars, Inv, TypeOK, ThreadInv
  <2>3. ASSUME NEW t \in Threads, OversizedAllocation(t)
        PROVE  /\ dropped' \in Nat /\ dropped' >= dropped /\ reasons' \in [Reasons -> Nat]
               /\ happened' \in [Threads -> Nat] /\ unprobed' \in BOOLEAN
               /\ happened' = happened \/ dropped' > 0
               /\ unprobed' => dropped' > 0
    <3> DEFINE r == "lifecycle"
    <3>1. r \in Reasons /\ 1 \in Nat
      BY DEF Reasons
    <3>2. reasons' = [reasons EXCEPT ![r] = @ + 1]
      BY <2>3 DEF OversizedAllocation
    <3> HIDE DEF r
    <3>3. reasons' \in [Reasons -> Nat]
      BY <1>0, <3>1, <3>2, RaisedReasons
    <3>4. happened' \in [Threads -> Nat]
      BY <2>3 DEF OversizedAllocation, Inv, TypeOK
    <3> QED
      BY <1>0, <2>3, <3>3, <3>4 DEF OversizedAllocation, Inv, TypeOK
  <2> QED
    BY <2>1, <2>2, <2>3
<1>2. ThreadInv'
  BY <1>0, <1>1, CountedKeeps DEF Inv
<1>3. TypeOK'
  BY <1>0, <1>1 DEF Inv, TypeOK, markers, launcher
<1>4. MarkerInv' /\ ManifestInv'
  BY <1>0, NoMarkersYet DEF markers, launcher, MarkerInv, ManifestInv
<1> QED
  BY <1>2, <1>3, <1>4 DEF Inv

LEMMA ReplaceImageInv == ASSUME Inv, ReplaceImage PROVE Inv'
<1>0. /\ phase = "running"
      /\ UNCHANGED <<recorder, happened, budget, phase, metadataComplete, file, markers,
                     exitCode, launcher>>
      /\ dropped' = 0 /\ reasons' = [r \in Reasons |-> 0] /\ unprobed' = FALSE
      /\ life' = [t \in Threads |-> IF life[t] = "unborn" THEN "unborn" ELSE "replaced"]
  BY DEF ReplaceImage
<1>1. TypeOK'
  BY <1>0 DEF Inv, TypeOK, Lives, markers, launcher
<1>2. Current' = {} /\ \A t \in Threads : life'[t] # "ended"
  BY <1>0 DEF Current
<1>3. ThreadInv'
  BY <1>0, <1>2 DEF Inv, ThreadInv, BuffersInv, OwnFiles, AllIntact
<1>4. MarkerInv' /\ ManifestInv'
  BY <1>0, NoMarkersYet DEF markers, launcher, MarkerInv, ManifestInv
<1> QED
  BY <1>1, <1>3, <1>4 DEF Inv

\* The end of the process, up to the first marker.
LEMMA EndingInv ==
  ASSUME Inv, Kill \/ \E code \in {"zero", "nonzero"} : Exit(code)
  PROVE  Inv'
<1>0. /\ phase # "exited" /\ phase' \in {"exiting", "exited"} /\ exitCode' \in Codes
      /\ UNCHANGED <<threadVars, unprobed, budget, dropVars, metadataComplete, file,
                     markers, launcher>>
  BY DEF Kill, Exit, Codes
<1>1. TypeOK'
  BY <1>0 DEF Inv, TypeOK, Phases, threadVars, dropVars, markers, launcher
<1>2. ThreadInv'
  <2>1. /\ dropped' \in Nat /\ dropped' >= dropped /\ (unprobed' => dropped' > 0)
        /\ UNCHANGED <<life, recorder, file, happened>>
    BY <1>0 DEF Inv, TypeOK, ThreadInv, threadVars, dropVars
  <2> QED
    BY <2>1, CountedKeeps DEF Inv
<1>3. ~ completeFile /\ ~ collected /\ ~ manifest.complete
  BY <1>0 DEF Inv, MarkerInv, ManifestInv
<1>4. MarkerInv' /\ ManifestInv'
  BY <1>0, <1>3 DEF markers, launcher, MarkerInv, ManifestInv
<1> QED
  BY <1>1, <1>2, <1>4 DEF Inv

\* The markers of process_exit.
LEMMA MarkersInv ==
  ASSUME Inv,
         \/ WriteReasons \/ ReasonsUnwritable
         \/ WriteDropped \/ DroppedUnwritable \/ WriteComplete
  PROVE  Inv'
<1>0. /\ phase # "exited" /\ ~ completeFile /\ ~ collected /\ ~ manifest.complete
      /\ Running = {} /\ dropped \in Nat /\ reasons \in [Reasons -> Nat]
      /\ UNCHANGED <<life, recorder, happened, unprobed, budget, file, exitCode, launcher>>
  <2>1. phase # "exited" /\ Running = {}
    BY DEF WriteReasons, ReasonsUnwritable, WriteDropped, DroppedUnwritable,
           WriteComplete, Inv, MarkerInv
  <2> QED
    BY <2>1 DEF WriteReasons, ReasonsUnwritable, WriteDropped, DroppedUnwritable,
       WriteComplete, threadVars, Inv, MarkerInv, ManifestInv, TypeOK
<1>01. /\ reasonsFile \in [Reasons -> Nat] /\ droppedFile \in Nat \cup {Unreadable}
      /\ completeFile \in BOOLEAN /\ metadataComplete \in BOOLEAN
  BY DEF Inv, TypeOK
<1>02. Running' = {}
  BY <1>0 DEF Running
<1>03. dropped \in Nat /\ reasons \in [Reasons -> Nat]
  BY DEF Inv, TypeOK
<1>04. ~ completeFile
  BY <1>0
<1>1. /\ dropped' \in Nat /\ dropped' >= dropped /\ reasons' \in [Reasons -> Nat]
      /\ reasonsFile' \in [Reasons -> Nat] /\ droppedFile' \in Nat \cup {Unreadable}
      /\ completeFile' \in BOOLEAN /\ phase' \in Phases /\ metadataComplete' \in BOOLEAN
      /\ MarkerInv'
  <2>1. CASE WriteReasons
    <3> DEFINE w == "write"
    <3>1. PICK failed \in SUBSET {r \in Reasons : reasons[r] > 0} :
            /\ reasonsFile' = [r \in Reasons |-> IF r \in failed THEN 0 ELSE reasons[r]]
            /\ dropped' = dropped + Cardinality(failed)
            /\ reasons' = [reasons EXCEPT ![w] = @ + Cardinality(failed)]
            /\ metadataComplete' = (failed = {})
      BY <2>1 DEF WriteReasons
    <3>2. Cardinality(failed) \in Nat
      <4>1. IsFiniteSet(failed)
        BY ReasonsFinite, FS_Subset
      <4> QED
        BY <4>1, FS_CardinalityType
    <3>3. w \in Reasons
      BY DEF Reasons
    <3> HIDE DEF w
    <3>4. metadataComplete' \in BOOLEAN /\ (metadataComplete' => failed = {})
      BY <3>1
    <3>5. reasons' \in [Reasons -> Nat]
      BY <1>0, <3>1, <3>2, <3>3, RaisedReasons
    <3>6. reasonsFile' \in [Reasons -> Nat]
      BY <1>0, <3>1
    <3>7. dropped' \in Nat /\ dropped' >= dropped
      <4>1. dropped' = dropped + Cardinality(failed)
        BY <3>1
      <4> QED
        BY <1>03, <3>2, <4>1
    <3>8. failed = {} => reasonsFile' = reasons'
      <4> SUFFICES ASSUME failed = {} PROVE reasonsFile' = reasons'
        OBVIOUS
      <4>1. Cardinality(failed) = 0
        BY FS_EmptySet
      <4>2. reasons' = reasons
        BY <1>0, <3>1, <3>3, <4>1
      <4>3. reasonsFile' = reasons
        BY <1>0, <3>1
      <4> QED
        BY <4>2, <4>3
    <3>9. /\ phase' = "reasons written"
          /\ completeFile' = completeFile /\ droppedFile' = droppedFile
      BY <2>1 DEF WriteReasons
    <3>10. MarkerInv'
      BY <1>0, <1>02, <3>4, <3>8, <3>9 DEF MarkerInv
    <3> QED
      BY <1>01, <3>4, <3>5, <3>6, <3>7, <3>9, <3>10 DEF Phases
  <2>2. CASE ReasonsUnwritable
    <3> DEFINE w == "write"
    <3>1. w \in Reasons /\ 1 \in Nat
      BY DEF Reasons
    <3>2. reasons' = [reasons EXCEPT ![w] = @ + 1]
      BY <2>2 DEF ReasonsUnwritable
    <3> HIDE DEF w
    <3>3. reasons' \in [Reasons -> Nat]
      BY <1>0, <3>1, <3>2, RaisedReasons
    <3>4. /\ phase' = "reasons written" /\ dropped' = dropped + 1
          /\ reasonsFile' = reasonsFile /\ droppedFile' = droppedFile
          /\ completeFile' = completeFile
      BY <2>2 DEF ReasonsUnwritable, markers
    <3>5. metadataComplete' = FALSE
      BY <2>2 DEF ReasonsUnwritable
    <3>6. MarkerInv'
      BY <1>0, <1>02, <3>4, <3>5 DEF MarkerInv
    <3>7. dropped' \in Nat /\ dropped' >= dropped
      <4>1. dropped' = dropped + 1
        BY <3>4
      <4> QED
        BY <1>03, <4>1
    <3> QED
      BY <1>01, <3>3, <3>4, <3>5, <3>6, <3>7 DEF Phases
  <2>3. CASE WriteDropped \/ DroppedUnwritable
    <3>1. /\ phase = "reasons written" /\ phase' = "dropped written"
          /\ dropped' = dropped /\ reasons' = reasons
          /\ reasonsFile' = reasonsFile /\ completeFile' = completeFile
      BY <2>3 DEF WriteDropped, DroppedUnwritable, dropVars
    <3>0. droppedFile' \in Nat \cup {Unreadable}
      <4>1. CASE WriteDropped
        BY <1>03, <4>1 DEF WriteDropped
      <4>2. CASE DroppedUnwritable
        <5>1. droppedFile' \in {Unreadable} \cup 0 .. dropped
          BY <4>2 DEF DroppedUnwritable
        <5>2. 0 .. dropped \subseteq Nat
          BY <1>03
        <5> QED
          BY <5>1, <5>2
      <4> QED
        BY <2>3, <4>1, <4>2
    <3>2. \/ metadataComplete' = metadataComplete /\ droppedFile' = dropped
          \/ metadataComplete' = FALSE
      BY <2>3, Zenon DEF WriteDropped, DroppedUnwritable
    <3>3. metadataComplete => reasonsFile = reasons
      BY <3>1 DEF Inv, MarkerInv
    <3>4. MarkerInv'
      <4>1. metadataComplete' => reasonsFile' = reasons'
        BY <3>1, <3>2, <3>3
      <4>2. metadataComplete' => droppedFile' = dropped'
        BY <3>1, <3>2
      <4>3. ~ completeFile'
        BY <1>04, <3>1
      <4> QED
        BY <1>02, <3>1, <4>1, <4>2, <4>3 DEF MarkerInv
    <3>5. dropped' \in Nat /\ dropped' >= dropped /\ reasons' \in [Reasons -> Nat]
      <4>1. dropped' = dropped /\ reasons' = reasons
        BY <3>1
      <4> QED
        BY <1>03, <4>1
    <3>6. metadataComplete' \in BOOLEAN
      BY <1>01, <3>2
    <3> QED
      BY <1>01, <3>0, <3>1, <3>4, <3>5, <3>6 DEF Phases
  <2>4. CASE WriteComplete
    <3>1. /\ phase = "dropped written" /\ phase' = "exited"
          /\ dropped' = dropped /\ reasons' = reasons
          /\ reasonsFile' = reasonsFile /\ droppedFile' = droppedFile
          /\ metadataComplete' = metadataComplete
      BY <2>4 DEF WriteComplete, dropVars
    <3>0. completeFile' \in BOOLEAN /\ (completeFile' => metadataComplete)
      BY <2>4 DEF WriteComplete
    <3>2. metadataComplete => reasonsFile = reasons /\ droppedFile = dropped
      BY <3>1 DEF Inv, MarkerInv
    <3>3. MarkerInv'
      BY <1>0, <1>02, <3>0, <3>1, <3>2 DEF MarkerInv
    <3>4. dropped' \in Nat /\ dropped' >= dropped /\ reasons' \in [Reasons -> Nat]
      <4>1. dropped' = dropped /\ reasons' = reasons
        BY <3>1
      <4> QED
        BY <1>03, <4>1
    <3> QED
      BY <1>01, <3>0, <3>1, <3>3, <3>4 DEF Phases
  <2> QED
    BY <2>1, <2>2, <2>3, <2>4
<1>2. TypeOK'
  BY <1>0, <1>1 DEF Inv, TypeOK, launcher
<1>3. ThreadInv'
  <2>1. unprobed' => dropped' > 0
    BY <1>0, <1>1 DEF Inv, ThreadInv
  <2> QED
    BY <1>0, <1>1, <2>1, CountedKeeps DEF Inv
<1>4. ManifestInv'
  BY <1>0 DEF launcher, ManifestInv
<1> QED
  BY <1>1, <1>2, <1>3, <1>4 DEF Inv

LEMMA CollectInv ==
  ASSUME Inv, NEW moduleErrors \in 0 .. 1, Collect(moduleErrors)
  PROVE  Inv'
<1>0. /\ phase = "exited" /\ collected' = TRUE
      /\ UNCHANGED <<threadVars, unprobed, budget, dropVars, phase, metadataComplete, file,
                     markers, exitCode>>
  BY DEF Collect
<1> DEFINE counted == moduleErrors + IF droppedFile = Unreadable THEN 1 ELSE droppedFile
<1>1. /\ manifest' = [complete |-> completeFile, exit_code |-> exitCode,
                      dropped_events |-> counted]
      /\ counted \in Nat /\ (counted = 0 => droppedFile = 0)
  BY DEF Collect, Inv, TypeOK, Unreadable
<1> HIDE DEF counted
<1>2. TypeOK'
  BY <1>0, <1>1 DEF Inv, TypeOK, Manifest, threadVars, dropVars, markers
<1>3. ThreadInv'
  <2>1. /\ dropped' \in Nat /\ dropped' >= dropped /\ (unprobed' => dropped' > 0)
        /\ UNCHANGED <<life, recorder, file, happened>>
    BY <1>0 DEF Inv, TypeOK, ThreadInv, threadVars, dropVars
  <2> QED
    BY <2>1, CountedKeeps DEF Inv
<1>4. MarkerInv'
  BY <1>0 DEF Inv, MarkerInv, Running, threadVars, dropVars, markers
<1>5. ManifestInv'
  BY <1>0, <1>1 DEF ManifestInv, markers
<1> QED
  BY <1>2, <1>3, <1>4, <1>5 DEF Inv

LEMMA StutterInv == ASSUME Inv, UNCHANGED vars PROVE Inv'
<1>0. UNCHANGED <<life, recorder, happened, unprobed, budget, dropped, reasons, phase,
                  metadataComplete, file, reasonsFile, droppedFile, completeFile, exitCode,
                  manifest, collected>>
  BY DEF vars, threadVars, dropVars, markers, launcher
<1>1. TypeOK'
  BY <1>0 DEF Inv, TypeOK
<1>2. ThreadInv'
  <2>1. dropped' \in Nat /\ dropped' >= dropped /\ (unprobed' => dropped' > 0)
    BY <1>0 DEF Inv, TypeOK, ThreadInv
  <2> QED
    BY <1>0, <2>1, CountedKeeps DEF Inv
<1>3. MarkerInv' /\ ManifestInv'
  BY <1>0 DEF Inv, MarkerInv, ManifestInv, Running
<1> QED
  BY <1>1, <1>2, <1>3 DEF Inv

LEMMA StepInv == Inv /\ [Next]_vars => Inv'
<1> SUFFICES ASSUME Inv, [Next]_vars PROVE Inv'
  OBVIOUS
<1>1. CASE \E t \in Threads, k \in Tids, opened \in BOOLEAN, header \in BOOLEAN,
             n \in 1 .. 2 : ThreadInit(t, k, opened, header, n)
  BY <1>1, ThreadInitInv
<1>2. CASE \E t \in Threads :
             \/ Record(t) \/ UnsupportedCall(t) \/ \E n \in 1 .. 2 : ThreadExit(t, n)
  BY <1>2, HandlerInv
<1>3. CASE EmitUnprobed \/ \E t \in Threads : RunUnprobed(t) \/ OversizedAllocation(t)
  BY <1>3, CountingInv
<1>4. CASE ReplaceImage
  BY <1>4, ReplaceImageInv
<1>5. CASE Kill \/ \E code \in {"zero", "nonzero"} : Exit(code)
  BY <1>5, EndingInv
<1>6. CASE \/ WriteReasons \/ ReasonsUnwritable
           \/ WriteDropped \/ DroppedUnwritable \/ WriteComplete
  BY <1>6, MarkersInv
<1>7. CASE \E moduleErrors \in 0 .. 1 : Collect(moduleErrors)
  BY <1>7, CollectInv
<1>8. CASE UNCHANGED vars
  BY <1>8, StutterInv
<1> QED
  BY <1>1, <1>2, <1>3, <1>4, <1>5, <1>6, <1>7, <1>8 DEF Next, Done

-----------------------------------------------------------------------------
(* What follows from the invariant.                                          *)

LEMMA InvKeeps == Inv => NothingLostSilently
<1> SUFFICES ASSUME Inv, dropped = 0, NEW t \in Current
             PROVE  LET f == file[recorder[t].tid]
                        kept == f.records \o recorder[t].buffer
                    IN  /\ f.header /\ ~ f.torn
                        /\ Len(kept) = happened[t] /\ InSequence(kept)
  BY DEF NothingLostSilently
<1>1. Intact(View(t), happened[t]) /\ View(t).dropped = 0
  BY DEF Inv, ThreadInv, AllIntact, View
<1> QED
  BY <1>1 DEF Intact, Kept, View

LEMMA InvCommits == Inv => CompleteIsCommit
<1> SUFFICES ASSUME Inv, completeFile
             PROVE  /\ droppedFile = dropped /\ reasonsFile = reasons
                    /\ \A t \in Current : life[t] = "ended" /\ recorder[t].buffer = <<>>
  BY DEF CompleteIsCommit
<1>1. Running = {} /\ droppedFile = dropped /\ reasonsFile = reasons
  BY DEF Inv, MarkerInv
<1> QED
  BY <1>1 DEF Inv, ThreadInv, BuffersInv, Current, Running

LEMMA InvWhole == Inv => ValidTraceIsWhole
<1> SUFFICES ASSUME Inv, TraceValid, NEW t \in Current
             PROVE  LET records == file[recorder[t].tid].records
                    IN  /\ life[t] = "ended" /\ Len(records) = happened[t]
                        /\ InSequence(records)
  BY DEF ValidTraceIsWhole
<1>1. completeFile /\ droppedFile = 0
  BY DEF Inv, ManifestInv, TraceValid
<1>2. dropped = 0 /\ life[t] = "ended" /\ recorder[t].buffer = <<>>
  BY <1>1, InvCommits DEF CompleteIsCommit
<1> DEFINE records == file[recorder[t].tid].records
<1>3. /\ Len(records \o recorder[t].buffer) = happened[t]
      /\ InSequence(records \o recorder[t].buffer)
  BY <1>2, InvKeeps DEF NothingLostSilently
<1>4. records \in Seq(Nat)
  BY DEF Inv, TypeOK, Recorder, File, Current
<1>5. records \o recorder[t].buffer = records
  BY <1>2, <1>4
<1> QED
  BY <1>2, <1>3, <1>5

(***************************************************************************)
(* For any threads, ids, buffer size and budgets: the state stays well     *)
(* formed, and no record goes missing while the drop counter is at zero,   *)
(* whatever order threads record, flush, fail, end and are replaced in     *)
(* (write_record, flush_state, thread_init and thread_exit in client.cpp). *)
(***************************************************************************)
THEOREM RecordsAreCounted == Spec => [](TypeOK /\ NothingLostSilently)
<1>1. Inv => TypeOK /\ NothingLostSilently
  BY InvKeeps DEF Inv
<1> QED
  BY InitInv, StepInv, <1>1, PTL DEF Spec

(***************************************************************************)
(* The last marker of process_exit is a commit point.                      *)
(***************************************************************************)
THEOREM MarkerCommits == Spec => []CompleteIsCommit
<1> QED
  BY InitInv, StepInv, InvCommits, PTL DEF Spec

(***************************************************************************)
(* A trace that validates (validate_trace) is the whole execution of every *)
(* thread of the last image whose id was not given out again.              *)
(***************************************************************************)
THEOREM ValidTracesAreWhole == Spec => []ValidTraceIsWhole
<1> QED
  BY InitInv, StepInv, InvWhole, PTL DEF Spec
-----------------------------------------------------------------------------
(* Who ran beside whom.  A thread whose file was opened again for another    *)
(* has left nothing on disk; that it existed shows only in the ids of those  *)
(* that came after it.                                                       *)

InImage == {t \in Threads : life[t] \in {"running", "ended", "reused"}}

\* The first thread of an image keeps its file: the process id is not given out
\* again.  An id that was given out again has a current holder, and is another one.
\* The last running thread only leaves through the exit of the process.
IdsInv ==
  /\ InImage # {} => \E f \in Current : recorder[f].tid = Pid
  /\ \A u \in Threads : life[u] = "reused" =>
       recorder[u].tid # Pid /\ \E c \in Current : recorder[c].tid = recorder[u].tid
  /\ phase = "running" /\ Running = {} => InImage = {}
  /\ \A t \in Current : happened[t] >= 1

LEMMA InitIds == Init => IdsInv
BY DEF Init, IdsInv, InImage, Current, Running

LEMMA ThreadInitIds ==
  ASSUME TypeOK, IdsInv, NEW t \in Threads, NEW k \in Tids, NEW opened \in BOOLEAN,
         NEW header \in BOOLEAN, NEW n \in 1 .. 2, ThreadInit(t, k, opened, header, n)
  PROVE  IdsInv'
<1>1. /\ life[t] = "unborn" /\ phase' = phase /\ phase = "running"
      /\ IF Running = {} THEN k = Pid ELSE k # Pid
      /\ life' = [u \in Threads |->
           IF u = t THEN "running"
           ELSE IF opened /\ life[u] = "ended" /\ recorder[u].tid = k THEN "reused"
           ELSE life[u]]
      /\ \A u \in Running : recorder[u].tid # k
  BY DEF ThreadInit
<1>2. /\ recorder'[t].tid = k /\ \A u \in Threads \ {t} : recorder'[u] = recorder[u]
      /\ happened'[t] = n /\ \A u \in Threads \ {t} : happened'[u] = happened[u]
  BY DEF ThreadInit, TypeOK, StateOf
<1>3. /\ t \in Current' /\ t \in Running'
      /\ \A u \in Current : recorder[u].tid # k => u \in Current' /\ u # t
      /\ \A u \in Current' : u # t => u \in Current
  BY <1>1 DEF Current, Running
<1>4. \E f \in Current' : recorder'[f].tid = Pid
  <2>1. CASE Running = {}
    BY <1>1, <1>2, <1>3, <2>1
  <2>2. CASE Running # {}
    <3>1. InImage # {}
      BY <2>2 DEF Running, InImage
    <3>2. PICK f \in Current : recorder[f].tid = Pid
      BY <3>1 DEF IdsInv
    <3>3. f \in Current' /\ f # t /\ f \in Threads
      BY <1>1, <1>3, <2>2, <3>2 DEF Current
    <3> QED
      BY <1>2, <3>2, <3>3
  <2> QED
    BY <2>1, <2>2
<1>5. ASSUME NEW u \in Threads, life'[u] = "reused"
      PROVE  recorder'[u].tid # Pid /\ \E c \in Current' : recorder'[c].tid = recorder'[u].tid
  <2>0. u # t /\ recorder'[u] = recorder[u]
    BY <1>1, <1>2, <1>5
  <2>1. CASE life[u] = "reused"
    <3>1. recorder[u].tid # Pid
      BY <2>1 DEF IdsInv
    <3>2. PICK c \in Current : recorder[c].tid = recorder[u].tid
      BY <2>1 DEF IdsInv
    <3>3. CASE recorder[c].tid = k
      BY <1>2, <1>3, <2>0, <3>1, <3>2, <3>3
    <3>4. CASE recorder[c].tid # k
      <4>1. c \in Current' /\ c # t /\ c \in Threads
        BY <1>3, <3>4 DEF Current
      <4> QED
        BY <1>2, <2>0, <3>1, <3>2, <4>1
    <3> QED
      BY <3>3, <3>4
  <2>2. CASE life[u] # "reused"
    <3>1. life[u] = "ended" /\ recorder[u].tid = k
      BY <1>1, <1>5, <2>0, <2>2
    <3>2. Running # {}
      BY <1>1, <3>1 DEF IdsInv, InImage
    <3> QED
      BY <1>1, <1>2, <1>3, <2>0, <3>1, <3>2
  <2> QED
    BY <2>1, <2>2
<1>6. ASSUME NEW u \in Current' PROVE happened'[u] >= 1
  BY <1>2, <1>3, <1>6 DEF IdsInv, Current
<1>7. Running' # {}
  BY <1>3
<1> QED
  BY <1>4, <1>5, <1>6, <1>7 DEF IdsInv

\* Every other step leaves each thread its id, and takes it at most from running to
\* ended, where it is not the last that runs.
LEMMA FrameIds ==
  ASSUME TypeOK, IdsInv,
         \A t \in Threads : recorder'[t].tid = recorder[t].tid,
         \A t \in Threads : happened'[t] >= happened[t] /\ happened'[t] \in Nat,
         \/ life' = life
         \/ \E t \in Running : life' = [life EXCEPT ![t] = "ended"],
         phase' = "running" => phase = "running" /\ (Running # {} => Running' # {})
  PROVE  IdsInv'
<1>1. life \in [Threads -> Lives] /\ happened \in [Threads -> Nat]
  BY DEF TypeOK
<1>2. \A t \in Threads :
        \/ life'[t] = life[t]
        \/ life[t] = "running" /\ life'[t] = "ended"
  BY <1>1 DEF Running
<1>3. Current' = Current /\ InImage' = InImage
  BY <1>2 DEF Current, InImage
<1>4. InImage' # {} => \E f \in Current' : recorder'[f].tid = Pid
  BY <1>3 DEF IdsInv, Current
<1>5. ASSUME NEW u \in Threads, life'[u] = "reused"
      PROVE  recorder'[u].tid # Pid /\ \E c \in Current' : recorder'[c].tid = recorder'[u].tid
  <2>1. life[u] = "reused"
    BY <1>2, <1>5
  <2>2. PICK c \in Current : recorder[c].tid = recorder[u].tid
    BY <2>1 DEF IdsInv
  <2>3. c \in Current' /\ c \in Threads
    BY <1>3, <2>2 DEF Current
  <2> QED
    BY <2>1, <2>2, <2>3 DEF IdsInv
<1>6. phase' = "running" /\ Running' = {} => InImage' = {}
  BY <1>3 DEF IdsInv
<1>7. ASSUME NEW u \in Current' PROVE happened'[u] >= 1
  <2>1. u \in Current /\ u \in Threads
    BY <1>3, <1>7 DEF Current
  <2>2. happened[u] >= 1 /\ happened[u] \in Nat /\ happened'[u] \in Nat
    BY <1>1, <2>1 DEF IdsInv
  <2> QED
    BY <2>1, <2>2
<1> QED
  BY <1>4, <1>5, <1>6, <1>7 DEF IdsInv

LEMMA StepIds == Inv /\ IdsInv /\ [Next]_vars => IdsInv'
<1> SUFFICES ASSUME Inv, IdsInv, [Next]_vars PROVE IdsInv'
  OBVIOUS
<1>0. TypeOK /\ happened \in [Threads -> Nat] /\ recorder \in [Threads -> Recorder]
      /\ life \in [Threads -> Lives]
  BY DEF Inv, TypeOK
<1>1. CASE \E t \in Threads, k \in Tids, opened \in BOOLEAN, header \in BOOLEAN,
             n \in 1 .. 2 : ThreadInit(t, k, opened, header, n)
  BY <1>0, <1>1, ThreadInitIds
<1>2. ASSUME NEW t \in Threads, Record(t) \/ UnsupportedCall(t) PROVE IdsInv'
  <2>1. PICK s : Adopt(t, s, 1)
    BY <1>2 DEF Record, UnsupportedCall
  <2>2. life' = life /\ phase' = phase
    BY <1>2 DEF Record, UnsupportedCall
  <2>3. /\ \A u \in Threads : recorder'[u].tid = recorder[u].tid
        /\ \A u \in Threads : happened'[u] >= happened[u] /\ happened'[u] \in Nat
    BY <1>0, <2>1 DEF Adopt, StateOf
  <2>4. Running' = Running
    BY <2>2 DEF Running
  <2> QED
    BY <1>0, <2>2, <2>3, <2>4, FrameIds
<1>3. ASSUME NEW t \in Threads, NEW n \in 1 .. 2, ThreadExit(t, n) PROVE IdsInv'
  <2>1. PICK s : Adopt(t, s, n)
    BY <1>3 DEF ThreadExit
  <2>2. /\ t \in Running /\ life' = [life EXCEPT ![t] = "ended"] /\ phase' = phase
        /\ phase = "running" => Running # {t}
    BY <1>3 DEF ThreadExit, Running
  <2>3. /\ \A u \in Threads : recorder'[u].tid = recorder[u].tid
        /\ \A u \in Threads : happened'[u] >= happened[u] /\ happened'[u] \in Nat
    BY <1>0, <2>1 DEF Adopt, StateOf
  <2>4. Running' = Running \ {t}
    BY <1>0, <2>2 DEF Running
  <2>5. phase' = "running" => phase = "running" /\ (Running # {} => Running' # {})
    BY <2>2, <2>4
  <2> QED
    BY <1>0, <2>2, <2>3, <2>5, FrameIds
<1>4. ASSUME NEW t \in Threads, RunUnprobed(t) \/ OversizedAllocation(t) PROVE IdsInv'
  <2>1. /\ recorder' = recorder /\ life' = life /\ phase' = phase
        /\ happened' = [happened EXCEPT ![t] = @ + 1]
    BY <1>4 DEF RunUnprobed, OversizedAllocation
  <2>2. \A u \in Threads : happened'[u] >= happened[u] /\ happened'[u] \in Nat
    BY <1>0, <2>1
  <2>3. Running' = Running
    BY <2>1 DEF Running
  <2> QED
    BY <1>0, <2>1, <2>2, <2>3, FrameIds
<1>5. CASE ReplaceImage
  <2>1. life' = [t \in Threads |-> IF life[t] = "unborn" THEN "unborn" ELSE "replaced"]
    BY <1>5 DEF ReplaceImage
  <2>2. /\ Current' = {} /\ InImage' = {} /\ \A u \in Threads : life'[u] # "reused"
    BY <2>1 DEF Current, InImage
  <2> QED
    BY <2>2 DEF IdsInv
<1>6. CASE \/ EmitUnprobed \/ Kill \/ \E code \in {"zero", "nonzero"} : Exit(code)
           \/ WriteReasons \/ ReasonsUnwritable \/ WriteDropped \/ DroppedUnwritable
           \/ WriteComplete \/ (\E moduleErrors \in 0 .. 1 : Collect(moduleErrors))
           \/ UNCHANGED vars
  <2>1. /\ recorder' = recorder /\ life' = life /\ happened' = happened
        /\ phase' = "running" => phase = "running"
    BY <1>6 DEF EmitUnprobed, Kill, Exit, WriteReasons, ReasonsUnwritable, WriteDropped,
                DroppedUnwritable, WriteComplete, Collect, vars, threadVars
  <2>2. \A u \in Threads : happened'[u] >= happened[u] /\ happened'[u] \in Nat
    BY <1>0, <2>1
  <2>3. Running' = Running
    BY <2>1 DEF Running
  <2> QED
    BY <1>0, <2>1, <2>2, <2>3, FrameIds
<1> QED
  BY <1>1, <1>2, <1>3, <1>4, <1>5, <1>6 DEF Next, Done

\* Every current thread of a trace that validates has its id among the files.
LEMMA CurrentHasFile ==
  ASSUME Inv, IdsInv, TraceValid, NEW t \in Current
  PROVE  recorder[t].tid \in ThreadIds /\ dropped = 0
<1>1. completeFile /\ droppedFile = 0
  BY DEF Inv, ManifestInv, TraceValid
<1>2. dropped = 0
  BY <1>1, InvCommits DEF CompleteIsCommit
<1>3. file[recorder[t].tid].exists
  BY <1>2 DEF Inv, ThreadInv, AllIntact, Intact, View
<1>4. Len(file[recorder[t].tid].records) = happened[t]
  BY InvWhole DEF ValidTraceIsWhole
<1>5. happened[t] >= 1 /\ recorder[t].tid \in Tids
  BY DEF IdsInv, Inv, TypeOK, Recorder, Current
<1>6. file[recorder[t].tid].records # <<>>
  BY <1>4, <1>5
<1> QED
  BY <1>2, <1>3, <1>5, <1>6 DEF ThreadIds, EventFiles

LEMMA InvAlone == Inv /\ IdsInv => SingleThreadRanAlone
<1> SUFFICES ASSUME Inv, IdsInv, SingleThreadRoute, NEW t \in InImage, NEW u \in InImage
             PROVE  t = u
  BY DEF SingleThreadRanAlone, InImage
<1>1. PICK k : ThreadIds = {k}
  <2>1. IsFiniteSet(ThreadIds)
    <3>1. ThreadIds \subseteq Tids
      BY DEF ThreadIds, EventFiles
    <3> QED
      BY <3>1, TidsAreFinite, FS_Subset
  <2> QED
    BY <2>1, FS_Singleton DEF SingleThreadRoute
<1>2. \A c \in Current : recorder[c].tid = k /\ dropped = 0
  BY <1>1, CurrentHasFile DEF SingleThreadRoute
<1>3. PICK f \in Current : recorder[f].tid = Pid
  BY DEF IdsInv
<1>4. k = Pid
  BY <1>2, <1>3
<1>5. ASSUME NEW x \in InImage PROVE x \in Current
  <2>1. CASE life[x] = "reused"
    <3>1. x \in Threads
      BY <1>5 DEF InImage
    <3>2. recorder[x].tid # Pid
      BY <2>1, <3>1 DEF IdsInv
    <3>3. PICK c \in Current : recorder[c].tid = recorder[x].tid
      BY <2>1, <3>1 DEF IdsInv
    <3> QED
      BY <1>2, <1>4, <3>2, <3>3
  <2>2. CASE life[x] # "reused"
    BY <1>5, <2>2 DEF InImage, Current
  <2> QED
    BY <2>1, <2>2
<1>6. t \in Current /\ u \in Current
  BY <1>5
<1> QED
  BY <1>2, <1>6 DEF Inv, ThreadInv, OwnFiles

(***************************************************************************)
(* The route of pipeline.py that takes a trace of one thread for safe      *)
(* without analyzing it is right about the thread: no second one ran in    *)
(* the last image, not even one whose file was opened again for a later    *)
(* thread of the same id (thread_init in client.cpp).                      *)
(***************************************************************************)
THEOREM SingleThreadIsAlone == Spec => []SingleThreadRanAlone
<1>1. Init => Inv /\ IdsInv
  BY InitInv, InitIds
<1>2. Inv /\ IdsInv /\ [Next]_vars => Inv' /\ IdsInv'
  BY StepInv, StepIds
<1> QED
  BY <1>1, <1>2, InvAlone, PTL DEF Spec
=============================================================================
