----------------------------- MODULE TsoMachine -----------------------------
(***************************************************************************)
(* The x86-TSO machine a trace is recorded on: the threads of a window     *)
(* run in program order over first-in-first-out store buffers.  A run that *)
(* is over is an execution of the window, which the relational models then *)
(* judge.                                                                  *)
(***************************************************************************)
EXTENDS CheckedWindow, Sequences

ASSUME InitialIsNoEvent == \A E \in Windows : Initial \notin E

VARIABLES
  issued,    \* the events that have executed
  buffer,    \* for each thread, its stores on the way to memory, oldest first
  drained,   \* the writes that reached memory, oldest first
  seen       \* the source of every part of the reads executed so far

machineVars == <<window, issued, buffer, drained, seen>>

Threads == {e.thread : e \in window}

Elements(s) == {s[i] : i \in 1 .. Len(s)}

MachineTypeOK ==
  /\ window \in Windows
  /\ issued \subseteq window
  /\ DOMAIN buffer = Threads
  /\ \A t \in Threads : Elements(buffer[t]) \subseteq {w \in issued : w.thread = t /\ IsWrite(w)}
  /\ Elements(drained) \subseteq Writes(issued)
  /\ DOMAIN seen = ReadParts(window)

MachineInit ==
  /\ window \in Windows
  /\ issued = {}
  /\ buffer = [t \in Threads |-> <<>>]
  /\ drained = <<>>
  /\ seen = [p \in ReadParts(window) |-> Initial]

-----------------------------------------------------------------------------
\* The newest write of a queue that touches the part, Initial if there is none.
Newest(queue, p) ==
  LET hits == {i \in 1 .. Len(queue) : Overlaps(queue[i], p)}
  IN  IF hits = {} THEN Initial ELSE queue[CHOOSE i \in hits : \A j \in hits : j <= i]

\* A load looks in its own buffer first.
Lookup(p) ==
  LET own == Newest(buffer[p.read.thread], p)
  IN  IF own # Initial THEN own ELSE Newest(drained, p)

Ready(e) == e \in window \ issued /\ \A c \in window : Before(c, e) => c \in issued

Issue(e) ==
  /\ Ready(e)
  /\ issued' = issued \cup {e}
  /\ UNCHANGED window

Look(e) ==
  seen' = [p \in DOMAIN seen |-> IF p.read = e THEN Lookup(p) ELSE seen[p]]

Load(e) ==
  /\ e.kind = "LOAD"
  /\ Issue(e) /\ Look(e)
  /\ UNCHANGED <<buffer, drained>>

Store(e) ==
  /\ e.kind = "STORE"
  /\ Issue(e)
  /\ buffer' = [buffer EXCEPT ![e.thread] = Append(@, e)]
  /\ UNCHANGED <<drained, seen>>

\* An atomic, a futex wait and a full fence find the buffer empty.
Locked(e) ==
  /\ e.kind \in {"ATOMIC_RMW", "FUTEX_WAIT", "MFENCE"}
  /\ buffer[e.thread] = <<>>
  /\ Issue(e) /\ Look(e)
  /\ drained' = IF IsWrite(e) THEN Append(drained, e) ELSE drained
  /\ UNCHANGED buffer

\* Loads execute in order and the buffer is a queue, so these wait for nothing.
LightFence(e) ==
  /\ e.kind \in {"LFENCE", "SFENCE"}
  /\ Issue(e)
  /\ UNCHANGED <<buffer, drained, seen>>

Drain(t) ==
  /\ buffer[t] # <<>>
  /\ drained' = Append(drained, Head(buffer[t]))
  /\ buffer' = [buffer EXCEPT ![t] = Tail(@)]
  /\ UNCHANGED <<window, issued, seen>>

Over == issued = window /\ \A t \in Threads : buffer[t] = <<>>

MachineNext ==
  \/ \E e \in window : Load(e) \/ Store(e) \/ Locked(e) \/ LightFence(e)
  \/ \E t \in Threads : Drain(t)

-----------------------------------------------------------------------------
\* The execution that a run leaves behind.
Run ==
  LET order == {p \in (1 .. Len(drained)) \X (1 .. Len(drained)) :
                  p[1] < p[2] /\ Overlaps(drained[p[1]], drained[p[2]])}
  IN  [rf |-> seen, co |-> {<<drained[p[1]], drained[p[2]]>> : p \in order}]

=============================================================================
