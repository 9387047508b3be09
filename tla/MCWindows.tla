----------------------------- MODULE MCWindows -----------------------------
(***************************************************************************)
(* Windows for the runs: litmus programs of two to four threads.  Places   *)
(* are two bytes wide; xl and xh are the halves of x, and xy spans both x  *)
(* and y.                                                                  *)
(***************************************************************************)
EXTENDS Integers, Sequences, FiniteSets

Addr == [x |-> 0, y |-> 2, z |-> 4, v |-> 6, xl |-> 0, xh |-> 1, xy |-> 0]
Size == [x |-> 2, y |-> 2, z |-> 2, v |-> 2, xl |-> 1, xh |-> 1, xy |-> 4]

\* An instruction is a kind, a place and the byte it moves.
R(p)    == <<"LOAD", p, 1>>
R0(p)   == <<"LOAD", p, 0>>
W(p)    == <<"STORE", p, 1>>
W0(p)   == <<"STORE", p, 0>>
RMW(p)  == <<"ATOMIC_RMW", p, 1>>
Wait(p) == <<"FUTEX_WAIT", p, 1>>
LF == <<"LFENCE">>
SF == <<"SFENCE">>
MF == <<"MFENCE">>

IsFence(i) == Len(i) = 1

Event(t, s, i) ==
  [thread |-> t, seq |-> s, kind |-> i[1],
   addr |-> IF IsFence(i) THEN 0 ELSE Addr[i[2]],
   size |-> IF IsFence(i) THEN 0 ELSE Size[i[2]],
   known |-> ~ IsFence(i),
   data |-> IF IsFence(i) THEN <<>>
            ELSE [b \in Addr[i[2]] .. Addr[i[2]] + Size[i[2]] - 1 |-> i[3]]]

\* The window of a program: a sequence of threads, each one of instructions.
Window(program) ==
  UNION {{Event(t, s, program[t][s]) : s \in 1 .. Len(program[t])} : t \in 1 .. Len(program)}

\* All programs of two threads of two instructions each, up to the names of the
\* threads; I is a sequence of instructions.
SmallPrograms(I) ==
  LET n == Len(I)
      Code(k) == <<I[(k \div n) + 1], I[(k % n) + 1]>>
  IN  {<<Code(c[1]), Code(c[2])>> : c \in {d \in (0 .. n * n - 1) \X (0 .. n * n - 1) : d[1] <= d[2]}}

Litmus == {
  << <<W("x"), R("y")>>, <<W("y"), R("x")>> >>,                           \* SB
  << <<W("x"), MF, R("y")>>, <<W("y"), MF, R("x")>> >>,                   \* SB fenced
  << <<W("x"), SF, R("y")>>, <<W("y"), SF, R("x")>> >>,
  << <<W("x"), W("y")>>, <<R("y"), R("x")>> >>,                           \* MP
  << <<W("x"), SF, W("y")>>, <<R("y"), MF, R("x")>> >>,                   \* MP fenced
  << <<W("x"), MF, W("y")>>, <<Wait("y"), R("x")>> >>,                    \* MP through a futex
  << <<R("x"), W("y")>>, <<R("y"), W("x")>> >>,                           \* LB
  << <<R("x"), MF, W("y")>>, <<R("y"), W("x")>> >>,
  << <<W("x")>>, <<R("x"), R("x")>> >>,                                   \* CoRR
  << <<W("x"), W("y")>>, <<W("y"), W("x")>> >>,                           \* 2+2W
  << <<W("x"), W("x")>>, <<R("x"), W("x")>> >>,
  << <<RMW("x"), R("y")>>, <<RMW("y"), R("x")>> >>,                       \* SB by atomics
  << <<W("x"), RMW("y")>>, <<R("y"), R("x")>> >>,
  << <<RMW("x")>>, <<RMW("x")>>, <<W("x")>> >>,
  << <<W("x")>>, <<R("x"), W("y")>>, <<R("y"), R("x")>> >>,               \* WRC
  << <<W("x")>>, <<W("y")>>, <<R("x"), R("y")>>, <<R("y"), R("x")>> >> }  \* IRIW

\* A thread that reads its own pending store.
Forwarding == {
  << <<W("x"), R("x"), R("y")>>, <<W("y"), R("y"), R("x")>> >>,
  << <<W("x"), W("y")>>, <<W("y"), R("y"), R("x")>> >> }

\* The same with a fence that orders loads only.
LoadFenced == {
  << <<W("y"), R("y"), LF, R("x")>>, <<W("x"), MF, R("y")>> >>,
  << <<W("x"), W("y")>>, <<R("y"), LF, R("x")>> >> }

\* One early store, a read of it by its own thread, and a path through two
\* other threads back to the place the store has not reached yet.  The fourth
\* thread makes the read one that a window keeps.
LateStore ==
  << <<W("y"), R("y"), W("z"), R("v"), LF, R("x")>>,
     <<RMW("x"), R("y")>>,
     <<RMW("z"), W("v")>>,
     <<W("y")>> >>

=============================================================================
