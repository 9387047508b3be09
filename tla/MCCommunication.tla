--------------------------- MODULE MCCommunication ---------------------------
(***************************************************************************)
(* A main thread and at most two workers on two pages of four bytes.       *)
(***************************************************************************)
EXTENDS CommunicationEdges, TLC

CONSTANTS m, w1, w2

Op(kind, addr, size, app, object) ==
  [kind |-> kind, addr |-> addr, size |-> size, app |-> app, object |-> object]

\* Accesses of the main ELF and of the runtime libraries.
A(kind, addr, size) == Op(kind, addr, size, TRUE, NoObject)
L(kind, addr, size) == Op(kind, addr, size, FALSE, NoObject)

\* An access to a heap block that starts at 0 and is in its g-th life.
H(kind, addr, size, g) == Op(kind, addr, size, TRUE, [base |-> 0, generation |-> g])

Setup(s, p) == [style |-> s, program |-> p]

One(s, t)    == (m :> s) @@ (w1 :> t)
Two(s, t, u) == (m :> s) @@ (w1 :> t) @@ (w2 :> u)

Clone   == {"clone"}
Wrapper == {"wrapper"}

MCSetups == {
  \* the main thread hands a byte to a worker and reads the worker's result
  Setup(Clone \cup Wrapper,
        One(<<A("STORE", 0, 1), A("LOAD", 1, 1)>>, <<A("LOAD", 0, 1), A("STORE", 1, 1)>>)),
  Setup(Wrapper, One(<<A("STORE", 0, 1), L("LOAD", 1, 1)>>, <<A("LOAD", 0, 1), L("STORE", 1, 1)>>)),
  \* the main thread sleeps on a word of the worker
  Setup(Clone, One(<<L("FUTEX_WAIT", 0, 2), L("LOAD", 2, 1)>>, <<A("STORE", 2, 1), L("ATOMIC_RMW", 0, 2)>>)),
  \* accesses that reach into the next page, on both sides
  Setup(Clone, One(<<L("STORE", 3, 2), A("LOAD", 4, 1)>>, <<L("LOAD", 2, 4), A("ATOMIC_RMW", 5, 1)>>)),
  Setup(Clone, Two(<<>>, <<L("STORE", 3, 2)>>, <<L("LOAD", 2, 4)>>)),
  \* joins that are taken for another worker's
  Setup(Clone, Two(<<L("LOAD", 1, 1)>>, <<>>, <<L("STORE", 1, 1)>>)),
  \* a long interval that stays active over shorter ones
  Setup(Clone, One(<<L("LOAD", 0, 4), L("LOAD", 1, 1)>>, <<A("STORE", 3, 1), L("STORE", 2, 1)>>)),
  Setup(Wrapper, Two(<<>>, <<A("LOAD", 0, 4)>>, <<A("STORE", 3, 1)>>)),
  \* three intervals stay active up to an atomic
  Setup(Clone, One(<<L("LOAD", 0, 4), L("LOAD", 0, 3)>>, <<L("LOAD", 0, 4), A("ATOMIC_RMW", 2, 1)>>)),
  \* two lives of one block, and an access that knows of none
  Setup(Clone, One(<<H("STORE", 0, 1, 1), A("STORE", 0, 1)>>, <<H("STORE", 0, 2, 2)>>)),
  \* as many runtime edges as edges of the main ELF, on each page
  Setup(Wrapper, One(<<L("STORE", 0, 8)>>,
                     <<L("LOAD", 0, 1), A("LOAD", 3, 1), L("LOAD", 4, 1), A("LOAD", 7, 1)>>)),
  \* nothing is shared by the main ELF
  Setup(Clone, One(<<L("STORE", 0, 1)>>, <<A("LOAD", 0, 1), L("LOAD", 0, 1)>>)) }

=============================================================================
