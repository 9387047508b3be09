-------------------------- MODULE MCStaticPrograms --------------------------
(***************************************************************************)
(* Small programs for the static analysis, each about one rule by which an *)
(* object may leave the slice, or about one thing that must keep it in.    *)
(***************************************************************************)
EXTENDS StaticRoute, TLC

I(f, o, n) ==
  [fn |-> f, op |-> o, next |-> n, callees |-> {}, closed |-> TRUE, goes |-> "none",
   region |-> "Global", obj |-> "x", at |-> 0, size |-> 4, own |-> FALSE, made |-> "none",
   known |-> "exact", direct |-> TRUE]

On(i, o) == [i EXCEPT !.obj = o]
To(i, f) == [i EXCEPT !.callees = {f}, !.goes = f]
Lost(f, g, n) == [I(f, "indirect", n) EXCEPT !.goes = g, !.closed = FALSE]
Own(i) == [i EXCEPT !.own = TRUE]
Blind(i) == [i EXCEPT !.known = "none"]

Access(f, o, n) == On(I(f, "load", n), o)
Write(f, o, n) == On(I(f, "store", n), o)
Change(f, o, n) == On(I(f, "update", n), o)
Take(f, n) == On(I(f, "acquire", n), "m")
Give(f, n) == On(I(f, "release", n), "m")
Ret(f) == I(f, "return", {})

NoLifecycle == [proven |-> FALSE, post |-> 1, arg |-> "nothing"]
Joined(i) == [proven |-> TRUE, post |-> i, arg |-> "nothing"]

Base == [code |-> <<>>, entry |-> ("main" :> 1), synced |-> TRUE, lifecycle |-> NoLifecycle,
         split |-> {}, escapes |-> {}, tlsEscapes |-> FALSE, normal |-> FALSE]

\* main creates in a loop, joins, and reads z; body is the worker, from 6 on.
Forked(body) ==
  [Base EXCEPT
     !.code = << Write("main", "z", {2}), To(I("main", "create", {2, 3}), "work"),
                 I("main", "join", {4}), Access("main", "z", {5}), Ret("main") >> \o body,
     !.entry = ("main" :> 1 @@ "work" :> 6 @@ "help" :> 10),
     !.lifecycle = Joined(4)]

Locked == Forked(<< Take("work", {7}), Change("work", "z", {8}), Give("work", {9}), Ret("work"), Ret("help") >>)

\* a loop of critical sections; one path leaves the lock out
LockedLoop == Forked(<< Take("work", {7}), Change("work", "z", {8}), Give("work", {6, 9}), Ret("work"), Ret("help") >>)
HalfLocked == Forked(<< [Access("work", "q", {7}) EXCEPT !.next = {7, 8}], Take("work", {8}), Change("work", "z", {9}),
                        To(I("work", "call", {11}), "help"), Give("help", {12}), Ret("work"), Ret("help") >>)
\* the same, and the branch itself touches no memory
SkipLock == [HalfLocked EXCEPT !.code[6] = I("work", "nop", {7, 8})]
\* every worker has a lock of its own
OwnLocks == [Locked EXCEPT !.code[6] = [Own(Take("work", {7})) EXCEPT !.region = "Stack"],
                           !.code[8] = [Own(Give("work", {9})) EXCEPT !.region = "Stack"]]
\* one store over two words, a load of the second
MixedSize ==
  [Forked(<< [Access("work", "y", {7}) EXCEPT !.at = 4], I("work", "nop", {8}), I("work", "nop", {9}),
             Ret("work"), Ret("help") >>)
     EXCEPT !.code[3] = [Write("main", "y", {4}) EXCEPT !.size = 8], !.lifecycle = NoLifecycle]
\* a worker starts a thread of its own
Nested ==
  [Base EXCEPT
     !.code = << To(I("main", "create", {2}), "work"), Write("main", "x", {3}), Ret("main"),
                 To(I("work", "create", {5}), "other"), Ret("work"), Access("other", "x", {7}), Ret("other") >>,
     !.entry = ("main" :> 1 @@ "work" :> 4 @@ "other" :> 6)]
\* a helper starts a thread before main comes to its own creation
Elsewhere ==
  [Base EXCEPT
     !.code = << To(I("main", "call", {2}), "init"), I("main", "nop", {3, 5}), Write("main", "x", {4}), Ret("main"),
                 To(I("main", "create", {4}), "work"), To(I("init", "create", {7}), "work"), Ret("init"),
                 Access("work", "x", {9}), Ret("work") >>,
     !.entry = ("main" :> 1 @@ "init" :> 6 @@ "work" :> 8)]

\* the helper takes the lock, or may give it back
HelperLocks == Forked(<< To(I("work", "call", {7}), "help"), Change("work", "z", {8}), Give("work", {9}),
                         Ret("work"), Take("help", {11}), Ret("help") >>)
HelperGives == Forked(<< Take("work", {7}), To(I("work", "call", {8}), "help"), Change("work", "z", {9}),
                         Ret("work"), I("help", "nop", {11, 12}), Give("help", {12}), Ret("help") >>)
\* a call that nobody could follow gives the lock back
OpaqueGives ==
  Forked(<< Take("work", {7}), Lost("work", "help", {8}),
            Change("work", "z", {9}), Ret("work"), Give("help", {11}), Ret("help") >>)
\* the same, and it calls back what the worker calls under the lock
CallsBack ==
  [Forked(<< Take("work", {7}), To(I("work", "call", {8}), "help"), Give("work", {9}), Lost("work", "far", {12}),
             Change("help", "z", {11}), Ret("help"), Ret("work"), To(I("far", "call", {14}), "help"), Ret("far") >>)
     EXCEPT !.entry = @ @@ ("far" :> 13)]
\* code that nothing leads to takes the lock that the loop of the worker leaves out
RootBeside ==
  [Forked(<< Access("work", "q", {7}), To(I("work", "call", {8}), "help"), I("work", "nop", {6, 12}),
             Take("work", {13}), Change("help", "z", {11}), Ret("help"), Ret("work"),
             To(I("work", "call", {14}), "help"), Give("work", {12}) >>)
     EXCEPT !.lifecycle = NoLifecycle]
\* main works under the lock too, or on one of two paths only
MainLocks ==
  [Base EXCEPT
     !.code = << Write("main", "y", {2}), To(I("main", "create", {3}), "work"), I("main", "nop", {4}), Take("main", {5}),
                 Change("main", "z", {6}), Give("main", {7}), Ret("main"),
                 Take("work", {9}), Change("work", "z", {10}), Give("work", {11}), Ret("work") >>,
     !.entry = ("main" :> 1 @@ "work" :> 8)]
MainSkipsLock ==
  [MainLocks EXCEPT
     !.code[1] = I("main", "nop", {2, 3}), !.code[2] = Take("main", {3}),
     !.code[3] = To(I("main", "create", {5}), "work"), !.code[5] = Change("main", "z", {4}),
     !.code[4] = I("main", "nop", {6, 7})]
\* a call of unknown effect inside the critical section
OpaqueInside == Forked(<< Take("work", {7}), On(I("work", "opaque", {8}), "y"), Change("work", "z", {9}),
                          Ret("work"), Ret("help") >>)

\* objects of the thread's own
Private(i, j) == Forked(<< Own(i), Own(j), I("work", "nop", {9}), Ret("work"), Ret("help") >>)
ByIndex == [Private([Write("work", "a", {7}) EXCEPT !.known = "index"], [Access("work", "a", {8}) EXCEPT !.known = "index"])
              EXCEPT !.split = {"a"}]
NotSplit == [ByIndex EXCEPT !.split = {}]
Allocated ==
  LET h(o) == [On(o, "h") EXCEPT !.region = "Heap", !.made = "work"]
  IN  Private(h(I("work", "store", {7})), h(I("work", "load", {8})))
OnStack ==
  LET s(o) == [On(o, "s") EXCEPT !.region = "Stack"]
  IN  Private(s(I("work", "store", {7})), s(I("work", "load", {8})))
EscapedStack == [OnStack EXCEPT !.escapes = {"work"}]
Errno ==
  LET s(o) == [On(o, "e") EXCEPT !.region = "TLS"]
  IN  Private(s(I("work", "store", {7})), s(I("work", "load", {8})))
EscapedErrno == [Errno EXCEPT !.tlsEscapes = TRUE]
Argument ==
  [Private([Write("work", "arg", {7}) EXCEPT !.region = "Heap"], [Access("work", "arg", {8}) EXCEPT !.region = "Heap"])
     EXCEPT !.lifecycle = [Joined(4) EXCEPT !.arg = "arg"]]

\* a store through a pointer nobody could follow
Blindly == Forked(<< Blind(Write("work", "z", {7})), Access("work", "z", {8}), I("work", "nop", {9}), Ret("work"), Ret("help") >>)
BlindRead == Forked(<< Blind(Access("work", "y", {7})), Access("work", "z", {8}), I("work", "nop", {9}), Ret("work"), Ret("help") >>)
\* an indirect call whose targets are not all known, and one whose targets are
OpenCall == Forked(<< Lost("work", "help", {7}), Access("work", "z", {8}), I("work", "nop", {9}), Ret("work"), Write("help", "z", {11}), Ret("help") >>)
ClosedCall == Forked(<< [To(I("work", "indirect", {7}), "help") EXCEPT !.callees = {"help"}],
                        Access("work", "z", {8}), I("work", "nop", {9}), Ret("work"), Access("help", "z", {11}), Ret("help") >>)
OpenJump == Forked(<< [I("work", "jump", {7}) EXCEPT !.closed = FALSE],
                      Access("work", "z", {8}), I("work", "nop", {9}), Ret("work"), Ret("help") >>)
\* output through the C library, whose own state the contract names
Prints == Forked(<< On(I("work", "runtime", {7}), "file"), Access("work", "z", {8}), I("work", "nop", {9}), Ret("work"), Ret("help") >>)
Syscall == Forked(<< On(I("work", "syscall", {7}), "z"), Access("work", "z", {8}), I("work", "nop", {9}), Ret("work"), Ret("help") >>)

\* main works on objects of its own while the worker runs; a helper before and after
Phases ==
  [Base EXCEPT
     !.code = << To(I("main", "call", {2}), "init"), To(I("main", "create", {2, 3}), "work"),
                 Change("main", "y", {4}), I("main", "join", {5}), To(I("main", "call", {6}), "init"), Ret("main"),
                 Write("init", "z", {8}), Ret("init"),
                 Take("work", {10}), Change("work", "z", {11}), Give("work", {12}), Ret("work") >>,
     !.entry = ("main" :> 1 @@ "init" :> 7 @@ "work" :> 9),
     !.lifecycle = Joined(5)]
\* a function of main after the join reads what the workers wrote
Report ==
  [Forked(<< Change("work", "z", {7}), Change("work", "z", {8}), I("work", "nop", {9}), Ret("work"),
             Access("help", "z", {11}), Ret("help") >>)
     EXCEPT !.code[4] = To(I("main", "call", {5}), "help")]
\* a path from the creation passes the join by
SkipJoin ==
  [Base EXCEPT
     !.code = << To(I("main", "create", {1, 2}), "work"), I("main", "nop", {3, 5}), I("main", "join", {4}),
                 Access("main", "y", {5}), Access("main", "z", {6}), Ret("main"), Change("work", "z", {8}), Ret("work") >>,
     !.entry = ("main" :> 1 @@ "work" :> 7), !.lifecycle = Joined(4)]
\* the helper also runs between creation and join
HelperBetween == [Phases EXCEPT !.code[3] = To(I("main", "call", {4}), "init")]
\* read-only after creation without a lifecycle proof; main returns early
ReadOnly ==
  [Base EXCEPT
     !.code = << I("main", "nop", {2, 5}), Write("main", "x", {3}), To(I("main", "create", {4}), "work"), Ret("main"),
                 Write("main", "x", {4}), Access("work", "x", {7}), Ret("work") >>,
     !.entry = ("main" :> 1 @@ "work" :> 6)]
\* two kinds of workers
TwoRoles ==
  [Base EXCEPT
     !.code = << Write("main", "x", {2}), To(I("main", "create", {3}), "work"), To(I("main", "create", {4}), "other"),
                 Access("main", "x", {5}), Ret("main"), Access("work", "x", {7}), Ret("work"), Access("other", "x", {9}), Ret("other") >>,
     !.entry = ("main" :> 1 @@ "work" :> 6 @@ "other" :> 8)]
\* main writes between two creations
BetweenCreates ==
  [TwoRoles EXCEPT !.code[1] = To(I("main", "create", {2}), "work"), !.code[2] = Write("main", "x", {3}),
                   !.code[4] = I("main", "nop", {5})]
WritingRole == [TwoRoles EXCEPT !.code[8] = Write("other", "x", {9})]
UnknownRole == [TwoRoles EXCEPT !.code[3] = [To(I("main", "create", {4}), "other") EXCEPT !.callees = {}, !.closed = FALSE],
                                !.code[8] = Write("other", "x", {9})]
\* an OpenMP region
Parallel ==
  [Base EXCEPT
     !.code = << To(I("main", "region", {2}), "body"), Access("main", "x", {3}), Ret("main"),
                 Access("body", "x", {5}), Own([Write("body", "a", {6}) EXCEPT !.known = "index"]), Ret("body") >>,
     !.entry = ("main" :> 1 @@ "body" :> 4), !.split = {"a"}]
\* only a failing path writes what the worker reads, in a function it calls
Failing ==
  [Base EXCEPT
     !.code = << To(I("main", "create", {2}), "work"), I("main", "nop", {3, 5}), To(I("main", "call", {4}), "fail"),
                 I("main", "exit", {}), Ret("main"), Write("fail", "x", {7}), Ret("fail"), Access("work", "x", {9}), Ret("work") >>,
     !.entry = ("main" :> 1 @@ "fail" :> 6 @@ "work" :> 8), !.normal = TRUE]
FailingInScope == [Failing EXCEPT !.normal = FALSE]
\* a thread is created after the lifecycle that was proved
LateCreate ==
  [Base EXCEPT
     !.code = << To(I("main", "call", {2}), "start"), I("main", "join", {3}), To(I("main", "call", {4}), "start"),
                 Write("main", "x", {5}), Ret("main"), To(I("start", "create", {7}), "work"), Ret("start"),
                 Access("work", "x", {9}), Ret("work") >>,
     !.entry = ("main" :> 1 @@ "start" :> 6 @@ "work" :> 8), !.lifecycle = Joined(3)]
LateChange == [LateCreate EXCEPT !.code[8] = Change("work", "x", {9})]
\* a helper of the time after the join, called by pointer beside the worker; or
\* called back by code that nobody followed, which may also create
ByPointer ==
  [Base EXCEPT
     !.code = << To(I("main", "create", {2}), "work"),
                 [To(I("main", "indirect", {3}), "sum") EXCEPT !.callees = {"sum", "rest"}],
                 I("main", "join", {4}), To(I("main", "call", {5}), "sum"), Ret("main"),
                 Write("sum", "x", {7}), Ret("sum"), Ret("rest"), Access("work", "x", {10}), Ret("work") >>,
     !.entry = ("main" :> 1 @@ "sum" :> 6 @@ "rest" :> 8 @@ "work" :> 9), !.lifecycle = Joined(4)]
CalledBack == [ByPointer EXCEPT !.code[2] = Lost("main", "sum", {3})]
CreatesBack ==
  [Base EXCEPT
     !.code = << Lost("main", "start", {2}), Write("main", "x", {3}), To(I("main", "call", {4}), "start"),
                 Ret("main"), To(I("start", "create", {6}), "work"), Ret("start"), Access("work", "x", {8}), Ret("work") >>,
     !.entry = ("main" :> 1 @@ "start" :> 5 @@ "work" :> 7)]
ByPointerChange == [ByPointer EXCEPT !.code[9] = Change("work", "x", {10})]
CreatesBackChange == [CreatesBack EXCEPT !.code[7] = Change("work", "x", {8})]
\* a call that nobody could follow writes, between two creations
LostBetween ==
  [Base EXCEPT
     !.code = << To(I("main", "create", {2}), "work"), Lost("main", "help", {1, 3}), Ret("main"),
                 Write("help", "x", {5}), Ret("help"), Access("work", "x", {7}), Ret("work") >>,
     !.entry = ("main" :> 1 @@ "help" :> 4 @@ "work" :> 6)]
\* main writes by index what the worker reads at a fixed place
IndexBeside ==
  [Base EXCEPT
     !.code = << To(I("main", "create", {2}), "work"), [Write("main", "a", {3}) EXCEPT !.known = "index", !.at = 4],
                 Ret("main"), [Access("work", "a", {5}) EXCEPT !.at = 4], Ret("work") >>,
     !.entry = ("main" :> 1 @@ "work" :> 4)]
\* main writes what the worker reads through a pointer that nobody could follow
BlindBeside == [IndexBeside EXCEPT !.code[2] = Write("main", "x", {3}), !.code[4] = Blind(Access("work", "x", {5}))]
\* a store of a width that is not recovered
WideBeside == [IndexBeside EXCEPT !.code[2] = [Write("main", "a", {3}) EXCEPT !.size = 0]]
\* one start and join per round
Rounds ==
  [Locked EXCEPT !.code[4] = Access("main", "z", {2, 5})]

MCPrograms ==
  { Locked, LockedLoop, HalfLocked, SkipLock, OwnLocks, MixedSize, Nested, Elsewhere, HelperLocks, HelperGives, OpaqueInside, OpaqueGives,
    CallsBack, RootBeside, MainLocks, MainSkipsLock,
    ByIndex, NotSplit, Allocated, OnStack, EscapedStack, Errno, EscapedErrno, Argument,
    Blindly, BlindRead, OpenCall, ClosedCall, OpenJump, Prints, Syscall, Phases, Report, SkipJoin, HelperBetween,
    ReadOnly, TwoRoles, BetweenCreates, WritingRole, UnknownRole, Parallel, LateCreate, LateChange, ByPointer, ByPointerChange,
    CalledBack, CreatesBack, CreatesBackChange, Failing, FailingInScope, Rounds,
    LostBetween, IndexBeside, BlindBeside, WideBeside }

\* each as a library leaves it
BoundPrograms == {[p EXCEPT !.synced = b] : p \in MCPrograms, b \in BOOLEAN}

-----------------------------------------------------------------------------
(* Libraries, each about one thing that a path may do.                       *)

Step(o) == [op |-> o, to |-> "none"]
Leap(o, n) == [op |-> o, to |-> n]
Library(code) ==
  [code |-> code, versions |-> {"lock"}, required |-> {"acquire"}, syscall |-> Unknown,
   allowed |-> TRUE, trust |-> "none", trusted |-> {"acquire"}]
Of(body) == Library("lock" :> body)
With(body, helper) == Library("lock" :> body @@ "helper" :> helper)

\* the atomic instruction, and a slow path through the kernel
Futex == Of(<<Step("lock"), Leap("jump", 4), Step("syscall"), Step("return")>>)
Kernel == [Futex EXCEPT !.allowed = FALSE]
KernelOrders == [Of(<<Step("syscall"), Step("return")>>) EXCEPT !.syscall = {"acquire"}, !.allowed = FALSE]
Spins == Of(<<Step("nop"), Leap("jump", 4), Leap("goto", 1), Step("lfence"), Step("return")>>)
\* one of two paths has no fence
WeakPath == Of(<<Leap("jump", 3), Step("lock"), Step("return")>>)
OneDirection == Of(<<Step("sfence"), Step("return")>>)
BothFences == Of(<<Leap("jump", 4), Step("lfence"), Step("return"), Step("mfence"), Step("return")>>)
Calling == With(<<Leap("call", "helper"), Step("return")>>, <<Leap("jump", 4), Step("mfence"), Step("return"), Step("lock"), Step("return")>>)
CallsNowhere == Of(<<Leap("call", "gone"), Step("lock"), Step("return")>>)
TailJump == With(<<Leap("tail", "helper")>>, <<Step("lock"), Step("return")>>)
TailOnCondition == With(<<Leap("tailif", "helper"), Step("lock"), Step("return")>>, <<Step("return")>>)
Recursive == With(<<Step("lock"), Leap("call", "helper"), Step("return")>>, <<Leap("jump", 3), Leap("call", "lock"), Step("return")>>)
Indirect == With(<<Leap("icall", "helper"), Step("return")>>, <<Step("lock"), Step("return")>>)
Wrapper == With(<<Leap("ijump", "helper")>>, <<Step("lock"), Step("return")>>)
RunsOut == Of(<<Step("lock"), Step("nop")>>)
Undecoded == Of(<<Step("odd"), Step("lock"), Step("return")>>)
TwoVersions == [With(<<Step("lock"), Step("return")>>, <<Step("mfence"), Step("return")>>) EXCEPT !.versions = {"lock", "helper"}]
WeakVersion == [TwoVersions EXCEPT !.code["helper"] = <<Step("nop"), Step("return")>>]
NoVersion == [Futex EXCEPT !.versions = {}]
Unspecified == [Futex EXCEPT !.required = Unknown]
Audited == [Indirect EXCEPT !.trust = "listed"]
AuditedPath == [WeakPath EXCEPT !.trust = "listed"]
AuditedHelper == [Calling EXCEPT !.trust = "listed", !.code["helper"] = <<Leap("jump", 3), Step("lock"), Step("return")>>]
Alias == [Wrapper EXCEPT !.trust = "alias", !.code["helper"] = <<Step("return")>>]
AuditedNothing == [OneDirection EXCEPT !.trust = "listed", !.code["lock"] = <<Step("nop"), Step("return")>>]

Libraries ==
  { Kernel, KernelOrders, Spins, WeakPath, OneDirection, BothFences, Calling, CallsNowhere, TailJump, TailOnCondition,
    Recursive, Indirect, Wrapper, RunsOut, Undecoded, TwoVersions, WeakVersion, NoVersion, Unspecified, Audited,
    AuditedPath, AuditedHelper, Alias, AuditedNothing }

\* Every program with a library that orders, and a program with locks with each of them.
MCCases == {<<p, Futex>> : p \in MCPrograms} \cup {<<Locked, l>> : l \in Libraries}

\* A function of main that runs before the creation and beside the workers.
RepeatedHelper == {<<HelperBetween, Futex>>}

\* A thread created behind the lifecycle, a helper called by pointer beside the
\* worker, a creation behind a call that nobody followed: they are SAFE too.
LateCreation == {<<LateCreate, Futex>>}
CallByPointer == {<<ByPointer, Futex>>}
CreationBack == {<<CreatesBack, Futex>>}

\* So are an open call between two creations, an access by index or through any
\* pointer beside one at a fixed place, and a store of unknown width.
LostCall == {<<LostBetween, Futex>>}
FixedAndIndexed == {<<IndexBeside, Futex>>}
FixedAndBlind == {<<BlindBeside, Futex>>}
UnknownWidth == {<<WideBeside, Futex>>}

=============================================================================
