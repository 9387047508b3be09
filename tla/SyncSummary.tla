----------------------------- MODULE SyncSummary ------------------------------
(***************************************************************************)
(* synchronization/pthread.py: what a function of the pthread library      *)
(* orders on every path through it, read off its instructions, and what    *)
(* memory_events.py makes of the summaries of one API.                     *)
(*                                                                         *)
(* A library is a record:                                                  *)
(*   code      function -> sequence of instructions [op, to]               *)
(*   versions  the functions that implement the API                        *)
(*   required  what the API must order, Unknown if the spec says nothing   *)
(*   syscall   what a system call orders by the contract, or Unknown       *)
(*   allowed   such a system call is no gap of this API                    *)
(*   trust     "none"; "listed": the spec names this very library;         *)
(*             "alias": it lists it as one that may lead into another      *)
(*   trusted   what the spec says the API orders there                     *)
(* to is a place in the function for jump (on a condition) and goto, and a *)
(* function for call, tail, tailif (on a condition), and for icall and     *)
(* ijump, which reach it through a register.                               *)
(***************************************************************************)
EXTENDS StaticProgram

\* An ordering is the set of what it contains.
Relaxed == {}
AcqRel == {"acquire", "release"}
Full == AcqRel \cup {"full"}
Unknown == {"unknown"}

\* _effect_bits
Effects(i) ==
  CASE i.op = "lock"   -> AcqRel
    [] i.op = "lfence" -> {"acquire"}
    [] i.op = "sfence" -> {"release"}
    [] i.op = "mfence" -> Full
    [] OTHER -> Relaxed

Atomic(i) == Effects(i) # Relaxed

\* What the instruction adds to a path.
Added(lib, i) ==
  Effects(i) \cup (IF i.op = "syscall" /\ lib.syscall # Unknown THEN lib.syscall ELSE Relaxed)

Instructions(lib, f) == {lib.code[f][n] : n \in DOMAIN lib.code[f]}

\* What recovery makes of any library: a body begins with its first instruction, and
\* a system call orders what an ordering can be.
IsLibrary(lib) ==
  /\ IsFiniteSet(DOMAIN lib.code) /\ lib.versions \subseteq DOMAIN lib.code
  /\ \A f \in DOMAIN lib.code :
       IsFiniteSet(DOMAIN lib.code[f]) /\ DOMAIN lib.code[f] \subseteq Nat /\ 1 \in DOMAIN lib.code[f]
  /\ lib.syscall = Unknown \/ lib.syscall \subseteq Full

Covers(actual, required) ==
  required # Unknown /\ required \cap AcqRel \subseteq actual

-----------------------------------------------------------------------------
\* Gaps that an instruction is on its own, and those of where it leads.
Unclassified(lib, i) ==
  \/ i.op \in {"odd", "icall", "ijump", "tailif"}
  \/ i.op = "syscall" /\ lib.syscall = Unknown /\ ~ lib.allowed
  \/ i.op \in {"call", "tail"} /\ i.to \notin DOMAIN lib.code

Ends == {"return", "ijump", "tail"}

\* Where a walk goes on behind the instruction at n.
Places(i, n) ==
  CASE i.op \in Ends -> {}
    [] i.op = "goto" -> {i.to}
    [] i.op = "jump" -> {i.to, n + 1}
    [] OTHER -> {n + 1}

\* A function that is being walked already, and an instruction that leads to none.
CutOff  == [returns |-> {}, complete |-> FALSE]
Nothing == [returns |-> {}, complete |-> TRUE]

Callee(found, i) ==
  IF i.op \in {"call", "tail"} /\ i.to \in DOMAIN found THEN found[i.to] ELSE Nothing

\* With what, past a call once for each way through the callee.
Passed(lib, found, i, before) ==
  LET after == before \cup Added(lib, i)
      ways  == Callee(found, i).returns
  IN  IF i.op = "call" /\ ways # {} THEN {after \cup r : r \in ways} ELSE {after}

\* The states of a walk are places with what was collected on the way to them.
Visited(lib, f, found) ==
  LET body == lib.code[f]
      next == [s \in (DOMAIN body) \X (SUBSET Full) |->
                 (Places(body[s[1]], s[1]) \cap DOMAIN body) \X Passed(lib, found, body[s[1]], s[2])]
  IN  Reach(next, {<<1, Relaxed>>})

\* One function, with what was found of the others.
WalkOne(lib, f, found) ==
  LET body == lib.code[f]
      seen == Visited(lib, f, found)
      at(op) == {s \in seen : body[s[1]].op = op}
      after(s) == s[2] \cup Added(lib, body[s[1]])
      returns == {after(s) : s \in at("return")}
                 \cup UNION {{after(s) \cup r : r \in Callee(found, body[s[1]]).returns} : s \in at("tail")}
  IN  [returns |-> returns,
       complete |-> /\ returns # {}
                    /\ \A s \in seen : /\ ~ Unclassified(lib, body[s[1]])
                                       /\ Places(body[s[1]], s[1]) \subseteq DOMAIN body
                                       /\ Callee(found, body[s[1]]).complete]

\* walk: k bounds the functions that may still become active, so that it never
\* runs out.  The code caches results by function; those that depend on `active`
\* are incomplete.
Walks(lib) ==
  LET functions == DOMAIN lib.code
      upto[k \in Nat] ==
        IF k = 0 THEN [w \in functions \X SUBSET functions |-> CutOff]
        ELSE [w \in functions \X SUBSET functions |->
                IF w[1] \in w[2] THEN CutOff
                ELSE WalkOne(lib, w[1], [g \in functions |-> upto[k - 1][<<g, w[2] \cup {w[1]}>>]])]
  IN  upto

Walk(lib, f) == Walks(lib)[Cardinality(DOMAIN lib.code)][<<f, {}>>]

\* Mutant: the strongest path speaks for all of them.
MeetOfSome(returns) == IF returns = {} THEN Unknown ELSE UNION returns

\* What every return path has collected.
Meet(returns) == IF returns = {} THEN Unknown ELSE {e \in Full : \A r \in returns : e \in r}

-----------------------------------------------------------------------------
\* _trusted_library_ordering: an atomic instruction or a fence in the function, or in
\* one it leads to directly; for an alias, a jump.
Evidence(lib, f) ==
  LET leads == [g \in DOMAIN lib.code |->
                  {i.to : i \in {j \in Instructions(lib, g) : j.op \in {"call", "tail", "tailif"}}} \cap DOMAIN lib.code]
  IN  \/ \E g \in Reach(leads, {f}) : \E i \in Instructions(lib, g) : Atomic(i)
      \/ /\ lib.trust = "alias"
         /\ \E i \in Instructions(lib, f) : i.op \in {"jump", "goto", "tail", "tailif", "ijump"}

\* analyze_pthread_synchronization, for one function.
SummaryOf(lib, f) ==
  LET w == Walk(lib, f)
      found == Meet(w.returns)
      overridden == /\ lib.trust # "none" /\ Evidence(lib, f)
                    /\ (~ w.complete \/ ~ Covers(found, lib.required))
                    /\ Covers(lib.trusted, lib.required)
  IN  [complete |-> w.complete \/ overridden,
       target |-> IF overridden THEN lib.trusted ELSE found,
       overridden |-> overridden]

\* _summary_ordering: the ordering of the API's event, Unknown for an opaque call.
Provided(lib) ==
  LET summaries == {SummaryOf(lib, f) : f \in lib.versions}
      targets == {s.target : s \in summaries}
  IN  IF /\ summaries # {} /\ \A s \in summaries : s.complete /\ Covers(s.target, lib.required)
         /\ Cardinality(targets) = 1
        THEN CHOOSE t \in targets : TRUE ELSE Unknown

=============================================================================
