------------------------------ MODULE MCCampaign ------------------------------
(***************************************************************************)
(* At most two recordings a campaign; traces with up to four conflicts.    *)
(***************************************************************************)
EXTENDS Campaign, TLC

CONSTANTS e1, e2, e3, e4

Plain ==
  [threads |-> 2, events |-> 2, waits |-> 0, reasons |-> {}, whole |-> TRUE,
   readable |-> TRUE, edges |-> {}, wide |-> {}, app |-> {}, inner |-> {}, cycles |-> {},
   crowd |-> 1, partition |-> TRUE, handoffs |-> FALSE, atomics |-> FALSE,
   closed |-> TRUE]

MCTraces == {
  \* one thread, nothing to check
  [Plain EXCEPT !.threads = 1],
  \* a manifest that cannot be loaded, a cut file, an unsupported syscall
  [Plain EXCEPT !.readable = FALSE],
  [Plain EXCEPT !.threads = 1, !.reasons = {"gap"}, !.whole = FALSE],
  [Plain EXCEPT !.reasons = {"syscall"}, !.edges = {e1}],
  \* a cycle of two conflicts of the main ELF
  [Plain EXCEPT !.edges = {e1, e2}, !.app = {e1, e2}, !.inner = {e1, e2}, !.cycles = {{e1, e2}}],
  \* the same among others, on an open skeleton
  [Plain EXCEPT !.edges = {e1, e2, e3}, !.app = {e1, e3}, !.cycles = {{e1, e2}}, !.closed = FALSE],
  \* more conflicts than the limit, most of them of the runtime alone
  [Plain EXCEPT !.edges = {e1, e2, e3, e4}, !.app = {e1}, !.cycles = {{e1, e2}}],
  \* one of its conflicts reaches over too many pages
  [Plain EXCEPT !.edges = {e1, e2}, !.wide = {e2}, !.app = {e1, e2}, !.cycles = {{e1, e2}}],
  \* the partition fails; a hot page
  [Plain EXCEPT !.edges = {e1, e2}, !.app = {e1}, !.partition = FALSE, !.crowd = 3],
  \* handoffs are complete: with an atomic, without, and with a runtime conflict
  [Plain EXCEPT !.edges = {e1}, !.app = {e1}, !.inner = {e1}, !.handoffs = TRUE, !.atomics = TRUE],
  [Plain EXCEPT !.edges = {e2, e3}, !.handoffs = TRUE],
  \* a cycle that an atomic of the main ELF brings to light
  [Plain EXCEPT !.edges = {e1, e2}, !.app = {e1}, !.cycles = {{e1, e2}},
                !.handoffs = TRUE, !.atomics = TRUE],
  \* waits that only the import counts; too many events before it
  [Plain EXCEPT !.events = 3, !.waits = 2],
  [Plain EXCEPT !.events = 5] }

=============================================================================
