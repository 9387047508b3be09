SPECIFICATION Spec
CONSTANTS
  Threads = {a, b, c}
  Tids = {pid, tid}
  Pid = pid
  BufferRecords = 2
  Budgets = {0, 3}
  MaxEvents = 3
SYMMETRY ThreadSymmetry
CONSTRAINT FewDrops
INVARIANTS
  NothingLostSilently
  CompleteIsCommit
  ValidTraceIsWhole
  SingleThreadRanAlone
