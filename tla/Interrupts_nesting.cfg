\* Three activations deep: an interrupt on an interrupt on a system call.
SPECIFICATION FairSpec
CONSTANTS
  ClockTask = ClockTask
  TtyTask = TtyTask
  None = None
  Irqs = {0, 1}
  AtBoot = {1}
  Tasks = {ClockTask, TtyTask}
  Notifies <- TwoLines
  Returns <- Either
  Timer = 0
  MaxDepth = 3
INVARIANTS
  NestingCounted
  HandlerNotNested
  ReadyQueuesExclusive
PROPERTIES
  HeldLookedAt
\* hlt does not end while every line is masked.
CHECK_DEADLOCK FALSE
