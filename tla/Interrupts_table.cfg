\* The instance of Interrupts_nesting, for the stack that save uses.
SPECIFICATION Spec
CONSTANTS
  ClockTask = ClockTask
  TtyTask = TtyTask
  None = None
  Irqs = {0, 1}
  AtBoot = {1}
  Tasks = {ClockTask, TtyTask}
  Notifies <- TwoLines
  Returns <- Either
  Timer = 0
  MaxDepth = 3
INVARIANTS
  SavesOnStackTop
\* hlt does not end while every line is masked.
CHECK_DEADLOCK FALSE
