\* Reads that a rollover of every field can fall into.
CHECK_DEADLOCK FALSE  \* the reading ends
SPECIFICATION RtcSpec
CONSTANTS
  Starts <- StartsAtMonthEnds
  MaxSeconds = 3
INVARIANTS
  ExactIfStill
  NeverAhead
