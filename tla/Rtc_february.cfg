\* The instance of Rtc_months, for every month.
CHECK_DEADLOCK FALSE  \* the reading ends
SPECIFICATION RtcSpec
CONSTANTS
  Starts <- StartsAtMonthEnds
  MaxSeconds = 3
INVARIANTS
  UnixTimestamp
