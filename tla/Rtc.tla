-------------------------------- MODULE Rtc --------------------------------
(***************************************************************************)
(* How the kernel learns the time when it boots: clock_init reads the      *)
(* registers of the CMOS clock one after the other (get_rtc_time) while    *)
(* the clock goes on, and turns them into seconds since 1970 (mktime).     *)
(*                                                                         *)
(* A time is the sequence <<year, month, day, hour, minute, second>>, with *)
(* the year as the CMOS keeps it, counted from 2000.                       *)
(***************************************************************************)
EXTENDS Integers, Sequences, FiniteSetsExt

CONSTANTS
    Starts,      \* the times at which get_rtc_time may be called
    MaxSeconds   \* bound: the seconds that pass while it reads

VARIABLES
    time,    \* the time in the CMOS
    bcd,     \* its registers hold two decimal digits each
    start,   \* the time when get_rtc_time was called
    got,     \* the registers read so far
    boot     \* boot_time, -1 before it is set

rtcVars == <<time, bcd, start, got, boot>>

-----------------------------------------------------------------------------
(* The CMOS clock (valid until 2099).                                      *)

MonthLength(year, month) ==
    CASE month = 2            -> IF year % 4 = 0 THEN 29 ELSE 28
      [] month \in {4, 6, 9, 11} -> 30
      [] OTHER                -> 31

First == <<0, 1, 1, 0, 0, 0>>

Final(t) == <<99, 12, MonthLength(t[1], t[2]), 23, 59, 59>>

\* One second later: the last field that can grows, and those after it
\* start again.
Succ(t) ==
    LET i == Max({k \in 1..6 : t[k] < Final(t)[k]})
    IN  [k \in 1..6 |-> CASE k < i -> t[k]
                          [] k = i -> t[k] + 1
                          [] k > i -> First[k]]

RegisterOf(n) == IF bcd THEN 16 * (n \div 10) + (n % 10) ELSE n

\* The days from 1970 to a year, and from there to each month, counted one
\* by one.
YearStart[year \in Nat] ==
    IF year = 0 THEN 10957
    ELSE YearStart[year - 1] + (IF (year - 1) % 4 = 0 THEN 366 ELSE 365)

MonthStarts(year) ==
    LET days[month \in 1..12] ==
          IF month = 1 THEN 0
          ELSE days[month - 1] + MonthLength(year, month - 1)
    IN  days

\* n days, in seconds, and the time of the day of t.
Seconds(n, t) == ((n * 24 + t[4]) * 60 + t[5]) * 60 + t[6]

\* The seconds since 1970 by the calendar: what a timestamp is.
Unix(t) ==
    Seconds(YearStart[t[1]] + MonthStarts(t[1])[t[2]] + t[3] - 1, t)

\* The times that there are.
Times ==
    {t \in [1..6 -> Nat] : \A k \in 1..6 : First[k] <= t[k] /\ t[k] <= Final(t)[k]}

\* mktime multiplies years and seconds as ints, which is right up to the
\* greatest one, in 2038.
IntMax == 2147483647

ASSUME RtcAssumption ==
    /\ MaxSeconds \in Nat
    /\ \A t \in Starts : t \in Times /\ Unix(t) + MaxSeconds <= IntMax

-----------------------------------------------------------------------------
(* The kernel.                                                             *)

Bcd2Dec(n) == ((n \div 16) * 10) + (n % 16)

\* The days before each month, in a leap year.
MonthMap == <<0, 31, 60, 91, 121, 152, 182, 213, 244, 274, 305, 335>>

\* Slip: the day of a leap year is counted from its January on.
LeapDaysFromJanuary(year) == (year + 2) \div 4

LeapDays(year) == (year + 1) \div 4

Mktime(t) ==
    LET year == t[1] + 2000 - 1970
        days == 365 * year + LeapDays(year) + MonthMap[t[2]] + t[3] - 1
                - (IF t[2] - 1 > 0 /\ (year + 2) % 4 # 0 THEN 1 ELSE 0)
    IN  Seconds(days, t)

\* Slip: the registers are read from the seconds to the year.
FieldFromSeconds(i) == 7 - i

\* The i-th register that get_rtc_time reads.
Field(i) == i

ReadRegister ==
    /\ Len(got) < 6
    /\ got' = Append(got, RegisterOf(time[Field(Len(got) + 1)]))
    /\ UNCHANGED <<time, bcd, start, boot>>

\* CLK_STATUS tells whether the registers have to be converted.
SetBootTime ==
    LET raw == [k \in 1..6 |-> got[CHOOSE i \in 1..6 : Field(i) = k]] IN
    /\ Len(got) = 6 /\ boot = -1
    /\ boot' = Mktime([k \in 1..6 |-> IF bcd THEN Bcd2Dec(raw[k]) ELSE raw[k]])
    /\ UNCHANGED <<time, bcd, start, got>>

Advance ==
    /\ boot = -1
    /\ Unix(time) < Unix(start) + MaxSeconds
    /\ time' = Succ(time)
    /\ UNCHANGED <<bcd, start, got, boot>>

RtcInit ==
    /\ start \in Starts
    /\ time = start
    /\ bcd \in BOOLEAN
    /\ got = <<>>
    /\ boot = -1

RtcNext == ReadRegister \/ SetBootTime \/ Advance

RtcSpec == RtcInit /\ [][RtcNext]_rtcVars

-----------------------------------------------------------------------------
\* A year that is not a leap year puts its February one day early.
EarlyFebruary(t) == t[2] = 2 /\ t[1] % 4 # 0

\* If no second passes while the registers are read, boot_time is the time,
\* in BCD and in binary, except in the Februaries that come a day early.
ExactIfStill ==
    boot # -1 /\ time = start /\ ~EarlyFebruary(start) => boot = Unix(time)

\* The registers are read from the year down to the seconds: a carry that
\* comes in between may set boot_time back, but never ahead of the time.
NeverAhead == boot # -1 => boot <= Unix(time)

\* clock.c:127: mktime converts to a unix timestamp.
UnixTimestamp == boot # -1 /\ time = start => boot = Unix(time)
=============================================================================
