------------------------------- MODULE MCRtc -------------------------------
(* Instances of Rtc: around midnight on the first and the last day of each *)
(* month, in a leap year, the years beside one, and the last year whose    *)
(* timestamps are within TLC's integers.                                   *)
EXTENDS Rtc

Midnights ==
    {<<y, m, d, 23, 59, 58>> :
        y \in {0, 1, 3, 4, 37}, m \in 1..12, d \in {1, 28, 29, 30, 31}}

StartsAtMonthEnds ==
    {t \in Midnights : t[3] \in {1, MonthLength(t[1], t[2])}}
=============================================================================
