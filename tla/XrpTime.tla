------------------------------- MODULE XrpTime -------------------------------
(***************************************************************************)
(* The date and time of an Expiration, a CancelAfter or a FinishAfter      *)
(* (xrp/time.c), against a calendar that goes on day by day.               *)
(*                                                                         *)
(* A time is a number of seconds since 2000-01-01 in 32 bits.  It is       *)
(* written here as <<day, sec>>, so that no number exceeds the integers of *)
(* TLC: t = 86400 * day + sec.                                             *)
(***************************************************************************)
EXTENDS Integers, Sequences, FiniteSets

CONSTANTS
    LastDay,  \* the day of the time 2^32 - 1 (49710)
    Seconds   \* of a day: those explored

SecondsOfDay == 0..86399

ASSUME TimeAssumption == LastDay \in Nat /\ Seconds \subseteq SecondsOfDay

VARIABLES
    day,   \* days since 2000-01-01
    civil  \* the date in the Gregorian calendar

timeVars == <<day, civil>>

-----------------------------------------------------------------------------
(* ripple_epoch_to_tm.                                                     *)

DAYS_PER_400Y == 365 * 400 + 97
DAYS_PER_100Y == 365 * 100 + 24
DAYS_PER_4Y == 365 * 4 + 1

\* LEAPOCH is 2000-03-01, 60 days after the epoch of the ledger.
LeapDays == 31 + 29

\* From March to February.
days_in_month == <<31, 30, 31, 30, 31, 31, 30, 31, 30, 31, 31, 29>>

\* secs / 86400 and secs % 86400, which truncate towards zero, for
\* secs = 86400 * (d - LeapDays) + s.
Quotient(d, s) == IF d < LeapDays /\ s > 0 THEN d - LeapDays + 1 ELSE d - LeapDays
Remainder(d, s) == IF d < LeapDays /\ s > 0 THEN s - 86400 ELSE s

\* Defect: no correction for times before LEAPOCH.
truncated_days(d, s) == Quotient(d, s)

Days(d, s) == Quotient(d, s) - (IF Remainder(d, s) < 0 THEN 1 ELSE 0)

RemSecs(d, s) == Remainder(d, s) + (IF Remainder(d, s) < 0 THEN 86400 ELSE 0)

\* The cycles that are over, and the days left.  A cycle may be longer than the others by the
\* leap day at its end, which must not begin another one.
Cycles(days, length, number) ==
    LET cycles == IF days \div length = number THEN number - 1 ELSE days \div length
    IN  [cycles |-> cycles, remdays |-> days - cycles * length]

\* No time of 32 bits is more than one cycle of 400 years before LEAPOCH.
QuadCenturies(days) ==
    LET cycles == IF days < 0 THEN -1 ELSE days \div DAYS_PER_400Y
    IN  [cycles |-> cycles, remdays |-> days - cycles * DAYS_PER_400Y]

\* The months that are over, of the days left in a year that begins in March.
MonthsOver(remdays) ==
    LET Before[m \in 0..12] == IF m = 0 THEN 0 ELSE Before[m - 1] + days_in_month[m]
        over == Cardinality({m \in 1..11 : Before[m] <= remdays})
    IN  [months |-> over, remdays |-> remdays - Before[over]]

ripple_epoch_to_tm(d, s) ==
    LET qc == QuadCenturies(Days(d, s))
        c == Cycles(qc.remdays, DAYS_PER_100Y, 4)
        q == Cycles(c.remdays, DAYS_PER_4Y, 25)
        year == Cycles(q.remdays, 365, 4)
        month == MonthsOver(year.remdays)
        years == year.cycles + 4 * q.cycles + 100 * c.cycles + 400 * qc.cycles
        late == month.months + 2 >= 12
        remsecs == RemSecs(d, s)
    IN  [tm_year |-> years + 100 + (IF late THEN 1 ELSE 0),
         tm_mon |-> month.months + 2 - (IF late THEN 12 ELSE 0),
         tm_mday |-> month.remdays + 1,
         tm_hour |-> remsecs \div 3600, tm_min |-> remsecs \div 60 % 60,
         tm_sec |-> remsecs % 60]

\* The numbers of a row.
print_time(tm) ==
    <<tm.tm_year + 1900, tm.tm_mon + 1, tm.tm_mday, tm.tm_hour, tm.tm_min, tm.tm_sec>>

-----------------------------------------------------------------------------
(* The calendar.                                                           *)

IsLeap(year) == year % 4 = 0 /\ (year % 100 = 0 => year % 400 = 0)

DaysIn(year, month) ==
    CASE month = 2 -> IF IsLeap(year) THEN 29 ELSE 28
      [] month \in {4, 6, 9, 11} -> 30
      [] OTHER -> 31

Tomorrow(date) ==
    CASE date[3] < DaysIn(date[1], date[2]) -> <<date[1], date[2], date[3] + 1>>
      [] date[3] = DaysIn(date[1], date[2]) /\ date[2] < 12 -> <<date[1], date[2] + 1, 1>>
      [] OTHER -> <<date[1] + 1, 1, 1>>

TimeInit == day = 0 /\ civil = <<2000, 1, 1>>

NextDay ==
    /\ day < LastDay
    /\ day' = day + 1
    /\ civil' = Tomorrow(civil)

TimeNext == NextDay

TimeSpec == TimeInit /\ [][TimeNext]_timeVars

-----------------------------------------------------------------------------
(* What must hold.                                                         *)

\* Every time a field can have is shown as the date of the calendar and the time of the day:
\* a FinishAfter is not signed a day or a century off, on leap days, at the turn of years
\* and in the weeks before LEAPOCH where the numbers are negative.
TimeIsCivil ==
    \A sec \in Seconds :
        print_time(ripple_epoch_to_tm(day, sec))
            = civil \o <<sec \div 3600, (sec \div 60) % 60, sec % 60>>

=============================================================================
