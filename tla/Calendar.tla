------------------------------ MODULE Calendar ------------------------------
(***************************************************************************)
(* Days, months, years and weeks, as the statistics use them: Go's         *)
(* time.Date for the first of a month, SQLite's strftime('%Y-W%W') for the *)
(* weekly buckets, and mock.go's replica of that key.  A day is an         *)
(* integer; the days of Horizon are those a model may meet.                *)
(***************************************************************************)
EXTENDS Integers

CONSTANTS
    Horizon,     \* the days that are considered
    NewYears,    \* the days that are a 1 January
    MonthStarts, \* the days that are the first of a month
    Monday       \* one Monday

\* The start of the period that d is in, and of the next one, for periods that
\* begin on the days of S.
IsLatest(s, S, d) == s \in S /\ s <= d /\ \A t \in S : t <= d => t <= s
IsNext(s, S, d) == s \in S /\ s > d /\ \A t \in S : t > d => t >= s

ASSUME CalendarAssumption ==
    /\ Horizon \subseteq Int /\ NewYears \subseteq Int /\ MonthStarts \subseteq Int
    /\ Monday \in Int
    /\ NewYears \subseteq MonthStarts
    /\ \A d \in Horizon :
        /\ \E s \in NewYears : IsLatest(s, NewYears, d)
        /\ \E s \in MonthStarts : IsLatest(s, MonthStarts, d) /\ d - s < 31
        /\ \E s \in MonthStarts : IsNext(s, MonthStarts, d)

YearStart(d) == CHOOSE s \in NewYears : IsLatest(s, NewYears, d)
MonthStart(d) == CHOOSE s \in MonthStarts : IsLatest(s, MonthStarts, d)

\* daysIn(now.Year(), now.Month()) - now.Day(): the days of the month after d.
DaysRemaining(d) == (CHOOSE s \in MonthStarts : IsNext(s, MonthStarts, d)) - d - 1
DaysIn(d) == DaysRemaining(d) + d - MonthStart(d) + 1

\* 0 on Mondays; Go's Weekday() is 0 on Sundays.
Weekday(d) == (d - Monday) % 7
GoWeekday(d) == (Weekday(d) + 1) % 7
WeekStart(d) == d - Weekday(d)

MutSqliteWeek(d) ==  \* mutation: weeks begin on the weekday of 1 January
    (d - YearStart(d) + 7) \div 7

\* SQLite's %W: the number of Mondays of the year up to d.
SqliteWeek(d) == (d - YearStart(d) + 7 - Weekday(d)) \div 7

\* The key of a weekly bucket: the year, and the week in it.
WeekKey(d) == <<YearStart(d), SqliteWeek(d)>>

MutMockWeekKey(d) ==  \* mutation: (7 - jan1Weekday) % 7, a first Monday one day early
    LET firstMonday == 1 + ((7 - GoWeekday(YearStart(d))) % 7)
        dist == d - YearStart(d) + 1 - firstMonday
    IN <<YearStart(d), IF dist < 0 THEN 0 ELSE dist \div 7 + 1>>

\* sqliteWeekKey: the same key from the first Monday's day of the year.
MockWeekKey(d) ==
    LET firstMonday == 1 + ((8 - GoWeekday(YearStart(d))) % 7)
        dist == d - YearStart(d) + 1 - firstMonday
    IN <<YearStart(d), IF dist < 0 THEN 0 ELSE dist \div 7 + 1>>
=============================================================================
