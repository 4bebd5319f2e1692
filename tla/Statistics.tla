----------------------------- MODULE Statistics -----------------------------
(***************************************************************************)
(* The statistics of internal/stats over the table of sessions, while      *)
(* sessions are posted, posted again, replayed late and scanned, and while *)
(* the clock moves across days, months and a New Year.  Every endpoint is  *)
(* an operator on the rows and the clock.  The spike alert of the ingest   *)
(* handler is a goroutine: a check that runs some time after its post.     *)
(*                                                                         *)
(* A moment is a point in the order of ended_at.  Two sessions that end in *)
(* the same second are two moments, in the order SQLite returns them.  All *)
(* tokens of a row are one number, costs are integers, and averages and    *)
(* medians are compared by multiplying out.                                *)
(***************************************************************************)
EXTENDS Calendar, FiniteSetsExt

CONSTANTS
    Sessions,       \* session ids
    Bodies,         \* what an event says besides its id and end
    PerHour,        \* moments of an hour
    PerDay,         \* moments of a day
    Start, End,     \* the first and last moment of the clock (a bound)
    Budget,         \* the monthly budget; 0 is none
    SessionWindowN, \* sessions in a baseline
    SessionRatio,   \* a session spike is at least this times its baseline
    TrendRatio,     \* a day's spike likewise
    TrendWindow,    \* days in a baseline (7)
    TrendMin,       \* and the fewest that are one (3)
    SpikeDays,      \* how far back spikes are looked for (90)
    ForecastDays,   \* days that the forecast averages (7)
    AlertDays,      \* days that the alert averages (7)
    MaxChecks       \* alert checks that can be under way (a bound)

VARIABLES
    rows,     \* the table sessions
    now,      \* the clock
    checks,   \* spike checks of the ingest handler that have not run yet
    notified  \* whether the last check that ran sent a notification

vars == <<rows, now, checks, notified>>

Moments == Start..End

\* A model name is the set of family names that occur in it.
Body == [cost : Nat, tokens : Nat, model : SUBSET {"opus", "haiku", "sonnet"},
         project : STRING]
Row == [id : Sessions, end : Moments, body : Bodies]

DayOf(m) == m \div PerDay
HourOf(m) == m \div PerHour

ASSUME StatisticsAssumption ==
    /\ Bodies \subseteq Body
    /\ PerHour \in Nat \ {0} /\ PerDay \in Nat \ {0} /\ PerDay % PerHour = 0
    /\ Start \in Nat /\ End \in Nat /\ Start <= End
    /\ {DayOf(m) : m \in Moments} \subseteq Horizon
    /\ {Budget, SessionWindowN, SessionRatio, TrendRatio, TrendWindow, TrendMin,
        SpikeDays, ForecastDays, AlertDays, MaxChecks} \subseteq Nat
    /\ ForecastDays > 0

today == DayOf(now)
Day(r) == DayOf(r.end)

-----------------------------------------------------------------------------
(* Sums over rows: COALESCE(SUM(...),0) and COUNT(1) of a group.            *)

Cost(S) == SumFunction([r \in S |-> r.body.cost])
Tokens(S) == SumFunction([r \in S |-> r.body.tokens])
Totals(S) == [cost |-> Cost(S), tokens |-> Tokens(S), count |-> Cardinality(S)]

\* GROUP BY: buckets exist only for keys that some row has.
GroupBy(key(_), S) ==
    [k \in {key(r) : r \in S} |-> Totals({r \in S : key(r) = k})]

\* A parameter that is missing, zero or negative means the default.
Clamp(n, default, cap) == IF n <= 0 THEN default ELSE IF n > cap THEN cap ELSE n

MutHourlyRows(days) ==  \* mutation: this endpoint alone is off by one
    {r \in rows : Day(r) > today - days + 1}

\* The rows of a window that ends today.  Each endpoint has its own cutoff.
DailyRows(days) == {r \in rows : Day(r) >= today - days + 1}
HourlyRows(days) == {r \in rows : Day(r) >= today - days + 1}
WeeklyRows(weeks) == {r \in rows : Day(r) >= today - 7 * weeks + 1}
ModelRows(days) == {r \in rows : Day(r) >= today - days + 1}

-----------------------------------------------------------------------------
(* The endpoints.                                                           *)

ThisMonth == {r \in rows : Day(r) >= MonthStart(today)}

MonthSummary ==
    LET cost == Cost(ThisMonth)
    IN [totals |-> Totals(ThisMonth),
        \* the utilisation in tenths of a percent, as <<numerator, divisor>>
        utilisation |-> IF Budget = 0 THEN <<0, 1>>
                        ELSE IF cost * 1000 > 9999 * Budget THEN <<9999, 1>>
                        ELSE <<cost * 1000, Budget>>]

Daily(days) == GroupBy(Day, DailyRows(Clamp(days, 30, 365)))
Hourly(days) == GroupBy(LAMBDA r : HourOf(r.end), HourlyRows(Clamp(days, 7, 90)))

Weekly(weeks) ==
    GroupBy(LAMBDA r : WeekKey(Day(r)), WeeklyRows(Clamp(weeks, 12, 104)))

\* The limit most expensive projects: some choice where costs are equal.
Projects(limit) ==
    LET all == GroupBy(LAMBDA r : r.body.project, rows)
        top == CHOOSE P \in SUBSET DOMAIN all :
                 /\ Cardinality(P) = Min({Clamp(limit, 20, 200), Cardinality(DOMAIN all)})
                 /\ \A p \in P, q \in DOMAIN all \ P : all[p].cost >= all[q].cost
    IN [p \in top |-> all[p]]

\* The newest sessions that ended from one moment to another.
Listed(limit, from, to) ==
    LET W == {r \in rows : from <= r.end /\ r.end <= to}
    IN {r \in W : Cardinality({q \in W : q.end > r.end}) < Clamp(limit, 20, 10000)}

\* The first family that the name contains, in this order.
ModelFamily(model) ==
    IF "opus" \in model THEN "opus"
    ELSE IF "haiku" \in model THEN "haiku"
    ELSE IF "sonnet" \in model THEN "sonnet"
    ELSE "other"

Family(r) == ModelFamily(r.body.model)

\* AggregateByModel adds up row by row, the family's total beside the day's.
AddRow(r, acc) ==
    LET f == Family(r)
        d == <<Day(r), f>>
        at(m, k) == IF k \in DOMAIN m THEN m[k] ELSE 0
    IN [totals |-> [k \in DOMAIN acc.totals \cup {f} |->
                       at(acc.totals, k) + IF k = f THEN r.body.tokens ELSE 0],
        daily |-> [k \in DOMAIN acc.daily \cup {d} |->
                       at(acc.daily, k) + IF k = d THEN r.body.tokens ELSE 0]]

NoFamilies == [totals |-> <<>>, daily |-> <<>>]
ByModel(days) == FoldSet(AddRow, NoFamilies, ModelRows(Clamp(days, 14, 365)))

-----------------------------------------------------------------------------
(* Spikes.                                                                  *)

\* The k-th smallest value of f: what sorting puts at the k-th place.
Kth(k, f) ==
    CHOOSE x \in {f[i] : i \in DOMAIN f} :
        /\ Cardinality({i \in DOMAIN f : f[i] < x}) < k
        /\ k <= Cardinality({i \in DOMAIN f : f[i] <= x})

\* medianFloat: the places of the two middle values, the same one if n is odd.
MutMiddle(n) == <<n \div 2 + 1, n \div 2 + 1>>  \* mutation: no mean of two
Middle(n) == <<(n + 1) \div 2, n \div 2 + 1>>

\* Twice the median of f, 0 of nothing.
Median2(f) ==
    LET m == Middle(Cardinality(DOMAIN f))
    IN IF DOMAIN f = {} THEN 0 ELSE Kth(m[1], f) + Kth(m[2], f)

\* The slice [i-n:i] of the sorted S, for the place i of x.
Preceding(n, S, x) ==
    {y \in S : y < x /\ Cardinality({z \in S : y < z /\ z < x}) < n}

Severity(value, base2, threshold) ==
    IF 2 * value >= 3 * threshold * base2 THEN "high"
    ELSE IF 4 * value >= 3 * threshold * base2 THEN "medium"
    ELSE "low"

\* What is found at `at` against a baseline: none if there is no positive one.
Found(kind, at, value, base2, ratio) ==
    IF base2 > 0 /\ 2 * value >= base2 * ratio
    THEN {[kind |-> kind, at |-> at, value |-> value, base2 |-> base2,
           severity |-> Severity(value, base2, ratio)]}
    ELSE {}

\* The sessions before r that it is compared with.
MutBaseline(S, r) == S \ {r}  \* mutation: all the others
Baseline(S, r) == {q \in S : q.end \in Preceding(SessionWindowN, {z.end : z \in S}, r.end)}

DetectSessionSpikes(S) ==
    IF Cardinality(S) < 3 THEN {}
    ELSE UNION {Found("session", r.end, r.body.cost,
                      Median2([q \in Baseline(S, r) |-> q.body.cost]), SessionRatio) : r \in S}

\* A day is compared with the days before it that have sessions.
DaysOf(S) == {Day(r) : r \in S}
DayTokens(S, d) == Tokens({r \in S : Day(r) = d})

TrendSpikesAt(S, d) ==
    LET W == Preceding(TrendWindow, DaysOf(S), d)
    IN IF Cardinality(W) < TrendMin THEN {}
       ELSE Found("trend", d, DayTokens(S, d),
                  Median2([e \in W |-> DayTokens(S, e)]), TrendRatio)

DetectTrendSpikes(S) == UNION {TrendSpikesAt(S, d) : d \in DaysOf(S)}

Recent == {r \in rows : Day(r) >= today - SpikeDays}
Spikes == DetectSessionSpikes(Recent) \cup DetectTrendSpikes(Recent)

-----------------------------------------------------------------------------
(* The forecast.                                                            *)

MutForecastRows ==  \* mutation: the window reaches into last month
    {r \in rows : Day(r) >= today - ForecastDays + 1}

\* The last week's rows, none of last month.
ForecastRows ==
    {r \in rows : Day(r) >= today - ForecastDays + 1 /\ Day(r) >= MonthStart(today)}

\* The average is over the days that have sessions.  Everything is multiplied
\* by the number of these days.
Forecast ==
    LET days == {Day(r) : r \in ForecastRows}
        n == IF days = {} THEN 1 ELSE Cardinality(days)
        projected == n * Cost(ThisMonth) + Cost(ForecastRows) * DaysRemaining(today)
        over == Budget > 0 /\ projected > n * Budget
    IN [toDate |-> Cost(ThisMonth), days |-> n, projected |-> projected,
        overage |-> IF over THEN projected - n * Budget ELSE 0,
        onTrack |-> ~over]

-----------------------------------------------------------------------------
(* The spike alert.                                                         *)

MutAlertRows ==  \* mutation: no upper bound
    {r \in rows : Day(r) >= today - AlertDays}

\* RollingAvgCostUSD: the rows of the days before today.
AlertRows == {r \in rows : Day(r) >= today - AlertDays /\ Day(r) < today}

\* avg > 0 and cost > 2 * avg, for the average cost of S.
Alerts(cost, S) == Cost(S) > 0 /\ cost * Cardinality(S) > 2 * Cost(S)

-----------------------------------------------------------------------------
Init ==
    /\ rows = {}
    /\ now = Start
    /\ checks = {}
    /\ notified = FALSE

MutPut(row) == rows' = rows \cup {row}  \* mutation: INSERT without ON CONFLICT

\* UpsertSession: a session has one row, the last one written.
Put(row) == rows' = {r \in rows : r.id # row.id} \cup {row}

\* An event is posted, at once or late; a check starts unless it cost nothing.
Post(row) ==
    /\ row.end <= now
    /\ \A r \in rows : r.id # row.id => r.end # row.end
    /\ Put(row)
    /\ checks' = IF row.body.cost > 0 THEN checks \cup {row} ELSE checks
    /\ Cardinality(checks') <= MaxChecks
    /\ UNCHANGED <<now, notified>>

\* The scanner writes a session that it did not find, past the server.
Scan(row) ==
    /\ row.end <= now
    /\ \A r \in rows : r.id # row.id /\ r.end # row.end
    /\ Put(row)
    /\ UNCHANGED <<now, checks, notified>>

\* The goroutine of a post reads the average and decides.
Check(c) ==
    /\ checks' = checks \ {c}
    /\ notified' = Alerts(c.body.cost, AlertRows)
    /\ UNCHANGED <<rows, now>>

Tick ==
    /\ now < End
    /\ now' = now + 1
    /\ UNCHANGED <<rows, checks, notified>>

Next ==
    \/ \E row \in Row : Post(row) \/ Scan(row)
    \/ \E c \in checks : Check(c)
    \/ Tick

Spec == Init /\ [][Next]_vars

-----------------------------------------------------------------------------
TypeOK ==
    /\ rows \subseteq Row
    /\ \A r, q \in rows : r.id = q.id => r = q
    /\ \A r \in rows : r.end <= now
    /\ now \in Moments
    /\ checks \subseteq Row
    /\ notified \in BOOLEAN

\* The cost of all buckets, and the tokens of all families.
CostOf(buckets) == SumFunction([k \in DOMAIN buckets |-> buckets[k].cost])
TokensOf(families) == SumFunction(families)

\* The last n days by day, by hour and by family.
WindowsAgree(n) ==
    LET daily == Daily(n)
        byModel == ByModel(n)
        onDay(d) == {k \in DOMAIN byModel.daily : k[1] = d}
        listed(d) == Listed(daily[d].count, d * PerDay, (d + 1) * PerDay - 1)
    IN /\ CostOf(daily) = CostOf(Hourly(n))
       /\ TokensOf(byModel.totals) = TokensOf(byModel.daily)
       /\ \A d \in DOMAIN daily :
             /\ daily[d].tokens = TokensOf([k \in onDay(d) |-> byModel.daily[k]])
             /\ daily[d].count <= 10000 => Totals(listed(d)) = daily[d]

WeeksAgree(n) == CostOf(Weekly(n)) = CostOf(Daily(7 * n))

\* The endpoints agree with each other.  The month's summary, the forecast's
\* month to date and the daily buckets of this month are one sum; days, hours,
\* families and weeks of one window add up to the same; the list of a day's
\* sessions is what its bucket counts; the projects add up to everything, if
\* they are few enough to be shown.  Each endpoint has its own cutoff and its own
\* grouping.
QueriesAgree ==
    LET monthDays == today - MonthStart(today) + 1
        projects == {r.body.project : r \in rows}
    IN /\ MonthSummary.totals.cost = CostOf(Daily(monthDays))
       /\ MonthSummary.totals.cost = Forecast.toDate
       /\ \A n \in {1, 2} : WindowsAgree(n)
       /\ WeeksAgree(1)
       /\ Cardinality(projects) <= 200 =>
             CostOf(Projects(Cardinality(projects))) = Cost(rows)

\* Two sessions share a weekly bucket exactly when they ended in one week from
\* Monday to Sunday and in one year: a bucket never mixes weeks, and a week is
\* split by a New Year only.  The key of mock mode is the same.
WeekBuckets ==
    \A r, q \in rows :
        /\ WeekKey(Day(r)) = WeekKey(Day(q)) <=>
              /\ WeekStart(Day(r)) = WeekStart(Day(q))
              /\ YearStart(Day(r)) = YearStart(Day(q))
        /\ MockWeekKey(Day(r)) = WeekKey(Day(r))

\* A session that is newer than all others takes back no spike of an earlier
\* session or day: baselines look backwards only.
Extends ==
    /\ rows # rows' /\ rows \subseteq rows' /\ now' = now
    /\ \A n \in rows' \ rows, r \in rows : n.end > r.end

NewerKeepsSpikes ==
    [][Extends =>
         LET kept == Spikes'
         IN \A s \in Spikes :
              (s.kind = "trend" => \A n \in rows' \ rows : Day(n) # s.at) => s \in kept]_vars

\* A baseline is a median: at most half of the values are on each side of it, and
\* it favours no side, so that the mirrored values have the mirrored median.
BaselineIsMedian ==
    \A S \in SUBSET rows :
        LET cost == [r \in S |-> r.body.cost]
            top == Cost(S)
            m == Median2(cost)
        IN S # {} =>
             /\ 2 * Cardinality({r \in S : 2 * cost[r] < m}) <= Cardinality(S)
             /\ 2 * Cardinality({r \in S : 2 * cost[r] > m}) <= Cardinality(S)
             /\ Median2([r \in S |-> top - cost[r]]) = 2 * top - m

\* When every day of the month so far cost the same, the forecast is that cost
\* times the days of the month: nothing of last month leaks in, and no day is
\* counted twice or left out.
SteadyForecast ==
    LET month == MonthStart(today)..today
        costOn(d) == Cost({r \in rows : Day(r) = d})
    IN (/\ month \subseteq {Day(r) : r \in rows}
        /\ \A d \in month : costOn(d) = costOn(today))
       => Forecast.projected = Forecast.days * costOn(today) * DaysIn(today)

\* The alert of a session whose row is of today does not count the session's own
\* cost, whatever ran between the post and the check.  Once the row is of an
\* earlier day (a replay, or a check after midnight) its own cost is part of the
\* average, and with at most one other session there no cost is high enough.
SparesSelf(c) ==
    (\A r \in rows : r.id = c.id => Day(r) = today) =>
        (notified' <=> Alerts(c.body.cost, {r \in AlertRows : r.id # c.id}))

AlertsSpareSelf ==
    [][\A c \in checks \ checks' :
         /\ SparesSelf(c)
         /\ c \in AlertRows /\ Cardinality(AlertRows) <= 2 => ~notified']_vars
=============================================================================
