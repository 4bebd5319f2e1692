-------------------------- MODULE Statistics_proofs --------------------------
(***************************************************************************)
(* Proofs about Statistics, for every table, calendar, window and ratio:   *)
(* weekly buckets are weeks, a newer session keeps earlier spikes, alerts  *)
(* are fair, the endpoints agree with each other, an even month is forecast*)
(* as such, and baselines are medians.                                     *)
(***************************************************************************)
EXTENDS Statistics, FiniteSums, TLAPS

-----------------------------------------------------------------------------
(* Weeks.                                                                   *)

\* The latest New Year of a day that is considered is not after it.
LEMMA YearStartType ==
    ASSUME NEW d \in Horizon
    PROVE  d \in Int /\ YearStart(d) \in Int /\ YearStart(d) <= d
<1>1. PICK s \in NewYears : IsLatest(s, NewYears, d)  BY CalendarAssumption
<1>2. IsLatest(YearStart(d), NewYears, d)  BY <1>1 DEF YearStart, IsLatest
<1> QED  BY <1>2, CalendarAssumption DEF IsLatest

\* Within one year, equal numbers of Mondays mean equal Mondays.
LEMMA WeekArithmetic ==
    ASSUME NEW d \in Int, NEW e \in Int, NEW y \in Int, NEW m \in Int
    PROVE  (d - y + 7 - ((d - m) % 7)) \div 7 = (e - y + 7 - ((e - m) % 7)) \div 7
             <=> d - ((d - m) % 7) = e - ((e - m) % 7)
OBVIOUS

\* The first Monday's day of the year gives the number of Mondays.
LEMMA MockArithmetic ==
    ASSUME NEW d \in Int, NEW y \in Int, NEW m \in Int, y <= d,
           NEW f, f = 1 + ((8 - ((((y - m) % 7) + 1) % 7)) % 7),
           NEW t, t = d - y + 1 - f
    PROVE  (d - y + 7 - ((d - m) % 7)) \div 7 = IF t < 0 THEN 0 ELSE t \div 7 + 1
OBVIOUS

\* Two days have one key exactly if they are in one week and one year.
LEMMA KeysSeparateWeeks ==
    ASSUME NEW d \in Horizon, NEW e \in Horizon
    PROVE  WeekKey(d) = WeekKey(e) <=>
             WeekStart(d) = WeekStart(e) /\ YearStart(d) = YearStart(e)
<1>1. WeekKey(d) = WeekKey(e) <=>
        YearStart(d) = YearStart(e) /\ SqliteWeek(d) = SqliteWeek(e)
  BY DEF WeekKey
<1>2. ASSUME YearStart(d) = YearStart(e)
      PROVE  SqliteWeek(d) = SqliteWeek(e) <=> WeekStart(d) = WeekStart(e)
  BY <1>2, YearStartType, WeekArithmetic, CalendarAssumption
  DEF SqliteWeek, WeekStart, Weekday
<1> QED  BY <1>1, <1>2

\* Mock mode's arithmetic gives SQLite's key on every day of every calendar.
LEMMA MockKeyIsSqlites ==
    ASSUME NEW d \in Horizon
    PROVE  MockWeekKey(d) = WeekKey(d)
<1> DEFINE y == YearStart(d)
           f == 1 + ((8 - GoWeekday(y)) % 7)
           t == d - y + 1 - f
<1>1. d \in Int /\ y \in Int /\ y <= d /\ Monday \in Int
  BY YearStartType, CalendarAssumption
<1>2. f = 1 + ((8 - ((((y - Monday) % 7) + 1) % 7)) % 7)  BY DEF GoWeekday, Weekday
<1>3. SqliteWeek(d) = (d - y + 7 - ((d - Monday) % 7)) \div 7  BY DEF SqliteWeek, Weekday
<1>4. MockWeekKey(d) = <<y, IF t < 0 THEN 0 ELSE t \div 7 + 1>>  BY DEF MockWeekKey
<1>5. WeekKey(d) = <<y, SqliteWeek(d)>>  BY DEF WeekKey
<1>6. t = d - y + 1 - f  OBVIOUS
<1> HIDE DEF y, f, t
<1>7. SqliteWeek(d) = IF t < 0 THEN 0 ELSE t \div 7 + 1
  BY <1>1, <1>2, <1>3, <1>6, MockArithmetic
<1> QED  BY <1>4, <1>5, <1>7

-----------------------------------------------------------------------------
(* Types.                                                                   *)

IInv == TypeOK /\ IsFiniteSet(rows)

\* The table is empty at first.
LEMMA InitInv == Init => IInv
<1>1. Start \in Moments  BY StatisticsAssumption DEF Moments
<1>2. IsFiniteSet({})  BY FS_EmptySet
<1> QED  BY <1>1, <1>2 DEF Init, IInv, TypeOK

\* Writing a row keeps the table a table.
LEMMA PutInv ==
    ASSUME IInv, NEW row \in Row, row.end <= now, Put(row)
    PROVE  /\ rows' \subseteq Row
           /\ \A r, q \in rows' : r.id = q.id => r = q
           /\ \A r \in rows' : r.end <= now
           /\ IsFiniteSet(rows')
<1> DEFINE others == {r \in rows : r.id # row.id}
<1>1. rows' = others \cup {row} /\ others \subseteq rows  BY DEF Put
<1>2. IsFiniteSet(others)  BY <1>1, FS_Subset DEF IInv
<1>3. IsFiniteSet(rows')  BY <1>1, <1>2, FS_AddElement
<1>4. \A r \in rows' : r = row \/ (r \in rows /\ r.id # row.id)  BY <1>1
<1>5. rows' \subseteq Row  BY <1>4 DEF IInv, TypeOK
<1>6. \A r \in rows' : r.end <= now  BY <1>4 DEF IInv, TypeOK
<1>7. \A r, q \in rows' : r.id = q.id => r = q  BY <1>4 DEF IInv, TypeOK
<1> QED  BY <1>3, <1>5, <1>6, <1>7

\* Every step keeps a finite table of well-formed rows.
LEMMA StepInv == IInv /\ [Next]_vars => IInv'
<1> SUFFICES ASSUME IInv, [Next]_vars PROVE IInv'  OBVIOUS
<1>1. ASSUME NEW row \in Row, Post(row) PROVE IInv'
  <2>1. row.end <= now /\ Put(row) /\ now' = now /\ notified' = notified
    BY <1>1 DEF Post
  <2>2. checks' \subseteq Row  BY <1>1 DEF Post, IInv, TypeOK
  <2> QED  BY <2>1, <2>2, PutInv DEF IInv, TypeOK
<1>2. ASSUME NEW row \in Row, Scan(row) PROVE IInv'
  <2>1. row.end <= now /\ Put(row) /\ now' = now /\ notified' = notified /\ checks' = checks
    BY <1>2 DEF Scan
  <2> QED  BY <2>1, PutInv DEF IInv, TypeOK
<1>3. ASSUME NEW c \in checks, Check(c) PROVE IInv'
  <2>1. Alerts(c.body.cost, AlertRows) \in BOOLEAN  BY DEF Alerts
  <2> QED  BY <1>3, <2>1 DEF Check, IInv, TypeOK
<1>4. CASE Tick
  <2>1. now' \in Moments /\ now < now'
    BY <1>4, StatisticsAssumption DEF Tick, IInv, TypeOK, Moments
  <2>2. \A r \in rows : r.end \in Int
    BY StatisticsAssumption DEF IInv, TypeOK, Row, Moments
  <2>3. \A r \in rows' : r.end <= now'
    BY <1>4, <2>1, <2>2, StatisticsAssumption DEF Tick, IInv, TypeOK, Moments
  <2> QED  BY <1>4, <2>1, <2>3 DEF Tick, IInv, TypeOK
<1>5. CASE UNCHANGED vars  BY <1>5 DEF vars, IInv, TypeOK
<1> QED  BY <1>1, <1>2, <1>3, <1>4, <1>5 DEF Next

\* The table has one row per session.  That none of them ended in the future is
\* what Post and Scan assume of their events.
THEOREM TypeCorrect == Spec => []TypeOK
<1>1. Spec => []IInv  BY InitInv, StepInv, PTL DEF Spec
<1>2. IInv => TypeOK  BY DEF IInv
<1> QED  BY <1>1, <1>2, PTL

\* Weekly buckets are weeks, split by New Years only, in both modes.
THEOREM WeeksAreWeeks == Spec => []WeekBuckets
<1>1. TypeOK => WeekBuckets
  <2> SUFFICES ASSUME TypeOK PROVE WeekBuckets  OBVIOUS
  <2>1. \A r \in rows : Day(r) \in Horizon
    BY StatisticsAssumption DEF TypeOK, Row, Day
  <2> QED  BY <2>1, KeysSeparateWeeks, MockKeyIsSqlites DEF WeekBuckets
<1> QED  BY <1>1, TypeCorrect, PTL

-----------------------------------------------------------------------------
(* Sums over rows.                                                          *)

CostsOf == [r \in Row |-> r.body.cost]
TokensIn == [r \in Row |-> r.body.tokens]

\* What a row holds, and the day it is of.
LEMMA RowTypes ==
    ASSUME NEW r \in Row
    PROVE  /\ r.body.cost \in Nat /\ r.body.tokens \in Nat
           /\ CostsOf[r] = r.body.cost /\ TokensIn[r] = r.body.tokens
           /\ r.end \in Nat /\ Day(r) \in Horizon /\ Day(r) \in Int
<1>1. r.body \in Body /\ r.end \in Moments
  BY StatisticsAssumption DEF Row
<1>2. r.body.cost \in Nat /\ r.body.tokens \in Nat
  BY <1>1 DEF Body
<1>3. r.end \in Nat
  BY <1>1, StatisticsAssumption DEF Moments
<1>4. Day(r) \in Horizon
  BY <1>1, StatisticsAssumption DEF Day
<1> QED
  BY <1>2, <1>3, <1>4, CalendarAssumption DEF CostsOf, TokensIn

\* The sums of the queries are sums of one function, and at least each value.
LEMMA RowSums ==
    ASSUME NEW S \in SUBSET Row, IsFiniteSet(S)
    PROVE  /\ Summable(CostsOf, S) /\ Summable(TokensIn, S)
           /\ Cost(S) = SumFunctionOnSet(CostsOf, S) /\ Cost(S) \in Nat
           /\ Tokens(S) = SumFunctionOnSet(TokensIn, S) /\ Tokens(S) \in Nat
           /\ \A r \in S : r.body.cost <= Cost(S)
<1> DEFINE c == [r \in S |-> r.body.cost]
           t == [r \in S |-> r.body.tokens]
<1>1. \A r \in S : /\ CostsOf[r] \in Nat /\ c[r] = CostsOf[r]
                  /\ TokensIn[r] \in Nat /\ t[r] = TokensIn[r]
  BY RowTypes
<1>2. Cost(S) = SumFunctionOnSet(c, S) /\ Tokens(S) = SumFunctionOnSet(t, S)
  BY DEF Cost, Tokens, SumFunction
<1>3. Summable(CostsOf, S) /\ Summable(TokensIn, S)
  BY <1>1 DEF Summable
<1>4. \A r \in S : c[r] = r.body.cost
  OBVIOUS
<1> HIDE DEF c, t
<1>5. /\ SumFunctionOnSet(c, S) = SumFunctionOnSet(CostsOf, S)
      /\ SumFunctionOnSet(t, S) = SumFunctionOnSet(TokensIn, S)
  BY <1>1, <1>3, SumsEqual
<1>6. /\ SumFunctionOnSet(CostsOf, S) \in Nat
      /\ \A r \in S : CostsOf[r] <= SumFunctionOnSet(CostsOf, S)
  BY <1>1, SumIsNat
<1>7. SumFunctionOnSet(TokensIn, S) \in Nat
  BY <1>1, SumIsNat
<1> QED
  BY <1>1, <1>2, <1>3, <1>4, <1>5, <1>6, <1>7

\* The buckets that a key makes of S, and the tokens in each.
Buckets(k, S) == [y \in Keys(k, S) |-> Totals(KeyGroup(k, S, y))]
KeyTokens(k, S) == [y \in Keys(k, S) |-> Tokens(KeyGroup(k, S, y))]

\* Whatever the key, the buckets add up to all rows.
LEMMA BucketsAddUp ==
    ASSUME NEW S \in SUBSET Row, IsFiniteSet(S), NEW k
    PROVE  /\ CostOf(Buckets(k, S)) = Cost(S)
           /\ TokensOf(KeyTokens(k, S)) = Tokens(S)
<1> DEFINE K == Keys(k, S)
           g == [y \in K |-> Cost(KeyGroup(k, S, y))]
           h == [y \in K |-> Tokens(KeyGroup(k, S, y))]
<1>1. IsFiniteSet(K) /\ Keys(k, S) \subseteq K
  BY KeysAreFinite
<1>2. \A y \in K : KeyGroup(k, S, y) \in SUBSET Row /\ IsFiniteSet(KeyGroup(k, S, y))
  BY KeysAreFinite
<1>3. CostOf(Buckets(k, S)) = SumFunctionOnSet(g, K)
  <2>1. \A y \in K : Totals(KeyGroup(k, S, y)).cost = Cost(KeyGroup(k, S, y))
    BY DEF Totals
  <2>2. [y \in DOMAIN Buckets(k, S) |-> Buckets(k, S)[y].cost] = g
    <3> HIDE DEF K
    <3> QED
      BY <2>1 DEF Buckets, K
  <2> QED
    BY <2>2 DEF CostOf, SumFunction
<1>4. TokensOf(KeyTokens(k, S)) = SumFunctionOnSet(h, K)
  BY DEF TokensOf, KeyTokens, SumFunction
<1>5. /\ \A y \in K : g[y] = SumFunctionOnSet(CostsOf, KeyGroup(k, S, y))
      /\ \A y \in K : h[y] = SumFunctionOnSet(TokensIn, KeyGroup(k, S, y))
  <2> HIDE DEF K
  <2> QED
    BY <1>2, RowSums
<1>6. Summable(CostsOf, S) /\ Summable(TokensIn, S)
  BY RowSums
<1> HIDE DEF K, g, h
<1>7. SumFunctionOnSet(g, K) = SumFunctionOnSet(CostsOf, S)
  BY <1>1, <1>5, <1>6, SumOfGroups
<1>8. SumFunctionOnSet(h, K) = SumFunctionOnSet(TokensIn, S)
  BY <1>1, <1>5, <1>6, SumOfGroups
<1> QED
  BY <1>3, <1>4, <1>7, <1>8, RowSums

-----------------------------------------------------------------------------
(* Spikes.                                                                  *)

\* A later moment is not on an earlier day.
LEMMA DayMonotone ==
    ASSUME NEW a \in Int, NEW b \in Int, a <= b, NEW p \in Nat \ {0}
    PROVE  a \div p <= b \div p /\ a \div p \in Int
<1> DEFINE qa == a \div p
           qb == b \div p
<1>1. qa \in Int /\ qb \in Int  OBVIOUS
<1>2. p * qa <= a /\ b < p * qb + p  OBVIOUS
<1> HIDE DEF qa, qb
<1>3. CASE qa > qb
  <2>1. qa >= qb + 1  BY <1>1, <1>3
  <2>2. p * qa >= p * (qb + 1)  BY <1>1, <2>1
  <2>3. p * (qb + 1) = p * qb + p  BY <1>1
  <2> QED  BY <1>1, <1>2, <2>2, <2>3
<1> QED  BY <1>1, <1>3 DEF qa, qb

\* What comes right before x in S, with new elements of S not below x.
LEMMA PrecedingUnchanged ==
    ASSUME NEW n, NEW x \in Int, NEW S, NEW T, S \subseteq Int, T \subseteq Int, S \subseteq T,
           \A y \in T \ S : y >= x
    PROVE  Preceding(n, T, x) = Preceding(n, S, x)
<1>1. \A y \in T : y < x => y \in S  OBVIOUS
<1>2. ASSUME NEW y \in Int
      PROVE {z \in T : y < z /\ z < x} = {z \in S : y < z /\ z < x}
  BY <1>1
<1>3. \A y \in Int : (y \in T /\ y < x) <=> (y \in S /\ y < x)  BY <1>1
<1> QED  BY <1>2, <1>3 DEF Preceding

\* The tables of an extension: the new rows come after all others.
LEMMA ExtensionKeepsSpikes ==
    ASSUME IInv, IInv', Extends,
           NEW s \in Spikes, s.kind = "trend" => \A n \in rows' \ rows : Day(n) # s.at
    PROVE  s \in Spikes'
<1> DEFINE S == Recent
           T == Recent'
<1>1. /\ S \subseteq T
      /\ \A n \in T \ S, r \in S : n.end > r.end
      /\ \A n \in T \ S : n \in rows' \ rows
  BY DEF Extends, Recent, today
<1>2. S \subseteq Row /\ T \subseteq Row /\ IsFiniteSet(S) /\ IsFiniteSet(T)
  BY FS_Subset DEF IInv, TypeOK, Recent
<1>3. \A r \in Row : r.end \in Int /\ Day(r) \in Int
  BY StatisticsAssumption, DayMonotone DEF Row, Moments, Day, DayOf
<1>4. \A n \in T \ S, r \in S : Day(n) >= Day(r)
  BY <1>1, <1>2, <1>3, DayMonotone, StatisticsAssumption DEF Day, DayOf
<1> HIDE DEF S, T
<1>5. CASE s \in DetectSessionSpikes(S)
  <2>1. Cardinality(S) >= 3 /\ Cardinality(T) >= 3
    <3>1. Cardinality(S) \in Nat /\ Cardinality(T) \in Nat /\ Cardinality(S) <= Cardinality(T)
      BY <1>1, <1>2, FS_Subset, FS_CardinalityType
    <3>2. ~(Cardinality(S) < 3)  BY <1>5 DEF DetectSessionSpikes
    <3> QED  BY <3>1, <3>2
  <2>2. ASSUME NEW r \in S
        PROVE  Baseline(T, r) = Baseline(S, r)
    <3> DEFINE E == {z.end : z \in S}
               F == {z.end : z \in T}
    <3>1. E \subseteq Int /\ F \subseteq Int /\ E \subseteq F /\ r.end \in Int
      BY <1>1, <1>2, <1>3
    <3>2. \A y \in F \ E : y >= r.end  BY <1>1, <1>2, <1>3
    <3>3. Preceding(SessionWindowN, F, r.end) = Preceding(SessionWindowN, E, r.end)
      BY <3>1, <3>2, PrecedingUnchanged
    <3>4. \A y \in Preceding(SessionWindowN, E, r.end) : y < r.end  BY DEF Preceding
    <3>5. \A q \in T : q.end < r.end => q \in S  BY <1>1, <1>2, <1>3
    <3> QED  BY <3>3, <3>4, <3>5, <1>1 DEF Baseline
  <2>3. PICK r \in S :
          s \in Found("session", r.end, r.body.cost,
                     Median2([q \in Baseline(S, r) |-> q.body.cost]), SessionRatio)
    BY <1>5, <2>1 DEF DetectSessionSpikes
  <2>4. s \in Found("session", r.end, r.body.cost,
                   Median2([q \in Baseline(T, r) |-> q.body.cost]), SessionRatio)
    BY <2>2, <2>3
  <2>5. s \in DetectSessionSpikes(T)
    <3> DEFINE found(q) == Found("session", q.end, q.body.cost,
                                 Median2([p \in Baseline(T, q) |-> p.body.cost]), SessionRatio)
    <3>1. ~(Cardinality(T) < 3)
      <4>1. Cardinality(T) \in Nat  BY <1>2, FS_CardinalityType
      <4> QED  BY <2>1, <4>1
    <3>2. DetectSessionSpikes(T) = UNION {found(q) : q \in T}
      BY <3>1 DEF DetectSessionSpikes
    <3>3. r \in T /\ s \in found(r)  BY <1>1, <2>4
    <3> HIDE DEF found
    <3> QED  BY <3>2, <3>3
  <2> QED  BY <2>5 DEF Spikes, T
<1>6. CASE s \in DetectTrendSpikes(S)
  <2>1. PICK d \in DaysOf(S) : s \in TrendSpikesAt(S, d)  BY <1>6 DEF DetectTrendSpikes
  <2>2. s.kind = "trend" /\ s.at = d  BY <2>1 DEF TrendSpikesAt, Found
  <2>3. d \in Int /\ \A n \in T \ S : Day(n) \in Int /\ Day(n) > d
    BY <1>1, <1>2, <1>3, <1>4, <2>1, <2>2 DEF DaysOf
  <2>4. ASSUME NEW e \in Int, e <= d
        PROVE  DayTokens(T, e) = DayTokens(S, e)
    <3>1. {r \in T : Day(r) = e} = {r \in S : Day(r) = e}  BY <1>1, <2>3, <2>4
    <3> QED  BY <3>1 DEF DayTokens
  <2>5. DaysOf(S) \subseteq Int /\ DaysOf(T) \subseteq Int /\ DaysOf(S) \subseteq DaysOf(T)
    BY <1>1, <1>2, <1>3 DEF DaysOf
  <2>6. Preceding(TrendWindow, DaysOf(T), d) = Preceding(TrendWindow, DaysOf(S), d)
    <3>1. \A y \in DaysOf(T) \ DaysOf(S) : y >= d  BY <2>3 DEF DaysOf
    <3> QED  BY <2>3, <2>5, <3>1, PrecedingUnchanged
  <2>7. \A e \in Preceding(TrendWindow, DaysOf(S), d) : e \in Int /\ e <= d
    BY <2>3, <2>5 DEF Preceding
  <2>8. [e \in Preceding(TrendWindow, DaysOf(T), d) |-> DayTokens(T, e)]
          = [e \in Preceding(TrendWindow, DaysOf(S), d) |-> DayTokens(S, e)]
    BY <2>4, <2>6, <2>7
  <2>9. DayTokens(T, d) = DayTokens(S, d)  BY <2>3, <2>4
  <2>10. TrendSpikesAt(T, d) = TrendSpikesAt(S, d)
    BY <2>6, <2>8, <2>9 DEF TrendSpikesAt
  <2>11. s \in DetectTrendSpikes(T)
    BY <2>1, <2>5, <2>10 DEF DetectTrendSpikes
  <2> QED  BY <2>11 DEF Spikes, T
<1> QED  BY <1>5, <1>6 DEF Spikes, S

\* Later sessions take back no spike of an earlier session or day, for every
\* window, ratio and calendar.
THEOREM SpikesAreKept == Spec => NewerKeepsSpikes
<1>1. IInv /\ IInv' =>
        [Extends =>
           LET kept == Spikes'
           IN \A s \in Spikes :
                (s.kind = "trend" => \A n \in rows' \ rows : Day(n) # s.at) => s \in kept]_vars
  BY ExtensionKeepsSpikes
<1>2. Spec => []IInv  BY InitInv, StepInv, PTL DEF Spec
<1> QED  BY <1>1, <1>2, PTL DEF NewerKeepsSpikes

-----------------------------------------------------------------------------
(* The alert.                                                               *)

\* The check of a session whose row is of today decides as if the session were
\* not in the table.  A session that is in the average itself, with at most one
\* other, costs at most twice the average.
THEOREM AlertsAreFair == Spec => AlertsSpareSelf
<1>1. IInv /\ [Next]_vars =>
        [\A c \in checks \ checks' :
           /\ SparesSelf(c)
           /\ c \in AlertRows /\ Cardinality(AlertRows) <= 2 => ~notified']_vars
  <2> SUFFICES ASSUME IInv, Next, NEW c \in checks, c \notin checks'
               PROVE  /\ SparesSelf(c)
                      /\ c \in AlertRows /\ Cardinality(AlertRows) <= 2 => ~notified'
    OBVIOUS
  <2>1. Check(c)
    BY DEF Next, Post, Scan, Check, Tick
  <2>2. ASSUME \A r \in rows : r.id = c.id => Day(r) = today
        PROVE  {r \in AlertRows : r.id # c.id} = AlertRows
    <3>1. \A r \in rows : Day(r) < today => r.id # c.id
      <4>1. today \in Int /\ \A r \in rows : Day(r) \in Int
        BY StatisticsAssumption, DayMonotone
        DEF IInv, TypeOK, Row, Moments, Day, today, DayOf
      <4> QED  BY <2>2, <4>1
    <3> QED  BY <3>1 DEF AlertRows
  <2>3. SparesSelf(c)
    BY <2>1, <2>2 DEF SparesSelf, Check
  <2>4. ASSUME c \in AlertRows, Cardinality(AlertRows) <= 2
        PROVE  ~Alerts(c.body.cost, AlertRows)
    <3> DEFINE n == Cardinality(AlertRows)
               total == Cost(AlertRows)
               mine == c.body.cost
    <3>1. AlertRows \in SUBSET Row /\ IsFiniteSet(AlertRows)
      BY FS_Subset DEF AlertRows, IInv, TypeOK
    <3>2. n \in 0 .. 2 /\ total \in Nat /\ mine \in Nat /\ mine <= total
      BY <2>4, <3>1, FS_CardinalityType, RowSums, RowTypes
    <3> HIDE DEF n, total, mine
    <3>3. n = 0 \/ n = 1 \/ n = 2
      BY <3>2
    <3>4. mine * n <= 2 * total
      BY <3>2, <3>3
    <3>5. mine * n \in Int /\ 2 * total \in Int /\ ~(mine * n > 2 * total)
      BY <3>2, <3>4
    <3> QED
      BY <3>5 DEF Alerts, n, total, mine
  <2> QED
    BY <2>1, <2>3, <2>4 DEF Check
<1>2. Spec => []IInv
  BY InitInv, StepInv, PTL DEF Spec
<1> QED
  BY <1>1, <1>2, PTL DEF Spec, AlertsSpareSelf

-----------------------------------------------------------------------------
(* The endpoints.                                                           *)

DayKey == [r \in Row |-> Day(r)]
HourKey == [r \in Row |-> HourOf(r.end)]
WeekBucket == [r \in Row |-> WeekKey(Day(r))]
ProjectKey == [r \in Row |-> r.body.project]
FamilyKey == [r \in Row |-> Family(r)]
DayFamilyKey == [r \in Row |-> <<Day(r), Family(r)>>]

\* GROUP BY makes the buckets of a key.
LEMMA GroupsAreBuckets ==
    ASSUME NEW S \in SUBSET Row
    PROVE  /\ GroupBy(Day, S) = Buckets(DayKey, S)
           /\ GroupBy(LAMBDA r : HourOf(r.end), S) = Buckets(HourKey, S)
           /\ GroupBy(LAMBDA r : WeekKey(Day(r)), S) = Buckets(WeekBucket, S)
           /\ GroupBy(LAMBDA r : r.body.project, S) = Buckets(ProjectKey, S)
<1>1. GroupBy(Day, S) = Buckets(DayKey, S)
  <2>1. {Day(r) : r \in S} = Keys(DayKey, S)
    BY DEF Keys, DayKey
  <2>2. \A y : {r \in S : Day(r) = y} = KeyGroup(DayKey, S, y)
    BY DEF KeyGroup, DayKey
  <2> QED
    BY <2>1, <2>2 DEF GroupBy, Buckets
<1>2. GroupBy(LAMBDA r : HourOf(r.end), S) = Buckets(HourKey, S)
  <2>1. {HourOf(r.end) : r \in S} = Keys(HourKey, S)
    BY DEF Keys, HourKey
  <2>2. \A y : {r \in S : HourOf(r.end) = y} = KeyGroup(HourKey, S, y)
    BY DEF KeyGroup, HourKey
  <2> QED
    BY <2>1, <2>2 DEF GroupBy, Buckets
<1>3. GroupBy(LAMBDA r : WeekKey(Day(r)), S) = Buckets(WeekBucket, S)
  <2>1. {WeekKey(Day(r)) : r \in S} = Keys(WeekBucket, S)
    BY DEF Keys, WeekBucket
  <2>2. \A y : {r \in S : WeekKey(Day(r)) = y} = KeyGroup(WeekBucket, S, y)
    BY DEF KeyGroup, WeekBucket
  <2> QED
    BY <2>1, <2>2 DEF GroupBy, Buckets
<1>4. GroupBy(LAMBDA r : r.body.project, S) = Buckets(ProjectKey, S)
  <2>1. {r.body.project : r \in S} = Keys(ProjectKey, S)
    BY DEF Keys, ProjectKey
  <2>2. \A y : {r \in S : r.body.project = y} = KeyGroup(ProjectKey, S, y)
    BY DEF KeyGroup, ProjectKey
  <2> QED
    BY <2>1, <2>2 DEF GroupBy, Buckets
<1> QED
  BY <1>1, <1>2, <1>3, <1>4

\* The rows of the last n days, today included.
Since(n) == {r \in rows : Day(r) >= today - n + 1}

\* The cutoffs of the endpoints are one, counted in days and in weeks.
LEMMA SameCutoffs ==
    ASSUME NEW n
    PROVE  /\ DailyRows(n) = Since(n) /\ HourlyRows(n) = Since(n)
           /\ ModelRows(n) = Since(n) /\ WeeklyRows(n) = Since(7 * n)
  BY DEF Since, DailyRows, HourlyRows, ModelRows, WeeklyRows

\* A window is a finite set of rows.
LEMMA SinceType ==
    ASSUME IInv, NEW n
    PROVE  Since(n) \in SUBSET Row /\ IsFiniteSet(Since(n)) /\ Since(n) \subseteq rows
<1>1. Since(n) \subseteq rows
  BY DEF Since
<1> QED
  BY <1>1, FS_Subset DEF IInv, TypeOK

\* A parameter within its cap is taken as it is.
LEMMA ClampInRange ==
    ASSUME NEW n \in Nat \ {0}, NEW d, NEW cap \in Nat, n <= cap
    PROVE  Clamp(n, d, cap) = n
  BY DEF Clamp

\* Days, hours and weeks of a window within their caps add up to its cost.
LEMMA WindowSums ==
    ASSUME IInv, NEW n \in Nat \ {0}
    PROVE  /\ n <= 365 => /\ Daily(n) = Buckets(DayKey, Since(n))
                          /\ CostOf(Daily(n)) = Cost(Since(n))
           /\ n <= 90 => CostOf(Hourly(n)) = Cost(Since(n))
           /\ n <= 104 => CostOf(Weekly(n)) = Cost(Since(7 * n))
<1>1. ASSUME n <= 365
      PROVE  Daily(n) = Buckets(DayKey, Since(n)) /\ CostOf(Daily(n)) = Cost(Since(n))
  <2>1. Daily(n) = GroupBy(Day, Since(n))
    BY <1>1, ClampInRange, SameCutoffs DEF Daily
  <2> QED
    BY <2>1, SinceType, GroupsAreBuckets, BucketsAddUp
<1>2. ASSUME n <= 90
      PROVE  CostOf(Hourly(n)) = Cost(Since(n))
  <2>1. Hourly(n) = GroupBy(LAMBDA r : HourOf(r.end), Since(n))
    BY <1>2, ClampInRange, SameCutoffs DEF Hourly
  <2> QED
    BY <2>1, SinceType, GroupsAreBuckets, BucketsAddUp
<1>3. ASSUME n <= 104
      PROVE  CostOf(Weekly(n)) = Cost(Since(7 * n))
  <2>1. Weekly(n) = GroupBy(LAMBDA r : WeekKey(Day(r)), Since(7 * n))
    BY <1>3, ClampInRange, SameCutoffs DEF Weekly
  <2> QED
    BY <2>1, SinceType, GroupsAreBuckets, BucketsAddUp
<1> QED
  BY <1>1, <1>2, <1>3

\* The month of today begins in the last 31 days, and has some days left.
LEMMA MonthStartType ==
    ASSUME IInv
    PROVE  /\ today \in Int /\ MonthStart(today) \in Int
           /\ MonthStart(today) <= today /\ today - MonthStart(today) < 31
           /\ DaysRemaining(today) \in Int
<1>1. today \in Horizon /\ today \in Int
  BY StatisticsAssumption, CalendarAssumption DEF IInv, TypeOK, today
<1>2. PICK s \in MonthStarts : IsLatest(s, MonthStarts, today) /\ today - s < 31
  BY <1>1, CalendarAssumption
<1>3. IsLatest(MonthStart(today), MonthStarts, today)
  BY <1>2 DEF MonthStart
<1>4. MonthStart(today) = s /\ s \in Int /\ s <= today
  <2> DEFINE m == MonthStart(today)
  <2> HIDE DEF m
  <2>1. m \in MonthStarts /\ m <= s /\ s <= m /\ s <= today
    BY <1>2, <1>3 DEF IsLatest, m
  <2>2. m \in Int /\ s \in Int
    BY <2>1, CalendarAssumption
  <2>3. m = s
    BY <2>1, <2>2
  <2> QED
    BY <2>1, <2>2, <2>3 DEF m
<1>5. DaysRemaining(today) \in Int
  <2> DEFINE t == CHOOSE t \in MonthStarts : IsNext(t, MonthStarts, today)
  <2>1. t \in MonthStarts
    BY <1>1, CalendarAssumption
  <2>2. DaysRemaining(today) = t - today - 1
    BY DEF DaysRemaining
  <2> HIDE DEF t
  <2> QED
    BY <1>1, <2>1, <2>2, CalendarAssumption
<1> QED
  BY <1>1, <1>2, <1>4, <1>5

\* The month is the window of its days so far.
LEMMA MonthIsWindow ==
    ASSUME IInv
    PROVE  LET n == today - MonthStart(today) + 1
           IN n \in 1 .. 31 /\ ThisMonth = Since(n)
<1> DEFINE s == MonthStart(today)
           n == today - s + 1
<1>1. ThisMonth = {r \in rows : Day(r) >= s}
  BY DEF ThisMonth
<1>2. today - n + 1 = s /\ n \in 1 .. 31
  BY MonthStartType
<1> HIDE DEF s, n, today
<1>3. Since(n) = {r \in rows : Day(r) >= s}
  BY <1>2 DEF Since
<1> QED
  BY <1>1, <1>2, <1>3 DEF s, n

\* m with n more at z.
Plus(m, z, n) ==
    [y \in DOMAIN m \cup {z} |->
       (IF y \in DOMAIN m THEN m[y] ELSE 0) + IF y = z THEN n ELSE 0]

\* One row more adds its tokens under its key.
LEMMA KeyTokensAdd ==
    ASSUME NEW S \in SUBSET Row, IsFiniteSet(S), NEW x \in S, NEW k
    PROVE  KeyTokens(k, S) = Plus(KeyTokens(k, S \ {x}), k[x], x.body.tokens)
<1> DEFINE U == S \ {x}
           m == KeyTokens(k, U)
<1>1. Keys(k, S) = Keys(k, U) \cup {k[x]}
  BY DEF Keys
<1>2. DOMAIN m = Keys(k, U)
  BY DEF KeyTokens
<1>3. ASSUME NEW y
      PROVE  /\ Tokens(KeyGroup(k, U, y)) \in Nat
             /\ y \notin Keys(k, U) => Tokens(KeyGroup(k, U, y)) = 0
             /\ y = k[x] => Tokens(KeyGroup(k, S, y)) =
                              Tokens(KeyGroup(k, U, y)) + x.body.tokens
             /\ y # k[x] => KeyGroup(k, S, y) = KeyGroup(k, U, y)
  <2> DEFINE G == KeyGroup(k, S, y)
             H == KeyGroup(k, U, y)
  <2>1. H \in SUBSET S /\ x \notin H /\ G \in SUBSET S
    BY DEF KeyGroup
  <2>2. IsFiniteSet(H) /\ IsFiniteSet(G) /\ H \in SUBSET Row /\ G \in SUBSET Row
    BY <2>1, FS_Subset
  <2>3. y \notin Keys(k, U) => H = {}
    BY DEF KeyGroup, Keys
  <2>4. (y = k[x] => G = H \cup {x}) /\ (y # k[x] => G = H)
    BY DEF KeyGroup
  <2> HIDE DEF G, H
  <2>5. /\ Tokens(H) = SumFunctionOnSet(TokensIn, H) /\ Tokens(H) \in Nat
        /\ Tokens(G) = SumFunctionOnSet(TokensIn, G)
    BY <2>2, RowSums
  <2>6. SumFunctionOnSet(TokensIn, H \cup {x}) = TokensIn[x] + SumFunctionOnSet(TokensIn, H)
    <3>1. Summable(TokensIn, S) /\ x \in S \ H
      BY <2>1, RowSums
    <3> QED
      BY <2>1, <3>1, SumInserts
  <2>7. x.body.tokens \in Nat /\ TokensIn[x] = x.body.tokens
    BY RowTypes
  <2>8. H = {} => Tokens(H) = 0
    BY <2>5, SumOfNone
  <2>9. ASSUME y = k[x]
        PROVE  Tokens(G) = Tokens(H) + x.body.tokens
    <3>1. Tokens(G) = SumFunctionOnSet(TokensIn, H \cup {x})
      BY <2>4, <2>5, <2>9
    <3>2. Tokens(G) = x.body.tokens + Tokens(H)
      BY <2>5, <2>6, <2>7, <3>1
    <3> QED
      BY <2>5, <2>7, <3>2
  <2> QED
    BY <2>3, <2>4, <2>5, <2>8, <2>9 DEF G, H
<1>4. x.body.tokens \in Nat
  BY RowTypes
<1>5. ASSUME NEW y \in Keys(k, S)
      PROVE  Tokens(KeyGroup(k, S, y)) =
               (IF y \in DOMAIN m THEN m[y] ELSE 0)
               + IF y = k[x] THEN x.body.tokens ELSE 0
  <2> DEFINE old == IF y \in DOMAIN m THEN m[y] ELSE 0
  <2>1. old = Tokens(KeyGroup(k, U, y))
    BY <1>2, <1>3 DEF KeyTokens
  <2> HIDE DEF m, U, old
  <2>2. CASE y = k[x]
    <3>1. Tokens(KeyGroup(k, S, y)) = old + x.body.tokens
      BY <1>3, <2>1, <2>2 DEF U
    <3> QED
      BY <2>2, <3>1 DEF old
  <2>3. CASE y # k[x]
    <3>1. Tokens(KeyGroup(k, S, y)) = old /\ old \in Nat
      BY <1>3, <2>1, <2>3
    <3>2. Tokens(KeyGroup(k, S, y)) = old + 0
      BY <3>1
    <3> QED
      BY <2>3, <3>2 DEF old
  <2> QED
    BY <2>2, <2>3
<1> HIDE DEF m
<1>6. KeyTokens(k, S) = [y \in Keys(k, S) |-> Tokens(KeyGroup(k, S, y))]
  BY DEF KeyTokens
<1>7. KeyTokens(k, S) = Plus(m, k[x], x.body.tokens)
  BY <1>1, <1>2, <1>5, <1>6 DEF Plus
<1> QED
  BY <1>7 DEF m, U

\* What AggregateByModel adds up to.
Families(S) == [totals |-> KeyTokens(FamilyKey, S), daily |-> KeyTokens(DayFamilyKey, S)]

\* One turn of the loop adds a row to both groupings.
LEMMA AddRowAdds ==
    ASSUME NEW S \in SUBSET Row, IsFiniteSet(S), NEW x \in S
    PROVE  AddRow(x, Families(S \ {x})) = Families(S)
<1> DEFINE m == KeyTokens(FamilyKey, S \ {x})
           n == KeyTokens(DayFamilyKey, S \ {x})
           f == Family(x)
           d == <<Day(x), f>>
<1>1. FamilyKey[x] = f /\ DayFamilyKey[x] = d
  BY DEF FamilyKey, DayFamilyKey
<1>2. KeyTokens(FamilyKey, S) = Plus(m, f, x.body.tokens)
  BY <1>1, KeyTokensAdd
<1>3. KeyTokens(DayFamilyKey, S) = Plus(n, d, x.body.tokens)
  BY <1>1, KeyTokensAdd
<1>4. AddRow(x, [totals |-> m, daily |-> n]) =
        [totals |-> Plus(m, f, x.body.tokens), daily |-> Plus(n, d, x.body.tokens)]
  BY DEF AddRow, Plus
<1> QED
  BY <1>2, <1>3, <1>4 DEF Families

\* The fold that ByModel is made of, and what it returns.
IsFold(S, g) ==
    g = [s \in SUBSET S |-> IF s = {} THEN NoFamilies ELSE AddRow(Pick(s), g[Rest(s)])]

\* The loop of AggregateByModel makes both groupings of all rows.
LEMMA FoldIsFamilies ==
    ASSUME NEW S \in SUBSET Row, IsFiniteSet(S)
    PROVE  FoldSet(AddRow, NoFamilies, S) = Families(S)
<1> DEFINE w == [s \in SUBSET S |-> Families(s)]
           g == CHOOSE h : IsFold(S, h)
           B == {s \in SUBSET S : g[s] # Families(s)}
<1>1. FoldSet(AddRow, NoFamilies, S) = g[S]
  BY DEF FoldSet, MapThenFoldSet, IsFold, Pick, Rest
<1>2. \A s \in SUBSET S : IsFiniteSet(s) /\ s \in SUBSET Row
  BY FS_Subset
<1>3. \A s \in SUBSET S : s # {} =>
        /\ Pick(s) \in s /\ Rest(s) \in SUBSET S
        /\ Cardinality(s) \in Nat /\ Cardinality(Rest(s)) = Cardinality(s) - 1
        /\ Families(s) = AddRow(Pick(s), Families(Rest(s)))
  BY <1>2, RestIsSmaller, AddRowAdds DEF Rest
<1>4. Families({}) = NoFamilies
  <2>1. \A k : KeyTokens(k, {}) = <<>>
    <3> SUFFICES ASSUME NEW k PROVE KeyTokens(k, {}) = <<>>
      OBVIOUS
    <3>1. Keys(k, {}) = {}
      BY DEF Keys
    <3> QED
      BY <3>1 DEF KeyTokens
  <2> QED
    BY <2>1 DEF Families, NoFamilies
<1>5. IsFold(S, w)
  <2>1. \A s \in SUBSET S : w[s] = IF s = {} THEN NoFamilies
                                  ELSE AddRow(Pick(s), w[Rest(s)])
    BY <1>3, <1>4
  <2>2. w = [s \in SUBSET S |-> w[s]]
    OBVIOUS
  <2> HIDE DEF w
  <2> QED
    BY <2>1, <2>2 DEF IsFold
<1>6. IsFold(S, g)
  BY <1>5
<1> HIDE DEF g
<1>7. \A s \in SUBSET S : g[s] = IF s = {} THEN NoFamilies
                                ELSE AddRow(Pick(s), g[Rest(s)])
  BY <1>6 DEF IsFold
<1>8. B = {}
  <2> SUFFICES ASSUME B # {} PROVE FALSE
    OBVIOUS
  <2>1. PICK s \in B : \A u \in B : Cardinality(s) <= Cardinality(u)
    <3>1. \A s \in B : IsFiniteSet(s)
      BY <1>2
    <3> HIDE DEF B
    <3> QED
      BY <3>1, SmallestSet
  <2>2. s # {} /\ s \in SUBSET S
    BY <1>4, <1>7
  <2>3. Rest(s) \in (SUBSET S) \ B
    BY <1>3, <2>1, <2>2
  <2> QED
    BY <1>3, <1>7, <2>1, <2>2, <2>3
<1> QED
  BY <1>1, <1>8

\* The moments of a day.
LEMMA DayBounds ==
    ASSUME NEW m \in Int, NEW d \in Int, NEW p \in Nat \ {0}
    PROVE  m \div p = d <=> d * p <= m /\ m <= (d + 1) * p - 1
<1> DEFINE q == m \div p
<1>1. q \in Int /\ p * q <= m /\ m < p * q + p
  OBVIOUS
<1> HIDE DEF q
<1>2. (d + 1) * p = d * p + p /\ d * p \in Int /\ p * q = q * p /\ q * p \in Int
  BY <1>1
<1>3. q = d => d * p <= m /\ m <= (d + 1) * p - 1
  BY <1>1, <1>2
<1>4. ASSUME d * p <= m, m <= (d + 1) * p - 1
      PROVE  q = d
  <2>1. CASE q >= d + 1
    <3>1. p * q >= p * (d + 1)
      BY <1>1, <2>1
    <3>2. p * (d + 1) = (d + 1) * p
      OBVIOUS
    <3> QED
      BY <1>1, <1>2, <1>4, <3>1, <3>2
  <2>2. CASE q + 1 <= d
    <3>1. p * (q + 1) <= p * d
      BY <1>1, <2>2
    <3>2. p * (q + 1) = p * q + p /\ p * d = d * p
      BY <1>1
    <3> QED
      BY <1>1, <1>2, <1>4, <3>1, <3>2
  <2> QED
    BY <1>1, <2>1, <2>2
<1> QED
  BY <1>3, <1>4 DEF q

\* The list of a day's sessions, as long as its count, is that day's rows.
LEMMA DayIsListed ==
    ASSUME IInv, NEW W, W \subseteq rows, NEW d \in Int, NEW r0 \in W,
           \A r \in rows : r \in W <=> Day(r) = d, Cardinality(W) <= 10000
    PROVE  Listed(Cardinality(W), d * PerDay, (d + 1) * PerDay - 1) = W
<1> DEFINE n == Cardinality(W)
           newer(r) == {q \in W : q.end > r.end}
<1>1. IsFiniteSet(W) /\ \A r \in W : r.end \in Nat
  BY FS_Subset, RowTypes DEF IInv, TypeOK
<1>2. n \in Nat /\ n # 0
  BY <1>1, FS_CardinalityType, FS_EmptySet
<1>3. Clamp(n, 20, 10000) = n
  <2> HIDE DEF n
  <2> QED
    BY <1>2, ClampInRange DEF n
<1>4. {r \in rows : d * PerDay <= r.end /\ r.end <= (d + 1) * PerDay - 1} = W
  <2>1. ASSUME NEW r \in rows
        PROVE  r \in W <=> d * PerDay <= r.end /\ r.end <= (d + 1) * PerDay - 1
    <3>1. r.end \in Int /\ PerDay \in Nat \ {0} /\ r \in Row
      BY RowTypes, StatisticsAssumption DEF IInv, TypeOK
    <3>2. Day(r) = r.end \div PerDay
      BY DEF Day, DayOf
    <3> QED
      BY <3>1, <3>2, DayBounds
  <2> QED
    BY <2>1
<1>5. ASSUME NEW r \in W
      PROVE  Cardinality(newer(r)) < n
  <2>1. newer(r) \subseteq W \ {r}
    BY <1>1
  <2>2. IsFiniteSet(W \ {r}) /\ Cardinality(W \ {r}) = n - 1
    BY <1>1, FS_RemoveElement
  <2> HIDE DEF newer, n
  <2>3. Cardinality(newer(r)) \in Nat /\ Cardinality(newer(r)) <= Cardinality(W \ {r})
    BY <2>1, <2>2, FS_Subset, FS_CardinalityType
  <2> QED
    BY <1>2, <2>2, <2>3
<1>6. Listed(n, d * PerDay, (d + 1) * PerDay - 1) = {r \in W : Cardinality(newer(r)) < n}
  <2> DEFINE V == {r \in rows : d * PerDay <= r.end /\ r.end <= (d + 1) * PerDay - 1}
  <2>1. Listed(n, d * PerDay, (d + 1) * PerDay - 1)
          = {r \in V : Cardinality({q \in V : q.end > r.end}) < Clamp(n, 20, 10000)}
    BY DEF Listed
  <2>2. V = W
    BY <1>4
  <2> HIDE DEF V, n
  <2> QED
    BY <1>3, <2>1, <2>2
<1> HIDE DEF newer
<1>7. {r \in W : Cardinality(newer(r)) < n} = W
  BY <1>5
<1> QED
  BY <1>6, <1>7

OnDay(b, d) == [k \in {k \in DOMAIN b : k[1] = d} |-> b[k]]

\* The families of one day, among those of a window, are the day's own.
LEMMA FamiliesOfDay ==
    ASSUME NEW S \in SUBSET Row, NEW d, NEW b, b = KeyTokens(DayFamilyKey, S)
    PROVE  OnDay(b, d) = KeyTokens(DayFamilyKey, KeyGroup(DayKey, S, d))
<1> DEFINE G == KeyGroup(DayKey, S, d)
           D == {k \in DOMAIN b : k[1] = d}
<1>1. \A r \in S : DayFamilyKey[r] = <<DayKey[r], Family(r)>> /\ DayFamilyKey[r][1] = DayKey[r]
  BY DEF DayFamilyKey, DayKey
<1>2. DOMAIN b = Keys(DayFamilyKey, S)
  BY DEF KeyTokens
<1>3. D = Keys(DayFamilyKey, G)
  BY <1>1, <1>2 DEF Keys, KeyGroup
<1>4. ASSUME NEW k \in D
      PROVE  KeyGroup(DayFamilyKey, S, k) = KeyGroup(DayFamilyKey, G, k)
  BY <1>1, <1>4 DEF KeyGroup
<1>5. \A k \in D : b[k] = Tokens(KeyGroup(DayFamilyKey, G, k))
  BY <1>2, <1>4 DEF KeyTokens
<1> HIDE DEF D, G
<1>6. [k \in D |-> b[k]] = KeyTokens(DayFamilyKey, G)
  BY <1>3, <1>5 DEF KeyTokens
<1> QED
  BY <1>6 DEF D, G, OnDay

\* Every window that all endpoints show in full adds up alike, day by day too.
LEMMA WindowAgrees ==
    ASSUME IInv, NEW n \in 1 .. 90
    PROVE  WindowsAgree(n)
<1> DEFINE S == Since(n)
           daily == Daily(n)
           byModel == ByModel(n)
<1>1. S \in SUBSET Row /\ IsFiniteSet(S) /\ S \subseteq rows
  BY SinceType
<1>2. daily = Buckets(DayKey, S) /\ CostOf(daily) = CostOf(Hourly(n))
  BY WindowSums
<1>3. byModel = Families(S)
  <2>1. Clamp(n, 14, 365) = n
    BY ClampInRange
  <2> QED
    BY <1>1, <2>1, FoldIsFamilies, SameCutoffs DEF ByModel
<1>4. byModel.totals = KeyTokens(FamilyKey, S) /\ byModel.daily = KeyTokens(DayFamilyKey, S)
  BY <1>3 DEF Families
<1> HIDE DEF daily, byModel
<1>5. TokensOf(byModel.totals) = TokensOf(byModel.daily)
  BY <1>1, <1>4, BucketsAddUp
<1>6. ASSUME NEW d \in DOMAIN daily
      PROVE  /\ daily[d].tokens = TokensOf([k \in {k \in DOMAIN byModel.daily : k[1] = d}
                                              |-> byModel.daily[k]])
             /\ daily[d].count <= 10000 =>
                  Totals(Listed(daily[d].count, d * PerDay, (d + 1) * PerDay - 1)) = daily[d]
  <2> DEFINE G == KeyGroup(DayKey, S, d)
  <2>1. daily[d] = Totals(G) /\ d \in Keys(DayKey, S)
    BY <1>2 DEF Buckets
  <2>2. daily[d].tokens = Tokens(G) /\ daily[d].count = Cardinality(G)
    BY <2>1 DEF Totals
  <2>3. G \in SUBSET Row /\ IsFiniteSet(G) /\ G \subseteq S
    BY <1>1, KeysAreFinite
  <2>4. TokensOf(KeyTokens(DayFamilyKey, G)) = Tokens(G)
    BY <2>3, BucketsAddUp
  <2>5. daily[d].tokens = TokensOf([k \in {k \in DOMAIN byModel.daily : k[1] = d}
                                      |-> byModel.daily[k]])
    <3> DEFINE b == byModel.daily
    <3>1. b = KeyTokens(DayFamilyKey, S)
      BY <1>4
    <3> HIDE DEF b, S
    <3>2. OnDay(b, d) = KeyTokens(DayFamilyKey, KeyGroup(DayKey, S, d))
      BY <1>1, <3>1, FamiliesOfDay
    <3> QED
      BY <2>2, <2>4, <3>2 DEF b, S, OnDay
  <2>6. PICK r0 \in S : Day(r0) = d
    BY <1>1, <2>1 DEF Keys, DayKey
  <2>7. d \in Int /\ r0 \in G
    BY <1>1, <2>6, RowTypes DEF KeyGroup, DayKey
  <2>8. \A r \in rows : r \in G <=> Day(r) = d
    BY <1>1, <2>6 DEF KeyGroup, DayKey, Since, IInv, TypeOK
  <2>9. Cardinality(G) <= 10000 =>
          Listed(Cardinality(G), d * PerDay, (d + 1) * PerDay - 1) = G
    BY <1>1, <2>3, <2>7, <2>8, DayIsListed
  <2> QED
    BY <2>1, <2>2, <2>5, <2>9
<1> QED
  BY <1>2, <1>5, <1>6 DEF WindowsAgree, daily, byModel

\* As many projects as there are is all of them, if they can be shown.
LEMMA ProjectsAreAll ==
    ASSUME IInv, NEW N, N = Cardinality({r.body.project : r \in rows}), N <= 200
    PROVE  CostOf(Projects(N)) = Cost(rows)
<1> DEFINE all == GroupBy(LAMBDA r : r.body.project, rows)
           D == DOMAIN all
           C == Clamp(N, 20, 200)
           Top(P) == /\ Cardinality(P) = Min({C, Cardinality(D)})
                     /\ \A p \in P, q \in D \ P : all[p].cost >= all[q].cost
           top == CHOOSE P \in SUBSET D : Top(P)
<1>1. rows \in SUBSET Row /\ IsFiniteSet(rows)
  BY DEF IInv, TypeOK
<1>2. all = Buckets(ProjectKey, rows)
  BY <1>1, GroupsAreBuckets
<1>3. D = Keys(ProjectKey, rows) /\ all = [p \in D |-> all[p]]
  <2> HIDE DEF all
  <2> QED
    BY <1>2 DEF Buckets
<1>4. D = {r.body.project : r \in rows} /\ IsFiniteSet(D)
  <2> HIDE DEF D
  <2> QED
    BY <1>1, <1>3, KeysAreFinite DEF Keys, ProjectKey
<1>5. N = Cardinality(D) /\ N \in Nat
  BY <1>4, FS_CardinalityType
<1>6. Projects(N) = [p \in top |-> all[p]]
  BY DEF Projects
<1> HIDE DEF all, D, C
<1>7. C \in Nat /\ N <= C
  BY <1>5 DEF C, Clamp
<1>8. Min({C, Cardinality(D)}) = N
  BY <1>5, <1>7 DEF Min
<1>9. Top(D)
  BY <1>5, <1>8
<1>10. top \in SUBSET D /\ Top(top)
  <2> HIDE DEF Top
  <2> QED
    BY <1>9
<1>11. top = D
  <2>1. Cardinality(top) = Cardinality(D)
    BY <1>5, <1>8, <1>10
  <2> HIDE DEF top
  <2> QED
    BY <1>4, <1>10, <2>1, FS_Subset
<1>12. Projects(N) = all
  BY <1>3, <1>6, <1>11
<1> QED
  BY <1>1, <1>2, <1>12, BucketsAddUp

\* A week by weeks and by days, for as many weeks as a year of days holds.
LEMMA WeekAgrees ==
    ASSUME IInv, NEW n \in 1 .. 52
    PROVE  WeeksAgree(n)
<1>1. 7 * n \in Nat \ {0} /\ 7 * n <= 365 /\ n <= 104
  OBVIOUS
<1> QED
  BY <1>1, WindowSums DEF WeeksAgree

\* The agreement of the endpoints follows from the invariant.
LEMMA EndpointsAgree == IInv => QueriesAgree
<1> SUFFICES ASSUME IInv PROVE QueriesAgree
  OBVIOUS
<1> DEFINE n == today - MonthStart(today) + 1
<1>1. n \in 1 .. 31 /\ ThisMonth = Since(n)
  BY MonthIsWindow
<1>2. MonthSummary.totals.cost = Cost(ThisMonth) /\ Forecast.toDate = Cost(ThisMonth)
  BY DEF MonthSummary, Forecast, Totals
<1> HIDE DEF n
<1>3. CostOf(Daily(n)) = Cost(Since(n))
  BY <1>1, WindowSums
<1>4. WindowsAgree(1) /\ WindowsAgree(2) /\ WeeksAgree(1)
  BY WindowAgrees, WeekAgrees
<1>5. Cardinality({r.body.project : r \in rows}) <= 200 =>
        CostOf(Projects(Cardinality({r.body.project : r \in rows}))) = Cost(rows)
  BY ProjectsAreAll
<1> QED
  BY <1>1, <1>2, <1>3, <1>4, <1>5 DEF QueriesAgree, n

\* The endpoints agree: the month's summary, forecast and days; the days, hours,
\* families and weeks of a window; a day's list and its count; the projects and
\* everything.
THEOREM EndpointsAddUp == Spec => []QueriesAgree
<1>1. Spec => []IInv
  BY InitInv, StepInv, PTL DEF Spec
<1> QED
  BY <1>1, EndpointsAgree, PTL

\* Not only for the windows of the run: up to the hourly endpoint's cap of 90
\* days, and up to 52 weeks.
THEOREM WindowsAddUp ==
    Spec => [](/\ \A n \in 1 .. 90 : WindowsAgree(n)
               /\ \A n \in 1 .. 52 : WeeksAgree(n))
<1>1. Spec => []IInv
  BY InitInv, StepInv, PTL DEF Spec
<1>2. IInv => /\ \A n \in 1 .. 90 : WindowsAgree(n)
              /\ \A n \in 1 .. 52 : WeeksAgree(n)
  BY WindowAgrees, WeekAgrees
<1> QED
  BY <1>1, <1>2, PTL

-----------------------------------------------------------------------------
(* The forecast.                                                            *)

\* Rows of days that cost the same each.
LEMMA EvenDays ==
    ASSUME NEW S \in SUBSET Row, IsFiniteSet(S), NEW c \in Int,
           \A d \in Keys(DayKey, S) : Cost(KeyGroup(DayKey, S, d)) = c
    PROVE  Cost(S) = c * Cardinality(Keys(DayKey, S))
<1> DEFINE K == Keys(DayKey, S)
           g == [d \in K |-> Cost(KeyGroup(DayKey, S, d))]
<1>1. IsFiniteSet(K)
  BY KeysAreFinite
<1>2. \A d \in K : g[d] = SumFunctionOnSet(CostsOf, KeyGroup(DayKey, S, d)) /\ g[d] = c
  <2>1. \A d \in K : KeyGroup(DayKey, S, d) \in SUBSET Row /\ IsFiniteSet(KeyGroup(DayKey, S, d))
    BY KeysAreFinite
  <2> QED
    BY <2>1, RowSums
<1>3. Summable(CostsOf, S) /\ Cost(S) = SumFunctionOnSet(CostsOf, S)
  BY RowSums
<1> HIDE DEF K, g
<1>4. Keys(DayKey, S) \subseteq K
  BY DEF K
<1>5. SumFunctionOnSet(g, K) = SumFunctionOnSet(CostsOf, S)
  BY <1>1, <1>2, <1>3, <1>4, SumOfGroups
<1>6. SumFunctionOnSet(g, K) = c * Cardinality(K)
  BY <1>1, <1>2, SumOfConstants
<1> QED
  BY <1>3, <1>5, <1>6 DEF K

RowsFrom(d) == {r \in rows : Day(r) >= d}
RowsOn(d) == {r \in rows : Day(r) = d}
DaysWithRows == {Day(r) : r \in rows}

\* Every day of the month so far has rows, which cost c.
EvenMonth(c) ==
    \A d \in MonthStart(today) .. today : d \in DaysWithRows /\ Cost(RowsOn(d)) = c

\* The rows from some day of an even month on.
LEMMA EvenSince ==
    ASSUME IInv, NEW c \in Int, EvenMonth(c),
           NEW first \in Int, MonthStart(today) <= first
    PROVE  LET S == RowsFrom(first)
           IN Cost(S) = c * Cardinality(DaysOf(S)) /\ DaysOf(S) = first .. today
<1> DEFINE S == RowsFrom(first)
           month == MonthStart(today) .. today
<1>1. /\ S \in SUBSET Row /\ IsFiniteSet(S) /\ rows \in SUBSET Row
      /\ S = {r \in rows : Day(r) >= first}
  BY FS_Subset DEF RowsFrom, IInv, TypeOK
<1>2. today \in Int /\ \A r \in rows : Day(r) \in Int /\ Day(r) <= today
  <2>1. \A r \in rows : r.end \in Int /\ now \in Int /\ r.end <= now /\ PerDay \in Nat \ {0}
    BY <1>1, RowTypes, StatisticsAssumption DEF IInv, TypeOK, Moments
  <2>2. now \in Int /\ PerDay \in Nat \ {0}
    BY StatisticsAssumption DEF IInv, TypeOK, Moments
  <2> QED
    BY <2>1, <2>2, DayMonotone DEF Day, today, DayOf
<1>3. MonthStart(today) \in Int
  BY MonthStartType
<1> HIDE DEF today, S
<1>4. DaysOf(S) = first .. today
  <2>1. ASSUME NEW d \in first .. today
        PROVE  \E r \in S : Day(r) = d
    <3>1. d \in month /\ d >= first
      BY <1>2, <1>3
    <3>2. d \in DaysWithRows
      BY <3>1 DEF EvenMonth
    <3> QED
      BY <1>1, <3>1, <3>2 DEF DaysWithRows
  <2> QED
    BY <1>1, <1>2, <2>1 DEF DaysOf
<1>5. Keys(DayKey, S) = DaysOf(S)
  BY <1>1 DEF Keys, DayKey, DaysOf
<1>6. ASSUME NEW d \in Keys(DayKey, S)
      PROVE  Cost(KeyGroup(DayKey, S, d)) = c
  <2>1. d \in first .. today
    BY <1>4, <1>5
  <2>2. d \in month /\ d >= first
    BY <1>2, <1>3, <2>1
  <2>3. KeyGroup(DayKey, S, d) = RowsOn(d)
    BY <1>1, <1>2, <2>2 DEF KeyGroup, DayKey, RowsOn
  <2> QED
    BY <2>2, <2>3 DEF EvenMonth
<1> QED
  BY <1>1, <1>4, <1>5, <1>6, EvenDays DEF S

\* An even month is forecast as its daily cost times its days.
LEMMA ForecastIsSteady == IInv => SteadyForecast
<1> DEFINE first == MonthStart(today)
           month == first .. today
           c == Cost(RowsOn(today))
           start == IF first >= today - ForecastDays + 1 THEN first
                    ELSE today - ForecastDays + 1
           days == DaysOf(ForecastRows)
           left == DaysRemaining(today)
<1> SUFFICES ASSUME IInv, EvenMonth(c)
             PROVE  Forecast.projected = Forecast.days * c * DaysIn(today)
  BY DEF SteadyForecast, EvenMonth, DaysWithRows, RowsOn
<1>1. today \in Int /\ first \in Int /\ first <= today /\ left \in Int
  BY MonthStartType
<1>2. c \in Int
  <2>1. RowsOn(today) \in SUBSET Row /\ IsFiniteSet(RowsOn(today))
    BY FS_Subset DEF RowsOn, IInv, TypeOK
  <2> QED
    BY <2>1, RowSums
<1>3. Cost(ThisMonth) = c * Cardinality(month)
  <2>1. ThisMonth = RowsFrom(first)
    BY DEF ThisMonth, RowsFrom
  <2> HIDE DEF c
  <2>2. Cost(RowsFrom(first)) = c * Cardinality(first .. today)
    <3> HIDE DEF first
    <3>1. Cost(RowsFrom(first)) = c * Cardinality(DaysOf(RowsFrom(first)))
      BY <1>1, <1>2, EvenSince DEF first
    <3>2. DaysOf(RowsFrom(first)) = first .. today
      BY <1>1, <1>2, EvenSince DEF first
    <3> QED
      BY <3>1, <3>2
  <2> QED
    BY <2>1, <2>2
<1>4. Cardinality(month) = today - first + 1
  BY <1>1, FS_Interval
<1>5. start \in Int /\ first <= start /\ start <= today
  BY <1>1, StatisticsAssumption
<1>6. Cost(ForecastRows) = c * Cardinality(days) /\ days = start .. today
  <2>1. ForecastRows = RowsFrom(start)
    <3>1. \A r \in rows : Day(r) \in Int
      BY RowTypes DEF IInv, TypeOK
    <3> QED
      BY <1>1, <3>1, StatisticsAssumption DEF ForecastRows, RowsFrom
  <2> HIDE DEF start, c
  <2> QED
    BY <1>1, <1>2, <1>5, <2>1, EvenSince
<1>7. days # {} /\ Cardinality(days) \in Nat
  <2> HIDE DEF start, days, today
  <2>1. today \in days
    BY <1>1, <1>5, <1>6
  <2>2. IsFiniteSet(days)
    BY <1>1, <1>5, <1>6, FS_Interval
  <2> QED
    BY <2>1, <2>2, FS_CardinalityType
<1>8. /\ Forecast.days = Cardinality(days)
      /\ Forecast.projected = Cardinality(days) * Cost(ThisMonth) + Cost(ForecastRows) * left
  BY <1>7 DEF Forecast, DaysOf
<1>9. DaysIn(today) = left + today - first + 1
  BY DEF DaysIn
<1> HIDE DEF first, month, c, start, days, left
<1> DEFINE n == Cardinality(days)
           m == today - first + 1
<1>10. /\ Forecast.days = n /\ Forecast.projected = n * (c * m) + (c * n) * left
       /\ DaysIn(today) = left + m
  BY <1>1, <1>3, <1>4, <1>6, <1>8, <1>9
<1>11. n \in Int /\ m \in Int
  BY <1>1, <1>7
<1> HIDE DEF n, m, today
<1>12. n * (c * m) + (c * n) * left = n * c * (left + m)
  BY <1>1, <1>2, <1>11
<1> QED
  BY <1>10, <1>12

\* An even month's forecast is its daily cost times its days.
THEOREM ForecastSteady == Spec => []SteadyForecast
<1>1. Spec => []IInv
  BY InitInv, StepInv, PTL DEF Spec
<1> QED
  BY <1>1, ForecastIsSteady, PTL

-----------------------------------------------------------------------------
(* Medians.                                                                 *)

Below(f, x) == {i \in DOMAIN f : f[i] < x}
UpTo(f, x) == {i \in DOMAIN f : f[i] <= x}
Above(f, x) == {i \in DOMAIN f : f[i] > x}
From(f, x) == {i \in DOMAIN f : f[i] >= x}

\* x is at the k-th place when f is sorted.
IsKth(k, f, x) ==
    /\ x \in {f[i] : i \in DOMAIN f}
    /\ Cardinality(Below(f, x)) < k
    /\ k <= Cardinality(UpTo(f, x))

\* How many values are below, up to, above and from a value.
LEMMA Counts ==
    ASSUME NEW S, IsFiniteSet(S), NEW f, DOMAIN f = S, \A i \in S : f[i] \in Int, NEW x \in Int
    PROVE  /\ IsFiniteSet(Below(f, x)) /\ IsFiniteSet(UpTo(f, x))
           /\ Cardinality(Below(f, x)) \in Nat /\ Cardinality(UpTo(f, x)) \in Nat
           /\ Cardinality(S) \in Nat
           /\ Cardinality(Above(f, x)) = Cardinality(S) - Cardinality(UpTo(f, x))
           /\ Cardinality(From(f, x)) = Cardinality(S) - Cardinality(Below(f, x))
<1>1. Below(f, x) \subseteq S /\ UpTo(f, x) \subseteq S
  BY DEF Below, UpTo
<1>2. Above(f, x) = S \ UpTo(f, x) /\ From(f, x) = S \ Below(f, x)
  BY DEF Below, UpTo, Above, From
<1>3. S \cap UpTo(f, x) = UpTo(f, x) /\ S \cap Below(f, x) = Below(f, x)
  BY <1>1
<1>4. IsFiniteSet(Below(f, x)) /\ IsFiniteSet(UpTo(f, x))
  BY <1>1, FS_Subset
<1>5. \A T : Cardinality(S \ T) = Cardinality(S) - Cardinality(S \cap T)
  BY FS_Difference
<1> QED
  BY <1>2, <1>3, <1>4, <1>5, FS_CardinalityType

\* A smaller value has at most as many up to it as a larger one has below it.
LEMMA UpToIsBelow ==
    ASSUME NEW S, IsFiniteSet(S), NEW f, DOMAIN f = S, \A i \in S : f[i] \in Int,
           NEW x \in Int, NEW y \in Int, x < y
    PROVE  Cardinality(UpTo(f, x)) <= Cardinality(Below(f, y))
<1>1. UpTo(f, x) \subseteq Below(f, y)
  BY DEF UpTo, Below
<1> QED
  BY <1>1, Counts, FS_Subset

\* There is one value at each place of a sorted list.
LEMMA KthIsUnique ==
    ASSUME NEW S, IsFiniteSet(S), NEW f, DOMAIN f = S, \A i \in S : f[i] \in Int,
           NEW k \in Int, NEW x \in Int, NEW y \in Int, IsKth(k, f, x), IsKth(k, f, y)
    PROVE  x = y
<1>1. /\ Cardinality(Below(f, x)) \in Nat /\ Cardinality(UpTo(f, x)) \in Nat
      /\ Cardinality(Below(f, y)) \in Nat /\ Cardinality(UpTo(f, y)) \in Nat
  BY Counts
<1>2. ~(x < y)
  BY <1>1, UpToIsBelow DEF IsKth
<1>3. ~(y < x)
  BY <1>1, UpToIsBelow DEF IsKth
<1> QED
  BY <1>2, <1>3

\* The least number that k values are up to is a value, and at the k-th place.
LEMMA KthExists ==
    ASSUME NEW S, IsFiniteSet(S), NEW top \in Nat, NEW f \in [S -> 0 .. top],
           NEW k \in 1 .. Cardinality(S)
    PROVE  Kth(k, f) \in 0 .. top /\ IsKth(k, f, Kth(k, f))
<1> DEFINE N == {n \in Nat : k <= Cardinality(UpTo(f, n))}
<1>1. DOMAIN f = S /\ \A i \in S : f[i] \in Nat /\ f[i] \in Int /\ f[i] <= top
  OBVIOUS
<1>2. N # {}
  <2>1. UpTo(f, top) = S
    BY <1>1 DEF UpTo
  <2> QED
    BY <2>1
<1>3. PICK n \in N : \A u \in N : n <= u
  <2> HIDE DEF N
  <2>1. N \in SUBSET Nat
    BY DEF N
  <2> QED
    BY <1>2, <2>1, LeastNatural
<1>4. /\ IsFiniteSet(Below(f, n)) /\ IsFiniteSet(UpTo(f, n))
      /\ Cardinality(Below(f, n)) \in Nat /\ Cardinality(UpTo(f, n)) \in Nat
      /\ k <= Cardinality(UpTo(f, n))
  <2>1. n \in Int /\ k <= Cardinality(UpTo(f, n))
    OBVIOUS
  <2> HIDE DEF N
  <2> QED
    BY <1>1, <2>1, Counts
<1>5. Cardinality(Below(f, n)) < k
  <2>1. CASE n = 0
    <3>1. Below(f, n) = {}
      BY <1>1, <2>1 DEF Below
    <3> QED
      BY <3>1, FS_EmptySet
  <2>2. CASE n # 0
    <3>1. n - 1 \in Nat /\ n - 1 \notin N
      BY <1>3, <2>2
    <3>2. Below(f, n) = UpTo(f, n - 1)
      BY <1>1, <3>1 DEF Below, UpTo
    <3> QED
      BY <1>4, <3>1, <3>2
  <2> QED
    BY <2>1, <2>2
<1>6. \E i \in S : f[i] = n
  <2>1. Below(f, n) # UpTo(f, n)
    BY <1>4, <1>5
  <2> QED
    BY <1>1, <2>1 DEF Below, UpTo
<1>7. n \in {f[i] : i \in DOMAIN f} /\ IsKth(k, f, n)
  BY <1>1, <1>4, <1>5, <1>6 DEF IsKth
<1> HIDE DEF N
<1>8. /\ Kth(k, f) \in {f[i] : i \in DOMAIN f}
      /\ Cardinality(Below(f, Kth(k, f))) < k
      /\ k <= Cardinality(UpTo(f, Kth(k, f)))
  BY <1>7 DEF Kth, IsKth, Below, UpTo
<1> QED
  BY <1>8 DEF IsKth

\* Counted from the other end, on mirrored values, it is the mirrored value.
LEMMA KthMirrored ==
    ASSUME NEW S, IsFiniteSet(S), NEW top \in Nat, NEW f \in [S -> 0 .. top],
           NEW g, g = [i \in S |-> top - f[i]], NEW k \in 1 .. Cardinality(S)
    PROVE  Kth(k, g) = top - Kth(Cardinality(S) + 1 - k, f)
<1> DEFINE n == Cardinality(S)
           x == Kth(n + 1 - k, f)
           y == top - x
<1>1. n \in Nat
  BY FS_CardinalityType
<1>2. n + 1 - k \in 1 .. n
  BY <1>1
<1>3. x \in 0 .. top /\ IsKth(n + 1 - k, f, x)
  BY <1>2, KthExists
<1>4. g \in [S -> 0 .. top]
  OBVIOUS
<1>5. Kth(k, g) \in Int /\ IsKth(k, g, Kth(k, g))
  BY <1>4, KthExists
<1>6. IsKth(k, g, y)
  <2> HIDE DEF x, n
  <2>1. /\ Cardinality(Above(f, x)) = n - Cardinality(UpTo(f, x))
        /\ Cardinality(From(f, x)) = n - Cardinality(Below(f, x))
        /\ Cardinality(UpTo(f, x)) \in Nat /\ Cardinality(Below(f, x)) \in Nat
    <3>1. x \in Int /\ DOMAIN f = S /\ \A i \in S : f[i] \in Int
      BY <1>3
    <3> QED
      BY <3>1, Counts DEF n
  <2>2. Below(g, y) = Above(f, x) /\ UpTo(g, y) = From(f, x)
    BY <1>3 DEF Below, UpTo, Above, From
  <2>3. Cardinality(Below(f, x)) < n + 1 - k /\ n + 1 - k <= Cardinality(UpTo(f, x))
    BY <1>3 DEF IsKth
  <2>4. Cardinality(Below(g, y)) < k /\ k <= Cardinality(UpTo(g, y))
    BY <1>1, <2>1, <2>2, <2>3
  <2>5. y \in {g[i] : i \in DOMAIN g}
    BY <1>3 DEF IsKth
  <2> QED
    BY <2>4, <2>5 DEF IsKth
<1> HIDE DEF x, n
<1>7. y \in Int
  BY <1>3
<1>8. DOMAIN g = S /\ \A i \in S : g[i] \in Int
  BY <1>4
<1> HIDE DEF y
<1>9. Kth(k, g) = y
  BY <1>5, <1>6, <1>7, <1>8, KthIsUnique
<1> QED
  BY <1>9 DEF x, y, n

\* The median halves the values and mirrors with them.
LEMMA MedianHalves ==
    ASSUME NEW S, IsFiniteSet(S), S # {}, NEW top \in Nat, NEW f \in [S -> 0 .. top]
    PROVE  LET m == Median2(f)
           IN /\ 2 * Cardinality({i \in S : 2 * f[i] < m}) <= Cardinality(S)
              /\ 2 * Cardinality({i \in S : 2 * f[i] > m}) <= Cardinality(S)
              /\ Median2([i \in S |-> top - f[i]]) = 2 * top - m
<1> DEFINE n == Cardinality(S)
           p == (n + 1) \div 2
           q == n \div 2 + 1
           a == Kth(p, f)
           b == Kth(q, f)
           g == [i \in S |-> top - f[i]]
<1>1. n \in Nat /\ n # 0
  BY FS_CardinalityType, FS_EmptySet
<1> HIDE DEF n
<1>2. /\ p \in 1 .. n /\ q \in 1 .. n /\ p + q = n + 1 /\ p <= q
      /\ 2 * p >= n /\ 2 * (q - 1) <= n
  BY <1>1
<1>3. Median2(f) = a + b /\ Median2(g) = Kth(p, g) + Kth(q, g)
  BY DEF Median2, Middle, n
<1> HIDE DEF p, q
<1>4. a \in 0 .. top /\ b \in 0 .. top /\ IsKth(p, f, a) /\ IsKth(q, f, b)
  BY <1>2, KthExists DEF n
<1>5. Kth(p, g) = top - b /\ Kth(q, g) = top - a
  <2>1. n + 1 - p = q /\ n + 1 - q = p
    BY <1>1, <1>2
  <2> HIDE DEF g
  <2>2. g = [i \in S |-> top - f[i]]
    BY DEF g
  <2>3. Kth(p, g) = top - Kth(n + 1 - p, f) /\ Kth(q, g) = top - Kth(n + 1 - q, f)
    BY <1>2, <2>2, KthMirrored DEF n
  <2> QED
    BY <2>1, <2>3
<1> HIDE DEF a, b, g
<1>6. DOMAIN f = S /\ \A i \in S : f[i] \in Int
  OBVIOUS
<1>7. /\ Cardinality(Below(f, b)) \in Nat /\ IsFiniteSet(Below(f, b))
      /\ Cardinality(Below(f, a)) \in Nat /\ Cardinality(UpTo(f, b)) \in Nat
      /\ Cardinality(UpTo(f, a)) \in Nat
      /\ Cardinality(Above(f, a)) = n - Cardinality(UpTo(f, a))
  BY <1>4, <1>6, Counts DEF n
<1>8. a <= b
  <2>1. b < a => Cardinality(UpTo(f, b)) <= Cardinality(Below(f, a))
    BY <1>4, <1>6, UpToIsBelow
  <2> QED
    BY <1>2, <1>4, <1>7, <2>1 DEF IsKth
<1>9. 2 * Cardinality({i \in S : 2 * f[i] < a + b}) <= n
  <2> DEFINE L == {i \in S : 2 * f[i] < a + b}
  <2>1. L \subseteq Below(f, b)
    BY <1>4, <1>6, <1>8 DEF Below
  <2> HIDE DEF L
  <2>2. Cardinality(L) <= Cardinality(Below(f, b)) /\ Cardinality(L) \in Nat
    BY <1>7, <2>1, FS_Subset, FS_CardinalityType
  <2>3. Cardinality(Below(f, b)) < q
    BY <1>4 DEF IsKth
  <2> QED
    BY <1>1, <1>2, <1>7, <2>2, <2>3 DEF L
<1>10. 2 * Cardinality({i \in S : 2 * f[i] > a + b}) <= n
  <2> DEFINE L == {i \in S : 2 * f[i] > a + b}
             H == Above(f, a)
  <2>1. L \subseteq H /\ H \subseteq S
    BY <1>4, <1>6, <1>8 DEF Above
  <2>2. Cardinality(H) = n - Cardinality(UpTo(f, a))
    BY <1>7
  <2> HIDE DEF L, H
  <2>3. Cardinality(L) <= Cardinality(H) /\ Cardinality(L) \in Nat
    BY <2>1, FS_Subset, FS_CardinalityType
  <2>4. p <= Cardinality(UpTo(f, a))
    BY <1>4 DEF IsKth
  <2> QED
    BY <1>1, <1>2, <1>7, <2>2, <2>3, <2>4 DEF L
<1>11. Median2(g) = 2 * top - (a + b)
  BY <1>3, <1>4, <1>5
<1> QED
  BY <1>3, <1>9, <1>10, <1>11 DEF n, g

\* A baseline is the median of the costs before it, whatever the costs are.
THEOREM MediansAreMiddle == Spec => []BaselineIsMedian
<1>1. IInv => BaselineIsMedian
  <2> SUFFICES ASSUME IInv, NEW S \in SUBSET rows, S # {},
                      NEW cost, cost = [r \in S |-> r.body.cost],
                      NEW m, m = Median2(cost)
               PROVE  /\ 2 * Cardinality({r \in S : 2 * cost[r] < m}) <= Cardinality(S)
                      /\ 2 * Cardinality({r \in S : 2 * cost[r] > m}) <= Cardinality(S)
                      /\ Median2([r \in S |-> Cost(S) - cost[r]]) = 2 * Cost(S) - m
    BY DEF BaselineIsMedian
  <2>1. S \in SUBSET Row /\ IsFiniteSet(S)
    BY FS_Subset DEF IInv, TypeOK
  <2>2. Cost(S) \in Nat /\ \A r \in S : r.body.cost \in 0 .. Cost(S)
    BY <2>1, RowSums, RowTypes
  <2>3. cost \in [S -> 0 .. Cost(S)]
    BY <2>2
  <2> QED
    BY <2>1, <2>2, <2>3, MedianHalves
<1>2. Spec => []IInv
  BY InitInv, StepInv, PTL DEF Spec
<1> QED
  BY <1>1, <1>2, PTL
=============================================================================
