# Specifications of session-lens

session-lens records what Claude Code sessions cost. A hook process runs at the
end of every answer of Claude, adds up the session's transcript and posts the
sums to a local server; the server keeps one row per session in SQLite, answers
the dashboard's queries and tells open dashboards when a row changed; a scanner
fills in sessions whose hook never got through. This directory specifies the
parts of it that are concurrent, that fail, or that compute one thing in two
ways, checks them with TLC and proves their invariants with TLAPS.

All paths below are relative to the root of the repository, which is `src/` in
`PROJECT.json`.

## 1. Inventory

| Part | Source | State it keeps | Operations |
|---|---|---|---|
| Stop hook | `cmd/sessionlens-hook/main.go` | buffer directory shared by all hook processes: `*.json`, `*.json.processing-<pid>`, `*.tmp`; per process: the parsed event, the file being drained, retry count | reclaim, claim, post, remove, put back, parse, post with retries, evict, write and rename |
| Ingest endpoint | `internal/server/server.go` | metrics counters | decode, upsert, answer, broadcast, look for a cost spike |
| Rate limiter | `internal/server/ratelimit.go` | map from IP to token bucket, under a mutex | `Allow` (lazy refill), prune |
| Store | `internal/db/db.go` | table `sessions` | `UpsertSession` (COUNT, upsert, read back), `GetSession`, `ListSessions` |
| SSE hub and stream | `internal/server/hub.go`, `handleSSE` in `server.go` | set of subscribers' channels (8 slots each), under a mutex | Subscribe, Unsubscribe, Broadcast; the handler's select loop |
| Scanner | `cmd/sessionlens-scan/main.go` | set of known ids, counters | glob, load known ids, parse, upsert |
| Transcript parser | `internal/transcript` | sums of a Summary; turns of a Breakdown | `Parse`, `ParseBreakdown`, pricing |
| Statistics | `internal/stats` | none, it queries the store | daily, weekly and hourly buckets, by model, spikes, forecast |
| Mock dataset | `internal/mock` | a fixed list of rows | the statistics once more, over that list |
| Dashboard | `web/index.html` | what is on screen, mock mode in localStorage, an EventSource | load all, open a stream, refresh on `session`, toggle mock mode |
| Server process | `cmd/sessionlens-server/main.go` | none | start, deadlines of 30 s, shutdown within 5 s |
| Spike alerter | `internal/alerter` | none | run one external notification program |

How they interact:

* Hook to server: `POST /v1/sessions` with a timeout of 1.5 s for each request, up to
  4 attempts. Any
  number of hooks run at once: one per session that finishes an answer. They
  share the buffer directory without any lock; a rename is their only
  synchronisation.
* Server to store and scanner to store: two processes write one SQLite file.
  The three statements of an upsert are not in a transaction, and connections
  have no busy timeout.
* Server to dashboards: `Broadcast` does a non-blocking send on every
  subscriber's channel; a dashboard reacts by loading everything again.
* Limiter: `Allow` runs before the body of a post is read.
* Parser: the hook and the scanner store what `Parse` returns; the server
  shows what `ParseBreakdown` returns for the same file.

### What is hard, and what makes each part correct

**Hook.** Processes interleave between any two system calls: a starting hook
takes back the claims of a live one, two hooks drain one file, evict each
other's files and overshoot the cap; a crash leaves claims and `.tmp` files;
a post that timed out may be committed later. Correct means: an event that was
parsed is committed, or still in the buffer, or was knowingly given up; half a
file is never read; a claim is released; the hook ends whatever happens; and
when the server is back, the buffer drains.

**Rate limiter.** Refill is lazy and idle buckets are forgotten. Correct means
that neither can be noticed: the answers are those of buckets that exist for
ever, and the map keeps only active IPs.

**Ingest and scanner.** Requests and the scanner interleave between statements;
a read back can fail after the commit. Correct means: a 2xx is only given for a
committed event and shows no older row, the client that creates a row is not
told that it updated one, a scan closes the gap and does not overwrite its own work.

**Live tail.** Channels are bounded, closed while broadcasts run, and streams end
by themselves. Correct means: no send on a closed channel, a post never waits
for a reader, a dropped event is not a missed change, handlers end.

**Transcript.** Two decoders accept different lines. Correct means: the page's
turns add up to the row, and a longer transcript never reports less.

**Statistics.** Every endpoint computes its own cutoff, key and sum, so two cards
of one page can count different rows; baselines are medians of windows that
shift with every late row, thresholds bite at equality, weeks are SQLite's `%W`
with a replica in Go, and the spike alert reads an average some time after its
session was stored. Correct means: the endpoints agree where they speak of the
same rows, buckets are weeks, a median is a median, a new session does not take
an earlier spike back, the forecast of a steady month is that month, and a
session is not measured against itself.

**Dashboard.** Un-awaited loads overlap; mock mode is a flag in the server's
memory, a choice in localStorage, a check box and a banner. Correct means: what a
card shows once its newest load was drawn is current, and the banner tells what
is shown, as far as the design can promise it.

`PROJECT.json` lists every such hazard at its line with the properties about it.

## 2. Modules

```
Custody                 what the hooks promise about an event     (abstract)
HookDelivery            processes, buffer, retries, faults        implements Custody
  MCHookDelivery        constants for TLC
  HookDelivery_proofs   types, safety invariants, HookDelivery implements Custody
TokenBucket             an ideal rate limiter                     (abstract)
RateLimiter             lazy, pruned                              implements TokenBucket
  RateLimiter_proofs
Ingest                  POST /v1/sessions, UpsertSession, scanner
  MCIngest, Ingest_proofs
LiveTail                hub, streams, dashboards' connections
  LiveTail_proofs
Transcript              Parse beside ParseBreakdown
  MCTranscript, Transcript_proofs
Calendar                days, weeks, months; strftime and its replica
Statistics              every query, the alert, the rows and the clock
  MCStatistics, Statistics_proofs
Dashboard               a page's loads, its stream, mock mode
  Dashboard_proofs
FiniteSums              lemmas on sums over finite sets, used by
                        Transcript_proofs and Statistics_proofs
```

Each component's module declares its constants with a named assumption; its
`Mut...` definitions are plausible faults of the code, used only to see that a
property notices them.

### HookDelivery

An event is the number of the parse that produced it, so of two events of one
session the greater has the larger totals. `dir[e]` is the place of the event's
file (none, `.tmp`, `.json`, or claimed by a slot) and `stamp[e]` its name's
time, the sort key of a glob. `pc[h]` is the next system call of process `h`;
`cur`, `stale`, `todo`, `victims`, `tries` and `ev` are its local variables.
`store`, `inflight` and `delivered` are the server as hooks experience it.

| Action | Code |
|---|---|
| `Start`, `Reclaim` | `drainBuffer`: glob of `.processing-*`, renames back |
| `GlobBuffer`, `Claim`, `Load` | the glob of `*.json`, the claiming rename, the read |
| `Attempt` | one attempt of `postWithRetry`, for a drained file or the own event |
| `Remove`, `PutBack` | after the post of a drained file |
| `ReadInput` | stdin, `Parse`, the early returns |
| `Buffer`, `Evict`, `WriteTmp`, `Publish` | `writeBuffer`: glob and cap, removes, write, rename |
| `ReclaimFails`, `ClaimFails`, `EvictFails` | a rename of the reclaim, the claiming rename, a remove of the eviction fails, and the loop goes on |
| `ReadFails`, `ReleaseFails`, `WriteFails`, `Crash` | other error paths of the same calls, and a killed process |
| `Flap`, `LateCommit` | the server stops and comes back; it commits what a client gave up on |

Abstractions: a slot is reused by a later process, as a pid is; a glob is one
atomic look at the directory; copies of one body that are still on their way to
the server are one element of `inflight`. `Refused` events are bodies the server
answers 400 (it decodes with `DisallowUnknownFields`, so a newer hook can meet
an older server); while the server is not up an attempt can also get a 429. A
failure to build the HTTP request is left out.

### RateLimiter

Time is counted in ticks, tokens in credits: a request costs `Cost` credits and
a tick brings `Rate`, so that rates below one token per tick have integers.
`Grant`/`Deny` are `Allow` with its trailing `maybePrune`; `Tick` is the clock.
The assumption `PruneAfter * Rate >= Burst` is the relation of the code's
numbers (600 s at 10 tokens/s, burst 60) on which correct pruning rests.

### Ingest

Callers of `UpsertSession` are the requests and the scanner; `at[u]` is the next
statement. A row is named by what it was made from. `Count`, `Upsert` and
`ReadBack` are the statements, `SqlFails` an error of any of them; a second
writer while one writes fails at once (`Busy`). `ScanStart` reads the known ids,
`ScanPath` is one iteration of the loop up to its upsert, and what follows the
upsert is part of the caller's `ReadBack` or `SqlFails`. `log`, `mine` and
`written` are history variables. The limiter's answer is a free choice here:
RateLimiter says when it is given. The broadcast is LiveTail's.

### LiveTail

`version` counts commits. `post[p]` is where a request is between its commit and
the end of `Broadcast`, `toSend[p]` the channels it still has to send to, which
is not empty only while it holds the mutex. A dashboard never looks into an
event, so a channel is a number of events. `handler[c]` is where `handleSSE` is,
`client[c]` the page at the other end. The two 30 s deadlines of
`cmd/sessionlens-server` are `Expire`: after it the next write fails and the
context may be cancelled. `page[t]` follows the dashboard through its first load,
`initSSE`, and closing. `asked` and `due` are history: the newest version that a
load of the page can see, and the newest that a broadcast offered to the stream.

### Transcript

`file` is the transcript so far; `summary` and `detail` are the variables of the
two loops, which are moved in lock step because they share nothing else. A line
is described by what the two decoders make of it: whether its header decodes,
and whether its message is absent, `null`, good, wrong for both, or wrong only in
`content`. `Parse` drops a whole line for a fault in its message, timestamp
included; `ParseBreakdown` drops only the message. A `null` message is no turn
for `Parse` and an empty turn for `ParseBreakdown`. Costs are exact integers, in
cents per million tokens; floating-point rounding is not modelled. A timestamp
equal to or before Go's zero time is not modelled.

### Calendar and Statistics

A day is an integer, and `NewYears`, `MonthStarts` and one `Monday` are all that
is known of the calendar. `SqliteWeek` is what `strftime('%W')` computes;
`MockWeekKey` is `sqliteWeekKey` of `internal/mock/mock.go`, which starts from the
day of the year of the first Monday.

`rows` is the table, `now` the clock. `Post` is the upsert of `POST /v1/sessions`
as Ingest shows it to end, with the goroutine it starts for a session that cost
something; `Check` is that goroutine's query and decision; `Scan` is an upsert
of the scanner, which starts none; `Tick` moves the clock. A row may end
any time up to now, so events are late, replayed, and out of order. Each endpoint
is an operator on the rows and the clock:

| Operators | Code |
|---|---|
| `MonthSummary`, `Daily`, `Weekly`, `Hourly`, `Projects`, `Clamp`; the cutoffs `ThisMonth`, `DailyRows`, `WeeklyRows`, `HourlyRows` | `internal/stats/stats.go` |
| `Listed` | `ListSessions` of `internal/db/db.go` |
| `ModelFamily`, `AddRow`, `ByModel`, with its cutoff `ModelRows` | `ByModel`, `AggregateByModel` |
| `Middle`, `Median2`, `Baseline`, `Severity`, `DetectSessionSpikes`, `DetectTrendSpikes`, `Spikes` | `internal/stats/spikes.go` |
| `ForecastRows`, `Forecast` | `internal/stats/forecast.go` |
| `AlertRows`, `Alerts`, `Check` | `RollingAvgCostUSD` and the goroutine of the ingest handler |

Abstractions: a moment is a point in the order of `ended_at`, and sessions that
end in one second are different moments, in the order SQLite returns them; the
four token counts of a row are one number; costs are integers; medians are
doubled and averages multiplied out, so no division rounds. The text comparison
of `ended_at` is the order of time because both writers of the table store
RFC 3339 UTC times ending in `Z`. That a row's end is not after the clock is an
assumption about the events, made in the guards of `Post` and `Scan`: the ingest
handler accepts any time. The conjunct of `TypeOK` about it is no result.

`QueriesAgree` compares what is shown in full: a day's list with its bucket up to
the list's cap of 10000 rows, the projects with everything up to their cap of 200,
and windows below every endpoint's cap.

### Dashboard

One page. Other pages, and clients of `POST /v1/mode`, are `Elsewhere`; what other
pages stored before is the constant `Choice`. What an endpoint answers is
abstracted to the mode it was served in and the number of commits it saw.

| Action | Code in `web/index.html` |
|---|---|
| `Open`, `Tell`, `TellFails`, `Agree`, `Differ`, `SyncPost`, `Synced` | `main` and `syncInitialMock` |
| `Begin`, `Serve`, `Draw`, `Fail` | `loadAll`: the requests, each answer, `Promise.all` and the rendering |
| `Choose` | the range buttons of the hourly chart |
| `Connect`, `Drop`, `OnSession` | `initSSE`, the EventSource's reconnect, the `session` listener |
| `Flip`, `SetMode`, `Flipped`, `FlipFails` | the check box's listener and `setMockMode`, with the server's `handleMode` |
| `Commit`, `Broadcast`, `Elsewhere`, `Restart` | the server: a post's commit and its later broadcast, the mode flag, a restart |

A load holds the answers it has, so requests of several loads are served and
drawn in any order. `missed` and `strange` are history: a broadcast since the
last load could not reach the page; someone else may have changed the flag, or a
`POST` took effect though the page saw it fail. `late` marks a load that was under
way while another was drawn. The hub and the stream are LiveTail's subject; here
an event is on its way or it is not.

## 3. Runs

| Run | Instance | Shows |
|---|---|---|
| `hook_concurrent` | 2 hooks, 2 events, cap 1, 2 attempts, one always refused event, 1 fault; 73,600 states | `Accounted`, `NoHalfWrittenRead`, `ClaimsHaveOwners`, refinement of Custody, `RunTerminates` |
| `hook_serial` | 1 hook at a time, 4 events, cap 2, 2 attempts, one always refused event, 2 faults; 623,290 states | `BufferWithinCap`, `EvictsOldestOfFull`, `Drained` |
| `hook_one_owner` | 2 hooks, 1 event | two processes are posting one file (violation) |
| `hook_replay` | 1 hook, 2 events | a replay returns a row to older totals (violation) |
| `rate_limiter` | 3 IPs, a token every second tick, pruning from the second bucket, 6 ticks; 69,633 states | `NoFreeTokens`, `MapIsBounded`, refinement of TokenBucket |
| `live_tail` | 2 posts, 2 streams, 1 page, 1 slot; 179,831 states | `SendsToOpenChannels`, `NothingForgotten`, `IngestNeverBlocks`, `HandlersEnd` |
| `live_stays_open` | 1 post, 1 stream | a stream ends with its client present (violation) |
| `ingest` | 3 requests, one malformed; 4 transcripts, one empty; 2 sessions; 2 scans; 1 fault; 3,134,634 states | `AnswerNotOlder`, `CreatorIsTold`, `GapClosed`, `OneWritePerScan` |
| `ingest_scan` | the same without faults | a scan overwrites a row posted meanwhile (violation) |
| `transcript` | 4 lines of 13 kinds; 61,882 states | `TurnsAddUp`, `CostsAddUp`, `SpanCovered`, `ModelsInOrder`, `NeverTakesBack` |
| `statistics` | 4 sessions, 3 bodies, 5 moments of 3 days around New Year 2023, baselines of 2, 1 check at a time; 27,798 states up to symmetry | `QueriesAgree`, `WeekBuckets`, `BaselineIsMedian`, `SteadyForecast`, `NewerKeepsSpikes`, `AlertsSpareSelf` |
| `dashboard` | 2 cards, 2 ranges, 1 commit, 3 loads of which 2 at once, 1 flip; 2,258,635 states | `CurrentAtRest`, `BannerAtRest`, `NoStepBack` |

### Why the bounds are enough

* Two hooks are the fewest that interleave, and every hazard in the buffer is
  between two processes or between a process and one that died. Two attempts
  stand for four: what matters is whether there is another one. A cap of 1 or 2
  stands for 100, with more events than the cap so that eviction happens; one hook
  at a time with twice as many events as the cap and two faults leaves orphans,
  evicts several files at once and has removes of an eviction fail. The
  safety invariants also held with three events, two hooks, cap 2 and one fault
  (1.7 million states); they are proved for every size.
* The limiter is pruned from two buckets on instead of 64 and with three IPs the
  map is below, at and above the threshold; the horizon is beyond `PruneAfter`,
  so buckets are pruned and made again.
* One slot per channel makes a full channel as easy to reach as an empty one;
  two streams are a page's old and new connection.
* Two requests and three transcripts, one of them empty, are of one session; a
  fourth transcript is of another. That gives every overlap of two posts, and of
  a post and a scan, on one row, and scans with repeated and with distinct ids.
* Four lines hold two models of one family and one of another, all kinds of odd
  line, and unordered times.
* Saturday 31 December 2022 to Monday 2 January 2023: a month, a year and a week
  change on three days, no two at once. Baselines of two sessions or days are
  empty, odd, even and full with four rows. A free session, a cheap and a dear one
  give costs below, at and above every threshold. The caps of parameters
  (`Clamp`) are beyond these bounds; their defaults are met. Three days never
  leave a row outside a weekly window, and no month so far is longer than the
  forecast's window: what `WeeklyRows` and `ForecastRows` cut off there is the subject of
  `WindowsAddUp` and `ForecastSteady` only. While a check waits, free sessions are
  posted, others are scanned, and its own post is repeated; a second check waits
  beside it in the theorem `AlertsAreFair` only.
* One card besides the hourly chart stands for all that only `loadAll` renders.
  Two loads at once are the fewest that overlap, the third is the one that comes
  after; one commit makes an older and a newer answer.

`CHECK_DEADLOCK FALSE` is set where the system really stops: all requests are
answered and all scans done, the file has ended, the clock is at its end, or the
loads are used up.

### Fairness

* `HookDelivery!FairSpec`: a process that can make its next call makes it (weak
  fairness of each process's steps). Crashes, the server, the disk and the start
  of hooks get none. `BusySpec` adds that hooks keep being started, for `Drained`,
  which speaks of an outage that ends (`<>[]up`) and of what later hooks do.
* `LiveTail!FairSpec`: goroutines that can run do run. Nothing is assumed of
  browsers, of the network, or of the clock.
* `RunTerminates`, `Drained`, `IngestNeverBlocks` and `HandlersEnd` need these;
  everything else holds without fairness. The violations need none.

`Drained` is checked for one hook at a time only. With two, each can take back
the other's claims again and again, and weak fairness does not exclude it.

## 4. Findings

Each is shown by a run that violates what a comment says.

1. `hook_one_owner`: `drainBuffer` takes back the claims of live processes, so
   two processes can be posting one file, against "only one process owns it at a
   time" (`cmd/sessionlens-hook/main.go:207`). The run ends when the second process
   has reclaimed, claimed and read the file that the first has read and not yet
   posted. Nothing is lost by it (`Accounted` holds); both posts may reach the
   server, which stores the same row twice.
2. `hook_replay`: a drain that fails followed by a post that succeeds leaves the
   older event for the next drain, which puts the older totals back into the row.
   Needs one hook at a time and one short outage.
3. `live_stays_open`: the server's 30 s deadlines end every stream, against "The
   connection stays open until the client disconnects." (`server.go:505`).
4. `ingest_scan`: the scanner overwrites a session posted after it read the known
   ids, without the raw payload, against "ingests any session not already
   present" (`cmd/sessionlens-scan/main.go:2`).

Met while modelling, with no run of their own.

* Hook: its header says that a 4xx is dropped (`main.go:12`), and both a posted
  and a drained event that got a 4xx stay in the buffer; that the buffer is
  capped (`main.go:17`), and overlapping writers exceed the cap, each by a file,
  with no bound in principle; that each buffered file "is attempted once", and
  the drain makes four attempts. (`CapKept` proves the cap for one hook at a time.)
* Ingest: two first posts of a session can both be answered 201, where the
  README's API table has 201 for an insert; and none is, if the read back of the
  creating post fails: its client gets a 500 for a stored row, posts again and gets
  a 200. The scanner does not report what it inserted. The documented limit of
  100 listed rows (`internal/db/db.go:129`) is 10000.
* Statistics: "ISO-week buckets" (`internal/stats/stats.go:140`, `README.md:67`)
  are SQLite's `%W`, and mock mode repeats it; the forecast's
  `daily_avg_last_7d` averages the days that have sessions only, and a trend's
  baseline is the last seven days that have any; a session becomes a spike
  only when three are stored, so the second can turn into one when
  the third arrives; the 90-day cutoff moves, and with it the baselines of the
  oldest sessions; a late replay finds its own row in the alert's average, and
  with at most one other session there never alerts; the month's
  utilisation and the forecast read two different budgets, `PLAN_BUDGET_USD`
  (20) and `SESSIONLENS_MONTHLY_BUDGET_USD` (100); the cost of a session
  falls when its last model is a cheaper one, because all its tokens are
  priced at that model.
* Mock mode: the list is filtered after its limit is applied, where SQL filters
  first, and is capped at 100 rows; the aggregations have no upper clamp.
* Dashboard: overlapping refreshes can leave older data on screen
  (`web/index.html:856`), and a range button's request the chart of another range
  than the active button's, until the next load; a restart resets mock mode
  to `MOCK_MODE` while open pages keep their banner; a failed `POST` leaves the check
  box flipped; the panel of a session is filled by whichever breakdown arrives
  last. `CurrentAtRest` and `BannerAtRest` say what holds nevertheless.

## 5. Proofs

All are for every value of the constants that satisfies the module's assumption:
any number of processes, events, streams, requests, lines, faults.

**HookDelivery_proofs** (`TypeCorrect`, `NothingLostSilently`, `ClaimsOwned`,
`WholeFiles`, `CapKept`, `OldestEvicted`, `ImplementsCustody`). `Accounted` is not inductive: it does not say that a file that is
removed was delivered, or that a name given to a new event is free. The
invariant adds `Fresh` (an event not yet parsed is nowhere), `Unpublished` (an
event in a writer's hands has no file other than its own `.tmp`),
`RemovesDelivered` (a process about to remove a file posted it) and
`ClaimsHaveOwners`. The point of `Accounted` is that two processes can hold one
file, so removing by one must be right while the other is still posting; it is,
because a remove always follows a commit of that event by the remover.
`CapKept` and `OldestEvicted` assume one hook at a time (`OneAtATime`), and are
false without it. The first counts: `RoomMade` says that a hook about to write
has room once its victims are gone, and every claim that nobody works on
(`Orphans`) cost one fault. It rests on `VictimsMakeRoom`, that the n oldest files
are n or all, which takes the oldest file not among them. The second rests on
names being distinct (`Named`), so that the n oldest are no more than n, and on
`Chosen`: nothing but its own removes changes the buffer under a hook that evicts.
Removes and renames can fail, so both are graded by the number of faults: a
failed remove leaves one file too many, and one older file behind the next victim.
For `ImplementsCustody` the refinement mapping computes an event's custody from
where its copies are; every step of a hook, every fault and every late commit is
shown to be a step of Custody or a stutter.

**RateLimiter_proofs** (`TypeCorrect`, `NoFreeTokensEver`, `ImplementsTokenBucket`,
`MapStaysBounded`).
The ideal level of an IP is what `Allow` would find. The one non-trivial fact is
`FullWhenIdle`: a bucket idle for longer than `PruneAfter` is full, from
`PruneAfter * Rate >= Burst`; so forgetting it and making a new, full one later
is a stutter of the ideal bucket. `MapIsBounded` counts the map, which is finite
because a call of `Allow` adds one bucket at most.

**LiveTail_proofs** (`TypeCorrect`, `NoSendOnClosedChannel`, `DroppingIsSafe`).
`SendsToOpenChannels` needs `SendersLock` (channels left to send to imply holding
the mutex, which Unsubscribe needs). `NothingForgotten` needs `Registered`,
`NothingDue` (nothing is due on a stream that does not exist) and `DueSeen`
(what is due was committed, so a load that starts now sees it). The argument:
an event is dropped only when the channel is full, and a full channel still
holds an event that will make the page load after this commit.

**Ingest_proofs** (`TypeCorrect`, `AcceptedIsStored`, `InsertNotHidden`,
`ScanClosesGap`, `ScanWritesOnce`). The invariant ties the row to the last entry
of its commit log (`LastCommitted`), a reader to its own commit (`Committed`), a
COUNT to the fact that rows are never deleted (`SeenStored`), the first commit of a
session to what its client is told (`CreatorsTold`), and, for the
scanner, what is known to what is stored (`KnownStored`, `WritesUnknown`,
`Covered`, `WrittenKnown`).

**FiniteSums** proves what a sum over a finite set is: `SumFunctionOnSet` of the
community modules is a recursive function under a CHOOSE, so the first lemmas
show that such a function exists (`IterExists`) and does not depend on the set it
was made for (`IterAgrees`), the next that the order of summation is irrelevant
(`SumRemoves`). On these rest linearity, monotonicity, union, and `SumOfGroups`:
the sums of the groups that any key makes of a set add up to the sum of the set,
which is what every GROUP BY is about. Induction is a smallest counterexample
among naturals or finite sets (`LeastNatural`, `SmallestSet`), so that no lemma
takes an operator.

**Transcript_proofs** (`TypeCorrect`, `PageSpansRow`, `LaterReportsGrow`,
`PageAddsUp`, `PageCostsAddUp`, `SwitchesInOrder`). One
lemma per reader says what a line does to its variables; `SpanCovered` follows
because every line `Parse` decodes has a header that `ParseBreakdown` decodes.
For the sums the invariant adds `AddUp`: a turn adds to the page no more than its
line added to the row, and as long as no line was odd (`Agreed`) the readers have
the same tokens, turns and times. Costs follow: with the same tokens, a session
priced at a model that is nowhere dearer costs no more (`DearerCosts`), and a sum
of costs at one model is the cost of the sum (`CostOfTurns`). The models of the page are in order because
`seen` holds the place of each model's first turn (`InIndex`), so that models
differ in their places and the sorted list exists.

**Statistics_proofs** (`TypeCorrect`, `WeeksAreWeeks`, `SpikesAreKept`,
`EndpointsAddUp`, `WindowsAddUp`, `MediansAreMiddle`, `ForecastSteady`,
`AlertsAreFair`). The properties of the queries are consequences of the type
invariant and of the table being finite; what makes them hard is the data.
That weekly buckets are weeks is arithmetic on the distances to
1 January and to a Monday (`KeysSeparateWeeks`), and that mock mode's key is
SQLite's a case distinction over the weekday of 1 January (`MockKeyIsSqlites`);
both hold for every calendar. A newer session keeps earlier spikes because days
are monotone in moments and the windows before a session or day
do not change (`PrecedingUnchanged`). The endpoints agree because each is a
grouping of one set of rows: the month is the window of its days so far
(`MonthIsWindow`, which uses that no month is longer than 31 days, so that no cap
bites), the cutoffs of the endpoints are one (`SameCutoffs`), every grouping adds
up to its rows (`BucketsAddUp`), the loop of
`AggregateByModel` computes two groupings at once (`FoldIsFamilies`), the
families of one day are the day's own (`FamiliesOfDay`), and the list between a
day's two ends, as long as the day's count, is that day (`DayIsListed`).
`WindowsAddUp` says of all windows that no cap shortens what the run checks for
one and two days. A baseline is a median because the k-th smallest value exists
and is unique (`KthExists`, `KthIsUnique`) and mirrors to the k-th largest
(`KthMirrored`), and the two middle places add up to one more than the number of
values. A steady month's days are exactly the days of the month so far and of
the forecast's window (`EvenSince`); this needs a window of at least one day
(`ForecastDays > 0`; the code has 7). An alert is fair because a row of today is
not in the average, and because a sum is at least each of its terms.

**Dashboard_proofs** (`TypeCorrect`, `SettledIsCurrent`, `BannerIsRight`,
`NeverBack`). The invariant adds to the types `AnswersCurrent` (unless an event is unsent, on its way or missed,
what a card's newest load has been answered so far is current), `RangeAsked`
(likewise for the chart's range),
`Forward` (a load that was not overtaken has seen at least what the cards show),
`ModeKnown` (what was heard or posted is the flag, unless someone interfered) and
`NotYet` (a page that is not open has no switch under way, and a page has one
main load at most). The argument for
`SettledIsCurrent` is that every broadcast that reaches the page begins a load
that covers every card, so a load that is still the newest began after the last
one that did.

Every invariant and every action property that a passing run checks, and both
refinements, are proved. Only model-checked: the liveness properties
(`RunTerminates`, `Drained`, `IngestNeverBlocks`, `HandlersEnd`), since fairness
and ENABLED are outside the prover's reach. No module uses a RECURSIVE operator.

## 6. Not modelled, and what could come next

Not modelled, with the reason:

* The mock dataset and its aggregations (`internal/mock`): a fixed list of rows
  made from a seed, and the statistics once more in Go over that list. Its week
  key, the part with arithmetic of its own, is `MockWeekKey`.
* The page's panel of one session, its rendering, charts and formats, and the CSV
  export: they show data and change no state that anything else reads.
* Start and shutdown of the server: a few calls of `net/http`. Open streams end
  only with their clients or at the 30 s deadlines, so a shutdown with an open
  page runs into its limit of 5 s; what follows is the end of the process, which
  is `Restart` here and `Flap` in HookDelivery.
* Metrics counters (atomic adds, read one by one), logging, configuration, and the
  program that shows a notification.

Next: a composition of hook, ingest and scanner over one session (an event given
up by the hook is recovered by the scanner as long as its transcript exists).
