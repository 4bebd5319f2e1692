------------------------------- MODULE Ingest -------------------------------
(* The two writers of the session store: POST /v1/sessions of the server    *)
(* (handleCreateSession in internal/server/server.go), many requests at     *)
(* once, and cmd/sessionlens-scan, another process on the same file.  Both  *)
(* call UpsertSession of internal/db/db.go, which is three statements       *)
(* without a transaction: COUNT, upsert, read back.                         *)
(*                                                                          *)
(* A row is named by what it was made from: the request or the transcript   *)
(* path.  The announcement of a stored row to the dashboards is LiveTail's. *)
EXTENDS Naturals, Sequences

CONSTANTS
    Reqs,       \* POST requests
    Bad,        \* those whose body does not decode or has no id
    Paths,      \* transcripts under the projects root
    Empty,      \* those without a turn or a token
    Sessions,   \* session ids
    IdOf,       \* the session of a request or a path
    MaxScans,   \* bound: runs of the scanner
    MaxFaults   \* bound: SQL and parse errors

Scan == "scan"
NoRow == "no row"
NoAnswer == "none"
Callers == Reqs \cup {Scan}
Sources == Reqs \cup Paths

ASSUME IngestAssumption ==
    /\ Bad \subseteq Reqs /\ Empty \subseteq Paths
    /\ Reqs \cap Paths = {}
    /\ Scan \notin Reqs /\ NoRow \notin Sources
    /\ IdOf \in [Sources -> Sessions]
    /\ MaxScans \in Nat /\ MaxFaults \in Nat

VARIABLES
    row,      \* the store
    at,       \* the next statement of each caller of UpsertSession
    source,   \* what it writes: the request itself, or the scanned path
    seen,     \* its COUNT found a row
    out,      \* the row it read back
    answer,   \* status of each request
    known,    \* the scanner's known ids
    todo,     \* paths it has not come to yet
    failed,   \* its failures in this run, as a flag
    scans, faults,
    log,      \* history: the commits of each session, in order
    mine,     \* history: position in log of a caller's own commit
    written   \* history: paths the scanner wrote in this run

upsert == <<at, source, seen, out>>
scanner == <<known, todo, failed, scans, written>>
history == <<log, mine>>
vars == <<row, upsert, answer, scanner, faults, history>>

-----------------------------------------------------------------------------
(* Helpers *)

Id(u) == IdOf[source[u]]

\* SELECT COUNT(1) FROM sessions WHERE id = ?
MutPresent(s) == \E t \in Sessions : row[t] # NoRow   \* mutation: no WHERE
Present(s) == row[s] # NoRow

\* The row of s after INSERT ... ON CONFLICT(id) DO UPDATE with the row of x.
MutStored(s, x) == IF row[s] = NoRow THEN x ELSE row[s]   \* mutation: DO NOTHING
Stored(s, x) == x

Fault == faults < MaxFaults /\ faults' = faults + 1

\* Another write statement is running: without a busy timeout the second gets
\* SQLITE_BUSY at once.
Busy(u) == at[u] = "upsert" /\ \E v \in Callers \ {u} : at[v] = "upsert"

\* What the scanner knows after it wrote id s, and after it skipped an empty
\* transcript of s.
MutMark(s) == known   \* mutation: ingested ids are not remembered
MutMarkPath(s) == known \cup {source[Scan]}   \* mutation: the path is, not its id
Mark(s) == known \cup {s}
MutMarkEmpty(s) == known \cup {s}   \* mutation: marked before the check
MarkEmpty(s) == known

-----------------------------------------------------------------------------
(* POST /v1/sessions up to UpsertSession *)

\* The limiter says no, or the body is no good.
Refuse(r, status) ==
    /\ at[r] = "idle" /\ answer[r] = NoAnswer
    /\ status = "429" \/ (status = "400" /\ r \in Bad)
    /\ answer' = [answer EXCEPT ![r] = status]
    /\ UNCHANGED <<row, upsert, scanner, faults, history>>

Accept(r) ==
    /\ at[r] = "idle" /\ answer[r] = NoAnswer /\ r \notin Bad
    /\ at' = [at EXCEPT ![r] = "count"]
    /\ source' = [source EXCEPT ![r] = r]
    /\ UNCHANGED <<row, seen, out, answer, scanner, faults, history>>

-----------------------------------------------------------------------------
(* UpsertSession, for a request or for the scanner *)

Count(u) ==
    /\ at[u] = "count"
    /\ at' = [at EXCEPT ![u] = "upsert"]
    /\ seen' = [seen EXCEPT ![u] = Present(Id(u))]
    /\ UNCHANGED <<row, source, out, answer, scanner, faults, history>>

Upsert(u) ==
    /\ at[u] = "upsert"
    /\ at' = [at EXCEPT ![u] = "read"]
    /\ row' = [row EXCEPT ![Id(u)] = Stored(Id(u), source[u])]
    /\ log' = [log EXCEPT ![Id(u)] = Append(@, source[u])]
    /\ mine' = [mine EXCEPT ![u] = Len(log[Id(u)]) + 1]
    /\ written' = IF u = Scan THEN written \cup {source[u]} ELSE written
    /\ UNCHANGED <<source, seen, out, answer, known, todo, failed, scans, faults>>

\* Read back and return: a request is answered, the scanner goes on.
ReadBack(u) ==
    /\ at[u] = "read"
    /\ at' = [at EXCEPT ![u] = IF u = Scan THEN "loop" ELSE "idle"]
    /\ out' = [out EXCEPT ![u] = row[Id(u)]]
    /\ IF u = Scan
       THEN known' = Mark(Id(u)) /\ UNCHANGED answer
       ELSE /\ answer' = [answer EXCEPT ![u] = IF seen[u] THEN "200" ELSE "201"]
            /\ UNCHANGED known
    /\ UNCHANGED <<row, source, seen, todo, failed, scans, written, faults, history>>

\* A statement fails: the request is answered 500, the scanner counts and goes on.
SqlFails(u) ==
    /\ at[u] \in {"count", "upsert", "read"}
    /\ Fault \/ (Busy(u) /\ UNCHANGED faults)
    /\ at' = [at EXCEPT ![u] = IF u = Scan THEN "loop" ELSE "idle"]
    /\ IF u = Scan
       THEN failed' = TRUE /\ UNCHANGED answer
       ELSE answer' = [answer EXCEPT ![u] = "500"] /\ UNCHANGED failed
    /\ UNCHANGED <<row, source, seen, out, known, todo, scans, written, history>>

-----------------------------------------------------------------------------
(* sessionlens-scan *)

\* Glob, then loadKnownIDs.
ScanStart ==
    /\ at[Scan] = "idle" /\ scans < MaxScans
    /\ scans' = scans + 1
    /\ at' = [at EXCEPT ![Scan] = "loop"]
    /\ known' = {s \in Sessions : row[s] # NoRow}
    /\ todo' = Paths
    /\ failed' = FALSE
    /\ written' = {}
    /\ UNCHANGED <<row, source, seen, out, answer, faults, history>>

\* One path: known; unreadable; empty; or to be written.
ScanPath(p) ==
    /\ at[Scan] = "loop" /\ p \in todo
    /\ todo' = todo \ {p}
    /\ \/ /\ IdOf[p] \in known
          /\ UNCHANGED <<at, source, known, failed, faults>>
       \/ /\ IdOf[p] \notin known /\ Fault
          /\ failed' = TRUE
          /\ UNCHANGED <<at, source, known>>
       \/ /\ IdOf[p] \notin known /\ p \in Empty
          /\ known' = MarkEmpty(IdOf[p])
          /\ UNCHANGED <<at, source, failed, faults>>
       \/ /\ IdOf[p] \notin known /\ p \notin Empty
          /\ at' = [at EXCEPT ![Scan] = "count"]
          /\ source' = [source EXCEPT ![Scan] = p]
          /\ UNCHANGED <<known, failed, faults>>
    /\ UNCHANGED <<row, seen, out, answer, scans, written, history>>

ScanEnd ==
    /\ at[Scan] = "loop" /\ todo = {}
    /\ at' = [at EXCEPT ![Scan] = "idle"]
    /\ UNCHANGED <<row, source, seen, out, answer, scanner, faults, history>>

-----------------------------------------------------------------------------
Init ==
    /\ row = [s \in Sessions |-> NoRow]
    /\ at = [u \in Callers |-> "idle"]
    /\ source = [u \in Callers |-> NoRow]
    /\ seen = [u \in Callers |-> FALSE]
    /\ out = [u \in Callers |-> NoRow]
    /\ answer = [r \in Reqs |-> NoAnswer]
    /\ known = {} /\ todo = {} /\ failed = FALSE
    /\ scans = 0 /\ faults = 0
    /\ log = [s \in Sessions |-> <<>>]
    /\ mine = [u \in Callers |-> 0]
    /\ written = {}

Next ==
    \/ \E r \in Reqs : Accept(r) \/ \E status \in {"400", "429"} : Refuse(r, status)
    \/ \E u \in Callers : Count(u) \/ Upsert(u) \/ ReadBack(u) \/ SqlFails(u)
    \/ ScanStart \/ ScanEnd
    \/ \E p \in Paths : ScanPath(p)

Spec == Init /\ [][Next]_vars

-----------------------------------------------------------------------------
(* Properties *)

TypeOK ==
    /\ row \in [Sessions -> Sources \cup {NoRow}]
    /\ at \in [Callers -> {"idle", "loop", "count", "upsert", "read"}]
    /\ source \in [Callers -> Sources \cup {NoRow}]
    /\ seen \in [Callers -> BOOLEAN]
    /\ out \in [Callers -> Sources \cup {NoRow}]
    /\ answer \in [Reqs -> {NoAnswer, "200", "201", "400", "429", "500"}]
    /\ known \subseteq Sessions
    /\ todo \subseteq Paths
    /\ failed \in BOOLEAN
    /\ scans \in 0 .. MaxScans
    /\ faults \in 0 .. MaxFaults
    /\ log \in [Sessions -> Seq(Sources)]
    /\ mine \in [Callers -> Nat]
    /\ written \subseteq Paths

\* A 200 or 201 carries the request's own row or one committed after it: an
\* accepted event is in the store, and its client is never shown an older row,
\* though the row is read in a statement of its own after the commit.
AnswerNotOlder ==
    \A r \in Reqs : answer[r] \in {"200", "201"} =>
        /\ mine[r] > 0
        /\ \E i \in mine[r] .. Len(log[IdOf[r]]) : log[IdOf[r]][i] = out[r]

\* Who creates a row is not told that it updated one: the first commit of a session
\* is never answered 200, whatever other writers do between its COUNT, its upsert
\* and its read back.  The insert goes unreported only when the scanner made it, or
\* when the read back failed by itself, not by a lock conflict: GetSession's error
\* hides it behind a 500.  (A later writer may be told of an insert, too: the COUNT
\* is not in a transaction.)
CreatorIsTold ==
    \A s \in Sessions : log[s] # <<>> =>
        LET first == log[s][1] IN
        \/ first \in Paths \/ at[first] = "read"
        \/ answer[first] = "201"
        \/ answer[first] = "500" /\ faults > 0

\* The scanner closes the gap of missed hooks: after a run without a failure
\* every transcript with content has its session in the store, also if several
\* transcripts have one id and some of them are empty.
GapClosed ==
    (at[Scan] = "idle" /\ scans > 0 /\ ~failed) =>
        \A p \in Paths \ Empty : row[IdOf[p]] # NoRow

\* In a run without a failure the scanner writes a session once: of several
\* transcripts with one id, a later one does not replace what an earlier one
\* brought in.  (After a failed read back it does: the id is not remembered.)
OneWritePerScan ==
    ~failed => \A p, q \in written : IdOf[p] = IdOf[q] => p = q

\* What the header of the scanner says: it ingests sessions that are not in the
\* store, so it never replaces a row.
ScanOnlyMissing ==
    [][\A s \in Sessions : (row'[s] # row[s] /\ row'[s] \in Paths) => row[s] = NoRow]_vars
=============================================================================
