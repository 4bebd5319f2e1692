--------------------------- MODULE Ingest_proofs ---------------------------
(* Proofs about Ingest for any requests, transcripts, sessions and numbers   *)
(* of scans and faults.                                                      *)
EXTENDS Ingest, TLAPS

InUpsert(u) == at[u] \in {"count", "upsert", "read"}

-----------------------------------------------------------------------------
(* The inductive invariant *)

\* Callers write what they were called with, and only unanswered requests run.
Sourced ==
    /\ \A r \in Reqs : at[r] # "loop" /\ (at[r] # "idle" => source[r] = r /\ answer[r] = NoAnswer)
    /\ InUpsert(Scan) => source[Scan] \in Paths \ Empty

\* The store holds the last commit of each session.
LastCommitted ==
    \A s \in Sessions :
        IF Len(log[s]) = 0 THEN row[s] = NoRow ELSE row[s] = log[s][Len(log[s])]

\* A caller that is about to read back has committed.
Committed ==
    \A u \in Callers : at[u] = "read" => mine[u] \in 1 .. Len(log[Id(u)])

\* Rows are never deleted, so a COUNT that found one stays right.
SeenStored == \A u \in Callers : (at[u] = "upsert" /\ seen[u]) => row[Id(u)] # NoRow

\* What has become of the writer of a first commit: the scanner, a request whose
\* COUNT found nothing and whose answer is still to come, or one that was answered.
Told(x) ==
    \/ x \in Paths
    \/ at[x] = "read" /\ ~seen[x]
    \/ answer[x] = "201"
    \/ answer[x] = "500" /\ faults > 0

CreatorsTold == \A s \in Sessions : log[s] # <<>> => Told(log[s][1])

\* The scanner knows only stored sessions, and writes only unknown ones.
KnownStored == \A s \in known : row[s] # NoRow
WritesUnknown == at[Scan] \in {"count", "upsert"} => Id(Scan) \notin known

\* Every transcript with content is still to come, being written, or stored.
Covered ==
    /\ at[Scan] = "idle" => todo = {}
    /\ (scans > 0 /\ ~failed) =>
          \A p \in Paths \ Empty :
              p \in todo \/ (InUpsert(Scan) /\ source[Scan] = p) \/ row[IdOf[p]] # NoRow

\* What was written is known, apart from the transcript being written.
WrittenKnown ==
    ~failed => \A p \in written :
        IdOf[p] \in known \/ (at[Scan] = "read" /\ source[Scan] = p)

IInv ==
    /\ TypeOK /\ Sourced /\ LastCommitted /\ Committed /\ SeenStored
    /\ KnownStored /\ WritesUnknown /\ Covered /\ WrittenKnown
    /\ AnswerNotOlder /\ CreatorsTold /\ OneWritePerScan

-----------------------------------------------------------------------------
(* Types and sources *)

\* A caller about to run a statement has a source, whose session is the row's.
LEMMA SourceOk ==
    ASSUME TypeOK, Sourced, NEW u \in Callers, InUpsert(u)
    PROVE  source[u] \in Sources /\ Id(u) \in Sessions /\ (u # Scan => u \in Reqs /\ source[u] = u)
<1>1. CASE u = Scan
  BY <1>1, IngestAssumption DEF Sourced, Sources, Id
<1>2. CASE u \in Reqs
  BY <1>2, IngestAssumption DEF Sourced, Sources, Id, InUpsert
<1> QED
  BY <1>1, <1>2 DEF Callers

\* Every step keeps the types.
LEMMA TypeStep == TypeOK /\ Sourced /\ [Next]_vars => TypeOK'
<1> SUFFICES ASSUME TypeOK, Sourced, [Next]_vars PROVE TypeOK'
  OBVIOUS
<1> USE IngestAssumption DEF TypeOK, upsert, scanner, history
<1>1. ASSUME NEW r \in Reqs, Accept(r) PROVE TypeOK'
  BY <1>1 DEF Accept, Callers, Sources
<1>2. ASSUME NEW r \in Reqs, NEW status \in {"400", "429"}, Refuse(r, status) PROVE TypeOK'
  BY <1>2 DEF Refuse
<1>3. ASSUME NEW u \in Callers, Count(u) PROVE TypeOK'
  BY <1>3 DEF Count, Present
<1>4. ASSUME NEW u \in Callers, Upsert(u) PROVE TypeOK'
  <2>1. source[u] \in Sources /\ Id(u) \in Sessions
    BY <1>4, SourceOk DEF Upsert, InUpsert
  <2>2. u = Scan => source[u] \in Paths
    BY <1>4 DEF Upsert, Sourced, InUpsert
  <2>3. log' \in [Sessions -> Seq(Sources)] /\ mine' \in [Callers -> Nat]
    BY <1>4, <2>1 DEF Upsert
  <2>4. row' \in [Sessions -> Sources \cup {NoRow}]
    BY <1>4, <2>1 DEF Upsert, Stored
  <2> QED
    BY <1>4, <2>1, <2>2, <2>3, <2>4 DEF Upsert
<1>5. ASSUME NEW u \in Callers, ReadBack(u) PROVE TypeOK'
  <2>1. Id(u) \in Sessions
    BY <1>5, SourceOk DEF ReadBack, InUpsert
  <2> QED
    BY <1>5, <2>1 DEF ReadBack, Mark, Callers
<1>6. ASSUME NEW u \in Callers, SqlFails(u) PROVE TypeOK'
  <2>1. faults' \in 0 .. MaxFaults
    BY <1>6 DEF SqlFails, Fault
  <2>2. at' \in [Callers -> {"idle", "loop", "count", "upsert", "read"}]
    BY <1>6 DEF SqlFails
  <2>3. answer' \in [Reqs -> {NoAnswer, "200", "201", "400", "429", "500"}] /\ failed' \in BOOLEAN
    BY <1>6 DEF SqlFails
  <2> QED
    BY <1>6, <2>1, <2>2, <2>3 DEF SqlFails
<1>7. CASE ScanStart
  <2>1. scans' \in 0 .. MaxScans /\ known' \subseteq Sessions
    BY <1>7 DEF ScanStart
  <2> QED
    BY <1>7, <2>1 DEF ScanStart
<1>8. ASSUME NEW p \in Paths, ScanPath(p) PROVE TypeOK'
  <2>1. faults' \in 0 .. MaxFaults
    BY <1>8 DEF ScanPath, Fault
  <2>2. source' \in [Callers -> Sources \cup {NoRow}] /\ failed' \in BOOLEAN
    <3>1. source' = source \/ source' = [source EXCEPT ![Scan] = p]
      BY <1>8 DEF ScanPath
    <3>2. failed' = failed \/ failed' = TRUE
      BY <1>8 DEF ScanPath
    <3>3. p \in Sources
      BY DEF Sources
    <3> QED
      BY <3>1, <3>2, <3>3
  <2>3. at' \in [Callers -> {"idle", "loop", "count", "upsert", "read"}]
        /\ known' \subseteq Sessions
    BY <1>8 DEF ScanPath, MarkEmpty
  <2> QED
    BY <1>8, <2>1, <2>2, <2>3 DEF ScanPath
<1>9. CASE ScanEnd
  BY <1>9 DEF ScanEnd
<1>10. CASE UNCHANGED vars
  BY <1>10 DEF vars
<1> QED
  BY <1>1, <1>2, <1>3, <1>4, <1>5, <1>6, <1>7, <1>8, <1>9, <1>10 DEF Next

\* Every step keeps the sources.
LEMMA SourcedStep == TypeOK /\ Sourced /\ [Next]_vars => Sourced'
<1> SUFFICES ASSUME TypeOK, Sourced, [Next]_vars PROVE Sourced'
  OBVIOUS
<1> USE IngestAssumption DEF TypeOK, Sourced, InUpsert, Callers, upsert, scanner
<1>1. ASSUME NEW r \in Reqs, Accept(r) PROVE Sourced'
  BY <1>1 DEF Accept
<1>2. ASSUME NEW r \in Reqs, NEW status \in {"400", "429"}, Refuse(r, status) PROVE Sourced'
  BY <1>2 DEF Refuse
<1>3. ASSUME NEW u \in Callers, Count(u) \/ Upsert(u) PROVE Sourced'
  BY <1>3 DEF Count, Upsert
<1>4. ASSUME NEW u \in Callers, ReadBack(u) PROVE Sourced'
  BY <1>4 DEF ReadBack
<1>5. ASSUME NEW u \in Callers, SqlFails(u) PROVE Sourced'
  BY <1>5 DEF SqlFails
<1>6. CASE ScanStart \/ ScanEnd
  BY <1>6 DEF ScanStart, ScanEnd
<1>7. ASSUME NEW p \in Paths, ScanPath(p) PROVE Sourced'
  BY <1>7 DEF ScanPath
<1>8. CASE UNCHANGED vars
  BY <1>8 DEF vars
<1> QED
  BY <1>1, <1>2, <1>3, <1>4, <1>5, <1>6, <1>7, <1>8 DEF Next

-----------------------------------------------------------------------------
(* The store *)

\* What an upsert does to the log: one more commit of one session, at the end.
LEMMA Commits ==
    ASSUME TypeOK, Sourced, NEW u \in Callers, Upsert(u)
    PROVE  /\ source[u] \in Sources /\ Id(u) \in Sessions
           /\ Len(log'[Id(u)]) = Len(log[Id(u)]) + 1
           /\ log'[Id(u)][Len(log[Id(u)]) + 1] = source[u]
           /\ row'[Id(u)] = source[u]
           /\ \A i \in 1 .. Len(log[Id(u)]) : log'[Id(u)][i] = log[Id(u)][i]
           /\ \A s \in Sessions \ {Id(u)} : log'[s] = log[s] /\ row'[s] = row[s]
<1>1. source[u] \in Sources /\ Id(u) \in Sessions
  BY SourceOk DEF Upsert, InUpsert
<1>2. log'[Id(u)] = Append(log[Id(u)], source[u]) /\ log[Id(u)] \in Seq(Sources)
  BY <1>1 DEF Upsert, TypeOK
<1>3. \A s \in Sessions \ {Id(u)} : log'[s] = log[s] /\ row'[s] = row[s]
  BY <1>1 DEF Upsert, TypeOK
<1>4. row'[Id(u)] = source[u]
  BY <1>1 DEF Upsert, TypeOK, Stored
<1> QED
  BY <1>1, <1>2, <1>3, <1>4

\* A row, once stored, stays stored.
LEMMA RowsStay ==
    ASSUME TypeOK, Sourced, [Next]_vars, NEW s \in Sessions, row[s] # NoRow
    PROVE  row'[s] # NoRow
<1>1. ASSUME NEW u \in Callers, Upsert(u) PROVE row'[s] # NoRow
  BY <1>1, Commits, IngestAssumption
<1>2. CASE UNCHANGED row
  BY <1>2
<1> QED
  BY <1>1, <1>2 DEF Next, Accept, Refuse, Count, ReadBack, SqlFails, ScanStart, ScanPath,
     ScanEnd, vars

\* The row is the last commit, and a caller finds its own commit in the log.
LEMMA StoreStep ==
    TypeOK /\ Sourced /\ LastCommitted /\ Committed /\ [Next]_vars
        => LastCommitted' /\ Committed'
<1> SUFFICES ASSUME TypeOK, Sourced, LastCommitted, Committed, [Next]_vars
             PROVE LastCommitted' /\ Committed'
  OBVIOUS
<1> USE DEF TypeOK, upsert, scanner, history
<1>1. ASSUME NEW u \in Callers, Upsert(u) PROVE LastCommitted' /\ Committed'
  <2> DEFINE s == Id(u)
  <2>1. /\ s \in Sessions
        /\ Len(log'[s]) = Len(log[s]) + 1 /\ log'[s][Len(log[s]) + 1] = row'[s]
        /\ \A t \in Sessions \ {s} : log'[t] = log[t] /\ row'[t] = row[t]
    BY <1>1, Commits
  <2>2. Len(log[s]) \in Nat
    BY <2>1
  <2>3. LastCommitted'
    BY <2>1, <2>2 DEF LastCommitted
  <2>4. mine' = [mine EXCEPT ![u] = Len(log[s]) + 1] /\ source' = source
        /\ at' = [at EXCEPT ![u] = "read"]
    BY <1>1 DEF Upsert
  <2>5. ASSUME NEW v \in Callers, at'[v] = "read"
        PROVE mine'[v] \in 1 .. Len(log'[IdOf[source'[v]]])
    <3>1. CASE v = u
      BY <2>1, <2>2, <2>4, <3>1 DEF Id
    <3>2. CASE v # u
      <4>1. at[v] = "read" /\ mine'[v] = mine[v] /\ source'[v] = source[v]
        BY <2>4, <2>5, <3>2
      <4>2. Id(v) \in Sessions
        BY <4>1, SourceOk DEF InUpsert
      <4>3. mine[v] \in 1 .. Len(log[Id(v)]) /\ Len(log[Id(v)]) \in Nat
        BY <4>1, <4>2 DEF Committed
      <4>4. CASE Id(v) = s
        BY <2>1, <2>2, <4>1, <4>3, <4>4 DEF Id
      <4>5. CASE Id(v) # s
        <5>1. log'[Id(v)] = log[Id(v)]
          BY <2>1, <4>2, <4>5
        <5>2. IdOf[source'[v]] = Id(v)
          BY <4>1 DEF Id
        <5> QED
          BY <4>1, <4>3, <5>1, <5>2
      <4> QED
        BY <4>4, <4>5
    <3> QED
      BY <3>1, <3>2
  <2> QED
    BY <2>3, <2>5 DEF Committed, Id
<1>2. ASSUME UNCHANGED <<row, log, mine>>,
             \A u \in Callers : at'[u] = "read" => at[u] = "read" /\ source'[u] = source[u]
      PROVE LastCommitted' /\ Committed'
  BY <1>2 DEF LastCommitted, Committed, Id
<1>3. ASSUME NEW r \in Reqs, Accept(r) PROVE LastCommitted' /\ Committed'
  BY <1>2, <1>3 DEF Accept, Callers
<1>4. ASSUME NEW u \in Callers, Count(u) \/ ReadBack(u) \/ SqlFails(u)
      PROVE LastCommitted' /\ Committed'
  BY <1>2, <1>4 DEF Count, ReadBack, SqlFails
<1>5. ASSUME NEW p \in Paths, ScanPath(p) PROVE LastCommitted' /\ Committed'
  BY <1>2, <1>5 DEF ScanPath
<1>6. CASE ScanStart \/ ScanEnd
  BY <1>2, <1>6 DEF ScanStart, ScanEnd
<1>7. CASE UNCHANGED <<row, log, mine, at, source>>
  BY <1>2, <1>7
<1> QED
  BY <1>1, <1>3, <1>4, <1>5, <1>6, <1>7 DEF Next, Refuse, vars

\* A caller that is about to read back finds a row.
LEMMA OwnCommitStored ==
    ASSUME TypeOK, Sourced, LastCommitted, Committed, NEW u \in Callers, at[u] = "read"
    PROVE  row[Id(u)] # NoRow
<1>1. Id(u) \in Sessions
  BY SourceOk DEF InUpsert
<1>2. log[Id(u)] \in Seq(Sources) /\ Len(log[Id(u)]) \in 1 .. Len(log[Id(u)])
  BY <1>1 DEF TypeOK, Committed
<1>3. row[Id(u)] = log[Id(u)][Len(log[Id(u)])]
  BY <1>1, <1>2 DEF LastCommitted
<1>4. row[Id(u)] \in Sources
  BY <1>2, <1>3
<1> QED
  BY <1>4, IngestAssumption

-----------------------------------------------------------------------------
(* Requests *)

\* An answered request is over, and commits of others only make the log longer.
LEMMA AnswerStep ==
    TypeOK /\ Sourced /\ LastCommitted /\ Committed /\ AnswerNotOlder /\ [Next]_vars
        => AnswerNotOlder'
<1> SUFFICES ASSUME TypeOK, Sourced, LastCommitted, Committed, AnswerNotOlder, [Next]_vars,
                    NEW r \in Reqs, answer'[r] \in {"200", "201"}
             PROVE  /\ mine'[r] > 0
                    /\ \E i \in mine'[r] .. Len(log'[IdOf[r]]) : log'[IdOf[r]][i] = out'[r]
  BY DEF AnswerNotOlder
<1> USE IngestAssumption DEF TypeOK, Callers, upsert, scanner, history
<1>1. r \in Callers /\ r # Scan /\ IdOf[r] \in Sessions /\ Len(log[IdOf[r]]) \in Nat
  BY DEF Sources
<1>2. CASE at[r] = "read" /\ ReadBack(r)
  <2>1. source[r] = r /\ Id(r) = IdOf[r] /\ mine[r] \in 1 .. Len(log[IdOf[r]])
    BY <1>1, <1>2 DEF Sourced, Committed, Id
  <2>2. out'[r] = log[IdOf[r]][Len(log[IdOf[r]])] /\ log' = log /\ mine' = mine
    BY <1>1, <1>2, <2>1 DEF ReadBack, LastCommitted
  <2> QED
    BY <1>1, <2>1, <2>2
<1>3. CASE answer[r] \in {"200", "201"} /\ UNCHANGED <<log, mine[r], out[r]>>
  BY <1>3 DEF AnswerNotOlder
<1>4. ASSUME NEW u \in Callers, Upsert(u), answer[r] \in {"200", "201"}
      PROVE  /\ mine'[r] > 0
             /\ \E i \in mine'[r] .. Len(log'[IdOf[r]]) : log'[IdOf[r]][i] = out'[r]
  <2>1. u # r
    BY <1>4 DEF Sourced, Upsert, NoAnswer
  <2>2. mine'[r] = mine[r] /\ out'[r] = out[r]
    BY <1>1, <1>4, <2>1 DEF Upsert
  <2>3. PICK i \in mine[r] .. Len(log[IdOf[r]]) : log[IdOf[r]][i] = out[r]
    BY <1>4 DEF AnswerNotOlder
  <2>4. mine[r] > 0 /\ mine[r] \in Nat
    BY <1>1, <1>4 DEF AnswerNotOlder
  <2>5. i \in mine[r] .. Len(log'[IdOf[r]]) /\ log'[IdOf[r]][i] = log[IdOf[r]][i]
    <3>1. CASE IdOf[r] = Id(u)
      BY <1>1, <1>4, <2>3, <2>4, <3>1, Commits
    <3>2. CASE IdOf[r] # Id(u)
      BY <1>1, <1>4, <2>3, <3>2, Commits
    <3> QED
      BY <3>1, <3>2
  <2> QED
    BY <2>2, <2>3, <2>4, <2>5
<1>5. ASSUME NEW u \in Callers, u # r, ReadBack(u) PROVE answer[r] \in {"200", "201"} /\ UNCHANGED <<log, mine[r], out[r]>>
  BY <1>1, <1>5 DEF ReadBack
<1>6. ASSUME NEW u \in Callers, SqlFails(u) PROVE answer[r] \in {"200", "201"} /\ UNCHANGED <<log, mine[r], out[r]>>
  BY <1>1, <1>6 DEF SqlFails
<1>7. ASSUME NEW q \in Reqs, NEW status \in {"400", "429"}, Refuse(q, status)
      PROVE answer[r] \in {"200", "201"} /\ UNCHANGED <<log, mine[r], out[r]>>
  BY <1>1, <1>7 DEF Refuse
<1>8. CASE UNCHANGED <<answer, log, mine, out>>
  BY <1>3, <1>8
<1>9. ASSUME NEW u \in Callers, Upsert(u) PROVE answer[r] \in {"200", "201"}
  BY <1>9 DEF Upsert
<1> QED
  BY <1>1, <1>2, <1>3, <1>4, <1>5, <1>6, <1>7, <1>8, <1>9
     DEF Next, Accept, Count, ReadBack, ScanStart, ScanPath, ScanEnd, vars

\* A COUNT that found a row was right and stays right.
LEMMA SeenStep == TypeOK /\ Sourced /\ SeenStored /\ [Next]_vars => SeenStored'
<1> SUFFICES ASSUME TypeOK, Sourced, SeenStored, [Next]_vars PROVE SeenStored'
  OBVIOUS
<1> USE DEF TypeOK, upsert, scanner, history
<1>1. ASSUME NEW u \in Callers, Count(u) PROVE SeenStored'
  BY <1>1 DEF Count, SeenStored, Present, Id
<1>2. ASSUME NEW u \in Callers, Upsert(u) PROVE SeenStored'
  <2>1. ASSUME NEW v \in Callers, at'[v] = "upsert", seen'[v]
        PROVE row'[IdOf[source'[v]]] # NoRow
    <3>1. at[v] = "upsert" /\ seen[v] /\ source'[v] = source[v]
      BY <1>2, <2>1 DEF Upsert
    <3>2. Id(v) \in Sessions /\ row[Id(v)] # NoRow
      BY <3>1, SourceOk DEF SeenStored, InUpsert
    <3> QED
      BY <3>1, <3>2, RowsStay DEF Id
  <2> QED
    BY <2>1 DEF SeenStored, Id
<1>3. ASSUME row' = row,
             \A u \in Callers : at'[u] = "upsert" =>
                 at[u] = "upsert" /\ source'[u] = source[u] /\ seen'[u] = seen[u]
      PROVE SeenStored'
  BY <1>3 DEF SeenStored, Id
<1>4. ASSUME NEW r \in Reqs, Accept(r) PROVE SeenStored'
  BY <1>3, <1>4 DEF Accept, Callers
<1>5. ASSUME NEW u \in Callers, ReadBack(u) \/ SqlFails(u) PROVE SeenStored'
  BY <1>3, <1>5 DEF ReadBack, SqlFails
<1>6. ASSUME NEW p \in Paths, ScanPath(p) PROVE SeenStored'
  BY <1>3, <1>6 DEF ScanPath
<1>7. CASE ScanStart \/ ScanEnd
  BY <1>3, <1>7 DEF ScanStart, ScanEnd
<1>8. CASE UNCHANGED <<row, at, source, seen>>
  BY <1>3, <1>8
<1> QED
  BY <1>1, <1>2, <1>4, <1>5, <1>6, <1>7, <1>8 DEF Next, Refuse, vars

\* Whoever was told stays told: an answer is final, and only the read back, or its
\* failure, answers a request that has committed.
LEMMA ToldStays ==
    ASSUME TypeOK, Sourced, [Next]_vars, NEW x \in Sources, Told(x)
    PROVE  Told(x)'
<1> USE IngestAssumption DEF TypeOK, upsert, scanner, history
<1>0. x \in Paths => Told(x)'
  BY DEF Told
<1> SUFFICES ASSUME x \in Reqs, x \notin Paths PROVE Told(x)'
  BY <1>0 DEF Sources
<1>a. x \in Callers /\ x # Scan /\ faults \in Nat
  BY DEF Callers
<1>b. at[x] = "read" \/ (at[x] = "idle" /\ answer[x] # NoAnswer)
  <2>1. at[x] # "idle" => answer[x] = NoAnswer
    BY DEF Sourced
  <2>2. at[x] = "read" \/ answer[x] = "201" \/ answer[x] = "500"
    BY Zenon DEF Told
  <2>3. answer[x] = "201" \/ answer[x] = "500" => answer[x] # NoAnswer
    BY DEF NoAnswer
  <2> QED
    BY Zenon, <2>1, <2>2, <2>3
<1>1. ASSUME UNCHANGED <<at[x], seen[x], answer[x]>>, faults' \in {faults, faults + 1}
      PROVE Told(x)'
  BY <1>a, <1>1 DEF Told
<1>2. ASSUME NEW r \in Reqs, Accept(r) PROVE Told(x)'
  <2>1. r # x
    BY <1>b, <1>2 DEF Accept
  <2> QED
    BY <1>1, <1>2, <2>1 DEF Accept, Callers
<1>3. ASSUME NEW r \in Reqs, NEW status \in {"400", "429"}, Refuse(r, status) PROVE Told(x)'
  <2>1. r # x
    BY <1>b, <1>3 DEF Refuse
  <2> QED
    BY <1>1, <1>3, <2>1 DEF Refuse
<1>4. ASSUME NEW u \in Callers, Count(u) \/ Upsert(u) PROVE Told(x)'
  <2>1. u # x
    BY <1>b, <1>4 DEF Count, Upsert
  <2>2. at'[x] = at[x] /\ seen'[x] = seen[x]
    BY <1>a, <1>4, <2>1 DEF Count, Upsert
  <2>3. answer'[x] = answer[x] /\ faults' = faults
    BY <1>4 DEF Count, Upsert
  <2> QED
    BY <1>1, <2>2, <2>3
<1>5. ASSUME NEW u \in Callers, ReadBack(u) PROVE Told(x)'
  <2>1. CASE u = x
    <3>1. at[x] = "read" /\ answer[x] = NoAnswer
      BY <1>5, <2>1 DEF ReadBack, Sourced
    <3>2. ~seen[x]
      BY <3>1 DEF Told, NoAnswer
    <3>3. answer'[x] = "201"
      BY <1>a, <1>5, <2>1, <3>2 DEF ReadBack
    <3> QED
      BY <3>3 DEF Told
  <2>2. CASE u # x
    BY <1>1, <1>a, <1>5, <2>2 DEF ReadBack
  <2> QED
    BY <2>1, <2>2
<1>6. ASSUME NEW u \in Callers, SqlFails(u) PROVE Told(x)'
  <2>1. CASE u = x
    <3>1. at[x] = "read"
      BY <1>6, <1>b, <2>1 DEF SqlFails
    <3>2. faults' = faults + 1 /\ answer'[x] = "500"
      BY <1>a, <1>6, <2>1, <3>1 DEF SqlFails, Busy, Fault
    <3>3. faults' > 0
      BY <1>a, <3>2
    <3> QED
      BY <3>2, <3>3 DEF Told
  <2>2. CASE u # x
    <3>1. UNCHANGED <<at[x], seen[x], answer[x]>>
      BY <1>a, <1>6, <2>2 DEF SqlFails
    <3>2. faults' \in {faults, faults + 1}
      BY <1>6 DEF SqlFails, Fault
    <3> QED
      BY <1>1, <3>1, <3>2
  <2> QED
    BY <2>1, <2>2
<1>7. CASE ScanStart \/ ScanEnd
  BY <1>1, <1>a, <1>7 DEF ScanStart, ScanEnd
<1>8. ASSUME NEW p \in Paths, ScanPath(p) PROVE Told(x)'
  <2>1. UNCHANGED <<at[x], seen[x], answer[x]>>
    BY <1>a, <1>8 DEF ScanPath
  <2>2. faults' \in {faults, faults + 1}
    BY <1>8 DEF ScanPath, Fault
  <2> QED
    BY <1>1, <2>1, <2>2
<1>9. CASE UNCHANGED vars
  BY <1>1, <1>9 DEF vars
<1> QED
  BY <1>2, <1>3, <1>4, <1>5, <1>6, <1>7, <1>8, <1>9 DEF Next

\* The writer of a first commit found no row, since the store was empty.
LEMMA ToldStep ==
    TypeOK /\ Sourced /\ LastCommitted /\ SeenStored /\ CreatorsTold /\ [Next]_vars
        => CreatorsTold'
<1> SUFFICES ASSUME TypeOK, Sourced, LastCommitted, SeenStored, CreatorsTold, [Next]_vars,
                    NEW s \in Sessions, log'[s] # <<>>
             PROVE  Told(log[s][1])'
  BY DEF CreatorsTold
<1>0. log[s] \in Seq(Sources)
  BY DEF TypeOK
<1>a. PICK x : x = log'[s][1]
  OBVIOUS
<1>b. Told(log[s][1])' <=> Told(x)'
  BY <1>a DEF Told
<1>1. CASE log[s] # <<>>
  <2>1. log[s][1] \in Sources /\ 1 \in 1 .. Len(log[s])
    BY <1>0, <1>1
  <2>2. log'[s][1] = log[s][1]
    <3>1. ASSUME NEW u \in Callers, Upsert(u) PROVE log'[s][1] = log[s][1]
      BY <2>1, <3>1, Commits
    <3>2. CASE log' = log
      BY <3>2
    <3> QED
      BY <3>1, <3>2 DEF Next, Accept, Refuse, Count, ReadBack, SqlFails, ScanStart, ScanPath,
         ScanEnd, vars, history
  <2>3. Told(log[s][1])
    BY <1>1 DEF CreatorsTold
  <2>4. x \in Sources /\ Told(x)
    BY <1>a, <2>1, <2>2, <2>3
  <2> QED
    BY <1>b, <2>4, ToldStays
<1>2. CASE log[s] = <<>>
  <2>1. PICK u \in Callers : Upsert(u)
    BY <1>2 DEF Next, Accept, Refuse, Count, ReadBack, SqlFails, ScanStart, ScanPath,
       ScanEnd, vars, history
  <2>2. s = Id(u)
    BY <1>2, <2>1, Commits
  <2>3. log'[s][1] = source[u]
    BY <1>2, <2>1, <2>2, Commits
  <2>4. CASE u = Scan
    <3>1. source[u] \in Paths
      BY <2>1, <2>4 DEF Sourced, InUpsert, Upsert
    <3> QED
      BY <1>a, <1>b, <2>3, <3>1 DEF Told
  <2>5. CASE u \in Reqs
    <3>1. source[u] = u /\ at[u] = "upsert"
      BY <2>1, <2>5 DEF Sourced, Upsert
    <3>2. row[s] = NoRow
      BY <1>2 DEF LastCommitted
    <3>3. ~seen[u]
      BY <2>2, <3>1, <3>2 DEF SeenStored
    <3>4. at'[u] = "read" /\ seen' = seen
      BY <2>1 DEF Upsert, TypeOK
    <3> QED
      BY <1>a, <1>b, <2>3, <3>1, <3>3, <3>4 DEF Told
  <2> QED
    BY <2>4, <2>5 DEF Callers
<1> QED
  BY <1>1, <1>2

-----------------------------------------------------------------------------
(* The scanner *)

\* Steps of requests leave the scanner alone.
LEMMA ScannerIdle ==
    ASSUME TypeOK, Sourced, NEW r \in Reqs,
           \/ Accept(r) \/ Count(r) \/ Upsert(r) \/ ReadBack(r) \/ SqlFails(r)
           \/ \E status \in {"400", "429"} : Refuse(r, status)
    PROVE  UNCHANGED <<scanner, at[Scan], source[Scan]>>
  BY IngestAssumption DEF TypeOK, Accept, Count, Upsert, ReadBack, SqlFails, Refuse, Callers,
     upsert, scanner

\* What the scanner knows is stored, and it writes what it does not know.
LEMMA KnownStep ==
    TypeOK /\ Sourced /\ LastCommitted /\ Committed /\ KnownStored /\ WritesUnknown
        /\ [Next]_vars => KnownStored' /\ WritesUnknown'
<1> SUFFICES ASSUME TypeOK, Sourced, LastCommitted, Committed, KnownStored, WritesUnknown,
                    [Next]_vars
             PROVE KnownStored' /\ WritesUnknown'
  OBVIOUS
<1> USE IngestAssumption DEF TypeOK, upsert, scanner, history
<1>1. \A s \in known : s \in Sessions /\ row'[s] # NoRow
  BY RowsStay DEF KnownStored
<1>2. ASSUME NEW r \in Reqs,
             \/ Accept(r) \/ Count(r) \/ Upsert(r) \/ ReadBack(r) \/ SqlFails(r)
             \/ \E status \in {"400", "429"} : Refuse(r, status)
      PROVE KnownStored' /\ WritesUnknown'
  BY <1>1, <1>2, ScannerIdle DEF KnownStored, WritesUnknown, Id
<1>3. CASE Count(Scan) \/ Upsert(Scan) \/ SqlFails(Scan)
  BY <1>1, <1>3 DEF Count, Upsert, SqlFails, KnownStored, WritesUnknown, Id, Callers
<1>4. CASE ReadBack(Scan)
  <2>1. Scan \in Callers /\ Id(Scan) \in Sessions
    BY <1>4, SourceOk DEF ReadBack, InUpsert, Callers
  <2>2. row[Id(Scan)] # NoRow
    BY <1>4, <2>1, OwnCommitStored DEF ReadBack
  <2>3. KnownStored'
    BY <1>1, <1>4, <2>1, <2>2 DEF ReadBack, Mark, KnownStored
  <2>4. WritesUnknown'
    BY <1>4, <2>1 DEF ReadBack, WritesUnknown
  <2> QED
    BY <2>3, <2>4
<1>5. CASE ScanStart \/ ScanEnd
  BY <1>1, <1>5 DEF ScanStart, ScanEnd, KnownStored, WritesUnknown, Callers
<1>6. ASSUME NEW p \in Paths, ScanPath(p) PROVE KnownStored' /\ WritesUnknown'
  <2>1. known' = known /\ row' = row
    BY <1>6 DEF ScanPath, MarkEmpty
  <2>2. \/ at' = at /\ source' = source
        \/ IdOf[p] \notin known /\ source' = [source EXCEPT ![Scan] = p]
    BY <1>6 DEF ScanPath
  <2>3. WritesUnknown'
    BY <1>6, <2>1, <2>2 DEF ScanPath, WritesUnknown, Id, Callers
  <2> QED
    BY <2>1, <2>3 DEF KnownStored
<1>7. CASE UNCHANGED vars
  BY <1>7 DEF vars, KnownStored, WritesUnknown, Id
<1> QED
  BY <1>2, <1>3, <1>4, <1>5, <1>6, <1>7 DEF Next, Callers

\* A transcript leaves the list only when its session is stored, or is written
\* next; it stays unwritten only with a failure.
LEMMA CoveredStep ==
    TypeOK /\ Sourced /\ LastCommitted /\ Committed /\ KnownStored /\ Covered /\ [Next]_vars
        => Covered'
<1> SUFFICES ASSUME TypeOK, Sourced, LastCommitted, Committed, KnownStored, Covered,
                    [Next]_vars
             PROVE Covered'
  OBVIOUS
<1> USE IngestAssumption DEF TypeOK, Sources, upsert, scanner, history
<1>1. \A s \in Sessions : row[s] # NoRow => row'[s] # NoRow
  BY RowsStay
<1>2. ASSUME NEW r \in Reqs,
             \/ Accept(r) \/ Count(r) \/ Upsert(r) \/ ReadBack(r) \/ SqlFails(r)
             \/ \E status \in {"400", "429"} : Refuse(r, status)
      PROVE Covered'
  BY <1>1, <1>2, ScannerIdle DEF Covered, InUpsert
<1>3. CASE Count(Scan) \/ Upsert(Scan)
  BY <1>1, <1>3 DEF Count, Upsert, Covered, InUpsert, Callers
<1>4. CASE ReadBack(Scan)
  <2>1. Scan \in Callers /\ Id(Scan) \in Sessions
    BY <1>4, SourceOk DEF ReadBack, InUpsert, Callers
  <2>2. row[Id(Scan)] # NoRow
    BY <1>4, <2>1, OwnCommitStored DEF ReadBack
  <2> QED
    BY <1>1, <1>4, <2>1, <2>2 DEF ReadBack, Covered, InUpsert, Id
<1>5. CASE SqlFails(Scan)
  BY <1>5 DEF SqlFails, Covered, Callers
<1>6. CASE ScanStart
  BY <1>6 DEF ScanStart, Covered, Callers
<1>7. ASSUME NEW p \in Paths, ScanPath(p) PROVE Covered'
  <2>1. at[Scan] = "loop" /\ todo' = todo \ {p} /\ row' = row /\ scans' = scans
    BY <1>7 DEF ScanPath
  <2>2. IdOf[p] \in known => row[IdOf[p]] # NoRow
    BY DEF KnownStored
  <2>3. \/ failed' = TRUE /\ at' = at
        \/ failed' = failed /\ at' = at /\ (row[IdOf[p]] # NoRow \/ p \in Empty)
        \/ /\ failed' = failed /\ at' = [at EXCEPT ![Scan] = "count"]
           /\ source' = [source EXCEPT ![Scan] = p]
    BY <1>7, <2>2 DEF ScanPath
  <2> QED
    BY <2>1, <2>3 DEF Covered, InUpsert, Callers
<1>8. CASE ScanEnd
  BY <1>8 DEF ScanEnd, Covered, InUpsert, Callers
<1>9. CASE UNCHANGED vars
  BY <1>9 DEF vars, Covered, InUpsert
<1> QED
  BY <1>2, <1>3, <1>4, <1>5, <1>6, <1>7, <1>8, <1>9 DEF Next, Callers

\* The scanner writes a session it does not know, and then knows it.
LEMMA WrittenStep ==
    TypeOK /\ Sourced /\ WritesUnknown /\ WrittenKnown /\ OneWritePerScan /\ [Next]_vars
        => WrittenKnown' /\ OneWritePerScan'
<1> SUFFICES ASSUME TypeOK, Sourced, WritesUnknown, WrittenKnown, OneWritePerScan, [Next]_vars
             PROVE WrittenKnown' /\ OneWritePerScan'
  OBVIOUS
<1> USE IngestAssumption DEF TypeOK, upsert, scanner, history
<1>1. ASSUME NEW r \in Reqs,
             \/ Accept(r) \/ Count(r) \/ Upsert(r) \/ ReadBack(r) \/ SqlFails(r)
             \/ \E status \in {"400", "429"} : Refuse(r, status)
      PROVE WrittenKnown' /\ OneWritePerScan'
  BY <1>1, ScannerIdle DEF WrittenKnown, OneWritePerScan
<1>2. CASE Count(Scan)
  BY <1>2 DEF Count, WrittenKnown, OneWritePerScan, Callers
<1>3. CASE Upsert(Scan)
  BY <1>3 DEF Upsert, WrittenKnown, OneWritePerScan, WritesUnknown, Id, Callers
<1>4. CASE ReadBack(Scan)
  BY <1>4 DEF ReadBack, Mark, WrittenKnown, OneWritePerScan, Id, Callers
<1>5. CASE SqlFails(Scan)
  BY <1>5 DEF SqlFails, WrittenKnown, OneWritePerScan
<1>6. CASE ScanStart
  BY <1>6 DEF ScanStart, WrittenKnown, OneWritePerScan
<1>7. ASSUME NEW p \in Paths, ScanPath(p) PROVE WrittenKnown' /\ OneWritePerScan'
  BY <1>7 DEF ScanPath, MarkEmpty, WrittenKnown, OneWritePerScan
<1>8. CASE ScanEnd
  BY <1>8 DEF ScanEnd, WrittenKnown, OneWritePerScan
<1>9. CASE UNCHANGED vars
  BY <1>9 DEF vars, WrittenKnown, OneWritePerScan
<1> QED
  BY <1>1, <1>2, <1>3, <1>4, <1>5, <1>6, <1>7, <1>8, <1>9 DEF Next, Callers

-----------------------------------------------------------------------------
(* The theorems *)

\* IInv holds in every reachable state.
LEMMA Inductive == Spec => []IInv
<1>1. Init => IInv
  <2> SUFFICES ASSUME Init PROVE IInv
    OBVIOUS
  <2> USE IngestAssumption DEF Init
  <2>1. TypeOK
    <3>1. log \in [Sessions -> Seq(Sources)] /\ scans \in 0 .. MaxScans /\ faults \in 0 .. MaxFaults
      OBVIOUS
    <3> QED
      BY <3>1 DEF TypeOK
  <2>2. Sourced /\ LastCommitted /\ Committed /\ SeenStored
    BY DEF Sourced, LastCommitted, Committed, SeenStored, InUpsert, Callers
  <2>3. KnownStored /\ WritesUnknown /\ Covered /\ WrittenKnown
    BY DEF KnownStored, WritesUnknown, Covered, WrittenKnown, Callers
  <2>4. AnswerNotOlder /\ CreatorsTold /\ OneWritePerScan
    BY DEF AnswerNotOlder, CreatorsTold, OneWritePerScan, NoAnswer
  <2> QED
    BY <2>1, <2>2, <2>3, <2>4 DEF IInv
<1>2. IInv /\ [Next]_vars => IInv'
  BY TypeStep, SourcedStep, StoreStep, AnswerStep, SeenStep, ToldStep, KnownStep, CoveredStep,
     WrittenStep DEF IInv
<1> QED
  BY <1>1, <1>2, PTL DEF Spec

\* The variables keep their types: the scanner remembers ids, not paths.
THEOREM TypeCorrect == Spec => []TypeOK
  BY Inductive, PTL DEF IInv

\* An accepted event is in the store, and its client is answered with its own
\* row or a newer one.
THEOREM AcceptedIsStored == Spec => []AnswerNotOlder
  BY Inductive, PTL DEF IInv

\* The client that creates a row is never told that it updated one; only a failed
\* read back (GetSession of UpsertSession) or the scanner leaves the insert untold.
THEOREM InsertNotHidden == Spec => []CreatorIsTold
<1>1. IInv => CreatorIsTold
  BY DEF IInv, CreatorsTold, Told, CreatorIsTold
<1> QED
  BY <1>1, Inductive, PTL

\* A scan without a failure leaves no transcript without its session.
THEOREM ScanClosesGap == Spec => []GapClosed
<1>1. IInv => GapClosed
  BY DEF IInv, Covered, GapClosed, InUpsert
<1> QED
  BY <1>1, Inductive, PTL

\* A scan without a failure writes each session at most once.
THEOREM ScanWritesOnce == Spec => []OneWritePerScan
  BY Inductive, PTL DEF IInv
=============================================================================
