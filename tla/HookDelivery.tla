---------------------------- MODULE HookDelivery ----------------------------
(* Delivery of session events by the Stop hook (cmd/sessionlens-hook).      *)
(*                                                                          *)
(* Every finished Claude Code turn starts one hook process.  The process    *)
(* first drains the buffer directory it shares with all other hook          *)
(* processes, then parses its own transcript into an event and posts it,    *)
(* and falls back to writing the event into the buffer.  Each action below  *)
(* is one system call of one process (a glob, a rename, a remove, one HTTP  *)
(* attempt), so any two processes interleave between any two calls.         *)
(*                                                                          *)
(* An event is the number of the parse that produced it: of two events of   *)
(* one session the greater one was parsed later and has the larger totals.  *)
EXTENDS Naturals, FiniteSets

CONSTANTS
    Hooks,      \* process slots: one live hook each, reused after exit (pids)
    Sessions,   \* Claude Code sessions
    MaxEvents,  \* bound: events parsed in a behaviour
    SessionOf,  \* the session an event reports on
    Cap,        \* bufferCap
    Attempts,   \* len(retryBackoff)+1
    Refused,    \* events whose body the server always answers with a 4xx
    MaxFaults   \* bound: crashes and disk faults in a behaviour

Events == 1 .. MaxEvents
NoEvent == 0

\* Where the file of an event is.  A claimed file "<name>.json.processing-<pid>"
\* is at the place named by its owner's slot.
NotAFile == "none"
JsonFile == "json"
MutTmpIsJson == JsonFile   \* mutation: write in place, without ".tmp"
TmpFile == "tmp"
Places == {NotAFile, TmpFile, JsonFile} \cup Hooks

ASSUME HookAssumption ==
    /\ MaxEvents \in Nat
    /\ Cap \in Nat \ {0}
    /\ Attempts \in Nat \ {0}
    /\ MaxFaults \in Nat
    /\ SessionOf \in [Events -> Sessions]
    /\ Refused \subseteq Events
    /\ Hooks \cap {NotAFile, TmpFile, JsonFile} = {}

VARIABLES
    pc,        \* the next call of each process; "idle": no process in the slot
    ev,        \* the event the process parsed and has not handed over yet
    cur,       \* the buffered event the process is draining
    stale,     \* claims it globbed and still has to rename back
    todo,      \* buffer files it globbed and still has to try
    victims,   \* buffer files it chose to evict and has not removed yet
    tries,     \* failed attempts of the running postWithRetry
    dir,       \* the place of each event's file
    stamp,     \* its name: UnixNano at the write, the sort key of a glob
    clock,     \* number of names given out
    built,     \* number of events parsed
    store,     \* the server's row of each session, as the event it came from
    inflight,  \* bodies whose client gave up but which the server may commit
    up,        \* the server answers normally
    faults,    \* crashes and disk faults so far
    delivered, \* history: events the server committed at least once
    forgone    \* history: events evicted, or lost in a crash or disk fault

local == <<pc, ev, cur, stale, todo, victims, tries>>
files == <<dir, stamp, clock>>
server == <<store, inflight, delivered>>
vars == <<local, files, server, built, up, faults, forgone>>

-----------------------------------------------------------------------------
(* Helpers *)

JsonFiles == {e \in Events : dir[e] = JsonFile}
Claimed == {e \in Events : dir[e] \in Hooks}
Buffered == JsonFiles \cup Claimed

\* Glob returns names in ascending order, and a name starts with its time.
IsOldest(e, S) == e \in S /\ \A f \in S : stamp[e] <= stamp[f]
MutNewestOf(S, n) == {e \in S : Cardinality({f \in S : stamp[f] > stamp[e]}) < n}
OldestOf(S, n) == {e \in S : Cardinality({f \in S : stamp[f] < stamp[e]}) < n}

\* How many of n files writeBuffer removes before it adds one.
MutToRemove(n) == IF n > Cap THEN n - Cap ELSE 0   \* mutation: no room for the new one
ToRemove(n) == IF n >= Cap THEN n - Cap + 1 ELSE 0

\* The claims, of whatever process, that a starting drain globs.
MutNoClaims == {}   \* mutation: the drain does not reclaim
StaleClaims == {f \in Events \X Hooks : dir[f[1]] = f[2]}

PostPcs == {"drainPost", "post"}
DrainPcs == {"load", "drainPost", "remove", "putBack"}
OwnPcs == {"post", "buffer", "evict", "rename"}
Pcs == {"idle", "reclaim", "claim"} \cup DrainPcs \cup OwnPcs

\* The body being posted.
Posting(h) == IF pc[h] = "drainPost" THEN cur[h] ELSE ev[h]

\* What one attempt can come to.  "timeout": the client gave up, or saw a 5xx,
\* while the server may yet commit; "4xx": a 400, or the limiter's 429.
Outcomes(e) ==
    IF up THEN (IF e \in Refused THEN {"4xx"} ELSE {"ok"})
          ELSE {"4xx", "fail"} \cup (IF e \in Refused THEN {} ELSE {"timeout"})

\* The server upserts the row of e's session.
Commit(e) ==
    /\ store' = [store EXCEPT ![SessionOf[e]] = e]
    /\ delivered' = delivered \cup {e}

\* Whether postWithRetry goes on after an attempt of h that came to o.
MutRetries(h, o) == o \in {"timeout", "fail"} /\ tries[h] < Attempts   \* mutation
Retries(h, o) == o \in {"timeout", "fail"} /\ tries[h] + 1 < Attempts

\* What the drain does with a file after postWithRetry.
MutAfterDrain(o) == IF o \in {"ok", "4xx"} THEN "remove" ELSE "putBack"   \* mutation
AfterDrain(o) == IF o = "ok" THEN "remove" ELSE "putBack"

\* os.Rename / os.Remove of h's claim; a claim renamed away makes it fail.
MutMoveClaim(h, place) ==   \* mutation: the error path forgets the rename back
    dir' = IF place = NotAFile THEN [dir EXCEPT ![cur[h]] = place] ELSE dir
MoveClaim(h, place) ==
    dir' = IF dir[cur[h]] = h THEN [dir EXCEPT ![cur[h]] = place] ELSE dir

Fault == faults < MaxFaults /\ faults' = faults + 1

-----------------------------------------------------------------------------
(* One hook process *)

\* main and run begin: drainBuffer globs the claims of other processes.
Start(h) ==
    /\ pc[h] = "idle"
    /\ pc' = [pc EXCEPT ![h] = "reclaim"]
    /\ stale' = [stale EXCEPT ![h] = StaleClaims]
    /\ UNCHANGED <<ev, cur, todo, victims, tries,
                   files, server, built, up, faults, forgone>>

\* Rename one globbed claim back to its ".json" name, whoever owns it now.
Reclaim(h) ==
    /\ pc[h] = "reclaim"
    /\ \E f \in stale[h] :
        /\ IsOldest(f[1], {g[1] : g \in stale[h]})
        /\ stale' = [stale EXCEPT ![h] = @ \ {f}]
        /\ dir' = IF dir[f[1]] = f[2] THEN [dir EXCEPT ![f[1]] = JsonFile] ELSE dir
    /\ UNCHANGED <<pc, ev, cur, todo, victims, tries, stamp, clock,
                   server, built, up, faults, forgone>>

\* Glob the buffer once; the loop below works on this snapshot.
GlobBuffer(h) ==
    /\ pc[h] = "reclaim" /\ stale[h] = {}
    /\ pc' = [pc EXCEPT ![h] = "claim"]
    /\ todo' = [todo EXCEPT ![h] = JsonFiles]
    /\ UNCHANGED <<ev, cur, stale, victims, tries,
                   files, server, built, up, faults, forgone>>

\* Rename the next file to this process's claim; skip it if it is gone.
Claim(h) ==
    /\ pc[h] = "claim"
    /\ \E e \in todo[h] :
        /\ IsOldest(e, todo[h])
        /\ todo' = [todo EXCEPT ![h] = @ \ {e}]
        /\ IF dir[e] = JsonFile
           THEN /\ dir' = [dir EXCEPT ![e] = h]
                /\ cur' = [cur EXCEPT ![h] = e]
                /\ pc' = [pc EXCEPT ![h] = "load"]
           ELSE UNCHANGED <<dir, cur, pc>>
    /\ UNCHANGED <<ev, stale, victims, tries, stamp, clock,
                   server, built, up, faults, forgone>>

\* os.ReadFile of the claim, which another process may have renamed away.
MutLoad(h) ==   \* mutation: delete the file as soon as it is read
    /\ pc[h] = "load"
    /\ MoveClaim(h, NotAFile)
    /\ pc' = [pc EXCEPT ![h] = IF dir[cur[h]] = h THEN "drainPost" ELSE "putBack"]
    /\ UNCHANGED <<ev, cur, stale, todo, victims, tries, stamp, clock,
                   server, built, up, faults, forgone>>
Load(h) ==
    /\ pc[h] = "load"
    /\ pc' = [pc EXCEPT ![h] = IF dir[cur[h]] = h THEN "drainPost" ELSE "putBack"]
    /\ UNCHANGED <<ev, cur, stale, todo, victims, tries,
                   files, server, built, up, faults, forgone>>

\* os.Remove of a file that was posted.
Remove(h) ==
    /\ pc[h] = "remove"
    /\ MoveClaim(h, NotAFile)
    /\ pc' = [pc EXCEPT ![h] = "claim"]
    /\ cur' = [cur EXCEPT ![h] = NoEvent]
    /\ UNCHANGED <<ev, stale, todo, victims, tries, stamp, clock,
                   server, built, up, faults, forgone>>

\* Rename a file that was not posted back for a later process.
MutPutBack(h) ==   \* mutation: try the file again at once
    /\ pc[h] = "putBack"
    /\ MoveClaim(h, JsonFile)
    /\ pc' = [pc EXCEPT ![h] = "claim"]
    /\ cur' = [cur EXCEPT ![h] = NoEvent]
    /\ todo' = [todo EXCEPT ![h] = @ \cup {cur[h]}]
    /\ UNCHANGED <<ev, stale, victims, tries, stamp, clock,
                   server, built, up, faults, forgone>>
PutBack(h) ==
    /\ pc[h] = "putBack"
    /\ MoveClaim(h, JsonFile)
    /\ pc' = [pc EXCEPT ![h] = "claim"]
    /\ cur' = [cur EXCEPT ![h] = NoEvent]
    /\ UNCHANGED <<ev, stale, todo, victims, tries, stamp, clock,
                   server, built, up, faults, forgone>>

\* The drain is over.  Read stdin and the transcript: an early return, or an
\* event of this turn.
ReadInput(h) ==
    /\ pc[h] = "claim" /\ todo[h] = {}
    /\ \/ pc' = [pc EXCEPT ![h] = "idle"] /\ UNCHANGED <<ev, built>>
       \/ /\ built < MaxEvents
          /\ built' = built + 1
          /\ ev' = [ev EXCEPT ![h] = built + 1]
          /\ pc' = [pc EXCEPT ![h] = "post"]
    /\ UNCHANGED <<cur, stale, todo, victims, tries,
                   files, server, up, faults, forgone>>

\* One attempt of postWithRetry.  Network errors and 5xx are retried; a 2xx, a
\* 4xx and the last failure return.  After a drained file the file is removed or
\* put back; after the process's own event it exits or buffers the event, which
\* it does on every error, a 4xx included.
Attempt(h) ==
    /\ pc[h] \in PostPcs
    /\ \E o \in Outcomes(Posting(h)) :
        /\ IF o = "ok" THEN Commit(Posting(h)) ELSE UNCHANGED <<store, delivered>>
        /\ inflight' = IF o = "timeout" THEN inflight \cup {Posting(h)} ELSE inflight
        /\ IF Retries(h, o)
           THEN /\ tries' = [tries EXCEPT ![h] = @ + 1]
                /\ UNCHANGED <<pc, ev>>
           ELSE /\ tries' = [tries EXCEPT ![h] = 0]
                /\ pc' = [pc EXCEPT ![h] =
                            IF @ = "drainPost"
                            THEN AfterDrain(o)
                            ELSE IF o = "ok" THEN "idle" ELSE "buffer"]
                /\ ev' = [ev EXCEPT ![h] = IF o = "ok" THEN NoEvent ELSE @]
    /\ UNCHANGED <<cur, stale, todo, victims, files, built, up, faults, forgone>>

\* writeBuffer globs the files and chooses the oldest to make room.
Buffer(h) ==
    /\ pc[h] = "buffer"
    /\ pc' = [pc EXCEPT ![h] = "evict"]
    /\ victims' = [victims EXCEPT ![h] =
                      OldestOf(JsonFiles, ToRemove(Cardinality(JsonFiles)))]
    /\ UNCHANGED <<ev, cur, stale, todo, tries,
                   files, server, built, up, faults, forgone>>

\* Remove one chosen file, if it still is where the glob saw it.
Evict(h) ==
    /\ pc[h] = "evict"
    /\ \E e \in victims[h] :
        /\ IsOldest(e, victims[h])
        /\ victims' = [victims EXCEPT ![h] = @ \ {e}]
        /\ IF dir[e] = JsonFile
           THEN /\ dir' = [dir EXCEPT ![e] = NotAFile]
                /\ forgone' = forgone \cup {e}
           ELSE UNCHANGED <<dir, forgone>>
    /\ UNCHANGED <<pc, ev, cur, stale, todo, tries, stamp, clock,
                   server, built, up, faults>>

\* Name the event's file and write it under a ".tmp" name no glob matches.
WriteTmp(h) ==
    /\ pc[h] = "evict" /\ victims[h] = {}
    /\ clock' = clock + 1
    /\ stamp' = [stamp EXCEPT ![ev[h]] = clock + 1]
    /\ dir' = [dir EXCEPT ![ev[h]] = TmpFile]
    /\ pc' = [pc EXCEPT ![h] = "rename"]
    /\ UNCHANGED <<ev, cur, stale, todo, victims, tries,
                   server, built, up, faults, forgone>>

\* Rename the written file to its ".json" name; the process exits.
Publish(h) ==
    /\ pc[h] = "rename"
    /\ dir' = [dir EXCEPT ![ev[h]] = JsonFile]
    /\ ev' = [ev EXCEPT ![h] = NoEvent]
    /\ pc' = [pc EXCEPT ![h] = "idle"]
    /\ UNCHANGED <<cur, stale, todo, victims, tries, stamp, clock,
                   server, built, up, faults, forgone>>

Step(h) ==
    \/ Reclaim(h) \/ GlobBuffer(h) \/ Claim(h) \/ Load(h) \/ Remove(h)
    \/ PutBack(h) \/ ReadInput(h) \/ Attempt(h) \/ Buffer(h) \/ Evict(h)
    \/ WriteTmp(h) \/ Publish(h)

-----------------------------------------------------------------------------
(* Faults and the server *)

\* The rename back of a globbed claim fails; its error is ignored.
ReclaimFails(h) ==
    /\ Fault /\ pc[h] = "reclaim"
    /\ \E f \in stale[h] :
        /\ IsOldest(f[1], {g[1] : g \in stale[h]})
        /\ stale' = [stale EXCEPT ![h] = @ \ {f}]
    /\ UNCHANGED <<pc, ev, cur, todo, victims, tries,
                   files, server, built, up, forgone>>

\* The claim of a file that is there fails: it is skipped like one that is gone.
ClaimFails(h) ==
    /\ Fault /\ pc[h] = "claim"
    /\ \E e \in todo[h] :
        /\ IsOldest(e, todo[h])
        /\ todo' = [todo EXCEPT ![h] = @ \ {e}]
    /\ UNCHANGED <<pc, ev, cur, stale, victims, tries,
                   files, server, built, up, forgone>>

\* The Remove of a file chosen for eviction fails; its error is ignored, and the
\* next one is removed all the same.
EvictFails(h) ==
    /\ Fault /\ pc[h] = "evict"
    /\ \E e \in victims[h] :
        /\ IsOldest(e, victims[h])
        /\ victims' = [victims EXCEPT ![h] = @ \ {e}]
    /\ UNCHANGED <<pc, ev, cur, stale, todo, tries,
                   files, server, built, up, forgone>>

\* os.ReadFile fails on a claim that is there: the file is renamed back.
ReadFails(h) ==
    /\ Fault /\ pc[h] = "load"
    /\ pc' = [pc EXCEPT ![h] = "putBack"]
    /\ UNCHANGED <<ev, cur, stale, todo, victims, tries,
                   files, server, built, up, forgone>>

\* The Remove or the rename back fails: the claim stays behind, and the error
\* is only logged.
ReleaseFails(h) ==
    /\ Fault /\ pc[h] \in {"remove", "putBack"}
    /\ pc' = [pc EXCEPT ![h] = "claim"]
    /\ cur' = [cur EXCEPT ![h] = NoEvent]
    /\ UNCHANGED <<ev, stale, todo, victims, tries,
                   files, server, built, up, forgone>>

\* MkdirAll, WriteFile or the last Rename of writeBuffer fails: the event is
\* logged as lost and the process exits.
WriteFails(h) ==
    /\ Fault
    /\ pc[h] \in {"buffer", "rename"} \/ (pc[h] = "evict" /\ victims[h] = {})
    /\ forgone' = forgone \cup {ev[h]}
    /\ ev' = [ev EXCEPT ![h] = NoEvent]
    /\ pc' = [pc EXCEPT ![h] = "idle"]
    /\ UNCHANGED <<cur, stale, todo, victims, tries, files, server, built, up>>

\* The process is killed, or panics into main's recover: memory is gone.
Crash(h) ==
    /\ Fault /\ pc[h] # "idle"
    /\ forgone' = IF ev[h] = NoEvent THEN forgone ELSE forgone \cup {ev[h]}
    /\ pc' = [pc EXCEPT ![h] = "idle"]
    /\ ev' = [ev EXCEPT ![h] = NoEvent]
    /\ cur' = [cur EXCEPT ![h] = NoEvent]
    /\ stale' = [stale EXCEPT ![h] = {}]
    /\ todo' = [todo EXCEPT ![h] = {}]
    /\ victims' = [victims EXCEPT ![h] = {}]
    /\ tries' = [tries EXCEPT ![h] = 0]
    /\ UNCHANGED <<files, server, built, up>>

\* The server goes down, hangs or limits, and comes back.
Flap ==
    /\ up' = ~up
    /\ UNCHANGED <<local, files, server, built, faults, forgone>>

\* A request its client gave up on is committed after all.
LateCommit(e) ==
    /\ e \in inflight
    /\ inflight' = inflight \ {e}
    /\ Commit(e)
    /\ UNCHANGED <<local, files, built, up, faults, forgone>>

Init ==
    /\ pc = [h \in Hooks |-> "idle"]
    /\ ev = [h \in Hooks |-> NoEvent]
    /\ cur = [h \in Hooks |-> NoEvent]
    /\ stale = [h \in Hooks |-> {}]
    /\ todo = [h \in Hooks |-> {}]
    /\ victims = [h \in Hooks |-> {}]
    /\ tries = [h \in Hooks |-> 0]
    /\ dir = [e \in Events |-> NotAFile]
    /\ stamp = [e \in Events |-> 0]
    /\ clock = 0
    /\ built = 0
    /\ store = [s \in Sessions |-> NoEvent]
    /\ inflight = {} /\ delivered = {} /\ forgone = {}
    /\ up \in BOOLEAN
    /\ faults = 0

Next ==
    \/ \E h \in Hooks :
        \/ Start(h) \/ Step(h)
        \/ ReclaimFails(h) \/ ClaimFails(h) \/ EvictFails(h)
        \/ ReadFails(h) \/ ReleaseFails(h) \/ WriteFails(h) \/ Crash(h)
    \/ Flap
    \/ \E e \in Events : LateCommit(e)

Spec == Init /\ [][Next]_vars

\* A process that runs is scheduled until it exits.
FairSpec == Spec /\ \A h \in Hooks : WF_vars(Step(h))

\* Turns keep finishing, so that a hook is started again and again.
BusySpec == FairSpec /\ \A h \in Hooks : WF_vars(Start(h))

-----------------------------------------------------------------------------
(* Properties *)

\* Every variable has its type, and what a process holds fits its pc.
TypeOK ==
    /\ pc \in [Hooks -> Pcs]
    /\ ev \in [Hooks -> Events \cup {NoEvent}]
    /\ cur \in [Hooks -> Events \cup {NoEvent}]
    /\ stale \in [Hooks -> SUBSET (Events \X Hooks)]
    /\ todo \in [Hooks -> SUBSET Events]
    /\ victims \in [Hooks -> SUBSET Events]
    /\ tries \in [Hooks -> 0 .. Attempts - 1]
    /\ dir \in [Events -> Places]
    /\ stamp \in [Events -> Nat]
    /\ clock \in Nat
    /\ built \in 0 .. MaxEvents
    /\ store \in [Sessions -> Events \cup {NoEvent}]
    /\ inflight \subseteq Events
    /\ delivered \subseteq Events
    /\ forgone \subseteq Events
    /\ up \in BOOLEAN
    /\ faults \in 0 .. MaxFaults
    /\ \A h \in Hooks : pc[h] \in OwnPcs <=> ev[h] # NoEvent
    /\ \A h \in Hooks : pc[h] \in DrainPcs <=> cur[h] # NoEvent

\* No event is lost silently: every event a hook parsed was committed, is in the
\* buffer where a later hook finds it, is in the memory of a running hook, or
\* was given up by an eviction, a crash or a disk fault.  It holds however many
\* hooks claim, reclaim, remove and evict the same files.
Accounted ==
    \A e \in 1 .. built :
        \/ e \in delivered \cup forgone \cup Buffered
        \/ \E h \in Hooks : ev[h] = e

\* The rename in writeBuffer keeps its promise: a process that drains a file
\* never drains one another process is still writing.
NoHalfWrittenRead ==
    \A g, h \in Hooks : pc[g] \in DrainPcs /\ pc[h] = "rename" => cur[g] # ev[h]

\* Without faults a claim has a live owner that will remove it or put it back,
\* even when other processes reclaim and re-claim it meanwhile; so only a crash
\* or a disk fault can leave a ".processing-" file behind.
ClaimsHaveOwners ==
    faults = 0 =>
        \A e \in Events, h \in Hooks : dir[e] = h => cur[h] = e

\* With one hook at a time the cap counts every file, claimed ones included: a
\* file outside it takes a crash, or a remove or rename that failed.
BufferWithinCap == Cardinality(Buffered) <= Cap + faults

\* With one hook at a time an unsent file is sacrificed only when the buffer is
\* full, and then the one that has waited longest; an older one that stays behind
\* takes a remove that failed.
EvictsOldestOfFull ==
    [][\A e \in Events :
        dir[e] = JsonFile /\ dir'[e] = NotAFile =>
            /\ Cardinality(JsonFiles) >= Cap
            /\ Cardinality({f \in JsonFiles : stamp[f] < stamp[e]}) <= faults]_vars

\* "only one process owns it at a time": no two processes are posting one file.
OneOwner ==
    \A g, h \in Hooks :
        g # h /\ pc[g] = "drainPost" /\ pc[h] = "drainPost" => cur[g] # cur[h]

\* "Always drain buffered events before posting the current one", so that rows
\* only move forward: posting a buffer file never returns a session's row to
\* totals older than the ones it holds.
ReplayKeepsRow ==
    [][\A h \in Hooks, s \in Sessions :
        pc[h] = "drainPost" /\ Attempt(h) => store'[s] >= store[s]]_vars

\* A hook never keeps Claude Code waiting for ever: every run exits, whatever the
\* server answers and whatever other hooks do to its files meanwhile.
RunTerminates == \A h \in Hooks : pc[h] # "idle" ~> pc[h] = "idle"

\* Once the server stays up, every event a hook could post is committed, unless it
\* was given up: a crash leaves no claim behind for ever, and a file the server
\* always refuses does not block the files behind it.
Drained ==
    <>[]up => \A e \in Events \ Refused : built >= e ~> e \in delivered \cup forgone

-----------------------------------------------------------------------------
(* The hook and its buffer implement Custody.  An event is held while a copy *)
(* of it exists that can still be committed.                                 *)

InMemory(e) ==
    \E h \in Hooks : ev[h] = e \/ (pc[h] = "drainPost" /\ cur[h] = e)

Copies == {e \in Events : e \in Buffered \cup inflight \/ InMemory(e)}

CustodyState ==
    [e \in Events |-> IF e \in delivered THEN "stored"
                      ELSE IF e > built THEN "new"
                      ELSE IF e \in Copies THEN "held" ELSE "lost"]

Abstract == INSTANCE Custody WITH state <- CustodyState, given <- forgone

\* Every step of every hook, fault and late commit is a step of Custody.
KeepsCustody == Abstract!Spec
=============================================================================
