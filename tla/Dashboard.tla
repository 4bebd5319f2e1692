------------------------------ MODULE Dashboard ------------------------------
(***************************************************************************)
(* A page of web/index.html: its start (syncInitialMock, the first         *)
(* loadAll, initSSE), refreshes on events, the buttons of the hourly chart *)
(* and the switch of mock mode, with the server's mode flag and the        *)
(* browser's localStorage, which other pages and clients change as well.   *)
(* Requests are served and answered in any order, and may fail.            *)
(*                                                                         *)
(* What an endpoint answers is abstracted to the mode it was served in and *)
(* the number of commits it saw.  LiveTail has the hub and the stream in   *)
(* detail; here an event is on its way to the page or it is not.           *)
(***************************************************************************)
EXTENDS Integers, FiniteSets

CONSTANTS
    Hourly,      \* the hourly chart
    Others,      \* the other cards
    Ranges,      \* its ranges in days: 7 at first
    MockDefault, \* MOCK_MODE
    Choice,      \* what localStorage holds at first: a stored choice, or None
    None,        \* no answer, nothing shown
    MaxCommits, MaxLoads, MaxFlips, \* bounds
    MaxOpen      \* and one on the loads at once

Answer == [mock : BOOLEAN, version : Nat]
Cards == Others \cup {Hourly}

ASSUME DashboardAssumption ==
    /\ Hourly \notin Others
    /\ 7 \in Ranges
    /\ MockDefault \in BOOLEAN
    /\ None \notin BOOLEAN \cup Answer
    /\ Choice \in BOOLEAN \cup {None}
    /\ {MaxCommits, MaxLoads, MaxFlips, MaxOpen} \subseteq Nat

VARIABLES
    version,  \* sessions committed so far: what real data shows
    unsent,   \* those that Broadcast has not sent yet
    flag,     \* modeFlag of the server
    stored,   \* "session-lens-mock" of localStorage, or None
    page,     \* how far main is
    heard,    \* serverMock of syncInitialMock
    box,      \* the check box
    banner,   \* the banner
    flips,    \* calls of setMockMode whose POST has no answer yet
    flipped,  \* how many calls there were
    range,    \* hourlyDays
    loads,    \* loads under way
    begun,    \* the number of the newest load of each card
    drawn,    \* the number of the load that each card shows
    shown,    \* what each card shows
    charted,  \* the range that the hourly chart shows
    live,     \* subscribed to events
    events,   \* events on the way
    missed,   \* since the last loadAll, a broadcast did not reach the page
    strange   \* someone else may have changed the flag since the page set or read it

server == <<version, unsent, flag>>
mode == <<stored, heard, box, banner, flips, flipped, strange>>
loading == <<range, loads, begun, missed>>
screen == <<drawn, shown, charted>>
stream == <<live, events>>
vars == <<server, page, mode, loading, screen, stream>>

\* The awaits of main, and its end.
Phases == {"closed", "asking", "told", "posting", "posted", "loading", "ready"}

Covered(kind) == IF kind = "hourly" THEN {Hourly} ELSE Cards

-----------------------------------------------------------------------------
(* Loads.                                                                   *)

MutFresh(kind, days) ==  \* mutation: requests under way are shared
    [n |-> begun[Hourly] + 1, kind |-> kind, days |-> days, late |-> FALSE,
     got |-> IF kind # "hourly" /\ \E l \in loads : l.kind # "hourly"
             THEN (CHOOSE l \in loads : l.kind # "hourly").got
             ELSE [c \in Covered(kind) |-> None]]

\* The requests of a load that begins; late is set when another is drawn first.
Fresh(kind, days) ==
    [n |-> begun[Hourly] + 1, kind |-> kind, days |-> days, late |-> FALSE,
     got |-> [c \in Covered(kind) |-> None]]

\* loadAll, or the request of a range button, begins.
Begin(kind, days) ==
    /\ begun[Hourly] < MaxLoads /\ Cardinality(loads) < MaxOpen
    /\ loads' = loads \cup {Fresh(kind, days)}
    /\ begun' = [c \in Cards |-> IF c \in Covered(kind) THEN begun[Hourly] + 1 ELSE begun[c]]
    /\ missed' = (missed /\ kind = "hourly")
    /\ range' = days

\* The server answers one request: isMock decides where the data comes from.
Answered == [mock |-> flag, version |-> IF flag THEN 0 ELSE version]

Served(l, c) == [l EXCEPT !.got = [@ EXCEPT ![c] = Answered]]

Serve(l, c) ==
    /\ c \in Covered(l.kind) /\ l.got[c] = None
    /\ loads' = (loads \ {l}) \cup {Served(l, c)}
    /\ UNCHANGED <<server, page, mode, range, begun, missed, screen, stream>>

\* A load that was overtaken.
Overtaken(l) == [l EXCEPT !.late = TRUE]

\* main goes on when its own load has ended.
Ended(l) == page' = IF l.kind = "main" THEN "ready" ELSE page

MutAnswered(l) ==  \* mutation: Promise.race
    \E c \in Covered(l.kind) : l.got[c] # None

AllAnswered(l) == \A c \in Covered(l.kind) : l.got[c] # None

\* Promise.all has all answers: the cards are rendered in one turn.
Draw(l) ==
    /\ AllAnswered(l)
    /\ loads' = {Overtaken(k) : k \in loads \ {l}}
    /\ shown' = [c \in Cards |-> IF c \in Covered(l.kind) THEN l.got[c] ELSE shown[c]]
    /\ drawn' = [c \in Cards |-> IF c \in Covered(l.kind) THEN l.n ELSE drawn[c]]
    /\ charted' = l.days
    /\ Ended(l)
    /\ UNCHANGED <<server, mode, range, begun, missed, stream>>

\* One request fails: nothing is rendered, and the other answers are dropped.
Fail(l) ==
    /\ loads' = loads \ {l}
    /\ Ended(l)
    /\ UNCHANGED <<server, mode, range, begun, missed, screen, stream>>

\* A range button.
Choose(days) ==
    /\ page # "closed"
    /\ Begin("hourly", days)
    /\ UNCHANGED <<server, page, mode, screen, stream>>

-----------------------------------------------------------------------------
(* Commits and events.                                                      *)

Commit ==
    /\ version < MaxCommits
    /\ version' = version + 1
    /\ unsent' = unsent + 1
    /\ UNCHANGED <<flag, page, mode, loading, screen, stream>>

Broadcast ==
    /\ unsent > 0
    /\ unsent' = unsent - 1
    /\ events' = IF live THEN events + 1 ELSE events
    /\ missed' = (missed \/ ~live)
    /\ UNCHANGED <<version, flag, page, mode, range, loads, begun, screen, live>>

\* EventSource connects, or connects again.
Connect ==
    /\ page = "ready" /\ ~live
    /\ live' = TRUE
    /\ UNCHANGED <<server, page, mode, loading, screen, events>>

\* The connection ends, and with it the events on the way.
Drop ==
    /\ live
    /\ live' = FALSE
    /\ events' = 0
    /\ missed' = (missed \/ events > 0)
    /\ UNCHANGED <<server, page, mode, range, loads, begun, screen>>

MutOnSession ==  \* mutation: one refresh at a time
    /\ events > 0
    /\ events' = events - 1
    /\ IF loads = {} THEN Begin("refresh", range) ELSE UNCHANGED loading
    /\ UNCHANGED <<server, page, mode, screen, live>>

OnSession ==
    /\ events > 0
    /\ events' = events - 1
    /\ Begin("refresh", range)
    /\ UNCHANGED <<server, page, mode, screen, live>>

-----------------------------------------------------------------------------
(* Mock mode.                                                               *)

\* applyMockBanner, and the loadAll that follows it.
Apply(on, kind) ==
    /\ banner' = on
    /\ box' = on
    /\ Begin(kind, range)

\* syncInitialMock ends, and main's first load begins.
FirstLoad(on) ==
    /\ page' = "loading"
    /\ heard' = FALSE
    /\ Apply(on, "main")

Syncing == page \in {"asking", "told", "posting", "posted"}

Open ==
    /\ page = "closed"
    /\ page' = "asking"
    /\ UNCHANGED <<server, mode, loading, screen, stream>>

\* GET /v1/mode is answered.
Tell ==
    /\ page = "asking"
    /\ page' = "told"
    /\ heard' = flag
    /\ strange' = (flips # {})
    /\ UNCHANGED <<server, stored, box, banner, flips, flipped, loading, screen, stream>>

\* It fails: serverMock stays false.
TellFails ==
    /\ page = "asking"
    /\ page' = "told"
    /\ strange' = TRUE
    /\ UNCHANGED <<server, stored, heard, box, banner, flips, flipped, loading, screen, stream>>

\* No choice is stored, or the server is in that mode: the first load begins.
Agree ==
    /\ page = "told"
    /\ stored \in {None, heard}
    /\ FirstLoad(heard)
    /\ UNCHANGED <<server, stored, flips, flipped, strange, screen, stream>>

\* The stored choice differs from what was heard: POST /v1/mode with it.
Differ ==
    /\ page = "told"
    /\ stored \notin {None, heard}
    /\ page' = "posting"
    /\ UNCHANGED <<server, mode, loading, screen, stream>>

SyncPost ==
    /\ page = "posting"
    /\ page' = "posted"
    /\ flag' = ~heard
    /\ strange' = (flips # {})
    /\ UNCHANGED <<version, unsent, stored, heard, box, banner, flips, flipped,
                   loading, screen, stream>>

\* The POST was answered or has failed, which main ignores.
Synced ==
    /\ page \in {"posting", "posted"}
    /\ strange' = (strange \/ page = "posting")
    /\ FirstLoad(~heard)
    /\ UNCHANGED <<server, stored, flips, flipped, screen, stream>>

\* The user flips the switch: setMockMode posts the new mode.
Flip ==
    /\ page # "closed"
    /\ flipped < MaxFlips
    /\ flipped' = flipped + 1
    /\ box' = ~box
    /\ flips' = flips \cup {[n |-> flipped, on |-> ~box, set |-> FALSE]}
    /\ UNCHANGED <<server, page, stored, heard, banner, strange, loading, screen, stream>>

SetMode(f) ==
    /\ ~f.set
    /\ flips' = (flips \ {f}) \cup {[n |-> f.n, on |-> f.on, set |-> TRUE]}
    /\ flag' = f.on
    /\ strange' = (flips # {f} \/ Syncing)
    /\ UNCHANGED <<version, unsent, page, stored, heard, box, banner, flipped,
                   loading, screen, stream>>

MutFlipped(f) ==  \* mutation: the cards are not loaded again
    /\ f.set
    /\ flips' = flips \ {f}
    /\ stored' = f.on
    /\ banner' = f.on
    /\ box' = f.on
    /\ UNCHANGED <<server, page, heard, flipped, strange, loading, screen, stream>>

\* setMockMode goes on.
Flipped(f) ==
    /\ f.set
    /\ flips' = flips \ {f}
    /\ stored' = f.on
    /\ Apply(f.on, "refresh")
    /\ UNCHANGED <<server, page, heard, flipped, strange, screen, stream>>

\* The POST fails, before or after the flag was set: the check box stays flipped.
FlipFails(f) ==
    /\ flips' = flips \ {f}
    /\ strange' = (strange \/ f.set)
    /\ UNCHANGED <<server, page, stored, heard, box, banner, flipped, loading, screen, stream>>

\* Another page or client sets the flag.  What other pages store is in Choice: this
\* page reads it once.
Elsewhere(on) ==
    /\ flag' = on
    /\ strange' = (strange \/ on # flag)
    /\ UNCHANGED <<version, unsent, page, stored, heard, box, banner, flips, flipped,
                   loading, screen, stream>>

\* The server restarts: the flag is MOCK_MODE again, streams and events end.
Restart ==
    /\ flag' = MockDefault
    /\ unsent' = 0
    /\ strange' = (strange \/ flag' # flag)
    /\ missed' = (missed \/ unsent > 0 \/ events > 0)
    /\ live' = FALSE
    /\ events' = 0
    /\ UNCHANGED <<version, page, stored, heard, box, banner, flips, flipped,
                   range, loads, begun, screen>>

-----------------------------------------------------------------------------
Init ==
    /\ version = 0 /\ unsent = 0 /\ flag = MockDefault
    /\ stored = Choice
    /\ page = "closed" /\ heard = FALSE
    /\ box = FALSE /\ banner = FALSE
    /\ flips = {} /\ flipped = 0
    /\ range = 7 /\ charted = 7
    /\ loads = {}
    /\ begun = [c \in Cards |-> 0]
    /\ drawn = [c \in Cards |-> 0]
    /\ shown = [c \in Cards |-> None]
    /\ live = FALSE /\ events = 0
    /\ missed = TRUE /\ strange = TRUE

Load ==
    \/ \E l \in loads : (\E c \in Cards : Serve(l, c)) \/ Draw(l) \/ Fail(l)
    \/ \E days \in Ranges : Choose(days)

Stream == Connect \/ Drop \/ OnSession
Sync == Open \/ Tell \/ TellFails \/ Agree \/ Differ \/ SyncPost \/ Synced
Switch == Flip \/ \E f \in flips : SetMode(f) \/ Flipped(f) \/ FlipFails(f)

Next ==
    \/ Load \/ Stream \/ Sync \/ Switch
    \/ \E on \in BOOLEAN : Elsewhere(on)
    \/ Commit \/ Broadcast \/ Restart

Spec == Init /\ [][Next]_vars

-----------------------------------------------------------------------------
LoadOf(kind) == [n : Nat, kind : {kind}, days : Ranges, late : BOOLEAN,
                 got : [Covered(kind) -> Answer \cup {None}]]
AnyLoad == LoadOf("main") \cup LoadOf("refresh") \cup LoadOf("hourly")
Flips == [n : Nat, on : BOOLEAN, set : BOOLEAN]

\* A load has a number of its own, and no card is drawn without its answer.
LoadsOK ==
    /\ range \in Ranges /\ charted \in Ranges
    /\ begun \in [Cards -> Nat] /\ drawn \in [Cards -> Nat]
    /\ shown \in [Cards -> Answer \cup {None}]
    /\ loads \subseteq AnyLoad
    /\ \A l \in loads : \A c \in Covered(l.kind) : 0 < l.n /\ l.n <= begun[c]
    /\ \A l, k \in loads : l.n = k.n => l = k
    /\ \A c \in Cards :
         /\ drawn[c] <= begun[c] /\ begun[c] <= begun[Hourly]
         /\ shown[c] = None <=> drawn[c] = 0

TypeOK ==
    /\ version \in Nat /\ unsent \in Nat /\ events \in Nat /\ flipped \in Nat
    /\ flag \in BOOLEAN /\ heard \in BOOLEAN /\ box \in BOOLEAN /\ banner \in BOOLEAN
    /\ live \in BOOLEAN /\ missed \in BOOLEAN /\ strange \in BOOLEAN
    /\ stored \in BOOLEAN \cup {None}
    /\ page \in Phases
    /\ flips \subseteq Flips
    /\ LoadsOK

\* The card shows the newest load of it.
Settled(c) == begun[c] > 0 /\ drawn[c] = begun[c]

\* A card that shows its newest load shows the current data, unless the page has
\* yet to hear of a commit or could not hear of it; and the hourly chart shows the
\* range of its active button.  Answers of overlapping loads come in any order.
CurrentAtRest ==
    \A c \in Cards : Settled(c) =>
        /\ unsent = 0 /\ events = 0 /\ ~missed /\ ~shown[c].mock
             => shown[c].version = version
        /\ c = Hourly => charted = range

\* With no switch under way, and unless someone else changed the server's mode or
\* a POST took effect but failed, the banner says what settled cards show.
BannerAtRest ==
    \A c \in Cards :
        Settled(c) /\ ~strange /\ flips = {} /\ ~Syncing => shown[c].mock = banner

\* A load takes a card back to older data only if another load was drawn since it
\* began: refreshes that do not overlap never step back.
NoStepBack ==
    [][\A l \in loads :
         Draw(l) /\ ~l.late =>
           \A c \in Cards :
             shown[c] # None /\ ~shown[c].mock /\ ~shown'[c].mock
               => shown'[c].version >= shown[c].version]_vars
=============================================================================
