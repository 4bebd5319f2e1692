--------------------------- MODULE Dashboard_proofs ---------------------------
(***************************************************************************)
(* Proofs about Dashboard: what a settled card shows, for any cards, ranges *)
(* and numbers of loads, commits and flips.                                 *)
(***************************************************************************)
EXTENDS Dashboard, TLAPS

Kinds == {"main", "refresh", "hourly"}

\* An answer with real data.
Real(a) == a # None /\ ~a.mock

\* The data on a settled card, and that its newest load has so far, is current.
AnswersCurrent ==
    unsent = 0 /\ events = 0 /\ ~missed =>
      /\ \A l \in loads : \A c \in Covered(l.kind) :
           l.n = begun[c] /\ Real(l.got[c]) => l.got[c].version = version
      /\ \A c \in Cards :
           drawn[c] = begun[c] /\ Real(shown[c]) => shown[c].version = version

\* The newest load of the chart is of the active range.
RangeAsked ==
    /\ \A l \in loads : l.n = begun[Hourly] => l.days = range
    /\ drawn[Hourly] = begun[Hourly] => charted = range

\* No answer is of the future, and none of a load that was not overtaken is older
\* than what the card shows.
Forward ==
    /\ \A l \in loads : \A c \in Covered(l.kind) :
         Real(l.got[c]) => l.got[c].version <= version
    /\ \A c \in Cards : Real(shown[c]) => shown[c].version <= version
    /\ \A l \in loads : ~l.late => \A c \in Covered(l.kind) :
         Real(l.got[c]) /\ Real(shown[c]) => shown[c].version <= l.got[c].version

\* What the page knows of the flag, unless that is strange to it.
ModeKnown ==
    ~strange =>
      /\ page \notin {"closed", "asking"}
      /\ page = "told" => heard = flag /\ \A f \in flips : ~f.set
      /\ page = "posted" => flag = ~heard /\ \A f \in flips : ~f.set
      /\ page \in {"loading", "ready"} =>
           /\ \A f \in flips : f.set => flag = f.on
           /\ (\A f \in flips : ~f.set) =>
                /\ flag = banner
                /\ \A l \in loads : \A c \in Covered(l.kind) :
                     l.n = begun[c] /\ l.got[c] # None => l.got[c].mock = banner
                /\ \A c \in Cards :
                     drawn[c] = begun[c] /\ shown[c] # None => shown[c].mock = banner

-----------------------------------------------------------------------------
(* Records.                                                                 *)

LEMMA LoadFields ==
    ASSUME NEW l \in AnyLoad
    PROVE  /\ l.n \in Nat /\ l.kind \in Kinds /\ l.days \in Ranges /\ l.late \in BOOLEAN
           /\ l.got \in [Covered(l.kind) -> Answer \cup {None}]
           /\ \A c \in Covered(l.kind) : c \in Cards
BY DEF AnyLoad, LoadOf, Kinds, Covered, Cards

LEMMA IsLoad ==
    ASSUME NEW n \in Nat, NEW kind \in Kinds, NEW days \in Ranges, NEW late \in BOOLEAN,
           NEW got \in [Covered(kind) -> Answer \cup {None}]
    PROVE  [n |-> n, kind |-> kind, days |-> days, late |-> late, got |-> got] \in AnyLoad
<1>1. [n |-> n, kind |-> kind, days |-> days, late |-> late, got |-> got] \in LoadOf(kind)
  BY DEF LoadOf
<1> QED  BY <1>1 DEF AnyLoad, Kinds

LEMMA FreshFields ==
    ASSUME LoadsOK, NEW kind \in Kinds, NEW days \in Ranges
    PROVE  /\ Fresh(kind, days) \in AnyLoad
           /\ Fresh(kind, days).n = begun[Hourly] + 1
           /\ Fresh(kind, days).kind = kind
           /\ Fresh(kind, days).days = days
           /\ Fresh(kind, days).got = [c \in Covered(kind) |-> None]
           /\ begun[Hourly] \in Nat
<1>1. begun[Hourly] \in Nat  BY DEF LoadsOK, Cards
<1> DEFINE got == [c \in Covered(kind) |-> None]
<1>2. got \in [Covered(kind) -> Answer \cup {None}]  OBVIOUS
<1>3. Fresh(kind, days) = [n |-> begun[Hourly] + 1, kind |-> kind, days |-> days,
                           late |-> FALSE, got |-> got]
  BY DEF Fresh
<1> HIDE DEF got
<1>4. Fresh(kind, days) \in AnyLoad
  <2>1. begun[Hourly] + 1 \in Nat /\ FALSE \in BOOLEAN  BY <1>1
  <2> QED  BY <2>1, <1>2, <1>3, IsLoad
<1> QED  BY <1>1, <1>3, <1>4 DEF got

LEMMA ServedFields ==
    ASSUME TypeOK, NEW l \in AnyLoad, NEW c \in Covered(l.kind)
    PROVE  /\ Served(l, c) \in AnyLoad
           /\ Served(l, c).n = l.n /\ Served(l, c).kind = l.kind
           /\ Served(l, c).days = l.days /\ Served(l, c).late = l.late
           /\ Served(l, c).got = [l.got EXCEPT ![c] = Answered]
           /\ Answered \in Answer
<1>1. Answered \in Answer  BY DEF TypeOK, Answered, Answer
<1> DEFINE got == [l.got EXCEPT ![c] = Answered]
           r == [n |-> l.n, kind |-> l.kind, days |-> l.days, late |-> l.late, got |-> got]
<1>2. got \in [Covered(l.kind) -> Answer \cup {None}]  BY <1>1, LoadFields
<1> HIDE DEF got
<1>3. r \in AnyLoad  BY <1>2, LoadFields, IsLoad
<1>4. Served(l, c) = r
  <2>1. CASE l \in LoadOf("main")  BY <2>1 DEF Served, LoadOf, got
  <2>2. CASE l \in LoadOf("refresh")  BY <2>2 DEF Served, LoadOf, got
  <2>3. CASE l \in LoadOf("hourly")  BY <2>3 DEF Served, LoadOf, got
  <2> QED  BY <2>1, <2>2, <2>3 DEF AnyLoad
<1> QED  BY <1>1, <1>3, <1>4 DEF got

LEMMA OvertakenFields ==
    ASSUME NEW l \in AnyLoad
    PROVE  /\ Overtaken(l) \in AnyLoad
           /\ Overtaken(l).n = l.n /\ Overtaken(l).kind = l.kind
           /\ Overtaken(l).days = l.days /\ Overtaken(l).late = TRUE
           /\ Overtaken(l).got = l.got
<1>1. CASE l \in LoadOf("main")  BY <1>1 DEF Overtaken, LoadOf, AnyLoad
<1>2. CASE l \in LoadOf("refresh")  BY <1>2 DEF Overtaken, LoadOf, AnyLoad
<1>3. CASE l \in LoadOf("hourly")  BY <1>3 DEF Overtaken, LoadOf, AnyLoad
<1> QED  BY <1>1, <1>2, <1>3 DEF AnyLoad

\* Nothing happens before the page is open; main loads once.
NotYet ==
    /\ page = "closed" => flips = {}
    /\ \A l \in loads : l.kind = "main" => page = "loading"
    /\ \A l, k \in loads : l.kind = "main" /\ k.kind = "main" => l = k

IInv == TypeOK /\ AnswersCurrent /\ RangeAsked /\ Forward /\ ModeKnown /\ NotYet

-----------------------------------------------------------------------------
(* Loads begin, are served, end.                                            *)

\* A load begins: none that is the newest of its cards has an answer, but where
\* only the chart is loaded.
LEMMA BeginStep ==
    ASSUME LoadsOK, RangeAsked, Forward, NEW kind \in Kinds, NEW days \in Ranges,
           Begin(kind, days), UNCHANGED <<version, screen>>
    PROVE  /\ LoadsOK' /\ RangeAsked' /\ Forward'
           /\ \A l \in loads' : \A c \in Covered(l.kind) :
                l.n = begun'[c] /\ l.got[c] # None =>
                  kind = "hourly" /\ l \in loads /\ l.n = begun[c]
           /\ \A c \in Cards :
                drawn'[c] = begun'[c] => kind = "hourly" /\ drawn[c] = begun[c]
<1> DEFINE f == Fresh(kind, days)
           n == begun[Hourly] + 1
<1>1. /\ f \in AnyLoad /\ f.n = n /\ f.kind = kind /\ f.days = days
      /\ f.got = [c \in Covered(kind) |-> None] /\ n \in Nat /\ begun[Hourly] \in Nat
  BY FreshFields
<1>2. /\ loads' = loads \cup {f} /\ range' = days
      /\ begun' = [c \in Cards |-> IF c \in Covered(kind) THEN n ELSE begun[c]]
  BY DEF Begin
<1>3. UNCHANGED <<version, drawn, shown, charted>>  BY DEF screen
<1> HIDE DEF f
<1>4. Hourly \in Cards /\ Hourly \in Covered(kind) /\ Covered(kind) \subseteq Cards
  BY DEF Cards, Covered, Kinds
<1>5. \A l \in loads : l.n \in Nat /\ Hourly \in Covered(l.kind) /\ Covered(l.kind) \subseteq Cards
  BY LoadFields DEF LoadsOK, Cards, Covered, Kinds
<1>6. \A c \in Cards : begun[c] \in Nat /\ drawn[c] \in Nat /\ drawn[c] <= begun[c] /\ begun[c] < n
  BY <1>1, <1>4 DEF LoadsOK
<1>7. \A c \in Cards : begun'[c] \in Nat /\ begun[c] <= begun'[c] /\ begun'[c] <= n
  BY <1>1, <1>2, <1>6
<1>8. begun'[Hourly] = n  BY <1>2, <1>4
<1>9. \A l \in loads : l.n < n  BY <1>1, <1>4, <1>5, <1>6 DEF LoadsOK
<1>10. LoadsOK'
  <2>1. begun' \in [Cards -> Nat]  BY <1>1, <1>2, <1>6
  <2>2. \A l \in loads' : \A c \in Covered(l.kind) : 0 < l.n /\ l.n <= begun'[c]
    <3>1. \A l \in loads : \A c \in Covered(l.kind) : 0 < l.n /\ l.n <= begun'[c]
      BY <1>5, <1>6, <1>7 DEF LoadsOK
    <3>2. \A c \in Covered(f.kind) : 0 < f.n /\ f.n <= begun'[c]  BY <1>1, <1>2, <1>4
    <3> QED  BY <1>2, <3>1, <3>2
  <2>3. \A l, k \in loads' : l.n = k.n => l = k  BY <1>1, <1>2, <1>5, <1>9 DEF LoadsOK
  <2>4. \A c \in Cards : drawn'[c] <= begun'[c] /\ begun'[c] <= begun'[Hourly]
    BY <1>3, <1>6, <1>7, <1>8
  <2> QED  BY <1>1, <1>2, <1>3, <2>1, <2>2, <2>3, <2>4 DEF LoadsOK
<1>11. RangeAsked'
  <2>1. \A l \in loads' : l.n = begun'[Hourly] => l.days = range'
    BY <1>1, <1>2, <1>5, <1>8, <1>9
  <2>2. drawn'[Hourly] # begun'[Hourly]  BY <1>3, <1>4, <1>6, <1>8
  <2> QED  BY <2>1, <2>2 DEF RangeAsked
<1>12. Forward'
  <2>1. \A c \in Covered(f.kind) : ~Real(f.got[c])  BY <1>1 DEF Real
  <2> QED  BY <1>2, <1>3, <2>1 DEF Forward
<1>13. \A l \in loads' : \A c \in Covered(l.kind) :
         l.n = begun'[c] /\ l.got[c] # None =>
           kind = "hourly" /\ l \in loads /\ l.n = begun[c]
  <2> SUFFICES ASSUME NEW l \in loads', NEW c \in Covered(l.kind),
                      l.n = begun'[c], l.got[c] # None
               PROVE  kind = "hourly" /\ l \in loads /\ l.n = begun[c]
    OBVIOUS
  <2>1. l # f  BY <1>1
  <2>2. l \in loads /\ c \in Cards /\ l.n < n  BY <1>2, <1>5, <1>9, <2>1
  <2>3. c \notin Covered(kind)  BY <1>1, <1>2, <1>5, <2>2
  <2>4. kind = "hourly"  BY <2>2, <2>3 DEF Covered
  <2> QED  BY <1>2, <2>2, <2>3, <2>4
<1>14. \A c \in Cards :
         drawn'[c] = begun'[c] => kind = "hourly" /\ drawn[c] = begun[c]
  <2> SUFFICES ASSUME NEW c \in Cards, drawn'[c] = begun'[c]
               PROVE  kind = "hourly" /\ drawn[c] = begun[c]
    OBVIOUS
  <2>1. c \notin Covered(kind)  BY <1>1, <1>2, <1>3, <1>6
  <2> QED  BY <1>2, <1>3, <2>1 DEF Covered
<1> QED  BY <1>10, <1>11, <1>12, <1>13, <1>14

\* A request is served: its answer is of now.
LEMMA ServeStep ==
    ASSUME TypeOK, RangeAsked, Forward, NEW l \in loads, NEW c \in Cards, Serve(l, c)
    PROVE  /\ LoadsOK' /\ RangeAsked' /\ Forward'
           /\ \A k \in loads' : \A d \in Covered(k.kind) :
                \/ k.got[d] = Answered
                \/ \E j \in loads : /\ j.n = k.n /\ j.kind = k.kind
                                    /\ j.got[d] = k.got[d]
<1> DEFINE f == Served(l, c)
<1>1. l \in AnyLoad /\ c \in Covered(l.kind) /\ loads' = (loads \ {l}) \cup {f}
  BY DEF Serve, TypeOK, LoadsOK
<1>2. /\ f \in AnyLoad /\ f.n = l.n /\ f.kind = l.kind /\ f.days = l.days
      /\ f.late = l.late /\ f.got = [l.got EXCEPT ![c] = Answered] /\ Answered \in Answer
  BY <1>1, ServedFields
<1>3. UNCHANGED <<version, range, begun, drawn, shown, charted>>
  BY DEF Serve, server, screen
<1> HIDE DEF f
<1>4. l.got \in [Covered(l.kind) -> Answer \cup {None}]  BY <1>1, LoadFields
<1>5. \A d \in Covered(l.kind) : f.got[d] = IF d = c THEN Answered ELSE l.got[d]
  BY <1>2, <1>4
<1>6. LoadsOK'  BY <1>1, <1>2, <1>3 DEF TypeOK, LoadsOK
<1>7. RangeAsked'  BY <1>1, <1>2, <1>3 DEF RangeAsked
<1>8. Real(Answered) => Answered.version = version
  BY DEF Real, Answered
<1>9. Forward'
  <2>1. \A d \in Covered(l.kind) : Real(f.got[d]) => f.got[d].version <= version
    BY <1>5, <1>8 DEF Forward, TypeOK
  <2>2. ~l.late => \A d \in Covered(l.kind) :
          Real(f.got[d]) /\ Real(shown[d]) => shown[d].version <= f.got[d].version
    <3>1. Covered(l.kind) \subseteq Cards  BY <1>1, LoadFields
    <3> QED  BY <1>5, <1>8, <3>1 DEF Forward
  <2> QED  BY <1>1, <1>2, <1>3, <2>1, <2>2 DEF Forward
<1>10. \A k \in loads' : \A d \in Covered(k.kind) :
         \/ k.got[d] = Answered
         \/ \E j \in loads : j.n = k.n /\ j.kind = k.kind /\ j.got[d] = k.got[d]
  BY <1>1, <1>2, <1>5
<1> QED  BY <1>6, <1>7, <1>9, <1>10

\* A load is drawn: its answers are on the screen, the other loads are overtaken.
LEMMA DrawStep ==
    ASSUME TypeOK, RangeAsked, Forward, NEW l \in loads, Draw(l)
    PROVE  /\ LoadsOK' /\ RangeAsked' /\ Forward'
           /\ \A k \in loads' : \E j \in loads :
                j.n = k.n /\ j.kind = k.kind /\ j.got = k.got
           /\ \A c \in Cards :
                \/ c \in Covered(l.kind) /\ drawn'[c] = l.n /\ shown'[c] = l.got[c]
                \/ c \notin Covered(l.kind) /\ drawn'[c] = drawn[c] /\ shown'[c] = shown[c]
           /\ begun' = begun
<1>1. /\ l \in AnyLoad /\ l.n \in Nat /\ l.days \in Ranges
      /\ l.got \in [Covered(l.kind) -> Answer \cup {None}]
      /\ Covered(l.kind) \subseteq Cards /\ Hourly \in Covered(l.kind)
  BY LoadFields DEF TypeOK, LoadsOK, Covered, Cards
<1>2. /\ loads' = {Overtaken(k) : k \in loads \ {l}}
      /\ shown' = [c \in Cards |-> IF c \in Covered(l.kind) THEN l.got[c] ELSE shown[c]]
      /\ drawn' = [c \in Cards |-> IF c \in Covered(l.kind) THEN l.n ELSE drawn[c]]
      /\ charted' = l.days
      /\ UNCHANGED <<version, range, begun>>
      /\ \A c \in Covered(l.kind) : l.got[c] # None
  BY DEF Draw, server, AllAnswered
<1>3. \A k \in loads : /\ k \in AnyLoad /\ Overtaken(k) \in AnyLoad
                       /\ Overtaken(k).n = k.n /\ Overtaken(k).kind = k.kind
                       /\ Overtaken(k).days = k.days /\ Overtaken(k).late = TRUE
                       /\ Overtaken(k).got = k.got
  BY OvertakenFields DEF TypeOK, LoadsOK
<1>4. \A k \in loads' : /\ k \in AnyLoad /\ k.late = TRUE
                        /\ \E j \in loads : /\ j.n = k.n /\ j.kind = k.kind /\ j.days = k.days
                                            /\ j.got = k.got /\ k = Overtaken(j)
  BY <1>2, <1>3
<1>5. LoadsOK'
  <2>1. shown' \in [Cards -> Answer \cup {None}] /\ drawn' \in [Cards -> Nat]
    BY <1>1, <1>2 DEF TypeOK, LoadsOK
  <2>2. \A k \in loads' : \A c \in Covered(k.kind) : 0 < k.n /\ k.n <= begun'[c]
    BY <1>2, <1>4 DEF TypeOK, LoadsOK
  <2>3. \A k, j \in loads' : k.n = j.n => k = j  BY <1>4 DEF TypeOK, LoadsOK
  <2>4. \A c \in Covered(l.kind) : 0 < l.n /\ l.n <= begun[c]
    BY DEF TypeOK, LoadsOK
  <2>5. \A c \in Cards : /\ drawn'[c] <= begun'[c] /\ begun'[c] <= begun'[Hourly]
                         /\ shown'[c] = None <=> drawn'[c] = 0
    <3> SUFFICES ASSUME NEW c \in Cards
                 PROVE  /\ drawn'[c] <= begun'[c] /\ begun'[c] <= begun'[Hourly]
                        /\ shown'[c] = None <=> drawn'[c] = 0
      OBVIOUS
    <3>1. CASE c \in Covered(l.kind)  BY <1>1, <1>2, <2>4, <3>1 DEF TypeOK, LoadsOK
    <3>2. CASE c \notin Covered(l.kind)  BY <1>1, <1>2, <3>2 DEF TypeOK, LoadsOK
    <3> QED  BY <3>1, <3>2
  <2> QED  BY <1>1, <1>2, <1>4, <2>1, <2>2, <2>3, <2>5 DEF TypeOK, LoadsOK
<1>6. RangeAsked'
  <2>1. \A k \in loads' : k.n = begun'[Hourly] => k.days = range'
    BY <1>2, <1>4 DEF RangeAsked
  <2>2. drawn'[Hourly] = l.n  BY <1>1, <1>2
  <2> QED  BY <1>2, <2>1, <2>2 DEF RangeAsked
<1>7. Forward'
  <2>1. \A k \in loads' : \A c \in Covered(k.kind) :
          Real(k.got[c]) => k.got[c].version <= version
    BY <1>4 DEF Forward
  <2>2. \A c \in Cards : Real(shown'[c]) => shown'[c].version <= version
    BY <1>2 DEF Forward
  <2> QED  BY <1>2, <1>4, <2>1, <2>2 DEF Forward
<1>8. \A c \in Cards :
        \/ c \in Covered(l.kind) /\ drawn'[c] = l.n /\ shown'[c] = l.got[c]
        \/ c \notin Covered(l.kind) /\ drawn'[c] = drawn[c] /\ shown'[c] = shown[c]
  BY <1>2
<1> QED  BY <1>2, <1>4, <1>5, <1>6, <1>7, <1>8

-----------------------------------------------------------------------------
(* Every step.                                                              *)

LEMMA InitInv == Init => IInv
<1> SUFFICES ASSUME Init PROVE IInv  OBVIOUS
<1>1. Hourly \in Cards  BY DEF Cards
<1>2. LoadsOK  BY <1>1, DashboardAssumption DEF Init, LoadsOK
<1>3. TypeOK  BY <1>2, DashboardAssumption DEF Init, TypeOK, Phases
<1>4. \A c \in Cards : ~Real(shown[c])  BY DEF Init, Real
<1>5. AnswersCurrent /\ Forward  BY <1>4 DEF Init, AnswersCurrent, Forward
<1>6. RangeAsked /\ ModeKnown /\ NotYet  BY DEF Init, RangeAsked, ModeKnown, NotYet
<1> QED  BY <1>3, <1>5, <1>6 DEF IInv

\* Steps that touch no load.
LEMMA QuietStep ==
    ASSUME IInv, UNCHANGED <<version, unsent, loading, screen, stream>>
    PROVE  LoadsOK' /\ AnswersCurrent' /\ RangeAsked' /\ Forward'
BY DEF IInv, TypeOK, LoadsOK, AnswersCurrent, RangeAsked, Forward, loading, screen, stream

LEMMA SyncStep ==
    ASSUME IInv, Open \/ Tell \/ TellFails \/ Differ \/ SyncPost
    PROVE  IInv'
<1>1. UNCHANGED <<version, unsent, loading, screen, stream>>
  BY DEF Open, Tell, TellFails, Differ, SyncPost, server
<1>2. LoadsOK' /\ AnswersCurrent' /\ RangeAsked' /\ Forward'  BY <1>1, QuietStep
<1>3. TypeOK'
  BY <1>2 DEF IInv, TypeOK, Open, Tell, TellFails, Differ, SyncPost, server, mode, loading,
              stream, Phases
<1>4. ModeKnown'
  <2>1. CASE Open  BY <2>1 DEF Open, IInv, ModeKnown, mode
  <2>2. CASE Tell  BY <2>2 DEF Tell, ModeKnown, server
  <2>3. CASE TellFails  BY <2>3 DEF TellFails, ModeKnown
  <2>4. CASE Differ  BY <2>4 DEF Differ, IInv, ModeKnown, mode
  <2>5. CASE SyncPost  BY <2>5 DEF SyncPost, ModeKnown
  <2> QED  BY <2>1, <2>2, <2>3, <2>4, <2>5
<1>5. NotYet'
  BY DEF IInv, Open, Tell, TellFails, Differ, SyncPost, NotYet, mode, loading
<1> QED  BY <1>2, <1>3, <1>4, <1>5 DEF IInv

\* The steps of a switch that begin no load, and those of others.
LEMMA SwitchStep ==
    ASSUME IInv,
           \/ Flip
           \/ \E f \in flips : SetMode(f) \/ FlipFails(f)
           \/ \E on \in BOOLEAN : Elsewhere(on)
    PROVE  IInv'
<1>1. UNCHANGED <<version, unsent, loading, screen, stream, page, heard, banner>>
  BY DEF Flip, SetMode, FlipFails, Elsewhere, server
<1>2. LoadsOK' /\ AnswersCurrent' /\ RangeAsked' /\ Forward'  BY <1>1, QuietStep
<1>3. TypeOK' /\ ModeKnown'
  <2>1. CASE Flip
    <3>1. flips' = flips \cup {[n |-> flipped, on |-> ~box, set |-> FALSE]}
          /\ UNCHANGED <<flag, strange>>
      BY <2>1 DEF Flip, server
    <3>2. [n |-> flipped, on |-> ~box, set |-> FALSE] \in Flips
      BY DEF IInv, TypeOK, Flips
    <3>3. TypeOK'
      <4>1. flips' \subseteq Flips  BY <3>1, <3>2 DEF IInv, TypeOK
      <4>2. flipped' \in Nat /\ box' \in BOOLEAN /\ UNCHANGED stored
        BY <2>1 DEF IInv, TypeOK, Flip
      <4> QED  BY <1>1, <1>2, <3>1, <4>1, <4>2 DEF IInv, TypeOK, stream, loading
    <3>4. (\A f \in flips' : ~f.set) <=> (\A f \in flips : ~f.set)  BY <3>1
    <3>5. \A f \in flips' : f.set => f \in flips  BY <3>1
    <3>6. ModeKnown'
      BY <1>1, <3>1, <3>4, <3>5 DEF IInv, ModeKnown, loading, screen
    <3> QED  BY <3>3, <3>6
  <2>2. ASSUME NEW f \in flips, SetMode(f) PROVE TypeOK' /\ ModeKnown'
    <3> DEFINE g == [n |-> f.n, on |-> f.on, set |-> TRUE]
    <3>1. f \in Flips /\ g \in Flips /\ g.set = TRUE /\ g.on = f.on
      BY DEF IInv, TypeOK, Flips
    <3>2. flips' = (flips \ {f}) \cup {g} /\ flag' = f.on /\ strange' = (flips # {f} \/ Syncing)
          /\ f.on \in BOOLEAN
      BY <2>2, <3>1 DEF SetMode, Flips
    <3> HIDE DEF g
    <3>3. TypeOK'
      <4>1. flips' \subseteq Flips  BY <3>1, <3>2 DEF IInv, TypeOK
      <4> QED  BY <1>1, <1>2, <2>2, <3>2, <4>1 DEF IInv, TypeOK, SetMode, stream, loading
    <3>4. ModeKnown'
      <4> SUFFICES ASSUME ~strange' PROVE ModeKnown'  BY DEF ModeKnown
      <4>1. flips' = {g} /\ ~Syncing /\ page \in Phases  BY <3>2 DEF IInv, TypeOK
      <4>2. page # "closed"  BY DEF IInv, NotYet
      <4>3. page' \in {"loading", "ready"}  BY <1>1, <4>1, <4>2 DEF Syncing, Phases
      <4>4. \A h \in flips' : h.set /\ flag' = h.on  BY <3>1, <3>2, <4>1
      <4> QED  BY <4>1, <4>3, <4>4 DEF ModeKnown
    <3> QED  BY <3>3, <3>4
  <2>3. ASSUME NEW f \in flips, FlipFails(f) PROVE TypeOK' /\ ModeKnown'
    <3>1. flips' = flips \ {f} /\ strange' = (strange \/ f.set) /\ UNCHANGED flag
      BY <2>3 DEF FlipFails, server
    <3>2. f.set \in BOOLEAN  BY DEF IInv, TypeOK, Flips
    <3>3. TypeOK'
      BY <1>1, <1>2, <2>3, <3>1, <3>2 DEF IInv, TypeOK, FlipFails, stream, loading
    <3>4. ModeKnown'
      <4> SUFFICES ASSUME ~strange' PROVE ModeKnown'  BY DEF ModeKnown
      <4>1. ~strange /\ ~f.set  BY <3>1, <3>2
      <4>2. (\A h \in flips' : ~h.set) <=> (\A h \in flips : ~h.set)  BY <3>1, <4>1
      <4> QED  BY <1>1, <3>1, <4>1, <4>2 DEF IInv, ModeKnown, loading, screen
    <3> QED  BY <3>3, <3>4
  <2>4. ASSUME NEW on \in BOOLEAN, Elsewhere(on) PROVE TypeOK' /\ ModeKnown'
    <3>1. flag' = on /\ strange' = (strange \/ on # flag) /\ UNCHANGED flips
      BY <2>4 DEF Elsewhere
    <3>2. TypeOK'
      BY <1>1, <1>2, <2>4, <3>1 DEF IInv, TypeOK, Elsewhere, stream, loading
    <3>3. ModeKnown'
      <4> SUFFICES ASSUME ~strange' PROVE ModeKnown'  BY DEF ModeKnown
      <4>1. ~strange /\ flag' = flag  BY <3>1
      <4> QED  BY <1>1, <3>1, <4>1 DEF IInv, ModeKnown, loading, screen
    <3> QED  BY <3>2, <3>3
  <2> QED  BY <2>1, <2>2, <2>3, <2>4
<1>4. NotYet'
  <2>1. NotYet  BY DEF IInv
  <2> QED  BY <1>1, <2>1 DEF Flip, SetMode, FlipFails, Elsewhere, NotYet, loading
<1> QED  BY <1>2, <1>3, <1>4 DEF IInv

\* Commits, and what becomes of their events.
LEMMA StreamStep ==
    ASSUME IInv, Commit \/ Broadcast \/ Connect \/ Drop \/ Restart
    PROVE  IInv'
<1>1. UNCHANGED <<range, loads, begun, screen, page, heard, banner, flips>>
  BY DEF Commit, Broadcast, Connect, Drop, Restart, mode, loading
<1>2. LoadsOK' /\ RangeAsked' /\ NotYet'
  BY <1>1 DEF IInv, TypeOK, LoadsOK, RangeAsked, NotYet, screen
<1>3. version' \in Nat /\ version <= version' /\ flag' \in BOOLEAN /\ strange' \in BOOLEAN
  BY DashboardAssumption
  DEF IInv, TypeOK, Commit, Broadcast, Connect, Drop, Restart, server, mode
<1>4. TypeOK'
  <2>1. UNCHANGED <<stored, box, flipped>>
    BY DEF Commit, Broadcast, Connect, Drop, Restart, mode
  <2>2. unsent' \in Nat /\ events' \in Nat
    BY DEF IInv, TypeOK, Commit, Broadcast, Connect, Drop, Restart, server, stream
  <2>3. live' \in BOOLEAN /\ missed' \in BOOLEAN
    BY DEF IInv, TypeOK, Commit, Broadcast, Connect, Drop, Restart, server, stream, loading
  <2> QED  BY <1>1, <1>2, <1>3, <2>1, <2>2, <2>3 DEF IInv, TypeOK
<1>5. Forward'
  <2>1. \A l \in loads : \A c \in Covered(l.kind) :
          Real(l.got[c]) => l.got[c].version <= version'
    <3> SUFFICES ASSUME NEW l \in loads, NEW c \in Covered(l.kind), Real(l.got[c])
                 PROVE  l.got[c].version <= version'
      OBVIOUS
    <3>1. l.got[c] \in Answer  BY LoadFields DEF IInv, TypeOK, LoadsOK, Real
    <3>2. l.got[c].version \in Nat /\ l.got[c].version <= version
      BY <3>1 DEF IInv, Forward, Answer
    <3> QED  BY <1>3, <3>2 DEF IInv, TypeOK
  <2>2. \A c \in Cards : Real(shown[c]) => shown[c].version <= version'
    <3> SUFFICES ASSUME NEW c \in Cards, Real(shown[c])
                 PROVE  shown[c].version <= version'
      OBVIOUS
    <3>1. shown[c] \in Answer  BY DEF IInv, TypeOK, LoadsOK, Real
    <3>2. shown[c].version \in Nat /\ shown[c].version <= version
      BY <3>1 DEF IInv, Forward, Answer
    <3> QED  BY <1>3, <3>2 DEF IInv, TypeOK
  <2> QED  BY <1>1, <2>1, <2>2 DEF IInv, Forward, screen
<1>6. AnswersCurrent'
  <2> SUFFICES ASSUME unsent' = 0, events' = 0, ~missed' PROVE AnswersCurrent'
    BY DEF AnswersCurrent
  <2>1. unsent = 0 /\ events = 0 /\ ~missed /\ version' = version
    <3>0. unsent \in Nat /\ events \in Nat  BY DEF IInv, TypeOK
    <3>1. CASE Commit  BY <3>0, <3>1 DEF Commit
    <3>2. CASE Broadcast
      <4>1. live /\ events' = events + 1  BY <3>2 DEF Broadcast
      <4> QED  BY <3>0, <4>1
    <3>3. CASE Connect  BY <3>3 DEF Connect, server, loading
    <3>4. CASE Drop
      <4>1. ~missed /\ ~(events > 0) /\ UNCHANGED <<version, unsent>>
        BY <3>4 DEF Drop, server
      <4> QED  BY <3>0, <4>1
    <3>5. CASE Restart
      <4>1. ~missed /\ ~(events > 0) /\ ~(unsent > 0) /\ UNCHANGED version
        BY <3>5 DEF Restart
      <4> QED  BY <3>0, <4>1
    <3> QED  BY <3>1, <3>2, <3>3, <3>4, <3>5
  <2> QED  BY <1>1, <2>1 DEF IInv, AnswersCurrent, screen
<1>7. ModeKnown'
  <2> SUFFICES ASSUME ~strange' PROVE ModeKnown'  BY DEF ModeKnown
  <2>1. ~strange /\ flag' = flag
    <3>1. CASE Restart  BY <3>1 DEF Restart
    <3>2. CASE ~Restart  BY <3>2 DEF Commit, Broadcast, Connect, Drop, server, mode
    <3> QED  BY <3>1, <3>2
  <2> QED  BY <1>1, <2>1 DEF IInv, ModeKnown, screen
<1> QED  BY <1>2, <1>4, <1>5, <1>6, <1>7 DEF IInv

\* A load that begins leaves the newest answers current, for it has none yet.
LEMMA BeginCurrent ==
    ASSUME IInv, NEW kind \in Kinds, NEW days \in Ranges, Begin(kind, days),
           UNCHANGED <<version, unsent, screen>>,
           kind = "hourly" => UNCHANGED events
    PROVE  LoadsOK' /\ RangeAsked' /\ Forward' /\ AnswersCurrent'
<1>1. /\ LoadsOK' /\ RangeAsked' /\ Forward'
      /\ \A l \in loads' : \A c \in Covered(l.kind) :
           l.n = begun'[c] /\ l.got[c] # None =>
             kind = "hourly" /\ l \in loads /\ l.n = begun[c]
      /\ \A c \in Cards :
           drawn'[c] = begun'[c] => kind = "hourly" /\ drawn[c] = begun[c]
  BY BeginStep DEF IInv, TypeOK
<1>2. AnswersCurrent'
  <2> SUFFICES ASSUME unsent' = 0, events' = 0, ~missed' PROVE AnswersCurrent'
    BY DEF AnswersCurrent
  <2>1. kind = "hourly" => unsent = 0 /\ events = 0 /\ ~missed
    BY DEF Begin, IInv, TypeOK
  <2>2. \A l \in loads' : \A c \in Covered(l.kind) :
          l.n = begun'[c] /\ Real(l.got[c]) => l.got[c].version = version
    BY <1>1, <2>1 DEF IInv, AnswersCurrent, Real
  <2>3. \A c \in Cards :
          drawn'[c] = begun'[c] /\ Real(shown'[c]) => shown'[c].version = version
    BY <1>1, <2>1 DEF IInv, AnswersCurrent, Real, screen
  <2> QED  BY <2>2, <2>3 DEF AnswersCurrent
<1> QED  BY <1>1, <1>2

LEMMA BeginTypes ==
    ASSUME IInv, NEW kind, NEW days, Begin(kind, days)
    PROVE  missed' \in BOOLEAN
BY DEF Begin, IInv, TypeOK

\* The steps that begin a load.
LEMMA ChooseStep ==
    ASSUME IInv, NEW days \in Ranges, Choose(days)
    PROVE  IInv'
<1>1. /\ Begin("hourly", days) /\ "hourly" \in Kinds
      /\ UNCHANGED <<server, page, mode, screen, stream>>
  BY DEF Choose, Kinds
<1>2. LoadsOK' /\ RangeAsked' /\ Forward' /\ AnswersCurrent'
  BY <1>1, BeginCurrent DEF server, stream
<1>3. TypeOK'
  BY <1>1, <1>2, BeginTypes DEF IInv, TypeOK, server, mode, stream
<1>4. /\ \A l \in loads' : \A c \in Covered(l.kind) :
           l.n = begun'[c] /\ l.got[c] # None => l \in loads /\ l.n = begun[c]
      /\ \A c \in Cards : drawn'[c] = begun'[c] => drawn[c] = begun[c]
  BY <1>1, BeginStep DEF IInv, TypeOK, server
<1>5. ModeKnown'
  <2> SUFFICES ASSUME ~strange' PROVE ModeKnown'  BY DEF ModeKnown
  <2> QED  BY <1>1, <1>4 DEF IInv, ModeKnown, server, mode, screen
<1>6. NotYet'
  <2>1. Fresh("hourly", days).kind = "hourly"  BY DEF Fresh
  <2> QED  BY <1>1, <2>1 DEF IInv, NotYet, mode, Begin
<1> QED  BY <1>2, <1>3, <1>5, <1>6 DEF IInv

\* A loadAll begins while the mode is known, or is becoming known.
LEMMA LoadAllMode ==
    ASSUME IInv, NEW kind \in {"main", "refresh"}, Begin(kind, range),
           UNCHANGED <<version, screen>>
    PROVE  /\ \A l \in loads' : \A c \in Covered(l.kind) : l.n = begun'[c] => l.got[c] = None
           /\ \A c \in Cards : drawn'[c] # begun'[c]
BY BeginStep DEF IInv, TypeOK, LoadsOK, Kinds

LEMMA OnSessionStep ==
    ASSUME IInv, OnSession
    PROVE  IInv'
<1>1. /\ Begin("refresh", range) /\ "refresh" \in Kinds /\ range \in Ranges
      /\ events' = events - 1 /\ events > 0
      /\ UNCHANGED <<server, page, mode, screen, live>>
  BY DEF OnSession, Kinds, IInv, TypeOK, LoadsOK
<1>2. LoadsOK' /\ RangeAsked' /\ Forward' /\ AnswersCurrent'
  BY <1>1, BeginCurrent DEF server
<1>3. TypeOK'
  BY <1>1, <1>2, BeginTypes DEF IInv, TypeOK, server, mode
<1>4. ModeKnown'
  <2> SUFFICES ASSUME ~strange' PROVE ModeKnown'  BY DEF ModeKnown
  <2> QED  BY <1>1, LoadAllMode DEF IInv, ModeKnown, server, mode
<1>5. NotYet'
  <2>1. Fresh("refresh", range).kind = "refresh"  BY DEF Fresh
  <2> QED  BY <1>1, <2>1 DEF IInv, NotYet, mode, Begin
<1> QED  BY <1>2, <1>3, <1>4, <1>5 DEF IInv

LEMMA FirstLoadStep ==
    ASSUME IInv, Agree \/ Synced
    PROVE  IInv'
<1> DEFINE on == IF page = "told" THEN heard ELSE ~heard
<1>1. /\ FirstLoad(on) /\ on \in BOOLEAN
      /\ UNCHANGED <<server, stored, flips, flipped, screen, stream>>
      /\ strange' = (strange \/ page = "posting")
      /\ page \in {"told", "posting", "posted"}
  BY DEF Agree, Synced, IInv, TypeOK
<1>2. ~strange' => ~strange /\ flag = on /\ \A f \in flips : ~f.set
  BY <1>1 DEF IInv, TypeOK, ModeKnown
<1> HIDE DEF on
<1>3. /\ Begin("main", range) /\ "main" \in Kinds /\ range \in Ranges
      /\ page' = "loading" /\ heard' = FALSE /\ banner' = on /\ box' = on
  BY <1>1 DEF FirstLoad, Apply, Kinds, IInv, TypeOK, LoadsOK
<1>4. LoadsOK' /\ RangeAsked' /\ Forward' /\ AnswersCurrent'
  BY <1>1, <1>3, BeginCurrent DEF server, stream
<1>5. TypeOK'
  BY <1>1, <1>3, <1>4, BeginTypes DEF IInv, TypeOK, server, stream, Phases
<1>6. ModeKnown'
  <2> SUFFICES ASSUME ~strange' PROVE ModeKnown'  BY DEF ModeKnown
  <2>1. flag' = banner' /\ \A f \in flips' : ~f.set  BY <1>1, <1>2, <1>3 DEF server
  <2> QED  BY <1>1, <1>3, <2>1, LoadAllMode DEF ModeKnown, server
<1>7. NotYet'
  <2>1. \A l \in loads : l.kind # "main"  BY <1>1 DEF IInv, NotYet
  <2> QED  BY <1>3, <2>1 DEF NotYet, Begin
<1> QED  BY <1>4, <1>5, <1>6, <1>7 DEF IInv

LEMMA FlippedStep ==
    ASSUME IInv, NEW f \in flips, Flipped(f)
    PROVE  IInv'
<1>1. f \in Flips /\ f.on \in BOOLEAN  BY DEF IInv, TypeOK, Flips
<1>2. /\ Begin("refresh", range) /\ "refresh" \in Kinds /\ range \in Ranges
      /\ flips' = flips \ {f} /\ stored' = f.on /\ banner' = f.on /\ box' = f.on /\ f.set
      /\ UNCHANGED <<server, page, heard, flipped, strange, screen, stream>>
  BY DEF Flipped, Apply, Kinds, IInv, TypeOK, LoadsOK
<1>3. LoadsOK' /\ RangeAsked' /\ Forward' /\ AnswersCurrent'
  BY <1>2, BeginCurrent DEF server, stream
<1>4. TypeOK'
  BY <1>1, <1>2, <1>3, BeginTypes DEF IInv, TypeOK, server, stream
<1>5. ModeKnown'
  <2> SUFFICES ASSUME ~strange' PROVE ModeKnown'  BY DEF ModeKnown
  <2>1. ~strange  BY <1>2
  <2>2. page \in {"posting", "loading", "ready"}
    BY <1>2, <2>1 DEF IInv, ModeKnown, TypeOK, Phases
  <2>3. page \in {"loading", "ready"} => flag' = banner' /\ \A h \in flips' : h.set => flag' = h.on
    BY <1>2, <2>1 DEF IInv, ModeKnown, server
  <2> QED  BY <1>2, <2>2, <2>3, LoadAllMode DEF ModeKnown, server
<1>6. NotYet'
  <2>1. Fresh("refresh", range).kind = "refresh"  BY DEF Fresh
  <2> QED  BY <1>2, <2>1 DEF IInv, NotYet, Begin
<1> QED  BY <1>3, <1>4, <1>5, <1>6 DEF IInv

\* The steps of a load.
LEMMA ServeInv ==
    ASSUME IInv, NEW l \in loads, NEW c \in Cards, Serve(l, c)
    PROVE  IInv'
<1>1. /\ LoadsOK' /\ RangeAsked' /\ Forward'
      /\ \A k \in loads' : \A d \in Covered(k.kind) :
           \/ k.got[d] = Answered
           \/ \E j \in loads : /\ j.n = k.n /\ j.kind = k.kind
                               /\ j.got[d] = k.got[d]
  BY ServeStep DEF IInv
<1>2. UNCHANGED <<version, unsent, flag, page, mode, begun, missed, drawn, shown, stream>>
  BY DEF Serve, server, screen
<1>3. TypeOK'  BY <1>1, <1>2 DEF IInv, TypeOK, mode, stream
<1>4. Real(Answered) => Answered.version = version  BY DEF Real, Answered
<1>5. Answered.mock = flag  BY DEF Answered
<1>6. AnswersCurrent'
  <2> SUFFICES ASSUME unsent' = 0, events' = 0, ~missed' PROVE AnswersCurrent'
    BY DEF AnswersCurrent
  <2> QED  BY <1>1, <1>2, <1>4 DEF IInv, AnswersCurrent, stream
<1>7. ModeKnown'
  <2> SUFFICES ASSUME ~strange' PROVE ModeKnown'  BY DEF ModeKnown
  <2> QED  BY <1>1, <1>2, <1>5 DEF IInv, ModeKnown, mode
<1>8. NotYet'
  <2>1. loads' = (loads \ {l}) \cup {Served(l, c)} /\ Served(l, c).kind = l.kind
    BY ServedFields DEF Serve, IInv, TypeOK, LoadsOK
  <2> HIDE DEF Served
  <2> QED  BY <1>2, <2>1 DEF IInv, NotYet, mode
<1> QED  BY <1>1, <1>3, <1>6, <1>7, <1>8 DEF IInv

\* main goes on after its own load only.
LEMMA EndedPage ==
    ASSUME IInv, NEW l \in loads, Ended(l)
    PROVE  /\ page' = page \/ (l.kind = "main" /\ page = "loading" /\ page' = "ready")
           /\ page' \in Phases
           /\ \A k \in loads : k # l /\ k.kind = "main" => page' = "loading"
BY DEF IInv, TypeOK, NotYet, Ended, Phases

LEMMA DrawInv ==
    ASSUME IInv, NEW l \in loads, Draw(l)
    PROVE  IInv'
<1>1. /\ LoadsOK' /\ RangeAsked' /\ Forward'
      /\ \A k \in loads' : \E j \in loads :
           j.n = k.n /\ j.kind = k.kind /\ j.got = k.got
      /\ \A c \in Cards :
           \/ c \in Covered(l.kind) /\ drawn'[c] = l.n /\ shown'[c] = l.got[c]
           \/ c \notin Covered(l.kind) /\ drawn'[c] = drawn[c] /\ shown'[c] = shown[c]
      /\ begun' = begun
  BY DrawStep DEF IInv
<1>2. UNCHANGED <<version, unsent, flag, mode, missed, stream>> /\ Ended(l)
  BY DEF Draw, server
<1>3. /\ page' = page \/ (l.kind = "main" /\ page = "loading" /\ page' = "ready")
      /\ page' \in Phases
      /\ \A k \in loads : k # l /\ k.kind = "main" => page' = "loading"
  BY <1>2, EndedPage
<1>4. TypeOK'  BY <1>1, <1>2, <1>3 DEF IInv, TypeOK, mode, stream
<1>5. AnswersCurrent'
  <2> SUFFICES ASSUME unsent' = 0, events' = 0, ~missed' PROVE AnswersCurrent'
    BY DEF AnswersCurrent
  <2>1. AnswersCurrent /\ unsent = 0 /\ events = 0 /\ ~missed  BY <1>2 DEF IInv, stream
  <2>2. \A k \in loads' : \A c \in Covered(k.kind) :
          k.n = begun'[c] /\ Real(k.got[c]) => k.got[c].version = version'
    BY <1>1, <1>2, <2>1 DEF AnswersCurrent
  <2>3. \A c \in Cards :
          drawn'[c] = begun'[c] /\ Real(shown'[c]) => shown'[c].version = version'
    BY <1>1, <1>2, <2>1 DEF AnswersCurrent
  <2> QED  BY <2>2, <2>3 DEF AnswersCurrent
<1>6. ModeKnown'
  <2> SUFFICES ASSUME ~strange' PROVE ModeKnown'  BY DEF ModeKnown
  <2>1. ~strange /\ ModeKnown /\ UNCHANGED <<flips, banner, heard>>  BY <1>2 DEF IInv, mode
  <2>2. page' \in {"loading", "ready"} <=> page \in {"loading", "ready"}  BY <1>3
  <2>3. page' \notin {"loading", "ready"} => page' = page  BY <1>3
  <2>4. ASSUME page' \in {"loading", "ready"}, \A f \in flips' : ~f.set
        PROVE  /\ flag' = banner'
               /\ \A k \in loads' : \A c \in Covered(k.kind) :
                    k.n = begun'[c] /\ k.got[c] # None => k.got[c].mock = banner'
               /\ \A c \in Cards :
                    drawn'[c] = begun'[c] /\ shown'[c] # None => shown'[c].mock = banner'
    BY <1>1, <1>2, <2>1, <2>2, <2>4 DEF ModeKnown
  <2> QED  BY <1>2, <2>1, <2>2, <2>3, <2>4 DEF ModeKnown
<1>7. NotYet'
  <2>1. loads' = {Overtaken(k) : k \in loads \ {l}}  BY DEF Draw
  <2>2. \A k \in loads : Overtaken(k).kind = k.kind
    BY OvertakenFields DEF IInv, TypeOK, LoadsOK
  <2>3. page' = "closed" => page = "closed"  BY <1>3
  <2> QED  BY <1>2, <1>3, <2>1, <2>2, <2>3 DEF IInv, NotYet, mode
<1> QED  BY <1>1, <1>4, <1>5, <1>6, <1>7 DEF IInv

LEMMA FailInv ==
    ASSUME IInv, NEW l \in loads, Fail(l)
    PROVE  IInv'
<1>1. /\ loads' = loads \ {l} /\ Ended(l)
      /\ UNCHANGED <<server, mode, range, begun, missed, screen, stream>>
  BY DEF Fail
<1>2. /\ page' = page \/ (l.kind = "main" /\ page = "loading" /\ page' = "ready")
      /\ page' \in Phases
      /\ \A k \in loads : k # l /\ k.kind = "main" => page' = "loading"
  BY <1>1, EndedPage
<1>3. LoadsOK' /\ RangeAsked' /\ Forward' /\ AnswersCurrent'
  BY <1>1 DEF IInv, TypeOK, LoadsOK, RangeAsked, Forward, AnswersCurrent, server, screen, stream
<1>4. TypeOK'  BY <1>1, <1>2, <1>3 DEF IInv, TypeOK, server, mode, stream
<1>5. ModeKnown'
  <2> SUFFICES ASSUME ~strange' PROVE ModeKnown'  BY DEF ModeKnown
  <2>1. page' \in {"loading", "ready"} <=> page \in {"loading", "ready"}  BY <1>2
  <2>2. page' \notin {"loading", "ready"} => page' = page  BY <1>2
  <2> QED  BY <1>1, <2>1, <2>2 DEF IInv, ModeKnown, server, mode, screen
<1>6. NotYet'
  <2>1. page' = "closed" => page = "closed"  BY <1>2
  <2> QED  BY <1>1, <1>2, <2>1 DEF IInv, NotYet, mode
<1> QED  BY <1>3, <1>4, <1>5, <1>6 DEF IInv

LEMMA StepInv == IInv /\ [Next]_vars => IInv'
<1> SUFFICES ASSUME IInv, [Next]_vars PROVE IInv'  OBVIOUS
<1>1. CASE UNCHANGED vars
  BY <1>1 DEF vars, server, mode, loading, screen, stream, IInv, TypeOK, LoadsOK,
              AnswersCurrent, RangeAsked, Forward, ModeKnown, NotYet
<1>2. CASE Load  BY <1>2, ServeInv, DrawInv, FailInv, ChooseStep DEF Load
<1>3. CASE Stream  BY <1>3, StreamStep, OnSessionStep DEF Stream
<1>4. CASE Sync  BY <1>4, SyncStep, FirstLoadStep DEF Sync
<1>5. CASE Switch  BY <1>5, SwitchStep, FlippedStep DEF Switch
<1>6. CASE \E on \in BOOLEAN : Elsewhere(on)  BY <1>6, SwitchStep
<1>7. CASE Commit \/ Broadcast \/ Restart  BY <1>7, StreamStep
<1> QED  BY <1>1, <1>2, <1>3, <1>4, <1>5, <1>6, <1>7 DEF Next

LEMMA Inductive == Spec => []IInv
BY InitInv, StepInv, PTL DEF Spec

-----------------------------------------------------------------------------
(* What a page shows.                                                       *)

\* Loads have numbers of their own, and no card is drawn without its answer.
THEOREM TypeCorrect == Spec => []TypeOK
<1>1. IInv => TypeOK  BY DEF IInv
<1> QED  BY <1>1, Inductive, PTL

\* A settled card is current, whatever else is under way: it is enough that its
\* newest load was drawn last, and that the page was told of every commit.
THEOREM SettledIsCurrent == Spec => []CurrentAtRest
<1>1. IInv => CurrentAtRest
  <2> SUFFICES ASSUME IInv, NEW c \in Cards, Settled(c)
               PROVE  /\ unsent = 0 /\ events = 0 /\ ~missed /\ ~shown[c].mock
                            => shown[c].version = version
                      /\ c = Hourly => charted = range
    BY DEF CurrentAtRest
  <2>1. drawn[c] = begun[c] /\ drawn[c] # 0  BY DEF Settled, IInv, TypeOK, LoadsOK
  <2>2. shown[c] # None  BY <2>1 DEF IInv, TypeOK, LoadsOK
  <2> QED  BY <2>1, <2>2 DEF IInv, AnswersCurrent, RangeAsked, Real
<1> QED  BY <1>1, Inductive, PTL

\* The banner says what settled cards show, unless someone else changed the mode.
THEOREM BannerIsRight == Spec => []BannerAtRest
<1>1. IInv => BannerAtRest
  <2> SUFFICES ASSUME IInv, NEW c \in Cards, Settled(c), ~strange, flips = {}, ~Syncing
               PROVE  shown[c].mock = banner
    BY DEF BannerAtRest
  <2>1. drawn[c] = begun[c] /\ drawn[c] # 0  BY DEF Settled, IInv, TypeOK, LoadsOK
  <2>2. shown[c] # None  BY <2>1 DEF IInv, TypeOK, LoadsOK
  <2>3. page \in {"loading", "ready"}  BY DEF IInv, TypeOK, ModeKnown, Syncing, Phases
  <2> QED  BY <2>1, <2>2, <2>3 DEF IInv, ModeKnown
<1> QED  BY <1>1, Inductive, PTL

\* Only an overtaken load takes a card back.
THEOREM NeverBack == Spec => NoStepBack
<1>1. IInv =>
        [\A l \in loads :
           Draw(l) /\ ~l.late =>
             \A c \in Cards :
               shown[c] # None /\ ~shown[c].mock /\ ~shown'[c].mock
                 => shown'[c].version >= shown[c].version]_vars
  <2> SUFFICES ASSUME IInv, NEW l \in loads, Draw(l), ~l.late, NEW c \in Cards,
                      shown[c] # None, ~shown[c].mock, ~shown'[c].mock
               PROVE  shown'[c].version >= shown[c].version
    OBVIOUS
  <2>1. shown[c] \in Answer /\ shown[c].version \in Nat  BY DEF IInv, TypeOK, LoadsOK, Answer
  <2>2. shown' = [d \in Cards |-> IF d \in Covered(l.kind) THEN l.got[d] ELSE shown[d]]
    BY DEF Draw
  <2>3. CASE c \in Covered(l.kind)
    <3>1. shown'[c] = l.got[c] /\ l.got[c] # None  BY <2>2, <2>3 DEF Draw, AllAnswered
    <3>2. l.got[c] \in Answer  BY <2>3, <3>1, LoadFields DEF IInv, TypeOK, LoadsOK
    <3>3. shown[c].version <= l.got[c].version
      BY <2>3, <3>1 DEF IInv, Forward, Real
    <3>4. l.got[c].version \in Nat  BY <3>2 DEF Answer
    <3> QED  BY <2>1, <3>1, <3>3, <3>4
  <2>4. CASE c \notin Covered(l.kind)  BY <2>1, <2>2, <2>4
  <2> QED  BY <2>3, <2>4
<1> QED  BY <1>1, Inductive, PTL DEF NoStepBack
=============================================================================
