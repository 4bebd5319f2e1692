-------------------------- MODULE Transcript_proofs --------------------------
(* Proofs about Transcript for any models, tools, lines and length of file.  *)
EXTENDS Transcript, FiniteSums, TLAPS

-----------------------------------------------------------------------------
(* What a line does to each reader *)

SummaryType ==
    [tokens : [Counters -> Nat], model : Models \cup {Unnamed},
     turns : Nat, started : Nat, ended : Nat]

DetailType ==
    [turns : Seq(TurnType), toolCounts : [Tools -> Nat],
     models : Seq(Models), seen : [Models -> Nat], first : Nat, last : Nat]

\* Clamped counts are natural numbers and only add.
LEMMA AddedGrows ==
    ASSUME NEW l \in Lines, NEW n \in [Counters -> Nat]
    PROVE  /\ Added(l, n) \in [Counters -> Nat]
           /\ \A c \in Counters : n[c] <= Added(l, n)[c]
<1>1. l.tokens \in [Counters -> Int]
  BY TranscriptAssumption DEF LineType
<1>2. \A c \in Counters : Clamp(l.tokens[c]) \in Nat
  BY <1>1 DEF Clamp
<1> QED
  BY <1>2 DEF Added

\* Earlier and Later are a minimum, in which 0 counts as no time, and a maximum.
LEMMA TimesMove ==
    ASSUME NEW t \in Nat, NEW x \in Nat
    PROVE  /\ Earlier(t, x) \in Nat /\ Later(t, x) \in Nat
           /\ x <= Later(t, x) /\ t <= Later(t, x)
           /\ x # 0 => Earlier(t, x) # 0 /\ Earlier(t, x) <= x
           /\ t # 0 => Earlier(t, x) # 0 /\ Earlier(t, x) <= t
           /\ Earlier(t, x) \in {t, x} /\ Later(t, x) \in {t, x}
           /\ t = 0 => Earlier(t, x) = x
  BY DEF Earlier, Later

\* What Parse does with the time of a line.
LEMMA TimedGrows ==
    ASSUME NEW l \in Lines, NEW s \in SummaryType
    PROVE  /\ Timed(s, l) \in SummaryType /\ Grows(s, Timed(s, l))
           /\ Timed(s, l).tokens = s.tokens /\ Timed(s, l).turns = s.turns
           /\ Timed(s, l).started = Earlier(l.time, s.started)
           /\ Timed(s, l).ended = Later(l.time, s.ended)
<1>1. l.time \in Nat /\ s.started \in Nat /\ s.ended \in Nat
  BY TranscriptAssumption DEF LineType, SummaryType
<1>2. Earlier(l.time, s.started) \in Nat /\ Later(l.time, s.ended) \in Nat
  BY <1>1, TimesMove
<1> DEFINE t == Timed(s, l)
<1>3. /\ t \in SummaryType /\ t.tokens = s.tokens /\ t.turns = s.turns
      /\ t.started = Earlier(l.time, s.started)
      /\ t.ended = Later(l.time, s.ended)
  BY <1>2 DEF Timed, SummaryType
<1>4. s.ended <= Later(l.time, s.ended)
  BY <1>1, TimesMove
<1>5. s.started # 0 => /\ Earlier(l.time, s.started) # 0
                       /\ Earlier(l.time, s.started) <= s.started
  BY <1>1, TimesMove
<1> HIDE DEF t
<1>6. Grows(s, t)
  BY <1>3, <1>4, <1>5 DEF Grows, SummaryType
<1> QED
  BY <1>3, <1>6 DEF t

\* What Parse does with the turn of a line.
LEMMA CountedGrows ==
    ASSUME NEW l \in Lines, NEW s \in SummaryType
    PROVE  /\ Counted(s, l) \in SummaryType /\ Grows(s, Counted(s, l))
           /\ Counted(s, l).tokens = Added(l, s.tokens)
           /\ Counted(s, l).turns = s.turns + 1
           /\ Counted(s, l).started = s.started
           /\ Counted(s, l).ended = s.ended
<1>1. l.model \in Models \cup {Unnamed}
  BY TranscriptAssumption DEF LineType
<1>2. /\ Added(l, s.tokens) \in [Counters -> Nat]
      /\ \A c \in Counters : s.tokens[c] <= Added(l, s.tokens)[c]
  BY AddedGrows DEF SummaryType
<1>3. Named(l, s.model) \in Models \cup {Unnamed}
  BY <1>1 DEF Named, SummaryType
<1> DEFINE u == Counted(s, l)
<1>4. /\ u \in SummaryType /\ u.turns = s.turns + 1
      /\ u.tokens = Added(l, s.tokens)
      /\ u.started = s.started /\ u.ended = s.ended
  <2> DEFINE k == Added(l, s.tokens)
             m == Named(l, s.model)
             n == s.turns + 1
  <2>1. u = [s EXCEPT !.turns = n, !.model = m, !.tokens = k]
    BY DEF Counted
  <2>2. k \in [Counters -> Nat] /\ m \in Models \cup {Unnamed} /\ n \in Nat
    BY <1>2, <1>3 DEF SummaryType
  <2> HIDE DEF k, m, n, u
  <2>3. u \in SummaryType
    BY <2>1, <2>2 DEF SummaryType
  <2>4. /\ u.turns = n /\ u.tokens = k
        /\ u.started = s.started /\ u.ended = s.ended
    BY <2>1, <2>2 DEF SummaryType
  <2> QED
    BY <2>3, <2>4 DEF k, n
<1> HIDE DEF u
<1>5. Grows(s, u)
  BY <1>2, <1>4 DEF Grows, SummaryType
<1> QED
  BY <1>4, <1>5 DEF u

\* Parse keeps its types and takes nothing back, and its times are those of
\* the lines that it decodes.
LEMMA ParseGrows ==
    ASSUME NEW l \in Lines, NEW s \in SummaryType
    PROVE  /\ ParseLine(s, l) \in SummaryType /\ Grows(s, ParseLine(s, l))
           /\ IF Decodes(l) /\ IsTurn(l)
              THEN /\ ParseLine(s, l).tokens = Added(l, s.tokens)
                   /\ ParseLine(s, l).turns = s.turns + 1
              ELSE /\ ParseLine(s, l).tokens = s.tokens
                   /\ ParseLine(s, l).turns = s.turns
           /\ ParseLine(s, l).started =
                 IF Decodes(l) THEN Earlier(l.time, s.started) ELSE s.started
           /\ ParseLine(s, l).ended =
                 IF Decodes(l) THEN Later(l.time, s.ended) ELSE s.ended
<1>1. CASE ~Decodes(l)
  BY <1>1 DEF ParseLine, Grows, SummaryType
<1>2. CASE Decodes(l) /\ ~IsTurn(l)
  BY <1>2, TimedGrows DEF ParseLine
<1>3. CASE Decodes(l) /\ IsTurn(l)
  <2> DEFINE t == Timed(s, l)
             u == Counted(t, l)
  <2>1. /\ t \in SummaryType /\ Grows(s, t)
        /\ t.tokens = s.tokens /\ t.turns = s.turns
        /\ t.started = Earlier(l.time, s.started)
        /\ t.ended = Later(l.time, s.ended)
    BY TimedGrows
  <2>2. ParseLine(s, l) = u
    BY <1>3 DEF ParseLine
  <2> HIDE DEF t
  <2>3. /\ u \in SummaryType /\ Grows(t, u)
        /\ u.tokens = Added(l, t.tokens) /\ u.turns = t.turns + 1
        /\ u.started = t.started /\ u.ended = t.ended
    BY <2>1, CountedGrows
  <2> HIDE DEF u
  <2>4. Grows(s, u)
    BY <2>1, <2>3 DEF Grows, SummaryType
  <2> QED
    BY <1>3, <2>1, <2>2, <2>3, <2>4
<1> QED
  BY <1>1, <1>2, <1>3

\* A turn of the page is well-formed.
LEMMA TurnTyped ==
    ASSUME NEW l \in Lines PROVE TurnOf(l) \in TurnType
<1>1. /\ l.model \in Models \cup {Unnamed}
      /\ l.tools \in [Tools \cup {Unnamed} -> Nat]
  BY TranscriptAssumption DEF LineType
<1>2. NoTokens \in [Counters -> Nat]
  BY DEF NoTokens
<1>3. Added(l, NoTokens) \in [Counters -> Nat]
  BY <1>2, AddedGrows
<1> QED
  BY <1>1, <1>2, <1>3 DEF TurnOf, TurnType

\* The model of the turn of a line is new to the page.
NewModel(d, l) ==
    /\ l.header /\ IsDetailed(l)
    /\ TurnOf(l).model # Unnamed /\ d.seen[TurnOf(l).model] = 0

\* ParseBreakdown keeps its types and the turns that it had.
LEMMA DetailGrows ==
    ASSUME NEW l \in Lines, NEW d \in DetailType
    PROVE  /\ DetailLine(d, l) \in DetailType
           /\ DetailLine(d, l).turns = IF l.header /\ IsDetailed(l)
                                       THEN Append(d.turns, TurnOf(l)) ELSE d.turns
           /\ IF NewModel(d, l)
              THEN /\ DetailLine(d, l).models = Append(d.models, TurnOf(l).model)
                   /\ DetailLine(d, l).seen =
                         [d.seen EXCEPT ![TurnOf(l).model] = Len(d.turns) + 1]
              ELSE /\ DetailLine(d, l).models = d.models
                   /\ DetailLine(d, l).seen = d.seen
           /\ DetailLine(d, l).first = IF l.header THEN Earlier(l.time, d.first) ELSE d.first
           /\ DetailLine(d, l).last = IF l.header THEN Later(l.time, d.last) ELSE d.last
<1>1. l.time \in Nat
  BY TranscriptAssumption DEF LineType
<1> DEFINE e == DetailTimed(d, l)
<1>2. /\ e \in DetailType /\ e.turns = d.turns
      /\ e.models = d.models /\ e.seen = d.seen
      /\ e.first = Earlier(l.time, d.first) /\ e.last = Later(l.time, d.last)
  BY <1>1 DEF DetailTimed, DetailType, Earlier, Later
<1> DEFINE t == TurnOf(l)
           n == NoteModel(e, t.model)
           f == DetailTurn(e, t)
<1>3. t \in TurnType
  BY TurnTyped
<1>4. t.model \in Models \cup {Unnamed} /\ t.tools \in [Tools -> Nat]
  BY <1>3 DEF TurnType
<1> HIDE DEF e, t
<1>5. /\ n \in DetailType /\ n.turns = e.turns
      /\ n.first = e.first /\ n.last = e.last
  <2>1. CASE t.model = Unnamed \/ e.seen[t.model] # 0
    BY <1>2, <2>1 DEF NoteModel
  <2>2. CASE ~(t.model = Unnamed \/ e.seen[t.model] # 0)
    <3>1. t.model \in Models
      BY <1>4, <2>2
    <3>2. Append(e.models, t.model) \in Seq(Models) /\ Len(e.turns) + 1 \in Nat
      BY <1>2, <3>1 DEF DetailType
    <3> QED
      BY <1>2, <2>2, <3>1, <3>2 DEF NoteModel, DetailType
  <2> QED
    BY <2>1, <2>2
<1>6. IF t.model = Unnamed \/ e.seen[t.model] # 0
       THEN n.models = e.models /\ n.seen = e.seen
       ELSE /\ n.models = Append(e.models, t.model)
            /\ n.seen = [e.seen EXCEPT ![t.model] = Len(e.turns) + 1]
  BY <1>2, <1>4 DEF NoteModel, DetailType
<1> HIDE DEF n
<1>7. f = [n EXCEPT !.turns = Append(@, t),
                    !.toolCounts = [m \in Tools |-> @[m] + t.tools[m]]]
  BY DEF DetailTurn, n
<1>8. /\ f \in DetailType /\ f.turns = Append(d.turns, t)
      /\ f.models = n.models /\ f.seen = n.seen
      /\ f.first = e.first /\ f.last = e.last
  <2>1. Append(n.turns, t) \in Seq(TurnType)
    BY <1>3, <1>5 DEF DetailType
  <2>2. [m \in Tools |-> n.toolCounts[m] + t.tools[m]] \in [Tools -> Nat]
    BY <1>4, <1>5 DEF DetailType
  <2>3. f = [n EXCEPT !.turns = Append(n.turns, t),
                      !.toolCounts = [m \in Tools |-> n.toolCounts[m] + t.tools[m]]]
    BY <1>7
  <2> HIDE DEF f
  <2> QED
    BY <1>2, <1>5, <2>1, <2>2, <2>3 DEF DetailType
<1>9. DetailLine(d, l) = IF ~l.header THEN d ELSE IF IsDetailed(l) THEN f ELSE e
  BY DEF DetailLine, e, t
<1>10. NewModel(d, l) <=> /\ l.header /\ IsDetailed(l)
                         /\ ~(t.model = Unnamed \/ e.seen[t.model] # 0)
  BY <1>2 DEF NewModel, t
<1>11. DetailLine(d, l).turns = IF l.header /\ IsDetailed(l)
                               THEN Append(d.turns, TurnOf(l)) ELSE d.turns
  BY <1>2, <1>8, <1>9 DEF t
<1>12. IF NewModel(d, l)
       THEN /\ DetailLine(d, l).models = Append(d.models, TurnOf(l).model)
            /\ DetailLine(d, l).seen =
                  [d.seen EXCEPT ![TurnOf(l).model] = Len(d.turns) + 1]
       ELSE /\ DetailLine(d, l).models = d.models
            /\ DetailLine(d, l).seen = d.seen
  <2>1. t = TurnOf(l)
    BY DEF t
  <2> HIDE DEF f
  <2> QED
    BY <1>2, <1>8, <1>9, <1>10, <1>6, <2>1
<1> HIDE DEF f
<1> QED
  BY <1>2, <1>8, <1>9, <1>11, <1>12
-----------------------------------------------------------------------------
(* Type correctness *)

\* Every line keeps the types of both readers.
LEMMA TypeStep == TypeOK /\ [Next]_vars => TypeOK'
<1> SUFFICES ASSUME TypeOK, [Next]_vars PROVE TypeOK'
  OBVIOUS
<1>1. summary \in SummaryType /\ detail \in DetailType
  BY DEF TypeOK, SummaryType, DetailType
<1>2. ASSUME NEW l \in Lines, ScanLine(l) PROVE TypeOK'
  <2>1. summary' \in SummaryType /\ detail' \in DetailType
    BY <1>1, <1>2, ParseGrows, DetailGrows DEF ScanLine
  <2>2. file' \in Seq(Lines) /\ failed' \in BOOLEAN
    BY <1>2 DEF ScanLine, TypeOK
  <2> QED
    BY <2>1, <2>2 DEF TypeOK, SummaryType, DetailType
<1>3. CASE ScanError
  BY <1>3 DEF ScanError, TypeOK
<1>4. CASE UNCHANGED vars
  BY <1>4 DEF vars, TypeOK
<1> QED
  BY <1>2, <1>3, <1>4 DEF Next

(* The sums of Parse and the turns of ParseBreakdown keep their types for    *)
(* every transcript; negative token counts never reach a total.              *)
THEOREM TypeCorrect == Spec => []TypeOK
<1>1. Init => TypeOK
  <2> SUFFICES ASSUME Init PROVE TypeOK
    OBVIOUS
  <2>1. NoTokens \in [Counters -> Nat]
    BY DEF NoTokens
  <2>2. /\ summary \in SummaryType /\ detail \in DetailType
    BY <2>1 DEF Init, SummaryType, DetailType
  <2>3. file \in Seq(Lines)
    BY DEF Init
  <2>4. failed \in BOOLEAN
    BY DEF Init
  <2> QED
    BY <2>2, <2>3, <2>4 DEF TypeOK, SummaryType, DetailType
<1> QED
  BY <1>1, TypeStep, PTL DEF Spec

-----------------------------------------------------------------------------
(* Time *)

\* A time that Parse reads, ParseBreakdown reads too.
LEMMA SpanStep == TypeOK /\ SpanCovered /\ [Next]_vars => SpanCovered'
<1> SUFFICES ASSUME TypeOK, SpanCovered, [Next]_vars PROVE SpanCovered'
  OBVIOUS
<1>1. summary \in SummaryType /\ detail \in DetailType
  BY DEF TypeOK, SummaryType, DetailType
<1>2. ASSUME NEW l \in Lines, ScanLine(l) PROVE SpanCovered'
  <2>1. l.time \in Nat /\ l.header \in BOOLEAN
    BY TranscriptAssumption DEF LineType
  <2>2. /\ detail'.first = IF l.header THEN Earlier(l.time, detail.first) ELSE detail.first
        /\ detail'.last = IF l.header THEN Later(l.time, detail.last) ELSE detail.last
    BY <1>1, <1>2, DetailGrows DEF ScanLine
  <2>3. \/ /\ summary'.started = summary.started
           /\ summary'.ended = summary.ended
        \/ /\ l.header
           /\ summary'.started = Earlier(l.time, summary.started)
           /\ summary'.ended = Later(l.time, summary.ended)
    BY <1>1, <1>2, ParseGrows DEF ScanLine, Decodes
  <2>4. /\ summary.started \in Nat /\ summary.ended \in Nat
        /\ detail.first \in Nat /\ detail.last \in Nat
    BY <1>1 DEF SummaryType, DetailType
  <2>5. CASE l.header
    BY <2>1, <2>2, <2>3, <2>4, <2>5 DEF SpanCovered, Earlier, Later
  <2>6. CASE ~l.header
    BY <2>2, <2>3, <2>4, <2>6 DEF SpanCovered
  <2> QED
    BY <2>5, <2>6
<1>3. CASE ScanError
  BY <1>3 DEF ScanError, SpanCovered
<1>4. CASE UNCHANGED vars
  BY <1>4 DEF vars, SpanCovered
<1> QED
  BY <1>2, <1>3, <1>4 DEF Next

(* The page's span of time contains the stored row's, for every transcript,  *)
(* however malformed its lines and unordered its timestamps.                 *)
THEOREM PageSpansRow == Spec => []SpanCovered
<1>1. Init => SpanCovered
  BY DEF Init, SpanCovered
<1> QED
  BY <1>1, TypeCorrect, SpanStep, PTL DEF Spec

-----------------------------------------------------------------------------
(* Growth *)

(* A longer transcript never makes a smaller summary, and the page keeps the *)
(* turns that it showed.                                                     *)
THEOREM LaterReportsGrow == Spec => NeverTakesBack
<1> DEFINE Kept == Grows(summary, summary') /\ IsPrefix(detail.turns, detail'.turns)
<1>1. TypeOK /\ [Next]_vars => [Kept]_vars
  <2> SUFFICES ASSUME TypeOK, Next PROVE Kept
    BY DEF vars
  <2>1. summary \in SummaryType /\ detail \in DetailType
    BY DEF TypeOK, SummaryType, DetailType
  <2>2. detail.turns \in Seq(TurnType)
    BY <2>1 DEF DetailType
  <2>3. CASE ScanError
    BY <2>1, <2>2, <2>3 DEF ScanError, Grows, IsPrefix, SummaryType
  <2>4. ASSUME NEW l \in Lines, ScanLine(l) PROVE Kept
    <3>1. Grows(summary, summary')
      BY <2>1, <2>4, ParseGrows DEF ScanLine
    <3>2. \/ detail'.turns = detail.turns
          \/ \E t \in TurnType : detail'.turns = Append(detail.turns, t)
      BY <2>1, <2>4, DetailGrows, TurnTyped DEF ScanLine
    <3>3. IsPrefix(detail.turns, detail'.turns)
      BY <2>2, <3>2 DEF IsPrefix
    <3> QED
      BY <3>1, <3>3
  <2> QED
    BY <2>3, <2>4 DEF Next
<1> QED
  BY <1>1, TypeCorrect, PTL DEF Spec, NeverTakesBack

-----------------------------------------------------------------------------
(* The turns of the page add up *)

\* The tokens of a sequence of turns in one counter.
TokenSum(s, c) == SumFunction([i \in DOMAIN s |-> s[i].tokens[c]])

\* One more turn adds its own tokens.
LEMMA TurnAdds ==
    ASSUME NEW s \in Seq(TurnType), NEW t \in TurnType, NEW c \in Counters
    PROVE  /\ TokenSum(s, c) \in Nat
           /\ TokenSum(Append(s, t), c) = TokenSum(s, c) + t.tokens[c]
<1> DEFINE n == Len(s)
           f == [i \in 1 .. n |-> s[i].tokens[c]]
           g == [i \in 1 .. n + 1 |-> Append(s, t)[i].tokens[c]]
<1>1. n \in Nat /\ DOMAIN s = 1 .. n /\ DOMAIN Append(s, t) = 1 .. n + 1
  OBVIOUS
<1>2. TokenSum(s, c) = SumFunctionOnSet(f, 1 .. n)
  BY <1>1 DEF TokenSum, SumFunction
<1>3. TokenSum(Append(s, t), c) = SumFunctionOnSet(g, 1 .. n + 1)
  BY <1>1 DEF TokenSum, SumFunction
<1>4. /\ \A i \in 1 .. n : f[i] \in Nat /\ g[i] = f[i]
      /\ g[n + 1] = t.tokens[c] /\ t.tokens[c] \in Nat
  <2>1. \A u \in TurnType : u.tokens[c] \in Nat
    BY DEF TurnType
  <2>2. /\ \A i \in 1 .. n : s[i] \in TurnType /\ Append(s, t)[i] = s[i]
        /\ Append(s, t)[n + 1] = t
    OBVIOUS
  <2>3. \A i \in 1 .. n : i \in 1 .. n + 1
    BY <1>1
  <2>4. n + 1 \in 1 .. n + 1
    BY <1>1
  <2> HIDE DEF n
  <2> QED
    BY <2>1, <2>2, <2>3, <2>4
<1>5. IsFiniteSet(1 .. n) /\ IsFiniteSet(1 .. n + 1)
  BY <1>1, FS_Interval
<1>6. (1 .. n + 1) \ {n + 1} = 1 .. n /\ n + 1 \in 1 .. n + 1
  BY <1>1
<1> HIDE DEF f, g, n
<1>7. \A i \in 1 .. n + 1 : g[i] \in Int
  BY <1>1, <1>4
<1>8. SumFunctionOnSet(g, 1 .. n + 1) =
        g[n + 1] + SumFunctionOnSet(g, (1 .. n + 1) \ {n + 1})
  BY <1>5, <1>6, <1>7, SumRemoves
<1>9. SumFunctionOnSet(g, 1 .. n) = SumFunctionOnSet(f, 1 .. n)
  <2>1. Summable(f, 1 .. n) /\ \A i \in 1 .. n : g[i] = f[i]
    BY <1>4, <1>5 DEF Summable
  <2> QED
    BY <2>1, SumsEqual
<1>10. SumFunctionOnSet(f, 1 .. n) \in Nat
  BY <1>4, <1>5, SumIsNat
<1>11. TokenSum(Append(s, t), c) = t.tokens[c] + SumFunctionOnSet(f, 1 .. n)
  BY <1>3, <1>4, <1>6, <1>8, <1>9
<1> QED
  BY <1>2, <1>4, <1>10, <1>11

\* What a line adds to the page is what it adds to the row, or nothing when
\* only ParseBreakdown takes it for a turn.
LEMMA TurnTokens ==
    ASSUME NEW l \in Lines, NEW n \in [Counters -> Nat], NEW c \in Counters
    PROVE  /\ TurnOf(l).tokens[c] \in Nat
           /\ l.message = "null" => TurnOf(l).tokens[c] = 0
           /\ l.message # "null" => Added(l, n)[c] = n[c] + TurnOf(l).tokens[c]
<1>1. l.tokens[c] \in Int
  BY TranscriptAssumption DEF LineType
<1>2. Clamp(l.tokens[c]) \in Nat /\ n[c] \in Nat
  BY <1>1 DEF Clamp
<1> QED
  BY <1>2 DEF TurnOf, Added, NoTokens

\* Without an odd line the readers agree in every respect.
Agreed ==
    /\ Len(detail.turns) = summary.turns
    /\ detail.first = summary.started /\ detail.last = summary.ended
    /\ \A c \in Counters : TokenSum(detail.turns, c) = summary.tokens[c]

AddUp ==
    /\ detail.last # 0 => detail.first # 0
    /\ \A c \in Counters : TokenSum(detail.turns, c) <= summary.tokens[c]
    /\ AnyOdd \/ Agreed

\* A line that is not odd is a turn of both readers or of none, and gives its
\* time to both or to none.
LEMMA NotOdd ==
    ASSUME NEW l \in Lines, ~Odd(l)
    PROVE  /\ Decodes(l) <=> l.header
           /\ Decodes(l) /\ IsTurn(l) <=> l.header /\ IsDetailed(l)
           /\ l.header /\ IsDetailed(l) => l.message # "null"
<1>1. /\ l.header \in BOOLEAN /\ l.assistant \in BOOLEAN
      /\ l.message \in {"absent", "null", "whole", "core", "content"}
  BY TranscriptAssumption DEF LineType
<1> QED
  BY <1>1 DEF Odd, Decodes, IsTurn, IsDetailed

\* Every line keeps the turns' tokens within the row's.
LEMMA AddUpStep == TypeOK /\ AddUp /\ [Next]_vars => AddUp'
<1> SUFFICES ASSUME TypeOK, AddUp, [Next]_vars PROVE AddUp'
  OBVIOUS
<1>1. /\ summary \in SummaryType /\ detail \in DetailType
      /\ summary.tokens \in [Counters -> Nat] /\ detail.turns \in Seq(TurnType)
      /\ summary.turns \in Nat
  BY DEF TypeOK, SummaryType, DetailType
<1>2. ASSUME NEW l \in Lines, ScanLine(l) PROVE AddUp'
  <2> DEFINE t == TurnOf(l)
             shown == l.header /\ IsDetailed(l)
             counted == Decodes(l) /\ IsTurn(l)
  <2>1. detail'.turns = IF shown THEN Append(detail.turns, t) ELSE detail.turns
    BY <1>1, <1>2, DetailGrows DEF ScanLine
  <2>2. IF counted
        THEN summary'.tokens = Added(l, summary.tokens) /\ summary'.turns = summary.turns + 1
        ELSE summary'.tokens = summary.tokens /\ summary'.turns = summary.turns
    BY <1>1, <1>2, ParseGrows DEF ScanLine
  <2>3. t \in TurnType
    BY TurnTyped
  <2>4. \A c \in Counters :
          /\ TokenSum(detail.turns, c) \in Nat /\ summary.tokens[c] \in Nat
          /\ TokenSum(Append(detail.turns, t), c) = TokenSum(detail.turns, c) + t.tokens[c]
    BY <1>1, <2>3, TurnAdds
  <2>5. \A c \in Counters :
          /\ t.tokens[c] \in Nat
          /\ l.message = "null" => t.tokens[c] = 0
          /\ l.message # "null" =>
                Added(l, summary.tokens)[c] = summary.tokens[c] + t.tokens[c]
    BY <1>1, TurnTokens
  <2>6. shown /\ l.message # "null" => counted
    BY DEF IsDetailed, IsTurn, Decodes
  <2>7. \A c \in Counters : summary.tokens[c] <= Added(l, summary.tokens)[c]
    BY <1>1, AddedGrows
  <2> HIDE DEF t, shown, counted
  <2>8. detail'.last # 0 => detail'.first # 0
    <3>1. /\ detail'.first = IF l.header THEN Earlier(l.time, detail.first) ELSE detail.first
          /\ detail'.last = IF l.header THEN Later(l.time, detail.last) ELSE detail.last
      BY <1>1, <1>2, DetailGrows DEF ScanLine
    <3>2. l.time \in Nat /\ detail.first \in Nat /\ detail.last \in Nat
      BY <1>1, TranscriptAssumption DEF LineType, DetailType
    <3> QED
      BY <3>1, <3>2 DEF AddUp, Earlier, Later
  <2>9. ASSUME NEW c \in Counters PROVE TokenSum(detail'.turns, c) <= summary'.tokens[c]
    <3>1. TokenSum(detail.turns, c) <= summary.tokens[c]
      BY DEF AddUp
    <3>2. summary'.tokens[c] \in {summary.tokens[c], Added(l, summary.tokens)[c]}
      BY <2>2
    <3>3. CASE shown /\ l.message # "null"
      <4>1. summary'.tokens[c] = summary.tokens[c] + t.tokens[c]
        BY <2>2, <2>5, <2>6, <3>3
      <4>2. TokenSum(detail'.turns, c) = TokenSum(detail.turns, c) + t.tokens[c]
        BY <2>1, <2>4, <3>3
      <4> QED
        BY <2>4, <2>5, <3>1, <4>1, <4>2
    <3>4. CASE ~(shown /\ l.message # "null")
      <4>1. TokenSum(detail'.turns, c) = TokenSum(detail.turns, c)
        BY <2>1, <2>4, <2>5, <3>4
      <4>2. summary.tokens[c] <= summary'.tokens[c]
        BY <2>2, <2>4, <2>7
      <4>3. summary'.tokens[c] \in Nat
        BY <2>2, <2>4, <2>5, <1>1, AddedGrows
      <4> QED
        BY <2>4, <3>1, <4>1, <4>2, <4>3
    <3> QED
      BY <3>3, <3>4
  <2>10. file \in Seq(Lines) /\ file' = Append(file, l)
    BY <1>2 DEF TypeOK, ScanLine
  <2>11. Odd(l) => AnyOdd'
    <3>1. Len(file) + 1 \in DOMAIN file' /\ file'[Len(file) + 1] = l
      BY <2>10
    <3> QED
      BY <3>1 DEF AnyOdd
  <2>12. AnyOdd => AnyOdd'
    <3>1. \A i \in DOMAIN file : i \in DOMAIN file' /\ file'[i] = file[i]
      BY <2>10
    <3> QED
      BY <3>1 DEF AnyOdd
  <2>13. CASE ~Odd(l) /\ Agreed
    <3>1. (counted <=> shown) /\ (shown => l.message # "null") /\ (Decodes(l) <=> l.header)
      BY <2>13, NotOdd DEF counted, shown
    <3>2. Len(detail'.turns) = summary'.turns
      <4>1. Len(Append(detail.turns, t)) = Len(detail.turns) + 1
        BY <1>1
      <4> QED
        BY <2>1, <2>2, <2>13, <3>1, <4>1 DEF Agreed
    <3>3. detail'.first = summary'.started /\ detail'.last = summary'.ended
      <4>1. /\ detail'.first = IF l.header THEN Earlier(l.time, detail.first) ELSE detail.first
            /\ detail'.last = IF l.header THEN Later(l.time, detail.last) ELSE detail.last
        BY <1>1, <1>2, DetailGrows DEF ScanLine
      <4>2. /\ summary'.started = IF Decodes(l) THEN Earlier(l.time, summary.started)
                                  ELSE summary.started
            /\ summary'.ended = IF Decodes(l) THEN Later(l.time, summary.ended)
                                ELSE summary.ended
        BY <1>1, <1>2, ParseGrows DEF ScanLine
      <4> QED
        BY <2>13, <3>1, <4>1, <4>2 DEF Agreed
    <3>4. ASSUME NEW c \in Counters PROVE TokenSum(detail'.turns, c) = summary'.tokens[c]
      <4>1. TokenSum(detail.turns, c) = summary.tokens[c]
        BY <2>13 DEF Agreed
      <4> QED
        BY <2>1, <2>2, <2>4, <2>5, <3>1, <4>1
    <3> QED
      BY <2>9, <2>8, <3>2, <3>3, <3>4 DEF AddUp, Agreed
  <2> QED
    BY <2>9, <2>11, <2>12, <2>13, <2>8 DEF AddUp
<1>3. CASE ScanError
  BY <1>3 DEF ScanError, AddUp, Agreed, AnyOdd
<1>4. CASE UNCHANGED vars
  BY <1>4 DEF vars, AddUp, Agreed, AnyOdd
<1> QED
  BY <1>2, <1>3, <1>4 DEF Next

\* Nothing has been read, and nothing is to be added up.
LEMMA AddUpInit == Init => AddUp
<1> SUFFICES ASSUME Init PROVE AddUp
  OBVIOUS
<1>1. ASSUME NEW c \in Counters PROVE TokenSum(detail.turns, c) = summary.tokens[c]
  <2>1. detail.turns = <<>> /\ summary.tokens[c] = 0
    BY DEF Init, NoTokens
  <2> DEFINE f == [i \in DOMAIN detail.turns |-> detail.turns[i].tokens[c]]
  <2>2. DOMAIN f = {}
    BY <2>1
  <2> HIDE DEF f
  <2>3. SumFunction(f) = 0
    BY <2>2, SumOfNone DEF SumFunction
  <2> QED
    BY <2>1, <2>3 DEF TokenSum, f
<1>2. /\ Len(detail.turns) = summary.turns
      /\ detail.first = summary.started /\ detail.last = summary.ended
      /\ detail.last = 0 /\ \A c \in Counters : summary.tokens[c] = 0
  BY DEF Init, NoTokens
<1> QED
  BY <1>1, <1>2 DEF AddUp, Agreed

(* The turns that the page shows never have more tokens than the stored row, *)
(* and exactly its tokens, turns and duration in a transcript without an odd *)
(* line.                                                                     *)
THEOREM PageAddsUp == Spec => []TurnsAddUp
<1>1. TypeOK /\ AddUp /\ SpanCovered => TurnsAddUp
  <2> SUFFICES ASSUME TypeOK, AddUp, SpanCovered PROVE TurnsAddUp
    OBVIOUS
  <2> DEFINE shown == [c \in Counters |-> TokenSum(detail.turns, c)]
  <2>1. TurnsAddUp <=>
          /\ \A c \in Counters : shown[c] <= summary.tokens[c]
          /\ AnyOdd \/ ( /\ shown = summary.tokens
                         /\ Len(detail.turns) = summary.turns
                         /\ Duration(detail) = summary.ended - summary.started )
    BY DEF TurnsAddUp, TurnSum, TokenSum
  <2>2. \A c \in Counters : shown[c] <= summary.tokens[c]
    BY DEF AddUp
  <2>3. CASE Agreed
    <3>1. summary.tokens = [c \in Counters |-> summary.tokens[c]]
      BY DEF TypeOK
    <3>2. shown = summary.tokens
      BY <2>3, <3>1 DEF Agreed
    <3>3. Duration(detail) = summary.ended - summary.started
      <4>1. /\ summary.started \in Nat /\ summary.ended \in Nat
            /\ detail.first \in Nat /\ detail.last \in Nat
        BY DEF TypeOK
      <4> QED
        BY <2>3, <4>1 DEF Duration, Agreed, AddUp, SpanCovered
    <3> QED
      BY <2>1, <2>2, <2>3, <3>2, <3>3 DEF Agreed
  <2> QED
    BY <2>1, <2>2, <2>3 DEF AddUp
<1> QED
  BY <1>1, AddUpInit, AddUpStep, TypeCorrect, PageSpansRow, PTL DEF Spec

-----------------------------------------------------------------------------
(* The costs of the page add up *)

\* Prices are natural numbers.
LEMMA RatesAreNat ==
    ASSUME NEW m \in Models \cup {Unnamed}, NEW c \in Counters
    PROVE  PricingFor(m)[c] \in Nat
<1> DEFINE family == IF m = Unnamed THEN "sonnet" ELSE FamilyOf[m]
<1>1. family \in {"opus", "sonnet", "haiku"}
  BY TranscriptAssumption
<1>2. PricingFor(m) = Rates[family]
  BY DEF PricingFor
<1> HIDE DEF family
<1> QED
  BY <1>1, <1>2 DEF Rates, Counters

\* The cost of natural token counts is a scalar product.
LEMMA CostIsProduct ==
    ASSUME NEW m \in Models \cup {Unnamed}, NEW k \in [Counters -> Nat]
    PROVE  ComputeCost(m, k) =
             PricingFor(m)["input"] * k["input"] + PricingFor(m)["output"] * k["output"]
             + PricingFor(m)["cacheRead"] * k["cacheRead"]
             + PricingFor(m)["cacheWrite"] * k["cacheWrite"]
<1> DEFINE p == PricingFor(m)
           f == [c \in Counters |-> Clamp(k[c]) * p[c]]
<1>1. \A c \in Counters : p[c] \in Nat /\ k[c] \in Nat
  BY RatesAreNat
<1>2. ComputeCost(m, k) = SumOver(f)
  BY DEF ComputeCost
<1> HIDE DEF p
<1>3. ASSUME NEW c \in Counters PROVE f[c] = p[c] * k[c]
  <2>1. Clamp(k[c]) = k[c]
    BY <1>1 DEF Clamp
  <2>2. f[c] = k[c] * p[c]
    BY <2>1
  <2> QED
    BY <1>1, <2>2
<1> HIDE DEF f
<1>4. /\ f["input"] = p["input"] * k["input"]
      /\ f["output"] = p["output"] * k["output"]
      /\ f["cacheRead"] = p["cacheRead"] * k["cacheRead"]
      /\ f["cacheWrite"] = p["cacheWrite"] * k["cacheWrite"]
  BY <1>3 DEF Counters
<1> QED
  BY <1>2, <1>4 DEF SumOver, p

\* The cost of one turn at the prices of m.
CostAt(m, s) == [i \in DOMAIN s |-> ComputeCost(m, s[i].tokens)]
OwnCost(s) == [i \in DOMAIN s |-> TurnCost(s[i])]

\* At one price list, turns cost together what their sums cost.
LEMMA CostOfTurns ==
    ASSUME NEW s \in Seq(TurnType), NEW m \in Models \cup {Unnamed}
    PROVE  /\ Summable(CostAt(m, s), DOMAIN s)
           /\ SumFunctionOnSet(CostAt(m, s), DOMAIN s) =
                PricingFor(m)["input"] * TokenSum(s, "input")
                + PricingFor(m)["output"] * TokenSum(s, "output")
                + PricingFor(m)["cacheRead"] * TokenSum(s, "cacheRead")
                + PricingFor(m)["cacheWrite"] * TokenSum(s, "cacheWrite")
<1> DEFINE D == DOMAIN s
           p == PricingFor(m)
           tok(c) == [i \in D |-> s[i].tokens[c]]
           part(c) == [i \in D |-> p[c] * s[i].tokens[c]]
           cost == CostAt(m, s)
<1>1. IsFiniteSet(D)
  <2>1. D = 1 .. Len(s) /\ Len(s) \in Nat
    OBVIOUS
  <2> QED
    BY <2>1, FS_Interval
<1>2. \A c \in Counters : p[c] \in Nat
  BY RatesAreNat
<1>3. \A i \in D : /\ s[i].tokens \in [Counters -> Nat]
                  /\ s[i].model \in Models \cup {Unnamed}
  <2>1. \A i \in D : s[i] \in TurnType
    OBVIOUS
  <2> QED
    BY <2>1 DEF TurnType
<1>4. ASSUME NEW c \in Counters
      PROVE  /\ Summable(part(c), D)
             /\ SumFunctionOnSet(part(c), D) = p[c] * TokenSum(s, c)
  <2>1. \A i \in D : tok(c)[i] \in Nat
    BY <1>3
  <2>2. Summable(tok(c), D)
    BY <1>1, <2>1 DEF Summable
  <2>3. \A i \in D : part(c)[i] = p[c] * tok(c)[i]
    OBVIOUS
  <2>4. p[c] \in Int
    BY <1>2
  <2>5. TokenSum(s, c) = SumFunctionOnSet(tok(c), D)
    BY DEF TokenSum, SumFunction
  <2> HIDE DEF tok, part, D, p
  <2>6. SumFunctionOnSet(part(c), D) = p[c] * SumFunctionOnSet(tok(c), D)
    BY <2>2, <2>3, <2>4, SumOfMultiples
  <2>7. \A i \in D : part(c)[i] \in Int
    BY <2>1, <2>3, <2>4
  <2> QED
    BY <1>1, <2>5, <2>6, <2>7 DEF Summable
<1>5. ASSUME NEW i \in D
      PROVE  cost[i] = part("input")[i] + part("output")[i]
                       + part("cacheRead")[i] + part("cacheWrite")[i]
  <2> DEFINE k == s[i].tokens
  <2>1. cost[i] = p["input"] * k["input"] + p["output"] * k["output"]
                  + p["cacheRead"] * k["cacheRead"] + p["cacheWrite"] * k["cacheWrite"]
    BY <1>3, CostIsProduct DEF CostAt
  <2>2. \A c \in Counters : part(c)[i] = p[c] * k[c]
    OBVIOUS
  <2> QED
    BY <2>1, <2>2 DEF Counters
<1> DEFINE two == [i \in D |-> part("input")[i] + part("output")[i]]
           three == [i \in D |-> two[i] + part("cacheRead")[i]]
<1>6. /\ \A i \in D : two[i] = part("input")[i] + part("output")[i]
      /\ \A i \in D : three[i] = two[i] + part("cacheRead")[i]
      /\ \A i \in D : cost[i] = three[i] + part("cacheWrite")[i]
  BY <1>5
<1>7. /\ Summable(part("input"), D) /\ Summable(part("output"), D)
      /\ Summable(part("cacheRead"), D) /\ Summable(part("cacheWrite"), D)
  BY <1>4 DEF Counters
<1> HIDE DEF two, three, part, cost, D
<1>8. /\ Summable(two, D)
      /\ SumFunctionOnSet(two, D) =
            SumFunctionOnSet(part("input"), D) + SumFunctionOnSet(part("output"), D)
  <2>1. Summable(two, D)
    BY <1>6, <1>7 DEF Summable
  <2> QED
    BY <1>6, <1>7, <2>1, SumOfSums
<1>9. /\ Summable(three, D)
      /\ SumFunctionOnSet(three, D) =
            SumFunctionOnSet(two, D) + SumFunctionOnSet(part("cacheRead"), D)
  <2>1. Summable(three, D)
    BY <1>6, <1>7, <1>8 DEF Summable
  <2> QED
    BY <1>6, <1>7, <1>8, <2>1, SumOfSums
<1>10. /\ Summable(cost, D)
       /\ SumFunctionOnSet(cost, D) =
            SumFunctionOnSet(three, D) + SumFunctionOnSet(part("cacheWrite"), D)
  <2>1. Summable(cost, D)
    BY <1>6, <1>7, <1>9 DEF Summable
  <2> QED
    BY <1>6, <1>7, <1>9, <2>1, SumOfSums
<1>12. SumFunctionOnSet(cost, D) =
         SumFunctionOnSet(part("input"), D) + SumFunctionOnSet(part("output"), D)
         + SumFunctionOnSet(part("cacheRead"), D) + SumFunctionOnSet(part("cacheWrite"), D)
  BY <1>8, <1>9, <1>10
<1>13. /\ SumFunctionOnSet(part("input"), D) = p["input"] * TokenSum(s, "input")
       /\ SumFunctionOnSet(part("output"), D) = p["output"] * TokenSum(s, "output")
       /\ SumFunctionOnSet(part("cacheRead"), D) = p["cacheRead"] * TokenSum(s, "cacheRead")
       /\ SumFunctionOnSet(part("cacheWrite"), D) =
             p["cacheWrite"] * TokenSum(s, "cacheWrite")
  BY <1>4 DEF Counters
<1> QED
  BY <1>10, <1>12, <1>13 DEF cost, D

\* A dearer price list makes no counts cheaper.
LEMMA DearerCosts ==
    ASSUME NEW m \in Models \cup {Unnamed}, NEW n \in Models \cup {Unnamed},
           NEW k \in [Counters -> Nat],
           k # NoTokens => \A c \in Counters : PricingFor(m)[c] <= PricingFor(n)[c]
    PROVE  ComputeCost(m, k) <= ComputeCost(n, k)
<1> DEFINE p == PricingFor(m)
           q == PricingFor(n)
<1>1. \A c \in Counters : p[c] \in Nat /\ q[c] \in Nat /\ k[c] \in Nat
  BY RatesAreNat
<1>2. ASSUME NEW c \in Counters PROVE p[c] * k[c] <= q[c] * k[c]
  <2>1. CASE k = NoTokens
    <3>1. k[c] = 0
      BY <2>1 DEF NoTokens
    <3> QED
      BY <1>1, <3>1
  <2>2. CASE k # NoTokens
    <3>1. p[c] <= q[c]
      BY <2>2
    <3> HIDE DEF p, q
    <3>2. PICK d \in Nat : q[c] = p[c] + d
      <4>1. q[c] - p[c] \in Nat /\ q[c] = p[c] + (q[c] - p[c])
        BY <1>1, <3>1
      <4> QED
        BY <4>1
    <3>3. q[c] * k[c] = p[c] * k[c] + d * k[c]
      BY <1>1, <3>2
    <3>4. p[c] * k[c] \in Nat /\ d * k[c] \in Nat
      BY <1>1
    <3> QED
      BY <3>3, <3>4
  <2> QED
    BY <2>1, <2>2
<1>3. /\ ComputeCost(m, k) = p["input"] * k["input"] + p["output"] * k["output"]
            + p["cacheRead"] * k["cacheRead"] + p["cacheWrite"] * k["cacheWrite"]
      /\ ComputeCost(n, k) = q["input"] * k["input"] + q["output"] * k["output"]
            + q["cacheRead"] * k["cacheRead"] + q["cacheWrite"] * k["cacheWrite"]
  BY CostIsProduct
<1> HIDE DEF p, q
<1>4. \A c \in Counters : p[c] * k[c] \in Nat /\ q[c] * k[c] \in Nat
  BY <1>1
<1> QED
  BY <1>2, <1>3, <1>4 DEF Counters

\* The costs of the turns can be summed.
LEMMA OwnCostSummable ==
    ASSUME NEW s \in Seq(TurnType)
    PROVE  /\ Summable(OwnCost(s), DOMAIN s)
           /\ \A i \in DOMAIN s : /\ s[i].tokens \in [Counters -> Nat]
                                  /\ s[i].model \in Models \cup {Unnamed}
                                  /\ OwnCost(s)[i] = ComputeCost(s[i].model, s[i].tokens)
<1>1. IsFiniteSet(DOMAIN s)
  <2>1. DOMAIN s = 1 .. Len(s) /\ Len(s) \in Nat
    OBVIOUS
  <2> QED
    BY <2>1, FS_Interval
<1>2. ASSUME NEW i \in DOMAIN s
      PROVE  /\ s[i].tokens \in [Counters -> Nat] /\ s[i].model \in Models \cup {Unnamed}
             /\ OwnCost(s)[i] = ComputeCost(s[i].model, s[i].tokens)
             /\ OwnCost(s)[i] \in Int
  <2> DEFINE k == s[i].tokens
             p == PricingFor(s[i].model)
  <2>1. s[i] \in TurnType
    OBVIOUS
  <2>2. k \in [Counters -> Nat] /\ s[i].model \in Models \cup {Unnamed}
    BY <2>1 DEF TurnType
  <2>3. OwnCost(s)[i] = ComputeCost(s[i].model, k)
    BY DEF OwnCost, TurnCost
  <2>4. ComputeCost(s[i].model, k) =
          p["input"] * k["input"] + p["output"] * k["output"]
          + p["cacheRead"] * k["cacheRead"] + p["cacheWrite"] * k["cacheWrite"]
    BY <2>2, CostIsProduct
  <2>5. \A c \in Counters : p[c] \in Nat /\ k[c] \in Nat
    BY <2>2, RatesAreNat
  <2> HIDE DEF k, p
  <2>6. \A c \in Counters : p[c] * k[c] \in Int
    BY <2>5
  <2>7. ComputeCost(s[i].model, k) \in Int
    BY <2>4, <2>6 DEF Counters
  <2> QED
    BY <2>2, <2>3, <2>7 DEF k
<1> QED
  BY <1>1, <1>2 DEF Summable

(* In a transcript without an odd line, a change of model moves the stored   *)
(* cost in one direction from what the page shows: not below it if the last  *)
(* model is the dearest of the turns with tokens, not above it if it is the  *)
(* cheapest, so that both agree if all are priced alike.                     *)
THEOREM PageCostsAddUp == Spec => []CostsAddUp
<1>1. TypeOK /\ AddUp => CostsAddUp
  <2> SUFFICES ASSUME TypeOK, AddUp, ~AnyOdd PROVE CostsAddUp
    BY DEF CostsAddUp
  <2> DEFINE s == detail.turns
             m == summary.model
             D == DOMAIN s
             Priced == {i \in D : s[i].tokens # NoTokens}
  <2>1. s \in Seq(TurnType) /\ m \in Models \cup {Unnamed} /\ summary.tokens \in [Counters -> Nat]
    BY DEF TypeOK
  <2>2. \A c \in Counters : TokenSum(s, c) = summary.tokens[c]
    BY DEF AddUp, Agreed
  <2>3. TurnSum(TurnCost) = SumFunctionOnSet(OwnCost(s), D)
    BY DEF TurnSum, OwnCost, SumFunction
  <2>4. TotalCost(summary) = ComputeCost(m, summary.tokens)
    BY DEF TotalCost
  <2>5. /\ Summable(CostAt(m, s), D)
        /\ TotalCost(summary) = SumFunctionOnSet(CostAt(m, s), D)
    BY <2>1, <2>2, <2>4, CostOfTurns, CostIsProduct DEF Counters
  <2>6. /\ Summable(OwnCost(s), D)
        /\ \A i \in D : /\ s[i].tokens \in [Counters -> Nat] /\ s[i].model \in Models \cup {Unnamed}
                         /\ OwnCost(s)[i] = ComputeCost(s[i].model, s[i].tokens)
    BY <2>1, OwnCostSummable
  <2>7. \A i \in D : CostAt(m, s)[i] = ComputeCost(m, s[i].tokens)
    BY DEF CostAt
  <2>8. ASSUME \A i \in Priced, c \in Counters : PricingFor(s[i].model)[c] <= PricingFor(m)[c]
        PROVE  TurnSum(TurnCost) <= TotalCost(summary)
    <3>1. ASSUME NEW i \in D PROVE OwnCost(s)[i] <= CostAt(m, s)[i]
      BY <2>1, <2>6, <2>7, <2>8, DearerCosts
    <3> HIDE DEF s, m, D
    <3> QED
      BY <2>3, <2>5, <2>6, <3>1, SumsCompare
  <2>9. ASSUME \A i \in Priced, c \in Counters : PricingFor(m)[c] <= PricingFor(s[i].model)[c]
        PROVE  TotalCost(summary) <= TurnSum(TurnCost)
    <3>1. ASSUME NEW i \in D PROVE CostAt(m, s)[i] <= OwnCost(s)[i]
      BY <2>1, <2>6, <2>7, <2>9, DearerCosts
    <3> HIDE DEF s, m, D
    <3> QED
      BY <2>3, <2>5, <2>6, <3>1, SumsCompare
  <2> QED
    BY <2>8, <2>9 DEF CostsAddUp
<1> QED
  BY <1>1, AddUpInit, AddUpStep, TypeCorrect, PTL DEF Spec

-----------------------------------------------------------------------------
(* The order of the models *)

\* The index of each model that a turn has used is that of its first turn, and
\* the models were appended in the order of their indices.
FirstTurnIs(turns, m, i) ==
    /\ i \in DOMAIN turns /\ turns[i].model = m
    /\ \A j \in 1 .. i - 1 : turns[j].model # m

ModelsUsed(turns) == {turns[i].model : i \in DOMAIN turns} \ {Unnamed}

InIndex(models, seen, turns) ==
    /\ Range(models) = ModelsUsed(turns)
    /\ \A m \in Models : m \in Range(models) => FirstTurnIs(turns, m, seen[m])
    /\ \A m \in Models : m \notin Range(models) => seen[m] = 0
    /\ \A i, j \in DOMAIN models : i < j => seen[models[i]] < seen[models[j]]

Indexed(d) == InIndex(d.models, d.seen, d.turns)

\* What appending does to the range of a sequence.
LEMMA RangeOfAppend ==
    ASSUME NEW S, NEW s \in Seq(S), NEW x \in S
    PROVE  Range(Append(s, x)) = Range(s) \cup {x}
<1> DEFINE n == Len(s)
           u == Append(s, x)
<1>1. /\ n \in Nat /\ DOMAIN s = 1 .. n /\ DOMAIN u = 1 .. n + 1
      /\ u[n + 1] = x /\ \A i \in 1 .. n : u[i] = s[i]
  OBVIOUS
<1> HIDE DEF n, u
<1>2. 1 .. n + 1 = (1 .. n) \cup {n + 1}
  BY <1>1
<1>3. {u[i] : i \in 1 .. n + 1} = {s[i] : i \in 1 .. n} \cup {x}
  BY <1>1, <1>2
<1> QED
  BY <1>1, <1>3 DEF Range, u

\* A new turn adds its model to those used.
LEMMA ModelsUsedAppend ==
    ASSUME NEW s \in Seq(TurnType), NEW t \in TurnType
    PROVE  ModelsUsed(Append(s, t)) = (ModelsUsed(s) \cup {t.model}) \ {Unnamed}
<1>1. ModelsUsed(s) = {u.model : u \in Range(s)} \ {Unnamed}
  BY DEF ModelsUsed, Range
<1>2. ModelsUsed(Append(s, t)) = {u.model : u \in Range(Append(s, t))} \ {Unnamed}
  BY DEF ModelsUsed, Range
<1>3. Range(Append(s, t)) = Range(s) \cup {t}
  BY RangeOfAppend
<1>4. {u.model : u \in Range(s) \cup {t}} = {u.model : u \in Range(s)} \cup {t.model}
  OBVIOUS
<1> QED
  BY <1>1, <1>2, <1>3, <1>4

\* A further turn takes no model's first turn away.
LEMMA FirstTurnStays ==
    ASSUME NEW s \in Seq(TurnType), NEW t \in TurnType, NEW m, NEW i, FirstTurnIs(s, m, i)
    PROVE  FirstTurnIs(Append(s, t), m, i)
<1>1. Len(s) \in Nat /\ i \in 1 .. Len(s) /\ DOMAIN Append(s, t) = 1 .. Len(s) + 1
  BY DEF FirstTurnIs
<1>2. \A j \in 1 .. i : Append(s, t)[j] = s[j]
  BY <1>1
<1>3. i \in 1 .. i /\ (\A j \in 1 .. i - 1 : j \in 1 .. i) /\ i \in 1 .. Len(s) + 1
  BY <1>1
<1> QED
  BY <1>1, <1>2, <1>3 DEF FirstTurnIs

\* The first turn of a model is one turn.
LEMMA FirstTurnUnique ==
    ASSUME NEW s \in Seq(TurnType), NEW m, NEW i, NEW j,
           FirstTurnIs(s, m, i), FirstTurnIs(s, m, j)
    PROVE  i = j
<1>1. i \in 1 .. Len(s) /\ j \in 1 .. Len(s) /\ Len(s) \in Nat
  BY DEF FirstTurnIs
<1>2. ~ i \in 1 .. j - 1 /\ ~ j \in 1 .. i - 1
  BY DEF FirstTurnIs
<1> QED
  BY <1>1, <1>2

\* Every line keeps the index of the models' first turns.
LEMMA IndexedLine ==
    ASSUME NEW l \in Lines, NEW d \in DetailType, Indexed(d)
    PROVE  Indexed(DetailLine(d, l))
<1> DEFINE e == DetailLine(d, l)
           t == TurnOf(l)
           m == t.model
           n == Len(d.turns) + 1
<1> SUFFICES Indexed(e)
  OBVIOUS
<1>1. /\ e.turns = IF l.header /\ IsDetailed(l) THEN Append(d.turns, t) ELSE d.turns
      /\ IF NewModel(d, l)
         THEN e.models = Append(d.models, m) /\ e.seen = [d.seen EXCEPT ![m] = n]
         ELSE e.models = d.models /\ e.seen = d.seen
  BY DetailGrows
<1>2. /\ d.turns \in Seq(TurnType) /\ d.models \in Seq(Models)
      /\ d.seen \in [Models -> Nat] /\ t \in TurnType /\ m \in Models \cup {Unnamed}
      /\ Len(d.turns) \in Nat /\ n = Len(d.turns) + 1
  BY TurnTyped DEF DetailType, TurnType
<1>3. NewModel(d, l) <=> /\ l.header /\ IsDetailed(l)
                         /\ m # Unnamed /\ d.seen[m] = 0
  BY DEF NewModel
<1>4. Unnamed \notin Models
  BY TranscriptAssumption
<1>5. \A k \in Models : k \in Range(d.models) => d.seen[k] \in 1 .. Len(d.turns)
  BY <1>2 DEF Indexed, InIndex, FirstTurnIs
<1> HIDE DEF e, t, m, n
<1>6. CASE ~(l.header /\ IsDetailed(l))
  BY <1>1, <1>3, <1>6 DEF Indexed
<1>7. CASE l.header /\ IsDetailed(l) /\ ~NewModel(d, l)
  <2>1. e.turns = Append(d.turns, t) /\ e.models = d.models /\ e.seen = d.seen
    BY <1>1, <1>7
  <2>2. m = Unnamed \/ m \in Range(d.models)
    BY <1>2, <1>3, <1>7 DEF Indexed, InIndex
  <2>3. ModelsUsed(e.turns) = ModelsUsed(d.turns)
    <3>1. ModelsUsed(e.turns) = (ModelsUsed(d.turns) \cup {m}) \ {Unnamed}
      BY <1>2, <2>1, ModelsUsedAppend DEF m
    <3>2. m = Unnamed \/ m \in ModelsUsed(d.turns)
      BY <2>2 DEF Indexed, InIndex
    <3>3. Unnamed \notin ModelsUsed(d.turns)
      BY DEF ModelsUsed
    <3> QED
      BY <3>1, <3>2, <3>3
  <2>4. \A k \in Models : k \in Range(e.models) => FirstTurnIs(e.turns, k, e.seen[k])
    BY <1>2, <2>1, FirstTurnStays DEF Indexed, InIndex
  <2>5. /\ Range(d.models) = ModelsUsed(e.turns)
        /\ \A k \in Models : k \in Range(d.models) => FirstTurnIs(e.turns, k, d.seen[k])
        /\ \A k \in Models : k \notin Range(d.models) => d.seen[k] = 0
        /\ \A i, j \in DOMAIN d.models : i < j => d.seen[d.models[i]] < d.seen[d.models[j]]
    BY <2>1, <2>3, <2>4 DEF Indexed, InIndex
  <2>6. InIndex(d.models, d.seen, e.turns)
    BY <2>5 DEF InIndex
  <2> QED
    BY <2>1, <2>6 DEF Indexed
<1>8. CASE NewModel(d, l)
  <2>1. /\ e.turns = Append(d.turns, t) /\ e.models = Append(d.models, m)
        /\ e.seen = [d.seen EXCEPT ![m] = n] /\ m \in Models
    BY <1>1, <1>2, <1>3, <1>8
  <2>2. m \notin Range(d.models)
    BY <1>3, <1>5, <1>8, <2>1
  <2>3. Range(e.models) = Range(d.models) \cup {m}
    BY <1>2, <2>1, RangeOfAppend
  <2>4. Range(e.models) = ModelsUsed(e.turns)
    <3>1. ModelsUsed(e.turns) = (ModelsUsed(d.turns) \cup {m}) \ {Unnamed}
      BY <1>2, <2>1, ModelsUsedAppend DEF m
    <3>2. Unnamed \notin ModelsUsed(d.turns) /\ m # Unnamed
      BY <1>4, <2>1 DEF ModelsUsed
    <3> QED
      BY <2>3, <3>1, <3>2 DEF Indexed, InIndex
  <2>5. FirstTurnIs(e.turns, m, n)
    <3>1. DOMAIN e.turns = 1 .. n /\ n \in 1 .. n /\ e.turns[n] = t
      BY <1>2, <2>1
    <3>2. \A j \in 1 .. n - 1 : e.turns[j] = d.turns[j] /\ j \in DOMAIN d.turns
      BY <1>2, <2>1
    <3>3. \A j \in DOMAIN d.turns : d.turns[j].model # m
      <4>1. m \notin ModelsUsed(d.turns) /\ m # Unnamed
        BY <1>4, <2>1, <2>2 DEF Indexed, InIndex
      <4> QED
        BY <4>1 DEF ModelsUsed
    <3> QED
      BY <3>1, <3>2, <3>3 DEF FirstTurnIs, m
  <2>6. \A k \in Models \ {m} : e.seen[k] = d.seen[k]
    BY <1>2, <2>1
  <2>7. e.seen[m] = n
    BY <1>2, <2>1
  <2>8. ASSUME NEW k \in Models
        PROVE  /\ k \in Range(e.models) => FirstTurnIs(e.turns, k, e.seen[k])
               /\ k \notin Range(e.models) => e.seen[k] = 0
    <3>1. CASE k = m
      BY <2>3, <2>5, <2>7, <3>1
    <3>2. CASE k # m /\ k \in Range(d.models)
      <4>1. FirstTurnIs(d.turns, k, d.seen[k])
        BY <3>2 DEF Indexed, InIndex
      <4>2. FirstTurnIs(e.turns, k, d.seen[k])
        BY <1>2, <2>1, <4>1, FirstTurnStays
      <4> QED
        BY <2>3, <2>6, <3>2, <4>2
    <3>3. CASE k # m /\ k \notin Range(d.models)
      BY <2>3, <2>6, <3>3 DEF Indexed, InIndex
    <3> QED
      BY <3>1, <3>2, <3>3
  <2>9. ASSUME NEW i \in DOMAIN e.models, NEW j \in DOMAIN e.models, i < j
        PROVE  e.seen[e.models[i]] < e.seen[e.models[j]]
    <3> DEFINE c == Len(d.models)
    <3>1. /\ c \in Nat /\ DOMAIN e.models = 1 .. c + 1 /\ e.models[c + 1] = m
          /\ \A k \in 1 .. c : e.models[k] = d.models[k]
          /\ DOMAIN d.models = 1 .. c
      BY <1>2, <2>1
    <3> HIDE DEF c
    <3>2. \A k \in 1 .. c : /\ d.models[k] \in Range(d.models) /\ d.models[k] \in Models
                            /\ d.models[k] # m
      <4>1. \A k \in 1 .. c : d.models[k] \in Range(d.models)
        BY <3>1 DEF Range
      <4>2. \A k \in 1 .. c : d.models[k] \in Models
        BY <1>2, <3>1
      <4> QED
        BY <2>2, <4>1, <4>2
    <3>3. \A k \in 1 .. c : /\ e.seen[e.models[k]] = d.seen[d.models[k]]
                            /\ d.seen[d.models[k]] \in 1 .. Len(d.turns)
      BY <1>5, <2>6, <3>1, <3>2
    <3>4. i \in 1 .. c
      BY <2>9, <3>1
    <3>5. CASE j \in 1 .. c
      BY <2>9, <3>1, <3>3, <3>4, <3>5 DEF Indexed, InIndex
    <3>6. CASE j = c + 1
      <4>1. e.seen[e.models[j]] = n
        BY <2>7, <3>1, <3>6
      <4> QED
        BY <1>2, <3>3, <3>4, <4>1
    <3> QED
      BY <3>1, <3>5, <3>6
  <2> QED
    BY <2>4, <2>8, <2>9 DEF Indexed, InIndex
<1> QED
  BY <1>6, <1>7, <1>8

\* The sorted list has the models in the order of their first turns.
LEMMA SortedModels ==
    ASSUME NEW d \in DetailType, Indexed(d)
    PROVE  /\ Range(ModelSwitch(d)) = ModelsUsed(d.turns)
           /\ \A i, j \in DOMAIN ModelSwitch(d) :
                 i < j => d.seen[ModelSwitch(d)[i]] < d.seen[ModelSwitch(d)[j]]
<1> DEFINE D == DOMAIN d.models
           R == Range(d.models)
           Sorted(s) == \A i, j \in DOMAIN s : i < j => d.seen[s[i]] <= d.seen[s[j]]
           s == ModelSwitch(d)
<1>1. d.models \in Seq(Models) /\ d.seen \in [Models -> Nat] /\ d.turns \in Seq(TurnType)
  BY DEF DetailType
<1>2. D = 1 .. Len(d.models) /\ Len(d.models) \in Nat /\ D \subseteq Int
  BY <1>1
<1>3. R \subseteq Models /\ \A k \in R : d.seen[k] \in Nat /\ d.seen[k] # 0
  <2>1. R \subseteq Models
    BY <1>1 DEF Range
  <2>2. \A k \in R : d.seen[k] \in 1 .. Len(d.turns)
    BY <1>1, <2>1 DEF Indexed, InIndex, FirstTurnIs
  <2> QED
    BY <1>1, <2>1, <2>2
<1>4. d.models \in Bijection(D, R) /\ Sorted(d.models)
  <2>1. \A i \in D : d.models[i] \in R /\ d.seen[d.models[i]] \in Nat
    BY <1>3 DEF Range
  <2>2. Sorted(d.models)
    BY <2>1 DEF Indexed, InIndex
  <2>3. IsInjective(d.models)
    <3> SUFFICES ASSUME NEW i \in D, NEW j \in D, d.models[i] = d.models[j] PROVE i = j
      BY DEF IsInjective
    <3>1. ~(d.seen[d.models[i]] < d.seen[d.models[j]]) /\ ~(d.seen[d.models[j]] < d.seen[d.models[i]])
      BY <2>1
    <3>2. ~(i < j) /\ ~(j < i)
      BY <3>1 DEF Indexed, InIndex
    <3>3. i \in Int /\ j \in Int
      BY <1>2
    <3> QED
      BY <3>2, <3>3
  <2>4. d.models \in [D -> R]
    BY <1>1, <2>1
  <2>5. \A r \in R : \E i \in D : d.models[i] = r
    BY DEF Range
  <2> QED
    BY <2>2, <2>3, <2>4, <2>5 DEF Bijection, Injection, Surjection
<1>5. s \in Bijection(D, R) /\ Sorted(s)
  BY <1>4 DEF ModelSwitch
<1> HIDE DEF s
<1>6. /\ s \in [D -> R] /\ DOMAIN s = D
      /\ \A i, j \in D : s[i] = s[j] => i = j
      /\ \A r \in R : \E i \in D : s[i] = r
  <2> HIDE DEF R
  <2> QED
    BY <1>5 DEF Bijection, Injection, Surjection, IsInjective
<1>7. Range(s) = R
  <2> HIDE DEF R
  <2> QED
    BY <1>6 DEF Range
<1>8. ASSUME NEW i \in D, NEW j \in D, i < j PROVE d.seen[s[i]] < d.seen[s[j]]
  <2>1. i # j
    BY <1>2, <1>8
  <2>2. s[i] # s[j] /\ s[i] \in R /\ s[j] \in R
    BY <1>6, <2>1
  <2>3. d.seen[s[i]] <= d.seen[s[j]]
    BY <1>5, <1>6, <1>8
  <2>4. d.seen[s[i]] # d.seen[s[j]]
    BY <1>3, <2>2 DEF Indexed, InIndex, FirstTurnIs
  <2>5. d.seen[s[i]] \in Nat /\ d.seen[s[j]] \in Nat
    BY <1>3, <2>2
  <2> QED
    BY <2>3, <2>4, <2>5
<1>9. Range(s) = ModelsUsed(d.turns)
  BY <1>7 DEF Indexed, InIndex
<1> QED
  BY <1>6, <1>8, <1>9 DEF s

(* model_switch lists each model of the turns once, in the order of their    *)
(* first turns.                                                              *)
THEOREM SwitchesInOrder == Spec => []ModelsInOrder
<1> DEFINE Inv == Indexed(detail)
<1>1. Init => Inv
  <2> SUFFICES ASSUME Init PROVE Inv
    OBVIOUS
  <2>1. detail.turns = <<>> /\ detail.models = <<>> /\ \A m \in Models : detail.seen[m] = 0
    BY DEF Init
  <2> QED
    BY <2>1 DEF Indexed, InIndex, ModelsUsed, Range
<1>2. TypeOK /\ Inv /\ [Next]_vars => Inv'
  <2> SUFFICES ASSUME TypeOK, Inv, [Next]_vars PROVE Inv'
    OBVIOUS
  <2>1. ASSUME NEW l \in Lines, ScanLine(l) PROVE Inv'
    <3>1. detail \in DetailType /\ detail' = DetailLine(detail, l)
      BY <2>1 DEF TypeOK, DetailType, ScanLine
    <3> QED
      BY <3>1, IndexedLine
  <2>2. CASE ScanError
    BY <2>2 DEF ScanError
  <2>3. CASE UNCHANGED vars
    BY <2>3 DEF vars
  <2> QED
    BY <2>1, <2>2, <2>3 DEF Next
<1>3. TypeOK /\ Inv => ModelsInOrder
  <2> SUFFICES ASSUME TypeOK, Inv PROVE ModelsInOrder
    OBVIOUS
  <2> DEFINE turns == detail.turns
             shown == ModelSwitch(detail)
             first(m) == CHOOSE i \in DOMAIN turns :
                            /\ turns[i].model = m
                            /\ \A j \in 1 .. i - 1 : turns[j].model # m
  <2>1. detail \in DetailType /\ turns \in Seq(TurnType) /\ detail.models \in Seq(Models)
    BY DEF TypeOK, DetailType
  <2>2. /\ Range(shown) = ModelsUsed(turns)
        /\ \A i, j \in DOMAIN shown : i < j => detail.seen[shown[i]] < detail.seen[shown[j]]
    BY <2>1, SortedModels
  <2>3. ASSUME NEW m \in Range(shown) PROVE first(m) = detail.seen[m]
    <3>1. m \in Range(detail.models) /\ m \in Models
      <4>1. Range(detail.models) = Range(shown)
        BY <2>2 DEF Indexed, InIndex
      <4>2. Range(detail.models) \subseteq Models
        BY <2>1 DEF Range
      <4> QED
        BY <4>1, <4>2
    <3>2. FirstTurnIs(turns, m, detail.seen[m])
      BY <3>1 DEF Indexed, InIndex
    <3>3. FirstTurnIs(turns, m, first(m))
      BY <3>2 DEF FirstTurnIs
    <3> HIDE DEF first
    <3> QED
      BY <2>1, <3>2, <3>3, FirstTurnUnique
  <2>4. \A i \in DOMAIN shown : shown[i] \in Range(shown)
    BY DEF Range
  <2>5. ModelsInOrder <=>
          /\ Range(shown) = ModelsUsed(turns)
          /\ \A i, j \in DOMAIN shown : i < j => first(shown[i]) < first(shown[j])
    BY DEF ModelsInOrder, ModelsUsed
  <2> HIDE DEF first, shown
  <2> QED
    BY <2>2, <2>3, <2>4, <2>5
<1> QED
  BY <1>1, <1>2, <1>3, TypeCorrect, PTL DEF Spec
=============================================================================
