----------------------------- MODULE Transcript -----------------------------
(* The two readers of a session's transcript in internal/transcript: Parse, *)
(* whose Summary the hook and the scanner store, and ParseBreakdown, whose  *)
(* Breakdown the server sends to the session's page.  Both take the file    *)
(* line by line and decode each line in a way of their own, so the page can *)
(* count other turns, other times and other prices than the stored row.     *)
(*                                                                          *)
(* The readers share nothing but the file, so they are moved in lock step:  *)
(* Summary(summary) and so on are what they return if the file ends here.   *)
(* A file only grows, so the states of a behaviour are also the answers of  *)
(* hooks that parse it at the end of one answer of Claude after another.    *)
(* Times are counted in ticks and 0 is Go's zero time.  A cost is counted   *)
(* in cents per million tokens, without rounding.  Totals stay far below    *)
(* 2^63 and do not wrap.                                                    *)
EXTENDS Integers, SequencesExt

CONSTANTS
    Models,    \* non-empty model names
    FamilyOf,  \* the family whose word is in a name
    Tools,     \* non-empty tool names
    Lines,     \* what a line can be
    MaxLines   \* bound: lines of a file

Unnamed == ""
Counters == {"input", "output", "cacheRead", "cacheWrite"}

(* What the two decoders make of a line.                                    *)
(*   header:   it is a JSON object whose type and timestamp are strings     *)
(*   time:     its timestamp, 0 if it has none that parses                  *)
(*   message:  "absent"; "null"; "whole", which both accept; "core", wrong  *)
(*             where both look (the message itself, model, usage); and      *)
(*             "content", wrong in its content only                         *)
(*   tokens:   its usage, all 0 if it has none                              *)
(*   tools:    how many tool_use blocks it has of each name                 *)
LineType ==
    [header : BOOLEAN, time : Nat, assistant : BOOLEAN,
     message : {"absent", "null", "whole", "core", "content"},
     model : Models \cup {Unnamed}, tokens : [Counters -> Int],
     tools : [Tools \cup {Unnamed} -> Nat]]

ASSUME TranscriptAssumption ==
    /\ Unnamed \notin Models \cup Tools
    /\ FamilyOf \in [Models -> {"opus", "haiku", "sonnet"}]
    /\ Lines \subseteq LineType
    /\ MaxLines \in Nat

VARIABLES
    file,     \* the lines read so far
    summary,  \* Parse's sums
    detail,   \* ParseBreakdown's turns, counts and times
    failed    \* the scanner returned an error: too long a line, or the disk

vars == <<file, summary, detail, failed>>

NoTokens == [c \in Counters |-> 0]

-----------------------------------------------------------------------------
(* Prices.                                                                  *)

Rates ==
    [opus   |-> [input |-> 1500, output |-> 7500, cacheRead |-> 150, cacheWrite |-> 1875],
     sonnet |-> [input |-> 300,  output |-> 1500, cacheRead |-> 30,  cacheWrite |-> 375],
     haiku  |-> [input |-> 100,  output |-> 500,  cacheRead |-> 10,  cacheWrite |-> 125]]

PricingFor(model) == Rates[IF model = Unnamed THEN "sonnet" ELSE FamilyOf[model]]

MutClamp(v) == v   \* mutation: negative counts are added
Clamp(v) == IF v < 0 THEN 0 ELSE v

SumOver(n) == n["input"] + n["output"] + n["cacheRead"] + n["cacheWrite"]

ComputeCost(model, tokens) ==
    SumOver([c \in Counters |-> Clamp(tokens[c]) * PricingFor(model)[c]])

-----------------------------------------------------------------------------
(* The times that both readers track.                                       *)

MutEarlier(t, first) == IF first = 0 THEN t ELSE first   \* mutation: the first time read
Earlier(t, first) == IF t # 0 /\ (first = 0 \/ t < first) THEN t ELSE first
MutLater(t, last) == IF t # 0 THEN t ELSE last   \* mutation: the last time read
Later(t, last) == IF t > last THEN t ELSE last

(* Parse: one pass decodes the line as far as Parse looks, so a fault in    *)
(* its message also hides its timestamp.                                    *)

Decodes(l) == l.header /\ l.message # "core"
IsTurn(l) == l.assistant /\ l.message \notin {"absent", "null"}

Named(l, model) == IF l.model = Unnamed THEN model ELSE l.model
Added(l, tokens) == [c \in Counters |-> tokens[c] + Clamp(l.tokens[c])]

Timed(s, l) ==
    [s EXCEPT !.started = Earlier(l.time, @), !.ended = Later(l.time, @)]
Counted(s, l) ==
    [s EXCEPT !.turns = @ + 1, !.model = Named(l, @), !.tokens = Added(l, @)]

ParseLine(s, l) ==
    IF ~Decodes(l) THEN s
    ELSE IF IsTurn(l) THEN Counted(Timed(s, l), l)
    ELSE Timed(s, l)

TotalCost(s) == ComputeCost(s.model, s.tokens)

(* ParseBreakdown: type and timestamp first, the message in a second pass,  *)
(* in which null is an empty message.                                       *)

IsDetailed(l) == l.assistant /\ l.message \in {"null", "whole"}

MutTurnOf(l) ==   \* mutation: a turn without a model has no usage
    [model |-> l.model, tools |-> [n \in Tools |-> 0],
     tokens |-> IF l.model = Unnamed THEN NoTokens ELSE Added(l, NoTokens)]
TurnOf(l) ==
    IF l.message = "null"
    THEN [model |-> Unnamed, tokens |-> NoTokens, tools |-> [n \in Tools |-> 0]]
    ELSE [model |-> l.model, tokens |-> Added(l, NoTokens),
          tools |-> [n \in Tools |-> l.tools[n]]]

DetailTimed(d, l) ==
    [d EXCEPT !.first = Earlier(l.time, @), !.last = Later(l.time, @)]

MutNoteModel(d, m) ==   \* mutation: the index is the last turn's
    IF m = Unnamed THEN d
    ELSE [d EXCEPT !.seen[m] = Len(d.turns) + 1,
                   !.models = IF d.seen[m] = 0 THEN Append(@, m) ELSE @]
NoteModel(d, m) ==
    IF m = Unnamed \/ d.seen[m] # 0 THEN d
    ELSE [d EXCEPT !.seen[m] = Len(d.turns) + 1, !.models = Append(@, m)]

DetailTurn(d, t) ==
    [NoteModel(d, t.model) EXCEPT
        !.turns = Append(@, t),
        !.toolCounts = [n \in Tools |-> @[n] + t.tools[n]]]

DetailLine(d, l) ==
    IF ~l.header THEN d
    ELSE IF IsDetailed(l) THEN DetailTurn(DetailTimed(d, l), TurnOf(l))
    ELSE DetailTimed(d, l)

Duration(d) == IF d.first # 0 /\ d.last # 0 THEN d.last - d.first ELSE 0

\* Sorting by the index of the first turn.
ModelSwitch(d) ==
    CHOOSE s \in Bijection(DOMAIN d.models, Range(d.models)) :
        \A i, j \in DOMAIN s : i < j => d.seen[s[i]] <= d.seen[s[j]]

MutTurnCost(t) ==   \* mutation: the cache counts are swapped in the call
    ComputeCost(t.model, [t.tokens EXCEPT !["cacheRead"] = t.tokens["cacheWrite"],
                                          !["cacheWrite"] = t.tokens["cacheRead"]])
TurnCost(t) == ComputeCost(t.model, t.tokens)

-----------------------------------------------------------------------------
Init ==
    /\ file = <<>>
    /\ summary = [tokens |-> NoTokens, model |-> Unnamed, turns |-> 0,
                  started |-> 0, ended |-> 0]
    /\ detail = [turns |-> <<>>, toolCounts |-> [n \in Tools |-> 0],
                 models |-> <<>>, seen |-> [m \in Models |-> 0],
                 first |-> 0, last |-> 0]
    /\ failed = FALSE

\* One turn of both loops.
ScanLine(l) ==
    /\ ~failed /\ Len(file) < MaxLines
    /\ file' = Append(file, l)
    /\ summary' = ParseLine(summary, l)
    /\ detail' = DetailLine(detail, l)
    /\ UNCHANGED failed

\* A line beyond 64 MB, or a read error, ends both loops with an error and
\* without a result.
ScanError ==
    /\ ~failed
    /\ failed' = TRUE
    /\ UNCHANGED <<file, summary, detail>>

Next == ScanError \/ \E l \in Lines : ScanLine(l)

Spec == Init /\ [][Next]_vars

-----------------------------------------------------------------------------
TurnType ==
    [model : Models \cup {Unnamed}, tokens : [Counters -> Nat], tools : [Tools -> Nat]]

(* All sums are natural numbers whatever a transcript says: negative token  *)
(* counts never reach a total.                                              *)
TypeOK ==
    /\ file \in Seq(Lines)
    /\ summary \in [tokens : [Counters -> Nat], model : Models \cup {Unnamed},
                    turns : Nat, started : Nat, ended : Nat]
    /\ detail \in [turns : Seq(TurnType), toolCounts : [Tools -> Nat],
                   models : Seq(Models), seen : [Models -> Nat],
                   first : Nat, last : Nat]
    /\ failed \in BOOLEAN

\* A line that only one of the readers takes for a turn, or for a time.
Odd(l) ==
    /\ l.header
    /\ \/ l.message = "core"
       \/ l.assistant /\ l.message \in {"null", "content"}

AnyOdd == \E i \in DOMAIN file : Odd(file[i])
TurnSum(Op(_)) == SumFunction([i \in DOMAIN detail.turns |-> Op(detail.turns[i])])

(* The page's turns add up to the stored session: never to more tokens than *)
(* the row has, and to exactly the row's tokens, turns and duration when no *)
(* line is odd.                                                             *)
TurnsAddUp ==
    LET shown == [c \in Counters |-> TurnSum(LAMBDA t : t.tokens[c])]
    IN /\ \A c \in Counters : shown[c] <= summary.tokens[c]
       /\ AnyOdd \/ ( /\ shown = summary.tokens
                      /\ Len(detail.turns) = summary.turns
                      /\ Duration(detail) = summary.ended - summary.started )

(* The whole session is priced at its last model and each turn at its own.  *)
(* If no line is odd, a change of model moves the row's cost away from the  *)
(* sum of the page's costs in one direction only: up, when no turn's model  *)
(* is dearer than the last, down, when none is cheaper, and not at all,     *)
(* when all turns with tokens are priced alike.                             *)
CostsAddUp ==
    LET last == PricingFor(summary.model)
        priced == {i \in DOMAIN detail.turns : detail.turns[i].tokens # NoTokens}
        Rate(i) == PricingFor(detail.turns[i].model)
    IN ~AnyOdd =>
        /\ (\A i \in priced, c \in Counters : Rate(i)[c] <= last[c]) =>
              TurnSum(TurnCost) <= TotalCost(summary)
        /\ (\A i \in priced, c \in Counters : last[c] <= Rate(i)[c]) =>
              TotalCost(summary) <= TurnSum(TurnCost)

(* The page's span of time contains the row's, since ParseBreakdown reads   *)
(* the time of every line of which Parse reads it; and neither span runs    *)
(* backwards, in whatever order the timestamps come.                        *)
SpanCovered ==
    /\ summary.started <= summary.ended
    /\ detail.first <= detail.last
    /\ summary.started # 0 => detail.first # 0 /\ detail.first <= summary.started
    /\ summary.ended <= detail.last

(* model_switch lists each model of the turns once, in the order in which   *)
(* the turns first used them.                                               *)
ModelsInOrder ==
    LET first(m) == CHOOSE i \in DOMAIN detail.turns :
                       /\ detail.turns[i].model = m
                       /\ \A j \in 1 .. i - 1 : detail.turns[j].model # m
        shown == ModelSwitch(detail)
    IN /\ Range(shown) = {detail.turns[i].model : i \in DOMAIN detail.turns} \ {Unnamed}
       /\ \A i, j \in DOMAIN shown : i < j => first(shown[i]) < first(shown[j])

(* A hook that parses a longer transcript of the session never reports      *)
(* fewer tokens or turns, a later start or an earlier end than one before,  *)
(* and the page keeps the turns that it had.  (Costs are no part of this: a *)
(* change to a cheaper model prices the whole session down.)                *)
Grows(s, t) ==
    /\ \A c \in Counters : s.tokens[c] <= t.tokens[c]
    /\ s.turns <= t.turns
    /\ s.ended <= t.ended
    /\ s.started # 0 => t.started # 0 /\ t.started <= s.started

NeverTakesBack ==
    [][Grows(summary, summary') /\ IsPrefix(detail.turns, detail'.turns)]_vars
=============================================================================
