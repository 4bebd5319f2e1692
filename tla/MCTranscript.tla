---------------------------- MODULE MCTranscript ----------------------------
(* Small transcripts: lines of every kind that the readers tell apart.      *)
EXTENDS Transcript

Family == [o |-> "opus", p |-> "opus", h |-> "haiku"]
Used(in, out, read, write) ==
    [input |-> in, output |-> out, cacheRead |-> read, cacheWrite |-> write]
Calls(read, unnamed) ==
    [n \in {"Read", Unnamed} |-> IF n = "Read" THEN read ELSE unnamed]

Answer(t, m, tokens, tools) ==
    [header |-> TRUE, time |-> t, assistant |-> TRUE, message |-> "whole",
     model |-> m, tokens |-> tokens, tools |-> tools]
User(t, message) ==
    [header |-> TRUE, time |-> t, assistant |-> FALSE, message |-> message,
     model |-> Unnamed, tokens |-> NoTokens, tools |-> Calls(0, 0)]

SomeLines ==
    {Answer(2, "o", Used(1, 2, 0, 1), Calls(2, 0)),
     Answer(3, "p", Used(2, -1, 1, 0), Calls(1, 1)),
     Answer(1, "h", Used(-2, 1, 3, 0), Calls(0, 0)),
     Answer(0, Unnamed, Used(1, 1, 0, 0), Calls(0, 0)),
     Answer(2, "h", NoTokens, Calls(1, 0))}
    \cup {User(2, "content"), User(4, "absent"), User(1, "core")}
    \cup {[Answer(3, "o", Used(1, 0, 0, 0), Calls(1, 0)) EXCEPT !.message = m] :
             m \in {"absent", "null", "core", "content"}}
    \cup {[User(3, "whole") EXCEPT !.header = FALSE]}
=============================================================================
