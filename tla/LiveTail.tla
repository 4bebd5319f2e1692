------------------------------ MODULE LiveTail ------------------------------
(* The live tail: internal/server/hub.go, handleSSE of server.go, and the   *)
(* EventSource of web/index.html.                                           *)
(*                                                                          *)
(* Every POST that commits a row broadcasts it to the subscribed streams    *)
(* under the hub's mutex; each stream's handler writes the events of its    *)
(* channel to its EventSource, and a dashboard answers each of them with a  *)
(* fresh loadAll.  The payload of an event is never looked at, so a channel *)
(* is the number of events in it, and all a page knows is how many commits  *)
(* its last load could see.                                                 *)
EXTENDS Naturals

CONSTANTS
    Posts,      \* ingest requests, one goroutine each
    Conns,      \* goroutine slots of handleSSE, reused after it returns
    Tabs,       \* dashboard pages, reused after they are closed
    Cap         \* capacity of a subscriber's channel

NoTab == "no tab"

ASSUME LiveAssumption ==
    /\ Cap \in Nat \ {0}
    /\ NoTab \notin Tabs

VARIABLES
    version,      \* rows committed: what a query answered now would see
    post,         \* where each ingest request is
    toSend,       \* the channels its Broadcast has not reached yet
    subscribers,  \* Hub.subscribers: the slots whose channel is registered
    buf,          \* events in each channel
    handler,      \* where each handleSSE is
    client,       \* the tab at the other end of a stream, or NoTab
    expired,      \* the server's read and write deadlines have passed
    cancelled,    \* ctx.Done() of the request
    due,          \* history: what the store held when Broadcast reached c last
    page,         \* state of each tab
    asked         \* what the store held when the tab's last loadAll began

ingest == <<version, post, toSend>>
stream == <<handler, client, expired, cancelled>>
vars == <<ingest, subscribers, buf, due, stream, page, asked>>

-----------------------------------------------------------------------------
(* Helpers *)

\* Hub.mu is free: Broadcast holds it over several steps, the other methods
\* only within one.
MutMuFree == TRUE   \* mutation: Subscribe and Unsubscribe do not lock
MuFree == \A p \in Posts : post[p] # "sending"

\* Events in a channel of n after "select { case ch <- s: default: }".
MutOffered(n) == IF n <= Cap THEN n + 1 ELSE n   \* mutation: one too many
Offered(n) == IF n < Cap THEN n + 1 ELSE n

\* The tab's EventSource loses its stream; its page stays as it is and retries.
Offline(t) == [page EXCEPT ![t] = IF @ = "live" THEN "connecting" ELSE @]

\* A session event reaches tab t: loadAll fetches everything anew.
MutOnSession(t) ==   \* mutation: add the row of the event to what is shown
    asked' = [asked EXCEPT ![t] = @ + 1]
OnSession(t) ==
    asked' = [asked EXCEPT ![t] = version]

\* The server learns that the peer is gone, or its read deadline fires: in
\* both cases its background read of the connection fails.
MutReadFails(c) == expired[c]   \* mutation: a departed client goes unnoticed
ReadFails(c) == expired[c] \/ client[c] = NoTab

-----------------------------------------------------------------------------
(* The ingest path, after its row is decoded and accepted *)

CommitRow(p) ==
    /\ post[p] = "idle"
    /\ post' = [post EXCEPT ![p] = "committed"]
    /\ version' = version + 1
    /\ UNCHANGED <<toSend, subscribers, buf, due, stream, page, asked>>

\* Broadcast takes the mutex and starts to range over the map.
Lock(p) ==
    /\ post[p] = "committed" /\ MuFree
    /\ post' = [post EXCEPT ![p] = "sending"]
    /\ toSend' = [toSend EXCEPT ![p] = subscribers]
    /\ UNCHANGED <<version, subscribers, buf, due, stream, page, asked>>

\* One channel of the range: the event goes in, or is dropped if it is full.
MutSend(p, c) ==   \* mutation: a plain "ch <- s", which waits for room
    /\ post[p] = "sending" /\ c \in toSend[p]
    /\ buf[c] < Cap
    /\ buf' = [buf EXCEPT ![c] = @ + 1]
    /\ due' = [due EXCEPT ![c] = version]
    /\ toSend' = [toSend EXCEPT ![p] = @ \ {c}]
    /\ UNCHANGED <<version, post, subscribers, stream, page, asked>>
Send(p, c) ==
    /\ post[p] = "sending" /\ c \in toSend[p]
    /\ buf' = [buf EXCEPT ![c] = Offered(@)]
    /\ due' = [due EXCEPT ![c] = version]
    /\ toSend' = [toSend EXCEPT ![p] = @ \ {c}]
    /\ UNCHANGED <<version, post, subscribers, stream, page, asked>>

Unlock(p) ==
    /\ post[p] = "sending" /\ toSend[p] = {}
    /\ post' = [post EXCEPT ![p] = "done"]
    /\ UNCHANGED <<version, toSend, subscribers, buf, due, stream, page, asked>>

-----------------------------------------------------------------------------
(* One stream *)

\* An EventSource connects; the handler sends its headers and ": connected",
\* which open the stream for the page, and is about to subscribe.
Connect(c, t) ==
    /\ handler[c] = "none" /\ page[t] = "connecting"
    /\ handler' = [handler EXCEPT ![c] = "opened"]
    /\ client' = [client EXCEPT ![c] = t]
    /\ page' = [page EXCEPT ![t] = "live"]
    /\ UNCHANGED <<ingest, subscribers, buf, due, expired, cancelled, asked>>

Subscribe(c) ==
    /\ handler[c] = "opened" /\ MuFree
    /\ subscribers' = subscribers \cup {c}
    /\ handler' = [handler EXCEPT ![c] = "select"]
    /\ UNCHANGED <<ingest, buf, due, client, expired, cancelled, page, asked>>

\* The select takes an event.  It may do so with ctx.Done() ready as well.
Receive(c) ==
    /\ handler[c] = "select" /\ buf[c] > 0
    /\ buf' = [buf EXCEPT ![c] = @ - 1]
    /\ handler' = [handler EXCEPT ![c] = "write"]
    /\ UNCHANGED <<ingest, subscribers, due, client, expired, cancelled, page, asked>>

\* Write and flush it.  A write past the deadline or to a departed client is
\* lost, and net/http cancels the request.
Write(c) ==
    /\ handler[c] = "write"
    /\ handler' = [handler EXCEPT ![c] = "select"]
    /\ IF ReadFails(c)
       THEN cancelled' = [cancelled EXCEPT ![c] = TRUE] /\ UNCHANGED asked
       ELSE OnSession(client[c]) /\ UNCHANGED cancelled
    /\ UNCHANGED <<ingest, subscribers, buf, due, client, expired, page>>

\* The select takes ctx.Done() and the handler returns.
Done(c) ==
    /\ handler[c] = "select" /\ cancelled[c]
    /\ handler' = [handler EXCEPT ![c] = "unsubscribe"]
    /\ UNCHANGED <<ingest, subscribers, buf, due, client, expired, cancelled, page, asked>>

\* The deferred Unsubscribe removes and closes the channel, and net/http
\* closes the stream.
Unsubscribe(c) ==
    /\ handler[c] = "unsubscribe" /\ MuFree
    /\ subscribers' = subscribers \ {c}
    /\ buf' = [buf EXCEPT ![c] = 0]
    /\ due' = [due EXCEPT ![c] = 0]
    /\ handler' = [handler EXCEPT ![c] = "none"]
    /\ client' = [client EXCEPT ![c] = NoTab]
    /\ page' = IF client[c] = NoTab THEN page ELSE Offline(client[c])
    /\ expired' = [expired EXCEPT ![c] = FALSE]
    /\ cancelled' = [cancelled EXCEPT ![c] = FALSE]
    /\ UNCHANGED <<ingest, asked>>

\* ReadTimeout and WriteTimeout of the server: both deadlines are set when the
\* request is read and are never moved.  (Without a client they change nothing.)
Expire(c) ==
    /\ client[c] # NoTab
    /\ expired' = [expired EXCEPT ![c] = TRUE]
    /\ UNCHANGED <<ingest, subscribers, buf, due, handler, client, cancelled, page, asked>>

Notice(c) ==
    /\ handler[c] # "none" /\ ReadFails(c) /\ ~cancelled[c]
    /\ cancelled' = [cancelled EXCEPT ![c] = TRUE]
    /\ UNCHANGED <<ingest, subscribers, buf, due, handler, client, expired, page, asked>>

\* The network drops a connection; the EventSource will connect again.
Break(c) ==
    /\ client[c] # NoTab
    /\ client' = [client EXCEPT ![c] = NoTab]
    /\ page' = Offline(client[c])
    /\ UNCHANGED <<ingest, subscribers, buf, due, handler, expired, cancelled, asked>>

-----------------------------------------------------------------------------
(* One page *)

\* main of the page: the first loadAll.
Open(t) ==
    /\ page[t] = "closed"
    /\ page' = [page EXCEPT ![t] = "loading"]
    /\ asked' = [asked EXCEPT ![t] = version]
    /\ UNCHANGED <<ingest, subscribers, buf, due, stream>>

\* The first load is over, with data or without: start the live tail.
InitSSE(t) ==
    /\ page[t] = "loading"
    /\ page' = [page EXCEPT ![t] = "connecting"]
    /\ UNCHANGED <<ingest, subscribers, buf, due, stream, asked>>

Close(t) ==
    /\ page[t] # "closed"
    /\ page' = [page EXCEPT ![t] = "closed"]
    /\ client' = [c \in Conns |-> IF client[c] = t THEN NoTab ELSE client[c]]
    /\ asked' = [asked EXCEPT ![t] = 0]
    /\ UNCHANGED <<ingest, subscribers, buf, due, handler, expired, cancelled>>

-----------------------------------------------------------------------------
Init ==
    /\ version = 0
    /\ post = [p \in Posts |-> "idle"]
    /\ toSend = [p \in Posts |-> {}]
    /\ subscribers = {}
    /\ buf = [c \in Conns |-> 0]
    /\ due = [c \in Conns |-> 0]
    /\ handler = [c \in Conns |-> "none"]
    /\ client = [c \in Conns |-> NoTab]
    /\ expired = [c \in Conns |-> FALSE]
    /\ cancelled = [c \in Conns |-> FALSE]
    /\ page = [t \in Tabs |-> "closed"]
    /\ asked = [t \in Tabs |-> 0]

Broadcast(p) == Lock(p) \/ (\E c \in Conns : Send(p, c)) \/ Unlock(p)
HandleSSE(c) ==
    Subscribe(c) \/ Receive(c) \/ Write(c) \/ Done(c) \/ Unsubscribe(c) \/ Notice(c)
Page(t) == Open(t) \/ InitSSE(t) \/ Close(t)

Next ==
    \/ \E p \in Posts : CommitRow(p) \/ Broadcast(p)
    \/ \E c \in Conns : HandleSSE(c) \/ Expire(c) \/ Break(c)
    \/ \E c \in Conns, t \in Tabs : Connect(c, t)
    \/ \E t \in Tabs : Page(t)

Spec == Init /\ [][Next]_vars

\* Goroutines that can run do run.  Nothing is assumed of clients, of their
\* network or of the clock.
FairSpec ==
    /\ Spec
    /\ \A p \in Posts : WF_vars(Broadcast(p))
    /\ \A c \in Conns : WF_vars(HandleSSE(c))

-----------------------------------------------------------------------------
(* Properties *)

TypeOK ==
    /\ version \in Nat
    /\ post \in [Posts -> {"idle", "committed", "sending", "done"}]
    /\ toSend \in [Posts -> SUBSET Conns]
    /\ subscribers \subseteq Conns
    /\ buf \in [Conns -> 0 .. Cap]
    /\ due \in [Conns -> Nat]
    /\ handler \in [Conns -> {"none", "opened", "select", "write", "unsubscribe"}]
    /\ client \in [Conns -> Tabs \cup {NoTab}]
    /\ expired \in [Conns -> BOOLEAN]
    /\ cancelled \in [Conns -> BOOLEAN]
    /\ page \in [Tabs -> {"closed", "loading", "connecting", "live"}]
    /\ asked \in [Tabs -> Nat]

\* A channel Broadcast still has to send to is registered: it is not closed by
\* an Unsubscribe in between, where the send would panic and end the server,
\* and not one of an earlier stream of the slot.
SendsToOpenChannels == \A p \in Posts : toSend[p] \subseteq subscribers

\* Dropping an event for a full channel loses nothing: while its stream is
\* alive, a page that Broadcast has been at has either begun a load since
\* then, or an event that will make it begin one is still on its way.
NothingForgotten ==
    \A c \in Conns :
        (client[c] # NoTab /\ ~expired[c]) =>
            \/ asked[client[c]] >= due[c]
            \/ buf[c] > 0
            \/ handler[c] = "write"

\* The ingest path does not wait for readers: every Broadcast ends, whatever
\* the streams and their clients do, also with full channels and while
\* handlers want the mutex.
IngestNeverBlocks ==
    \A p \in Posts : post[p] = "committed" ~> post[p] = "done"

\* The handler of a client that has left returns: no goroutine and no
\* subscription outlives its page for good.
HandlersEnd ==
    \A c \in Conns : (handler[c] # "none" /\ client[c] = NoTab) ~> handler[c] = "none"

\* What the comment on handleSSE says: a stream ends because its client left.
StaysOpen == \A c \in Conns : handler[c] = "unsubscribe" => client[c] = NoTab
=============================================================================
