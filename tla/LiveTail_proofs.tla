-------------------------- MODULE LiveTail_proofs --------------------------
(* Proofs about LiveTail for any number of posts, streams and pages and any  *)
(* capacity of a channel.                                                    *)
EXTENDS LiveTail, TLAPS

-----------------------------------------------------------------------------
(* The inductive invariant *)

\* Only a Broadcast that holds the mutex has channels left to send to.
SendersLock == \A p \in Posts : toSend[p] # {} => post[p] = "sending"

\* A stream is subscribed from Subscribe to Unsubscribe.
Registered ==
    \A c \in Conns : handler[c] \in {"none", "opened"} => c \notin subscribers

\* Nothing is due on a channel that does not exist.
NothingDue == \A c \in Conns : c \notin subscribers => due[c] = 0

\* A load that begins now sees all that any broadcast announced.
DueSeen == \A c \in Conns : due[c] <= version

IInv ==
    /\ TypeOK
    /\ SendersLock
    /\ SendsToOpenChannels
    /\ Registered
    /\ NothingDue
    /\ DueSeen
    /\ NothingForgotten

-----------------------------------------------------------------------------
(* Type correctness *)

\* Every step keeps the types; Close rebuilds the map of clients.
LEMMA TypeStep == TypeOK /\ [Next]_vars => TypeOK'
<1> SUFFICES ASSUME TypeOK, [Next]_vars PROVE TypeOK'
  OBVIOUS
<1> USE LiveAssumption DEF TypeOK, ingest, stream
<1>1. ASSUME NEW p \in Posts, CommitRow(p) PROVE TypeOK'
  BY <1>1 DEF CommitRow
<1>2. ASSUME NEW p \in Posts, Lock(p) \/ Unlock(p) PROVE TypeOK'
  BY <1>2 DEF Lock, Unlock
<1>3. ASSUME NEW p \in Posts, NEW c \in Conns, Send(p, c) PROVE TypeOK'
  BY <1>3 DEF Send, Offered
<1>4. ASSUME NEW c \in Conns, Subscribe(c) \/ Receive(c) PROVE TypeOK'
  BY <1>4 DEF Subscribe, Receive
<1>5. ASSUME NEW c \in Conns, Write(c) PROVE TypeOK'
  BY <1>5 DEF Write, OnSession
<1>6. ASSUME NEW c \in Conns, Unsubscribe(c) PROVE TypeOK'
  BY <1>6 DEF Unsubscribe, Offline
<1>7. ASSUME NEW c \in Conns, Done(c) \/ Notice(c) \/ Expire(c) PROVE TypeOK'
  BY <1>7 DEF Done, Notice, Expire
<1>8. ASSUME NEW c \in Conns, Break(c) PROVE TypeOK'
  BY <1>8 DEF Break, Offline
<1>9. ASSUME NEW c \in Conns, NEW t \in Tabs, Connect(c, t) PROVE TypeOK'
  BY <1>9 DEF Connect
<1>10. ASSUME NEW t \in Tabs, Open(t) \/ InitSSE(t) \/ Close(t) PROVE TypeOK'
  BY <1>10 DEF Open, InitSSE, Close
<1>11. CASE UNCHANGED vars
  BY <1>11 DEF vars
<1> QED
  BY <1>1, <1>2, <1>3, <1>4, <1>5, <1>6, <1>7, <1>8, <1>9, <1>10, <1>11
     DEF Next, Broadcast, HandleSSE, Page

-----------------------------------------------------------------------------
(* The mutex and the channels *)

\* A Broadcast only sends to channels that are registered: they were when it
\* took the mutex, and Unsubscribe waits for the mutex.
LEMMA LockStep ==
    TypeOK /\ SendersLock /\ SendsToOpenChannels /\ [Next]_vars
        => SendersLock' /\ SendsToOpenChannels'
<1> SUFFICES ASSUME TypeOK, SendersLock, SendsToOpenChannels, [Next]_vars
             PROVE SendersLock' /\ SendsToOpenChannels'
  OBVIOUS
<1> USE DEF TypeOK, ingest, stream, SendersLock, SendsToOpenChannels
<1>1. ASSUME NEW p \in Posts, CommitRow(p) \/ Lock(p) \/ Unlock(p)
      PROVE SendersLock' /\ SendsToOpenChannels'
  BY <1>1 DEF CommitRow, Lock, Unlock
<1>2. ASSUME NEW p \in Posts, NEW c \in Conns, Send(p, c)
      PROVE SendersLock' /\ SendsToOpenChannels'
  BY <1>2 DEF Send
<1>3. ASSUME NEW c \in Conns, Subscribe(c) PROVE SendersLock' /\ SendsToOpenChannels'
  BY <1>3 DEF Subscribe
<1>4. ASSUME NEW c \in Conns, Unsubscribe(c) PROVE SendersLock' /\ SendsToOpenChannels'
  <2>1. \A p \in Posts : toSend[p] = {}
    BY <1>4 DEF Unsubscribe, MuFree
  <2> QED
    BY <1>4, <2>1 DEF Unsubscribe
<1>5. CASE UNCHANGED <<post, toSend, subscribers>>
  BY <1>5
<1> QED
  BY <1>1, <1>2, <1>3, <1>4, <1>5
     DEF Next, Broadcast, HandleSSE, Page, Receive, Write, Done, Notice, Expire, Break,
         Connect, Open, InitSSE, Close, vars

\* Streams are registered while they run, and what is due on them was
\* announced by a broadcast to a registered channel.
LEMMA DueStep ==
    TypeOK /\ SendsToOpenChannels /\ Registered /\ NothingDue /\ DueSeen /\ [Next]_vars
        => Registered' /\ NothingDue' /\ DueSeen'
<1> SUFFICES ASSUME TypeOK, SendsToOpenChannels, Registered, NothingDue, DueSeen, [Next]_vars
             PROVE Registered' /\ NothingDue' /\ DueSeen'
  OBVIOUS
<1> USE DEF TypeOK, ingest, stream, Registered, NothingDue, DueSeen
<1>1. ASSUME NEW p \in Posts, CommitRow(p) PROVE Registered' /\ NothingDue' /\ DueSeen'
  BY <1>1 DEF CommitRow
<1>2. ASSUME NEW p \in Posts, NEW c \in Conns, Send(p, c)
      PROVE Registered' /\ NothingDue' /\ DueSeen'
  BY <1>2 DEF Send, SendsToOpenChannels
<1>3. ASSUME NEW c \in Conns, Subscribe(c) \/ Receive(c) \/ Write(c) \/ Done(c)
      PROVE Registered' /\ NothingDue' /\ DueSeen'
  BY <1>3 DEF Subscribe, Receive, Write, Done
<1>4. ASSUME NEW c \in Conns, Unsubscribe(c) PROVE Registered' /\ NothingDue' /\ DueSeen'
  BY <1>4 DEF Unsubscribe
<1>5. ASSUME NEW c \in Conns, NEW t \in Tabs, Connect(c, t)
      PROVE Registered' /\ NothingDue' /\ DueSeen'
  BY <1>5 DEF Connect
<1>6. CASE UNCHANGED <<version, subscribers, due, handler>>
  BY <1>6
<1> QED
  BY <1>1, <1>2, <1>3, <1>4, <1>5, <1>6
     DEF Next, Broadcast, HandleSSE, Page, Lock, Unlock, Notice, Expire, Break,
         Open, InitSSE, Close, vars

-----------------------------------------------------------------------------
(* Dropped events *)

\* A full channel still holds an event, an event that leaves the channel is
\* being written, and an event that is written makes the page load anew.
LEMMA ForgottenStep == IInv /\ [Next]_vars => NothingForgotten'
<1> SUFFICES ASSUME IInv, [Next]_vars PROVE NothingForgotten'
  OBVIOUS
<1> USE LiveAssumption DEF IInv, TypeOK, ingest, stream, NothingForgotten
<1>1. ASSUME NEW p \in Posts, NEW c \in Conns, Send(p, c) PROVE NothingForgotten'
  BY <1>1 DEF Send, Offered
<1>2. ASSUME NEW c \in Conns, Subscribe(c) \/ Receive(c) PROVE NothingForgotten'
  BY <1>2 DEF Subscribe, Receive
<1>3. ASSUME NEW c \in Conns, Write(c) PROVE NothingForgotten'
  <2>1. CASE ReadFails(c)
    BY <1>3, <2>1 DEF Write, ReadFails
  <2>2. CASE ~ReadFails(c)
    <3>1. client[c] \in Tabs
      BY <2>2 DEF ReadFails
    <3>2. asked' = [asked EXCEPT ![client[c]] = version]
      BY <1>3, <2>2 DEF Write, OnSession
    <3>3. \A d \in Conns : asked'[client[d]] >= due[d] \/ client[d] # client[c]
      BY <3>1, <3>2 DEF DueSeen
    <3> QED
      BY <1>3, <2>2, <3>1, <3>2, <3>3 DEF Write
  <2> QED
    BY <2>1, <2>2
<1>4. ASSUME NEW c \in Conns, Unsubscribe(c) PROVE NothingForgotten'
  BY <1>4 DEF Unsubscribe
<1>5. ASSUME NEW c \in Conns, Done(c) \/ Expire(c) \/ Break(c) PROVE NothingForgotten'
  BY <1>5 DEF Done, Expire, Break
<1>6. ASSUME NEW c \in Conns, NEW t \in Tabs, Connect(c, t) PROVE NothingForgotten'
  <2>1. due[c] = 0
    BY <1>6 DEF Connect, Registered, NothingDue
  <2> QED
    BY <1>6, <2>1 DEF Connect
<1>7. ASSUME NEW t \in Tabs, Open(t) PROVE NothingForgotten'
  BY <1>7 DEF Open, DueSeen
<1>8. ASSUME NEW t \in Tabs, Close(t) PROVE NothingForgotten'
  BY <1>8 DEF Close
<1>9. CASE UNCHANGED <<asked, buf, due, handler, client, expired>>
  BY <1>9
<1> QED
  BY <1>1, <1>2, <1>3, <1>4, <1>5, <1>6, <1>7, <1>8, <1>9
     DEF Next, Broadcast, HandleSSE, Page, CommitRow, Lock, Unlock, Notice, InitSSE, vars

-----------------------------------------------------------------------------
(* The theorems *)

\* IInv holds in every reachable state.
LEMMA Inductive == Spec => []IInv
<1>1. Init => IInv
  BY LiveAssumption DEF Init, IInv, TypeOK, SendersLock, SendsToOpenChannels, Registered,
     NothingDue, DueSeen, NothingForgotten
<1>2. IInv /\ [Next]_vars => IInv'
  BY TypeStep, LockStep, DueStep, ForgottenStep DEF IInv
<1> QED
  BY <1>1, <1>2, PTL DEF Spec

\* The variables keep their types: no channel ever holds more than Cap events.
THEOREM TypeCorrect == Spec => []TypeOK
  BY Inductive, PTL DEF IInv

\* No Broadcast sends on a channel that Unsubscribe has closed.
THEOREM NoSendOnClosedChannel == Spec => []SendsToOpenChannels
  BY Inductive, PTL DEF IInv

\* A page whose stream is alive learns of every broadcast, however many of its
\* events were dropped.
THEOREM DroppingIsSafe == Spec => []NothingForgotten
  BY Inductive, PTL DEF IInv
=============================================================================
