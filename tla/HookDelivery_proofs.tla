------------------------ MODULE HookDelivery_proofs ------------------------
(* Proofs about HookDelivery for every number of hooks, events, retries and  *)
(* faults, and every cap.                                                    *)
EXTENDS HookDelivery, FiniteSetTheorems, WellFoundedInduction, TLAPS

USE HookAssumption

-----------------------------------------------------------------------------
(* Type correctness *)

\* Init establishes the types.
LEMMA TypeInit == Init => TypeOK
  BY DEF Init, TypeOK, Places, Pcs, Events, NoEvent, OwnPcs, DrainPcs, NotAFile, TmpFile, JsonFile

\* Every step keeps them.
LEMMA TypeStep == TypeOK /\ [Next]_vars => TypeOK'
<1> SUFFICES ASSUME TypeOK, [Next]_vars PROVE TypeOK'
  OBVIOUS
<1> USE DEF TypeOK, Places, Pcs, OwnPcs, DrainPcs, NotAFile, TmpFile, JsonFile,
            NoEvent, files, server
<1>1. ASSUME NEW h \in Hooks, Start(h) PROVE TypeOK'
  BY <1>1 DEF Start, StaleClaims
<1>2. ASSUME NEW h \in Hooks, Reclaim(h) PROVE TypeOK'
  BY <1>2 DEF Reclaim
<1>3. ASSUME NEW h \in Hooks, GlobBuffer(h) PROVE TypeOK'
  BY <1>3 DEF GlobBuffer, JsonFiles
<1>4. ASSUME NEW h \in Hooks, Claim(h) PROVE TypeOK'
  <2>1. PICK e \in todo[h] :
            /\ todo' = [todo EXCEPT ![h] = @ \ {e}]
            /\ IF dir[e] = JsonFile
               THEN /\ dir' = [dir EXCEPT ![e] = h]
                    /\ cur' = [cur EXCEPT ![h] = e]
                    /\ pc' = [pc EXCEPT ![h] = "load"]
               ELSE UNCHANGED <<dir, cur, pc>>
    BY <1>4 DEF Claim
  <2>2. e \in Events /\ e # NoEvent
    BY DEF Events
  <2> QED
    BY <1>4, <2>1, <2>2 DEF Claim
<1>5. ASSUME NEW h \in Hooks, Load(h) PROVE TypeOK'
  BY <1>5 DEF Load
<1>6. ASSUME NEW h \in Hooks, Remove(h) PROVE TypeOK'
  BY <1>6 DEF Remove, MoveClaim
<1>7. ASSUME NEW h \in Hooks, PutBack(h) PROVE TypeOK'
  BY <1>7 DEF PutBack, MoveClaim
<1>8. ASSUME NEW h \in Hooks, ReadInput(h) PROVE TypeOK'
  <2>1. CASE pc' = [pc EXCEPT ![h] = "idle"] /\ UNCHANGED <<ev, built>>
    BY <1>8, <2>1 DEF ReadInput
  <2>2. CASE /\ built < MaxEvents
             /\ built' = built + 1
             /\ ev' = [ev EXCEPT ![h] = built + 1]
             /\ pc' = [pc EXCEPT ![h] = "post"]
    <3>1. built + 1 \in Events /\ built + 1 # 0 /\ built' \in 0 .. MaxEvents
      BY <2>2 DEF Events
    <3> QED
      BY <1>8, <2>2, <3>1 DEF ReadInput
  <2> QED
    BY <1>8, <2>1, <2>2 DEF ReadInput
<1>9. ASSUME NEW h \in Hooks, Attempt(h) PROVE TypeOK'
  BY <1>9 DEF Attempt, PostPcs, Posting, Commit, Retries, AfterDrain
<1>10. ASSUME NEW h \in Hooks, Buffer(h) PROVE TypeOK'
  BY <1>10 DEF Buffer, OldestOf, JsonFiles
<1>11. ASSUME NEW h \in Hooks, Evict(h) PROVE TypeOK'
  BY <1>11 DEF Evict
<1>12. ASSUME NEW h \in Hooks, WriteTmp(h) PROVE TypeOK'
  BY <1>12 DEF WriteTmp
<1>13. ASSUME NEW h \in Hooks, Publish(h) PROVE TypeOK'
  BY <1>13 DEF Publish
<1>14. ASSUME NEW h \in Hooks, ReadFails(h) \/ ReleaseFails(h) \/ WriteFails(h) PROVE TypeOK'
  BY <1>14 DEF ReadFails, ReleaseFails, WriteFails, Fault
<1>19. ASSUME NEW h \in Hooks, ReclaimFails(h) \/ ClaimFails(h) \/ EvictFails(h) PROVE TypeOK'
  <2>1. faults' \in 0 .. MaxFaults
    BY <1>19 DEF ReclaimFails, ClaimFails, EvictFails, Fault
  <2>2. CASE ReclaimFails(h)
    BY <2>1, <2>2 DEF ReclaimFails
  <2>3. CASE ClaimFails(h)
    BY <2>1, <2>3 DEF ClaimFails
  <2>4. CASE EvictFails(h)
    BY <2>1, <2>4 DEF EvictFails
  <2> QED
    BY <1>19, <2>2, <2>3, <2>4
<1>15. ASSUME NEW h \in Hooks, Crash(h) PROVE TypeOK'
  BY <1>15 DEF Crash, Fault
<1>16. CASE Flap
  BY <1>16 DEF Flap, local
<1>17. ASSUME NEW e \in Events, LateCommit(e) PROVE TypeOK'
  BY <1>17 DEF LateCommit, Commit, local
<1>18. CASE UNCHANGED vars
  BY <1>18 DEF vars, local
<1> QED
  BY <1>1, <1>2, <1>3, <1>4, <1>5, <1>6, <1>7, <1>8, <1>9, <1>10, <1>11, <1>12,
     <1>13, <1>14, <1>15, <1>16, <1>17, <1>18, <1>19 DEF Next, Step

-----------------------------------------------------------------------------
(* The inductive invariant.  Accounted and NoHalfWrittenRead are not          *)
(* inductive: they rest on what an event can be doing before it is published  *)
(* and on why a process may remove a file.                                    *)

\* An event that is not parsed yet has left no trace.
Fresh ==
    \A e \in Events : e > built =>
        /\ dir[e] = NotAFile
        /\ e \notin delivered \cup inflight \cup forgone
        /\ \A h \in Hooks : ev[h] # e /\ cur[h] # e

\* An event its parser still holds is in no file a glob matches, is drained by
\* nobody and is held by nobody else.
Unpublished ==
    \A h \in Hooks : ev[h] # NoEvent =>
        /\ dir[ev[h]] \in {NotAFile, TmpFile}
        /\ \A g \in Hooks : cur[g] # ev[h] /\ (g # h => ev[g] # ev[h])

\* A process removes only what the server acknowledged.
RemovesDelivered == \A h \in Hooks : pc[h] = "remove" => cur[h] \in delivered

IInv ==
    TypeOK /\ Fresh /\ Unpublished /\ RemovesDelivered /\ Accounted /\ ClaimsHaveOwners

\* Init establishes the invariant.
LEMMA InvInit == Init => IInv
<1> SUFFICES ASSUME Init PROVE IInv
  OBVIOUS
<1>1. TypeOK
  BY TypeInit
<1>2. Fresh /\ Unpublished /\ RemovesDelivered /\ Accounted /\ ClaimsHaveOwners
  BY DEF Init, Fresh, Unpublished, RemovesDelivered, Accounted, ClaimsHaveOwners,
         Events, NoEvent, NotAFile
<1> QED
  BY <1>1, <1>2 DEF IInv

\* No step touches an event before its parse.
LEMMA FreshStep == IInv /\ [Next]_vars => Fresh'
<1> SUFFICES ASSUME IInv, [Next]_vars PROVE Fresh'
  OBVIOUS
<1> USE DEF IInv, TypeOK, Fresh,
            Places, Pcs, OwnPcs, DrainPcs, NotAFile, TmpFile, JsonFile, NoEvent,
            files, server
<1>1. ASSUME NEW h \in Hooks,
             \/ Start(h) \/ GlobBuffer(h) \/ Load(h) \/ Buffer(h) \/ ReadFails(h)
             \/ ReclaimFails(h) \/ ClaimFails(h) \/ EvictFails(h)
      PROVE  Fresh'
  BY <1>1 DEF Start, GlobBuffer, Load, Buffer, ReadFails,
              ReclaimFails, ClaimFails, EvictFails, Fault
<1>2. ASSUME NEW h \in Hooks, Reclaim(h) PROVE Fresh'
  BY <1>2 DEF Reclaim
<1>3. ASSUME NEW h \in Hooks, Claim(h) PROVE Fresh'
  BY <1>3 DEF Claim
<1>4. ASSUME NEW h \in Hooks, Remove(h) PROVE Fresh'
  BY <1>4 DEF Remove, MoveClaim
<1>5. ASSUME NEW h \in Hooks, PutBack(h) PROVE Fresh'
  BY <1>5 DEF PutBack, MoveClaim
<1>6. ASSUME NEW h \in Hooks, ReadInput(h) PROVE Fresh'
  BY <1>6 DEF ReadInput, Events
<1>7. ASSUME NEW h \in Hooks, Attempt(h) PROVE Fresh'
  BY <1>7 DEF Attempt, PostPcs, Posting, Commit, Retries, AfterDrain
<1>8. ASSUME NEW h \in Hooks, Evict(h) PROVE Fresh'
  BY <1>8 DEF Evict
<1>9. ASSUME NEW h \in Hooks, WriteTmp(h) PROVE Fresh'
  BY <1>9 DEF WriteTmp
<1>10. ASSUME NEW h \in Hooks, Publish(h) PROVE Fresh'
  BY <1>10 DEF Publish
<1>11. ASSUME NEW h \in Hooks, ReleaseFails(h) PROVE Fresh'
  BY <1>11 DEF ReleaseFails, Fault
<1>12. ASSUME NEW h \in Hooks, WriteFails(h) PROVE Fresh'
  BY <1>12 DEF WriteFails, Fault
<1>13. ASSUME NEW h \in Hooks, Crash(h) PROVE Fresh'
  BY <1>13 DEF Crash, Fault
<1>14. CASE Flap
  BY <1>14 DEF Flap, local
<1>15. ASSUME NEW e \in Events, LateCommit(e) PROVE Fresh'
  BY <1>15 DEF LateCommit, Commit, local
<1>16. CASE UNCHANGED vars
  BY <1>16 DEF vars, local
<1> QED
  BY <1>1, <1>2, <1>3, <1>4, <1>5, <1>6, <1>7, <1>8,
     <1>9, <1>10, <1>11, <1>12, <1>13, <1>14, <1>15, <1>16 DEF Next, Step

\* Only its parser touches an event before it is published.
LEMMA UnpublishedStep == IInv /\ [Next]_vars => Unpublished'
<1> SUFFICES ASSUME IInv, [Next]_vars PROVE Unpublished'
  OBVIOUS
<1> USE DEF IInv, TypeOK, Fresh, Unpublished,
            Places, Pcs, OwnPcs, DrainPcs, NotAFile, TmpFile, JsonFile, NoEvent,
            files, server
<1>1. ASSUME NEW h \in Hooks,
             \/ Start(h) \/ GlobBuffer(h) \/ Load(h) \/ Buffer(h) \/ ReadFails(h)
             \/ ReclaimFails(h) \/ ClaimFails(h) \/ EvictFails(h)
      PROVE  Unpublished'
  BY <1>1 DEF Start, GlobBuffer, Load, Buffer, ReadFails,
              ReclaimFails, ClaimFails, EvictFails, Fault
<1>2. ASSUME NEW h \in Hooks, Reclaim(h) PROVE Unpublished'
  BY <1>2 DEF Reclaim
<1>3. ASSUME NEW h \in Hooks, Claim(h) PROVE Unpublished'
  BY <1>3 DEF Claim
<1>4. ASSUME NEW h \in Hooks, Remove(h) PROVE Unpublished'
  BY <1>4 DEF Remove, MoveClaim
<1>5. ASSUME NEW h \in Hooks, PutBack(h) PROVE Unpublished'
  BY <1>5 DEF PutBack, MoveClaim
<1>6. ASSUME NEW h \in Hooks, ReadInput(h) PROVE Unpublished'
  BY <1>6 DEF ReadInput, Events
<1>7. ASSUME NEW h \in Hooks, Attempt(h) PROVE Unpublished'
  BY <1>7 DEF Attempt, PostPcs, Posting, Commit, Retries, AfterDrain
<1>8. ASSUME NEW h \in Hooks, Evict(h) PROVE Unpublished'
  BY <1>8 DEF Evict
<1>9. ASSUME NEW h \in Hooks, WriteTmp(h) PROVE Unpublished'
  BY <1>9 DEF WriteTmp
<1>10. ASSUME NEW h \in Hooks, Publish(h) PROVE Unpublished'
  BY <1>10 DEF Publish
<1>11. ASSUME NEW h \in Hooks, ReleaseFails(h) PROVE Unpublished'
  BY <1>11 DEF ReleaseFails, Fault
<1>12. ASSUME NEW h \in Hooks, WriteFails(h) PROVE Unpublished'
  BY <1>12 DEF WriteFails, Fault
<1>13. ASSUME NEW h \in Hooks, Crash(h) PROVE Unpublished'
  BY <1>13 DEF Crash, Fault
<1>14. CASE Flap
  BY <1>14 DEF Flap, local
<1>15. ASSUME NEW e \in Events, LateCommit(e) PROVE Unpublished'
  BY <1>15 DEF LateCommit, Commit, local
<1>16. CASE UNCHANGED vars
  BY <1>16 DEF vars, local
<1> QED
  BY <1>1, <1>2, <1>3, <1>4, <1>5, <1>6, <1>7, <1>8,
     <1>9, <1>10, <1>11, <1>12, <1>13, <1>14, <1>15, <1>16 DEF Next, Step

\* Only an acknowledged post leads to a remove.
LEMMA RemovesStep == IInv /\ [Next]_vars => RemovesDelivered'
<1> SUFFICES ASSUME IInv, [Next]_vars PROVE RemovesDelivered'
  OBVIOUS
<1> USE DEF IInv, TypeOK, RemovesDelivered,
            Places, Pcs, OwnPcs, DrainPcs, NotAFile, TmpFile, JsonFile, NoEvent,
            files, server
<1>1. ASSUME NEW h \in Hooks,
             \/ Start(h) \/ GlobBuffer(h) \/ Load(h) \/ Buffer(h) \/ ReadFails(h)
             \/ ReclaimFails(h) \/ ClaimFails(h) \/ EvictFails(h)
      PROVE  RemovesDelivered'
  BY <1>1 DEF Start, GlobBuffer, Load, Buffer, ReadFails,
              ReclaimFails, ClaimFails, EvictFails, Fault
<1>2. ASSUME NEW h \in Hooks, Reclaim(h) PROVE RemovesDelivered'
  BY <1>2 DEF Reclaim
<1>3. ASSUME NEW h \in Hooks, Claim(h) PROVE RemovesDelivered'
  BY <1>3 DEF Claim
<1>4. ASSUME NEW h \in Hooks, Remove(h) PROVE RemovesDelivered'
  BY <1>4 DEF Remove, MoveClaim
<1>5. ASSUME NEW h \in Hooks, PutBack(h) PROVE RemovesDelivered'
  BY <1>5 DEF PutBack, MoveClaim
<1>6. ASSUME NEW h \in Hooks, ReadInput(h) PROVE RemovesDelivered'
  BY <1>6 DEF ReadInput, Events
<1>7. ASSUME NEW h \in Hooks, Attempt(h) PROVE RemovesDelivered'
  BY <1>7 DEF Attempt, PostPcs, Posting, Commit, Retries, AfterDrain
<1>8. ASSUME NEW h \in Hooks, Evict(h) PROVE RemovesDelivered'
  BY <1>8 DEF Evict
<1>9. ASSUME NEW h \in Hooks, WriteTmp(h) PROVE RemovesDelivered'
  BY <1>9 DEF WriteTmp
<1>10. ASSUME NEW h \in Hooks, Publish(h) PROVE RemovesDelivered'
  BY <1>10 DEF Publish
<1>11. ASSUME NEW h \in Hooks, ReleaseFails(h) PROVE RemovesDelivered'
  BY <1>11 DEF ReleaseFails, Fault
<1>12. ASSUME NEW h \in Hooks, WriteFails(h) PROVE RemovesDelivered'
  BY <1>12 DEF WriteFails, Fault
<1>13. ASSUME NEW h \in Hooks, Crash(h) PROVE RemovesDelivered'
  BY <1>13 DEF Crash, Fault
<1>14. CASE Flap
  BY <1>14 DEF Flap, local
<1>15. ASSUME NEW e \in Events, LateCommit(e) PROVE RemovesDelivered'
  BY <1>15 DEF LateCommit, Commit, local
<1>16. CASE UNCHANGED vars
  BY <1>16 DEF vars, local
<1> QED
  BY <1>1, <1>2, <1>3, <1>4, <1>5, <1>6, <1>7, <1>8,
     <1>9, <1>10, <1>11, <1>12, <1>13, <1>14, <1>15, <1>16 DEF Next, Step

\* No step loses an event silently.
LEMMA AccountedStep == IInv /\ [Next]_vars => Accounted'
<1> SUFFICES ASSUME IInv, [Next]_vars PROVE Accounted'
  OBVIOUS
<1> USE DEF IInv, TypeOK, RemovesDelivered, Accounted, Buffered, JsonFiles, Claimed,
            Places, Pcs, OwnPcs, DrainPcs, NotAFile, TmpFile, JsonFile, NoEvent,
            files, server
<1>1. ASSUME NEW h \in Hooks,
             \/ Start(h) \/ GlobBuffer(h) \/ Load(h) \/ Buffer(h) \/ ReadFails(h)
             \/ ReclaimFails(h) \/ ClaimFails(h) \/ EvictFails(h)
      PROVE  Accounted'
  BY <1>1 DEF Start, GlobBuffer, Load, Buffer, ReadFails,
              ReclaimFails, ClaimFails, EvictFails, Fault
<1>2. ASSUME NEW h \in Hooks, Reclaim(h) PROVE Accounted'
  BY <1>2 DEF Reclaim
<1>3. ASSUME NEW h \in Hooks, Claim(h) PROVE Accounted'
  BY <1>3 DEF Claim
<1>4. ASSUME NEW h \in Hooks, Remove(h) PROVE Accounted'
  BY <1>4 DEF Remove, MoveClaim
<1>5. ASSUME NEW h \in Hooks, PutBack(h) PROVE Accounted'
  BY <1>5 DEF PutBack, MoveClaim
<1>6. ASSUME NEW h \in Hooks, ReadInput(h) PROVE Accounted'
  <2> SUFFICES ASSUME NEW e \in 1 .. built'
               PROVE  \/ e \in delivered' \cup forgone' \cup Buffered'
                      \/ \E g \in Hooks : ev'[g] = e
    BY DEF Accounted
  <2>1. CASE built' = built /\ ev' = ev
    BY <1>6, <2>1 DEF ReadInput
  <2>2. CASE built' = built + 1 /\ ev' = [ev EXCEPT ![h] = built + 1]
    <3>1. pc[h] = "claim" /\ ev[h] = NoEvent
      BY <1>6 DEF ReadInput
    <3>2. CASE e = built + 1
      BY <2>2, <3>2
    <3>3. CASE e \in 1 .. built
      BY <1>6, <2>2, <3>1, <3>3 DEF ReadInput
    <3> QED
      BY <2>2, <3>2, <3>3
  <2> QED
    BY <1>6, <2>1, <2>2 DEF ReadInput
<1>7. ASSUME NEW h \in Hooks, Attempt(h) PROVE Accounted'
  BY <1>7 DEF Attempt, PostPcs, Posting, Commit, Retries, AfterDrain
<1>8. ASSUME NEW h \in Hooks, Evict(h) PROVE Accounted'
  BY <1>8 DEF Evict
<1>9. ASSUME NEW h \in Hooks, WriteTmp(h) PROVE Accounted'
  BY <1>9 DEF WriteTmp
<1>10. ASSUME NEW h \in Hooks, Publish(h) PROVE Accounted'
  BY <1>10 DEF Publish
<1>11. ASSUME NEW h \in Hooks, ReleaseFails(h) PROVE Accounted'
  BY <1>11 DEF ReleaseFails, Fault
<1>12. ASSUME NEW h \in Hooks, WriteFails(h) PROVE Accounted'
  BY <1>12 DEF WriteFails, Fault
<1>13. ASSUME NEW h \in Hooks, Crash(h) PROVE Accounted'
  BY <1>13 DEF Crash, Fault
<1>14. CASE Flap
  BY <1>14 DEF Flap, local
<1>15. ASSUME NEW e \in Events, LateCommit(e) PROVE Accounted'
  BY <1>15 DEF LateCommit, Commit, local
<1>16. CASE UNCHANGED vars
  BY <1>16 DEF vars, local
<1> QED
  BY <1>1, <1>2, <1>3, <1>4, <1>5, <1>6, <1>7, <1>8,
     <1>9, <1>10, <1>11, <1>12, <1>13, <1>14, <1>15, <1>16 DEF Next, Step

\* Without faults no claim is left behind.
LEMMA ClaimsStep == IInv /\ [Next]_vars => ClaimsHaveOwners'
<1> SUFFICES ASSUME IInv, [Next]_vars PROVE ClaimsHaveOwners'
  OBVIOUS
<1> USE DEF IInv, TypeOK, ClaimsHaveOwners,
            Places, Pcs, OwnPcs, DrainPcs, NotAFile, TmpFile, JsonFile, NoEvent,
            files, server
<1>1. ASSUME NEW h \in Hooks,
             \/ Start(h) \/ GlobBuffer(h) \/ Load(h) \/ Buffer(h) \/ ReadFails(h)
             \/ ReclaimFails(h) \/ ClaimFails(h) \/ EvictFails(h)
      PROVE  ClaimsHaveOwners'
  BY <1>1 DEF Start, GlobBuffer, Load, Buffer, ReadFails,
              ReclaimFails, ClaimFails, EvictFails, Fault
<1>2. ASSUME NEW h \in Hooks, Reclaim(h) PROVE ClaimsHaveOwners'
  BY <1>2 DEF Reclaim
<1>3. ASSUME NEW h \in Hooks, Claim(h) PROVE ClaimsHaveOwners'
  <2> SUFFICES ASSUME faults' = 0, NEW e \in Events, NEW g \in Hooks, dir'[e] = g
               PROVE  cur'[g] = e
    BY DEF ClaimsHaveOwners
  <2>1. PICK f \in todo[h] :
            IF dir[f] = JsonFile
            THEN dir' = [dir EXCEPT ![f] = h] /\ cur' = [cur EXCEPT ![h] = f]
            ELSE UNCHANGED <<dir, cur>>
    BY <1>3 DEF Claim
  <2>2. faults = 0 /\ cur[h] = NoEvent /\ f \in Events
    BY <1>3 DEF Claim
  <2>3. CASE e = f
    BY <2>1, <2>2, <2>3
  <2>4. CASE e # f
    <3>1. dir[e] = g /\ cur[g] = e
      BY <2>1, <2>2, <2>4
    <3>2. g # h
      BY <2>2, <3>1 DEF Events
    <3> QED
      BY <2>1, <2>2, <3>1, <3>2
  <2> QED
    BY <2>3, <2>4
<1>4. ASSUME NEW h \in Hooks, Remove(h) PROVE ClaimsHaveOwners'
  BY <1>4 DEF Remove, MoveClaim
<1>5. ASSUME NEW h \in Hooks, PutBack(h) PROVE ClaimsHaveOwners'
  BY <1>5 DEF PutBack, MoveClaim
<1>6. ASSUME NEW h \in Hooks, ReadInput(h) PROVE ClaimsHaveOwners'
  BY <1>6 DEF ReadInput, Events
<1>7. ASSUME NEW h \in Hooks, Attempt(h) PROVE ClaimsHaveOwners'
  BY <1>7 DEF Attempt, PostPcs, Posting, Commit, Retries, AfterDrain
<1>8. ASSUME NEW h \in Hooks, Evict(h) PROVE ClaimsHaveOwners'
  BY <1>8 DEF Evict
<1>9. ASSUME NEW h \in Hooks, WriteTmp(h) PROVE ClaimsHaveOwners'
  BY <1>9 DEF WriteTmp
<1>10. ASSUME NEW h \in Hooks, Publish(h) PROVE ClaimsHaveOwners'
  BY <1>10 DEF Publish
<1>11. ASSUME NEW h \in Hooks, ReleaseFails(h) PROVE ClaimsHaveOwners'
  BY <1>11 DEF ReleaseFails, Fault
<1>12. ASSUME NEW h \in Hooks, WriteFails(h) PROVE ClaimsHaveOwners'
  BY <1>12 DEF WriteFails, Fault
<1>13. ASSUME NEW h \in Hooks, Crash(h) PROVE ClaimsHaveOwners'
  BY <1>13 DEF Crash, Fault
<1>14. CASE Flap
  BY <1>14 DEF Flap, local
<1>15. ASSUME NEW e \in Events, LateCommit(e) PROVE ClaimsHaveOwners'
  BY <1>15 DEF LateCommit, Commit, local
<1>16. CASE UNCHANGED vars
  BY <1>16 DEF vars, local
<1> QED
  BY <1>1, <1>2, <1>3, <1>4, <1>5, <1>6, <1>7, <1>8,
     <1>9, <1>10, <1>11, <1>12, <1>13, <1>14, <1>15, <1>16 DEF Next, Step

\* Every step keeps the invariant.
LEMMA InvStep == IInv /\ [Next]_vars => IInv'
  BY TypeStep, FreshStep, UnpublishedStep, RemovesStep, AccountedStep, ClaimsStep DEF IInv

\* Every reachable state satisfies the invariant.
LEMMA InvAlways == Spec => []IInv
  BY InvInit, InvStep, PTL DEF Spec

-----------------------------------------------------------------------------
(* The theorems *)

\* Every variable of the hooks, the buffer and the server has its type.
THEOREM TypeCorrect == Spec => []TypeOK
  BY InvAlways, PTL DEF IInv

\* No event is lost silently, however many hooks share the buffer (drainBuffer
\* and writeBuffer of cmd/sessionlens-hook).
THEOREM NothingLostSilently == Spec => []Accounted
  BY InvAlways, PTL DEF IInv

\* The claim of drainBuffer has an owner as long as nothing crashed or failed.
THEOREM ClaimsOwned == Spec => []ClaimsHaveOwners
  BY InvAlways, PTL DEF IInv

\* A drain never reads a file that writeBuffer is still writing.
THEOREM WholeFiles == Spec => []NoHalfWrittenRead
<1>1. IInv => NoHalfWrittenRead
  BY DEF IInv, TypeOK, Unpublished, NoHalfWrittenRead, OwnPcs, NoEvent
<1> QED
  BY <1>1, InvAlways, PTL

-----------------------------------------------------------------------------
(* The cap, for one hook at a time: what overlapping hooks may exceed.        *)

OneAtATime == \A g, h \in Hooks : g = h

\* Claims that nobody is working on: each cost a crash or a failed release.
Orphans == {e \in Events : \E h \in Hooks : dir[e] = h /\ cur[h] # e}

\* A hook writes its file only after it made room for it: what is left when its
\* victims are gone, orphans included, exceeds the cap only by what faults cost.
RoomMade ==
    \A h \in Hooks :
        /\ pc[h] = "evict" =>
              Cardinality(JsonFiles \ victims[h]) + Cardinality(Orphans) < Cap + faults
        /\ pc[h] = "rename" => Cardinality(JsonFiles) + Cardinality(Orphans) < Cap + faults

CapInv == Cardinality(Orphans) <= faults /\ RoomMade /\ BufferWithinCap

\* Sets of events are finite and can be counted.
LEMMA EventSets ==
    ASSUME NEW S \in SUBSET Events
    PROVE  IsFiniteSet(S) /\ Cardinality(S) \in Nat
<1>1. IsFiniteSet(Events)
  BY FS_Interval DEF Events
<1>2. IsFiniteSet(S)
  BY <1>1, FS_Subset
<1> QED
  BY <1>2, FS_CardinalityType

\* A subset counts no more than its superset.
LEMMA SmallerSets ==
    ASSUME NEW S \in SUBSET Events, NEW T \in SUBSET S
    PROVE  Cardinality(T) <= Cardinality(S)
  BY EventSets, FS_Subset

\* A non-empty set of naturals has a least element.
LEMMA LeastElement ==
    ASSUME NEW T \in SUBSET Nat, T # {}
    PROVE  \E x \in T : \A y \in T : x <= y
<1>1. \E x \in T : \A y \in T : ~ (<<y, x>> \in OpToRel(<, Nat))
  BY WFMin, NatLessThanWellFounded
<1>2. ASSUME NEW x \in Nat, NEW y \in Nat, y < x PROVE <<y, x>> \in OpToRel(<, Nat)
  BY <1>2 DEF OpToRel
<1>3. \A x, y \in T : x \in Nat /\ y \in Nat /\ (x <= y \/ y < x)
  OBVIOUS
<1> QED
  BY <1>1, <1>2, <1>3

\* The n oldest files are at least n, or all.
LEMMA OldestEnough ==
    ASSUME TypeOK, NEW S \in SUBSET Events, NEW n \in Nat
    PROVE  S \ OldestOf(S, n) = {} \/ Cardinality(OldestOf(S, n)) >= n
<1> SUFFICES ASSUME S \ OldestOf(S, n) # {} PROVE Cardinality(OldestOf(S, n)) >= n
  OBVIOUS
<1> DEFINE R == S \ OldestOf(S, n)
           T == {stamp[e] : e \in R}
<1>1. T \in SUBSET Nat /\ T # {}
  BY DEF TypeOK
<1>2. PICK e \in R : \A f \in R : stamp[e] <= stamp[f]
  <2>1. PICK x \in T : \A y \in T : x <= y
    <3> HIDE DEF T
    <3> QED
      BY <1>1, LeastElement
  <2>2. \A f \in R : stamp[f] \in T
    OBVIOUS
  <2> QED
    BY <2>1, <2>2
<1> DEFINE L == {f \in S : stamp[f] < stamp[e]}
<1>3. L \subseteq OldestOf(S, n)
  BY <1>2 DEF TypeOK
<1>4. OldestOf(S, n) \in SUBSET Events /\ L \in SUBSET Events
  BY DEF OldestOf
<1>5. Cardinality(L) <= Cardinality(OldestOf(S, n))
  BY <1>3, <1>4, SmallerSets
<1>6. ~(Cardinality(L) < n)
  BY <1>2 DEF OldestOf
<1> QED
  BY <1>4, <1>5, <1>6, EventSets

\* Without its victims the buffer has room for one more file.
LEMMA VictimsMakeRoom ==
    ASSUME TypeOK
    PROVE  Cardinality(JsonFiles \ OldestOf(JsonFiles, ToRemove(Cardinality(JsonFiles)))) < Cap
<1> DEFINE n == Cardinality(JsonFiles)
           k == ToRemove(n)
           V == OldestOf(JsonFiles, k)
<1>1. JsonFiles \in SUBSET Events /\ V \in SUBSET JsonFiles
  BY DEF JsonFiles, OldestOf
<1>2. n \in Nat /\ Cardinality(V) \in Nat /\ IsFiniteSet(JsonFiles)
  BY <1>1, EventSets
<1>3. k \in Nat /\ n - k < Cap
  BY <1>2 DEF ToRemove
<1>4. Cardinality(JsonFiles \ V) = n - Cardinality(V)
  <2> HIDE DEF V
  <2>1. JsonFiles \cap V = V
    BY <1>1
  <2>2. Cardinality(JsonFiles \ V) = Cardinality(JsonFiles) - Cardinality(JsonFiles \cap V)
    BY <1>2, FS_Difference
  <2> QED
    BY <2>1, <2>2
<1>5. CASE JsonFiles \ V = {}
  BY <1>5, FS_EmptySet
<1>6. CASE Cardinality(V) >= k
  BY <1>2, <1>3, <1>4, <1>6
<1> QED
  BY <1>1, <1>3, <1>5, <1>6, OldestEnough

\* One more element counts one more at most.
LEMMA OneMore ==
    ASSUME NEW S \in SUBSET Events, NEW x
    PROVE  Cardinality(S \cup {x}) <= Cardinality(S) + 1
<1>1. IsFiniteSet(S) /\ Cardinality(S) \in Nat
  BY EventSets
<1>2. Cardinality(S \cup {x}) = IF x \in S THEN Cardinality(S) ELSE Cardinality(S) + 1
  BY <1>1, FS_AddElement
<1> QED
  BY <1>1, <1>2

\* Two sets together count no more than one and the other.
LEMMA Together ==
    ASSUME NEW S \in SUBSET Events, NEW T \in SUBSET Events
    PROVE  Cardinality(S \cup T) <= Cardinality(S) + Cardinality(T)
<1>1. IsFiniteSet(S) /\ IsFiniteSet(T) /\ Cardinality(S) \in Nat /\ Cardinality(T) \in Nat
  BY EventSets
<1>2. S \cap T \in SUBSET Events
  OBVIOUS
<1>3. Cardinality(S \cap T) \in Nat
  BY <1>2, EventSets
<1>4. Cardinality(S \cup T) = Cardinality(S) + Cardinality(T) - Cardinality(S \cap T)
  BY <1>1, FS_Union
<1> QED
  BY <1>1, <1>3, <1>4

\* A claim is left behind only by a crash or a failed release.
LEMMA OrphansStep ==
    ASSUME IInv, Cardinality(Orphans) <= faults, [Next]_vars
    PROVE  Cardinality(Orphans') <= faults'
<1> USE DEF TypeOK, Places, Pcs, OwnPcs, DrainPcs, NotAFile, TmpFile, JsonFile, NoEvent,
            files, server, Orphans
<1>0. /\ Orphans \in SUBSET Events /\ Orphans' \in SUBSET Events
      /\ faults \in Nat /\ 0 \notin Events /\ TypeOK
  BY DEF IInv, Events
<1>a. ASSUME Orphans' \subseteq Orphans, faults' = faults
      PROVE  Cardinality(Orphans') <= faults'
  BY <1>0, <1>a, SmallerSets, EventSets
<1>b. ASSUME NEW h \in Hooks, cur[h] \in Events, Orphans' \subseteq Orphans \cup {cur[h]},
             faults' = faults + 1
      PROVE  Cardinality(Orphans') <= faults'
  <2>1. Orphans \cup {cur[h]} \in SUBSET Events
    BY <1>0, <1>b
  <2>2. Cardinality(Orphans \cup {cur[h]}) <= Cardinality(Orphans) + 1
    BY <1>0, OneMore
  <2>3. Cardinality(Orphans') <= Cardinality(Orphans \cup {cur[h]})
    BY <1>b, <2>1, SmallerSets
  <2> QED
    BY <1>0, <1>b, <2>1, <2>2, <2>3, EventSets
<1>c. ASSUME Orphans' \subseteq Orphans, faults' = faults + 1
      PROVE  Cardinality(Orphans') <= faults'
  BY <1>0, <1>c, SmallerSets, EventSets
<1>1. ASSUME NEW h \in Hooks,
             Start(h) \/ GlobBuffer(h) \/ Load(h) \/ Buffer(h) \/ ReadInput(h) \/ Attempt(h)
      PROVE  Orphans' = Orphans /\ faults' = faults
  BY <1>1 DEF Start, GlobBuffer, Load, Buffer, ReadInput, Attempt
<1>2. ASSUME NEW h \in Hooks, Reclaim(h) PROVE Orphans' \subseteq Orphans /\ faults' = faults
  BY <1>0, <1>2 DEF Reclaim
<1>3. ASSUME NEW h \in Hooks, Claim(h) PROVE Orphans' \subseteq Orphans /\ faults' = faults
  <2>1. cur[h] = NoEvent /\ faults' = faults
    BY <1>0, <1>3 DEF Claim
  <2>2. CASE UNCHANGED <<dir, cur>>
    BY <2>1, <2>2
  <2>3. ASSUME NEW e \in Events, dir' = [dir EXCEPT ![e] = h], cur' = [cur EXCEPT ![h] = e]
        PROVE  Orphans' \subseteq Orphans
    <3> SUFFICES ASSUME NEW f \in Events, NEW g \in Hooks, dir'[f] = g, cur'[g] # f
                 PROVE  dir[f] = g /\ cur[g] # f
      OBVIOUS
    <3>1. f # e
      BY <1>0, <2>3
    <3> QED
      BY <1>0, <2>1, <2>3, <3>1
  <2> QED
    BY <1>0, <1>3, <2>1, <2>2, <2>3 DEF Claim
<1>4. ASSUME NEW h \in Hooks, Remove(h) \/ PutBack(h)
      PROVE  Orphans' \subseteq Orphans /\ faults' = faults
  <2>1. /\ faults' = faults /\ cur' = [cur EXCEPT ![h] = NoEvent] /\ cur[h] \in Events
        /\ \/ dir[cur[h]] # h /\ dir' = dir
           \/ \E q \in {NotAFile, JsonFile} : dir' = [dir EXCEPT ![cur[h]] = q]
    BY <1>0, <1>4 DEF Remove, PutBack, MoveClaim
  <2> SUFFICES ASSUME NEW f \in Events, NEW g \in Hooks, dir'[f] = g, cur'[g] # f
               PROVE  dir[f] = g /\ cur[g] # f
    BY <2>1
  <2> QED
    BY <1>0, <2>1
<1>5. ASSUME NEW h \in Hooks, Evict(h) PROVE Orphans' \subseteq Orphans /\ faults' = faults
  BY <1>0, <1>5 DEF Evict
<1>6. ASSUME NEW h \in Hooks, WriteTmp(h) \/ Publish(h)
      PROVE  Orphans' \subseteq Orphans /\ faults' = faults
  BY <1>0, <1>6 DEF WriteTmp, Publish
<1>7. ASSUME NEW h \in Hooks,
             \/ ReclaimFails(h) \/ ClaimFails(h) \/ EvictFails(h)
             \/ ReadFails(h) \/ WriteFails(h)
      PROVE  Orphans' = Orphans /\ faults' = faults + 1
  BY <1>7 DEF ReclaimFails, ClaimFails, EvictFails, ReadFails, WriteFails, Fault
<1>8. ASSUME NEW h \in Hooks, ReleaseFails(h) \/ Crash(h)
      PROVE  Cardinality(Orphans') <= faults'
  <2>1. faults' = faults + 1 /\ dir' = dir /\ cur' = [cur EXCEPT ![h] = NoEvent]
    BY <1>8 DEF ReleaseFails, Crash, Fault
  <2>2. Orphans' \subseteq Orphans \cup {cur[h]}
    BY <1>0, <2>1
  <2>3. CASE cur[h] \in Events
    BY <1>b, <2>1, <2>2, <2>3
  <2>4. CASE cur[h] = NoEvent
    BY <1>0, <1>c, <2>1, <2>2, <2>4
  <2> QED
    BY <1>0, <2>3, <2>4
<1>9. CASE Flap \/ UNCHANGED vars \/ \E e \in Events : LateCommit(e)
  BY <1>9, <1>a DEF Flap, LateCommit, local, vars
<1> QED
  BY <1>a, <1>c, <1>1, <1>2, <1>3, <1>4, <1>5, <1>6, <1>7, <1>8, <1>9 DEF Next, Step

\* A hook that writes its file has made room for it, since it is the only one.
LEMMA RoomStep ==
    ASSUME OneAtATime, IInv, RoomMade, Cardinality(Orphans) <= faults, [Next]_vars
    PROVE  RoomMade'
<1> USE DEF TypeOK, Places, Pcs, OwnPcs, DrainPcs, NotAFile, TmpFile, JsonFile, NoEvent,
            files, server
<1>0. /\ TypeOK /\ Unpublished /\ faults \in Nat
      /\ Orphans \in SUBSET Events /\ Orphans' \in SUBSET Events
      /\ JsonFiles \in SUBSET Events
  BY DEF IInv, Orphans, JsonFiles
<1>00. Cardinality(Orphans) \in Nat /\ Cardinality(Orphans') \in Nat
  BY <1>0, EventSets
<1> SUFFICES ASSUME NEW h \in Hooks
             PROVE  /\ pc'[h] = "evict" =>
                          Cardinality(JsonFiles' \ victims'[h]) + Cardinality(Orphans')
                              < Cap + faults'
                    /\ pc'[h] = "rename" =>
                          Cardinality(JsonFiles') + Cardinality(Orphans') < Cap + faults'
  BY DEF RoomMade
<1>1. CASE Buffer(h)
  <2>1. /\ UNCHANGED <<dir, cur, faults>> /\ pc'[h] = "evict"
        /\ victims'[h] = OldestOf(JsonFiles, ToRemove(Cardinality(JsonFiles)))
    BY <1>0, <1>1 DEF Buffer
  <2>2. JsonFiles' = JsonFiles /\ Orphans' = Orphans
    BY <2>1 DEF JsonFiles, Orphans
  <2> DEFINE Left == JsonFiles \ victims'[h]
  <2>3. Left \in SUBSET Events
    BY <1>0
  <2>4. Cardinality(Left) \in Nat
    BY <2>3, EventSets
  <2>5. Cardinality(Left) < Cap
    BY <1>0, <2>1, VictimsMakeRoom
  <2>6. JsonFiles' \ victims'[h] = Left
    BY <2>2
  <2> HIDE DEF Left
  <2>7. Cardinality(Left) + Cardinality(Orphans) < Cap + faults
    BY <1>0, <1>00, <2>4, <2>5
  <2> QED
    BY <2>1, <2>2, <2>6, <2>7
<1>2. CASE Evict(h)
  <2>1. PICK e \in victims[h] :
            /\ victims' = [victims EXCEPT ![h] = @ \ {e}]
            /\ IF dir[e] = JsonFile THEN dir' = [dir EXCEPT ![e] = NotAFile] ELSE dir' = dir
    BY <1>2 DEF Evict
  <2>2. JsonFiles' \ victims'[h] = JsonFiles \ victims[h]
    BY <1>0, <2>1 DEF JsonFiles
  <2>3. pc[h] = "evict" /\ pc' = pc /\ cur' = cur /\ faults' = faults
    BY <1>2 DEF Evict
  <2>4. Orphans' = Orphans
    BY <1>0, <2>1, <2>3, HookAssumption DEF Orphans
  <2> QED
    BY <2>2, <2>3, <2>4 DEF RoomMade
<1>7. CASE EvictFails(h)
  <2>1. PICK e \in victims[h] : victims' = [victims EXCEPT ![h] = @ \ {e}]
    BY <1>7 DEF EvictFails
  <2>2. pc[h] = "evict" /\ UNCHANGED <<pc, cur, dir>> /\ faults' = faults + 1
    BY <1>7 DEF EvictFails, Fault
  <2>3. JsonFiles' = JsonFiles /\ Orphans' = Orphans
    BY <2>2 DEF JsonFiles, Orphans
  <2> DEFINE Left == JsonFiles \ victims[h]
             After == JsonFiles' \ victims'[h]
  <2>4. Left \in SUBSET Events /\ Left \cup {e} \in SUBSET Events
    BY <1>0, <2>1
  <2>5. After \in SUBSET (Left \cup {e})
    BY <1>0, <2>1, <2>3
  <2>6. Cardinality(Left) + Cardinality(Orphans) < Cap + faults
    BY <2>2 DEF RoomMade
  <2> HIDE DEF Left, After
  <2>7. /\ Cardinality(Left) \in Nat /\ Cardinality(Left \cup {e}) \in Nat
        /\ Cardinality(After) \in Nat
    BY <2>4, <2>5, EventSets
  <2>8. Cardinality(After) <= Cardinality(Left \cup {e})
    BY <2>4, <2>5, SmallerSets
  <2>9. Cardinality(Left \cup {e}) <= Cardinality(Left) + 1
    BY <2>4, OneMore
  <2>10. Cardinality(After) + Cardinality(Orphans) < Cap + (faults + 1)
    BY <1>0, <1>00, <2>6, <2>7, <2>8, <2>9
  <2>11. Cardinality(JsonFiles' \ victims'[h]) + Cardinality(Orphans') < Cap + faults'
    BY <2>2, <2>3, <2>10 DEF After
  <2> QED
    BY <2>2, <2>11
<1>3. CASE WriteTmp(h)
  <2>1. dir[ev[h]] # JsonFile /\ ev[h] \in Events /\ dir[ev[h]] \notin Hooks
    BY <1>0, <1>3, HookAssumption DEF WriteTmp, Unpublished
  <2>2. /\ JsonFiles' = JsonFiles /\ JsonFiles \ victims[h] = JsonFiles
        /\ pc[h] = "evict" /\ faults' = faults /\ cur' = cur
        /\ dir' = [dir EXCEPT ![ev[h]] = TmpFile] /\ pc'[h] = "rename"
    BY <1>0, <1>3, <2>1 DEF WriteTmp, JsonFiles
  <2>3. Orphans' = Orphans
    BY <1>0, <2>1, <2>2, HookAssumption DEF Orphans
  <2> QED
    BY <2>2, <2>3 DEF RoomMade
<1>4. CASE \/ Start(h) \/ Reclaim(h) \/ GlobBuffer(h) \/ Claim(h) \/ Load(h) \/ Remove(h)
           \/ PutBack(h) \/ ReadInput(h) \/ Publish(h) \/ ReclaimFails(h) \/ ClaimFails(h)
           \/ ReadFails(h) \/ ReleaseFails(h) \/ WriteFails(h) \/ Crash(h)
  <2>1. pc'[h] \notin {"evict", "rename"}
    BY <1>0, <1>4 DEF Start, Reclaim, GlobBuffer, Claim, Load, Remove, PutBack, ReadInput,
            Publish, ReclaimFails, ClaimFails, ReadFails, ReleaseFails, WriteFails, Crash
  <2> QED
    BY <2>1
<1>5. CASE Attempt(h)
  <2>1. pc'[h] \notin {"evict", "rename"}
    BY <1>0, <1>5 DEF Attempt, PostPcs, AfterDrain
  <2> QED
    BY <2>1
<1>6. CASE Flap \/ UNCHANGED vars \/ \E e \in Events : LateCommit(e)
  <2>1. UNCHANGED <<pc, cur, dir, victims, faults>>
    BY <1>6 DEF Flap, LateCommit, local, vars
  <2> QED
    BY <2>1 DEF RoomMade, JsonFiles, Orphans
<1> QED
  BY <1>1, <1>2, <1>3, <1>4, <1>5, <1>6, <1>7 DEF Next, Step, OneAtATime

\* Only a file that is published adds to the buffer, and there is room for it.
LEMMA WithinCapStep ==
    ASSUME OneAtATime, IInv, CapInv, [Next]_vars
    PROVE  BufferWithinCap'
<1> USE DEF TypeOK, Places, Pcs, OwnPcs, DrainPcs, NotAFile, TmpFile, JsonFile, NoEvent,
            files, server
<1>0. /\ TypeOK /\ Unpublished /\ faults \in Nat
      /\ Buffered \in SUBSET Events /\ Buffered' \in SUBSET Events
  BY DEF IInv, Buffered, JsonFiles, Claimed
<1>a. ASSUME Buffered' \subseteq Buffered, faults' \in {faults, faults + 1}
      PROVE  BufferWithinCap'
  <2>1. Cardinality(Buffered') <= Cardinality(Buffered)
    BY <1>0, <1>a, SmallerSets
  <2> QED
    BY <1>0, <1>a, <2>1, EventSets DEF CapInv, BufferWithinCap
<1> DEFINE Keeps == Buffered' \subseteq Buffered /\ faults' \in {faults, faults + 1}
<1>1. ASSUME NEW h \in Hooks, Publish(h) PROVE BufferWithinCap'
  <2>1. pc[h] = "rename" /\ cur[h] = NoEvent /\ ev[h] \in Events /\ faults' = faults
    BY <1>0, <1>1 DEF Publish
  <2>2. Claimed \subseteq Orphans
    BY <1>0, <2>1 DEF Claimed, Orphans, OneAtATime, Events
  <2>3. Buffered' \subseteq (JsonFiles \cup Orphans) \cup {ev[h]}
    BY <1>0, <1>1, <2>2 DEF Publish, Buffered, JsonFiles, Claimed
  <2>4. /\ JsonFiles \in SUBSET Events /\ Orphans \in SUBSET Events
        /\ (JsonFiles \cup Orphans) \cup {ev[h]} \in SUBSET Events
        /\ JsonFiles \cup Orphans \in SUBSET Events
    BY <2>1 DEF JsonFiles, Orphans
  <2>5. Cardinality(JsonFiles) + Cardinality(Orphans) < Cap + faults
    BY <2>1 DEF CapInv, RoomMade
  <2>6. Cardinality(JsonFiles \cup Orphans) <= Cardinality(JsonFiles) + Cardinality(Orphans)
    BY <2>4, Together
  <2>7. Cardinality((JsonFiles \cup Orphans) \cup {ev[h]}) <= Cardinality(JsonFiles \cup Orphans) + 1
    BY <2>4, OneMore
  <2>8. Cardinality(Buffered') <= Cardinality((JsonFiles \cup Orphans) \cup {ev[h]})
    BY <2>3, <2>4, SmallerSets
  <2>9. Cardinality(Buffered') <= Cap + faults
    BY <1>0, <2>4, <2>5, <2>6, <2>7, <2>8, EventSets
  <2> QED
    BY <2>1, <2>9 DEF BufferWithinCap
<1>2. ASSUME NEW h \in Hooks,
             \/ Start(h) \/ GlobBuffer(h) \/ Load(h) \/ ReadInput(h) \/ Attempt(h) \/ Buffer(h)
             \/ ReclaimFails(h) \/ ClaimFails(h) \/ EvictFails(h)
             \/ ReadFails(h) \/ ReleaseFails(h) \/ WriteFails(h) \/ Crash(h)
      PROVE  Keeps
  <2>1. dir' = dir /\ faults' \in {faults, faults + 1}
    BY <1>2 DEF Start, GlobBuffer, Load, ReadInput, Attempt, Buffer, ReclaimFails, ClaimFails,
            EvictFails, ReadFails, ReleaseFails, WriteFails, Crash, Fault
  <2> QED
    BY <2>1 DEF Buffered, JsonFiles, Claimed
<1>3. ASSUME NEW h \in Hooks, Reclaim(h) \/ Claim(h) PROVE Keeps
  <2>1. faults' = faults
    BY <1>3 DEF Reclaim, Claim
  <2>2. CASE dir' = dir
    BY <2>1, <2>2 DEF Buffered, JsonFiles, Claimed
  <2>3. ASSUME NEW e \in Buffered, NEW q, dir' = [dir EXCEPT ![e] = q] PROVE Keeps
    BY <1>0, <2>1, <2>3 DEF Buffered, JsonFiles, Claimed
  <2>4. CASE Reclaim(h)
    <3>1. PICK f \in stale[h] :
              dir' = IF dir[f[1]] = f[2] THEN [dir EXCEPT ![f[1]] = JsonFile] ELSE dir
      BY <2>4 DEF Reclaim
    <3>2. f[1] \in Events /\ f[2] \in Hooks
      BY <1>0, <3>1
    <3>3. dir[f[1]] = f[2] => f[1] \in Buffered
      BY <3>2 DEF Buffered, Claimed
    <3> QED
      BY <2>2, <2>3, <3>1, <3>3
  <2>5. CASE Claim(h)
    <3>1. PICK e \in todo[h] :
              \/ dir[e] = JsonFile /\ dir' = [dir EXCEPT ![e] = h]
              \/ dir' = dir
      BY <2>5 DEF Claim
    <3>2. dir[e] = JsonFile => e \in Buffered
      BY <1>0, <3>1 DEF Buffered, JsonFiles
    <3> QED
      BY <2>2, <2>3, <3>1, <3>2
  <2> QED
    BY <1>3, <2>4, <2>5
<1>4. ASSUME NEW h \in Hooks, Remove(h) \/ PutBack(h) PROVE Keeps
  BY <1>0, <1>4 DEF Remove, PutBack, MoveClaim, Buffered, JsonFiles, Claimed
<1>5. ASSUME NEW h \in Hooks, Evict(h) \/ WriteTmp(h) PROVE Keeps
  BY <1>0, <1>5 DEF Evict, WriteTmp, Buffered, JsonFiles, Claimed
<1>6. CASE Flap \/ UNCHANGED vars \/ \E e \in Events : LateCommit(e)
  <2>1. dir' = dir /\ faults' = faults
    BY <1>6 DEF Flap, LateCommit, local, vars
  <2>2. Buffered' = Buffered
    BY <2>1 DEF Buffered, JsonFiles, Claimed
  <2> QED
    BY <1>a, <2>1, <2>2
<1> QED
  BY <1>a, <1>1, <1>2, <1>3, <1>4, <1>5, <1>6 DEF Next, Step

\* With one hook at a time (writeBuffer of cmd/sessionlens-hook) the buffer exceeds
\* its cap only by what faults left behind.
THEOREM CapKept == ASSUME OneAtATime PROVE Spec => []BufferWithinCap
<1>1. Init => CapInv
  <2> SUFFICES ASSUME Init PROVE CapInv
    OBVIOUS
  <2>1. Orphans = {} /\ Buffered = {} /\ faults = 0
    BY DEF Init, Orphans, Buffered, JsonFiles, Claimed, NotAFile, JsonFile, TmpFile
  <2>2. RoomMade
    BY DEF Init, RoomMade
  <2> QED
    BY <2>1, <2>2, FS_EmptySet DEF CapInv, BufferWithinCap
<1>2. IInv /\ CapInv /\ [Next]_vars => CapInv'
  <2> SUFFICES ASSUME IInv, CapInv, [Next]_vars PROVE CapInv'
    OBVIOUS
  <2>1. Cardinality(Orphans') <= faults'
    BY OrphansStep DEF CapInv
  <2>2. RoomMade'
    BY RoomStep DEF CapInv
  <2> QED
    BY <2>1, <2>2, WithinCapStep DEF CapInv
<1>3. CapInv => BufferWithinCap
  BY DEF CapInv
<1> QED
  BY <1>1, <1>2, <1>3, InvAlways, PTL DEF Spec
-----------------------------------------------------------------------------
(* Which file is sacrificed, for one hook at a time.                          *)

\* A file's name is given once, by a clock that does not stand still.
Named ==
    /\ \A e \in Events : stamp[e] <= clock /\ (dir[e] # NotAFile => stamp[e] > 0)
    /\ \A e, f \in Events : stamp[e] = stamp[f] /\ stamp[e] > 0 => e = f
    /\ \A h \in Hooks : pc[h] = "rename" => stamp[ev[h]] > 0

\* The older files that h does not evict.
OlderKept(e, h) == {f \in JsonFiles \ victims[h] : stamp[f] < stamp[e]}
\* What a hook is about to evict is in a full buffer, and an older file stays only
\* when its remove failed.
Chosen ==
    \A h \in Hooks :
        pc[h] = "evict" /\ victims[h] # {} =>
            /\ victims[h] \subseteq JsonFiles
            /\ Cardinality(JsonFiles \ victims[h]) >= Cap - 1
            /\ \A e \in victims[h] : Cardinality(OlderKept(e, h)) <= faults

\* The n oldest of files with different names are at most n.
LEMMA OldestAtMost ==
    ASSUME TypeOK, Named, NEW n \in Nat
    PROVE  Cardinality(OldestOf(JsonFiles, n)) <= n
<1> DEFINE V == OldestOf(JsonFiles, n)
           T == {clock - stamp[e] : e \in V}
<1>1. JsonFiles \in SUBSET Events /\ V \in SUBSET JsonFiles
  BY DEF JsonFiles, OldestOf
<1>2. CASE V = {}
  BY <1>2, FS_EmptySet
<1>3. CASE V # {}
  <2>1. T \in SUBSET Nat /\ T # {}
    BY <1>1, <1>3 DEF TypeOK, Named
  <2>2. PICK x \in T : \A y \in T : x <= y
    <3> HIDE DEF T
    <3> QED
      BY <2>1, LeastElement
  <2>3. PICK e \in V : x = clock - stamp[e]
    OBVIOUS
  <2>4. \A f \in V : clock - stamp[e] <= clock - stamp[f]
    BY <2>2, <2>3
  <2>5. \A f \in V : stamp[f] \in Nat /\ stamp[e] \in Nat /\ clock \in Nat
    BY <1>1 DEF TypeOK
  <2>6. \A f \in V : stamp[f] <= stamp[e]
    BY <2>4, <2>5
  <2> DEFINE L == {f \in JsonFiles : stamp[f] < stamp[e]}
  <2>7. \A f \in V : f \in L \/ f = e
    BY <1>1, <2>5, <2>6 DEF Named, JsonFiles, NotAFile, JsonFile
  <2>8. ~(n <= Cardinality(L))
    <3>1. L \in SUBSET Events
      BY <1>1
    <3>2. Cardinality(L) < n /\ Cardinality(L) \in Nat
      BY <2>3, <3>1, EventSets DEF OldestOf
    <3> QED
      BY <3>2
  <2>9. L \in SUBSET Events /\ L \cup {e} \in SUBSET Events /\ V \in SUBSET (L \cup {e})
    BY <1>1, <2>7
  <2> HIDE DEF L, V
  <2>10. Cardinality(V) <= Cardinality(L \cup {e})
    BY <2>9, SmallerSets
  <2>11. Cardinality(L \cup {e}) <= Cardinality(L) + 1
    BY <2>9, OneMore
  <2>12. /\ Cardinality(V) \in Nat /\ Cardinality(L) \in Nat
         /\ Cardinality(L \cup {e}) \in Nat
    BY <1>1, <2>9, EventSets
  <2>13. Cardinality(V) <= n
    BY <2>8, <2>10, <2>11, <2>12
  <2> QED
    BY <2>13 DEF V
<1> QED
  BY <1>2, <1>3

\* The files that writeBuffer chooses are the oldest of a full buffer.
LEMMA ChoiceIsOldest ==
    ASSUME TypeOK, Named, NEW V, V = OldestOf(JsonFiles, ToRemove(Cardinality(JsonFiles))), V # {}
    PROVE  /\ V \subseteq JsonFiles
           /\ Cardinality(JsonFiles \ V) >= Cap - 1
           /\ \A e \in V, f \in JsonFiles \ V : stamp[e] <= stamp[f]
<1> DEFINE n == Cardinality(JsonFiles)
           k == ToRemove(n)
<1>1. JsonFiles \in SUBSET Events /\ V \in SUBSET JsonFiles
  BY DEF JsonFiles, OldestOf
<1>2. n \in Nat /\ Cardinality(V) \in Nat /\ IsFiniteSet(JsonFiles)
  BY <1>1, EventSets
<1>3. k \in Nat
  BY <1>2, HookAssumption DEF ToRemove
<1> DEFINE Older(e) == {f \in JsonFiles : stamp[f] < stamp[e]}
<1>4. \A e \in JsonFiles : Older(e) \in SUBSET Events /\ Cardinality(Older(e)) \in Nat
  BY <1>1, EventSets
<1>5. \A e \in JsonFiles : e \in V <=> Cardinality(Older(e)) < k
  BY DEF OldestOf
<1>6. ASSUME NEW e \in V, NEW f \in JsonFiles \ V PROVE stamp[e] <= stamp[f]
  <2> SUFFICES ASSUME stamp[f] < stamp[e] PROVE FALSE
    BY <1>1, <1>6 DEF TypeOK
  <2>1. stamp[e] \in Nat /\ stamp[f] \in Nat /\ \A g \in JsonFiles : stamp[g] \in Nat
    BY <1>1, <1>6 DEF TypeOK
  <2>2. Older(f) \in SUBSET Older(e)
    BY <2>1
  <2>3. e \in JsonFiles /\ f \in JsonFiles /\ f \notin V
    BY <1>1
  <2> HIDE DEF Older, k
  <2>4. Cardinality(Older(f)) <= Cardinality(Older(e))
    BY <1>4, <2>2, <2>3, SmallerSets
  <2> QED
    BY <1>3, <1>4, <1>5, <2>3, <2>4
<1>7. k > 0 /\ n >= Cap /\ n - k = Cap - 1
  <2>1. PICK e \in V : e \in JsonFiles
    BY <1>1
  <2>2. Cardinality(Older(e)) < k
    BY <1>5, <2>1
  <2>3. k > 0
    BY <1>3, <1>4, <2>1, <2>2
  <2> QED
    BY <1>2, <2>3, HookAssumption DEF ToRemove
<1>8. Cardinality(JsonFiles \ V) = n - Cardinality(V)
  <2>1. JsonFiles \cap V = V
    BY <1>1
  <2>2. Cardinality(JsonFiles \ V) = Cardinality(JsonFiles) - Cardinality(JsonFiles \cap V)
    BY <1>2, FS_Difference
  <2> QED
    BY <2>1, <2>2
<1>9. Cardinality(V) <= k
  BY <1>3, OldestAtMost
<1> HIDE DEF n, k
<1>10. Cardinality(JsonFiles \ V) >= Cap - 1
  BY <1>2, <1>3, <1>7, <1>8, <1>9, HookAssumption
<1> QED
  BY <1>1, <1>6, <1>10

\* Names stay distinct, and every file has one.
LEMMA NamedStep ==
    ASSUME OneAtATime, TypeOK, Named, [Next]_vars
    PROVE  Named'
<1> USE DEF TypeOK, Places, Pcs, OwnPcs, DrainPcs, NotAFile, TmpFile, JsonFile, NoEvent,
            files, server
<1>a. ASSUME stamp' = stamp, clock' = clock,
             \A e \in Events : dir'[e] # NotAFile => dir[e] # NotAFile,
             \A h \in Hooks : pc'[h] = "rename" => pc[h] = "rename" /\ ev'[h] = ev[h]
      PROVE  Named'
  BY <1>a DEF Named
<1>1. ASSUME NEW h \in Hooks,
             \/ Start(h) \/ GlobBuffer(h) \/ Load(h) \/ ReadInput(h) \/ Attempt(h) \/ Buffer(h)
             \/ ReclaimFails(h) \/ ClaimFails(h) \/ EvictFails(h)
             \/ ReadFails(h) \/ ReleaseFails(h) \/ WriteFails(h) \/ Crash(h)
      PROVE  Named'
  <2>1. dir' = dir /\ stamp' = stamp /\ clock' = clock
    BY <1>1 DEF Start, GlobBuffer, Load, ReadInput, Attempt, Buffer, ReclaimFails, ClaimFails,
            EvictFails, ReadFails, ReleaseFails, WriteFails, Crash
  <2>2. pc'[h] # "rename" /\ \A g \in Hooks : g = h
    BY <1>1 DEF Start, GlobBuffer, Load, ReadInput, Attempt, Buffer, ReclaimFails, ClaimFails,
            EvictFails, ReadFails, ReleaseFails, WriteFails, Crash, OneAtATime, AfterDrain, PostPcs
  <2> QED
    BY <1>a, <2>1, <2>2
<1>2. ASSUME NEW h \in Hooks, \/ Reclaim(h) \/ Claim(h) \/ Remove(h) \/ PutBack(h) \/ Evict(h)
      PROVE  Named'
  <2>1. /\ stamp' = stamp /\ clock' = clock /\ ev' = ev
        /\ \A g \in Hooks : pc'[g] = "rename" => pc[g] = "rename"
    BY <1>2 DEF Reclaim, Claim, Remove, PutBack, Evict
  <2>2. CASE Reclaim(h)
    <3>1. PICK f \in stale[h] :
              dir' = IF dir[f[1]] = f[2] THEN [dir EXCEPT ![f[1]] = JsonFile] ELSE dir
      BY <2>2 DEF Reclaim
    <3>2. f[1] \in Events /\ f[2] \in Hooks /\ f[2] # NotAFile
      BY <3>1, HookAssumption
    <3> QED
      BY <1>a, <2>1, <3>1, <3>2
  <2>3. CASE Claim(h) \/ Evict(h)
    <3>1. \A e \in Events : dir'[e] # NotAFile => dir[e] # NotAFile
      BY <2>3 DEF Claim, Evict
    <3> QED
      BY <1>a, <2>1, <3>1
  <2>4. CASE Remove(h) \/ PutBack(h)
    <3>1. \A e \in Events : dir'[e] # NotAFile => dir[e] # NotAFile
      BY <2>4, HookAssumption DEF Remove, PutBack, MoveClaim
    <3> QED
      BY <1>a, <2>1, <3>1
  <2> QED
    BY <1>2, <2>2, <2>3, <2>4
<1>3. ASSUME NEW h \in Hooks, WriteTmp(h) PROVE Named'
  <2>1. ev[h] \in Events /\ \A g \in Hooks : g = h
    BY <1>3 DEF WriteTmp, OneAtATime
  <2>2. /\ clock' = clock + 1 /\ stamp' = [stamp EXCEPT ![ev[h]] = clock + 1]
        /\ dir' = [dir EXCEPT ![ev[h]] = TmpFile] /\ ev' = ev
    BY <1>3 DEF WriteTmp
  <2>3. clock \in Nat /\ \A e \in Events : stamp[e] \in Nat /\ stamp[e] < clock + 1
    BY DEF Named
  <2> QED
    BY <2>1, <2>2, <2>3 DEF Named
<1>4. ASSUME NEW h \in Hooks, Publish(h) PROVE Named'
  <2>1. /\ ev[h] \in Events /\ stamp[ev[h]] > 0 /\ pc'[h] # "rename" /\ \A g \in Hooks : g = h
        /\ dir' = [dir EXCEPT ![ev[h]] = JsonFile] /\ stamp' = stamp /\ clock' = clock
    BY <1>4 DEF Publish, OneAtATime, Named
  <2> QED
    BY <2>1 DEF Named
<1>5. CASE Flap \/ UNCHANGED vars \/ \E e \in Events : LateCommit(e)
  <2>1. UNCHANGED <<local, files>>
    BY <1>5 DEF Flap, LateCommit, vars
  <2> QED
    BY <1>a, <2>1 DEF local
<1> QED
  BY <1>1, <1>2, <1>3, <1>4, <1>5 DEF Next, Step

\* Nothing but its own evictions changes the buffer under the one hook that evicts.
LEMMA ChosenStep ==
    ASSUME OneAtATime, TypeOK, Named, Chosen, [Next]_vars
    PROVE  Chosen'
<1> USE DEF TypeOK, Places, Pcs, OwnPcs, DrainPcs, NotAFile, TmpFile, JsonFile, NoEvent,
            files, server
<1>a. ASSUME NEW h \in Hooks, \A g \in Hooks : g = h, pc'[h] # "evict" PROVE Chosen'
  BY <1>a DEF Chosen
<1>1. ASSUME NEW h \in Hooks, Buffer(h) PROVE Chosen'
  <2>1. /\ UNCHANGED <<dir, stamp>> /\ \A g \in Hooks : g = h
        /\ victims'[h] = OldestOf(JsonFiles, ToRemove(Cardinality(JsonFiles)))
    BY <1>1 DEF Buffer, OneAtATime
  <2>2. JsonFiles' = JsonFiles
    BY <2>1 DEF JsonFiles
  <2>3. victims'[h] # {} =>
            /\ victims'[h] \subseteq JsonFiles
            /\ Cardinality(JsonFiles \ victims'[h]) >= Cap - 1
            /\ \A e \in victims'[h], f \in JsonFiles \ victims'[h] : stamp[e] <= stamp[f]
    BY <2>1, ChoiceIsOldest
  <2>4. ASSUME NEW e \in victims'[h] PROVE Cardinality(OlderKept(e, h)') <= faults'
    <3>1. \A f \in JsonFiles \ victims'[h] : stamp[e] <= stamp[f]
      BY <2>3
    <3>2. \A f \in JsonFiles \ victims'[h] : ~(stamp[f] < stamp[e])
      <4>1. stamp[e] \in Nat /\ \A f \in JsonFiles : stamp[f] \in Nat
        BY <2>3, <2>4 DEF JsonFiles
      <4> QED
        BY <3>1, <4>1
    <3>3. OlderKept(e, h)' = {}
      BY <2>1, <2>2, <3>2 DEF OlderKept
    <3>4. faults' \in Nat
      BY <1>1 DEF Buffer
    <3> QED
      BY <3>3, <3>4, FS_EmptySet
  <2> QED
    BY <2>1, <2>2, <2>3, <2>4 DEF Chosen
<1>2. ASSUME NEW h \in Hooks, Evict(h) PROVE Chosen'
  <2>1. PICK e \in victims[h] :
            /\ victims' = [victims EXCEPT ![h] = @ \ {e}]
            /\ IF dir[e] = JsonFile THEN dir' = [dir EXCEPT ![e] = NotAFile] ELSE dir' = dir
    BY <1>2 DEF Evict
  <2>2. pc[h] = "evict" /\ stamp' = stamp /\ \A g \in Hooks : g = h
    BY <1>2 DEF Evict, OneAtATime
  <2>3. dir[e] = JsonFile /\ e \in Events
    BY <2>1, <2>2 DEF Chosen, JsonFiles
  <2>4. JsonFiles' = JsonFiles \ {e} /\ victims'[h] = victims[h] \ {e}
    BY <2>1, <2>3 DEF JsonFiles
  <2>5. JsonFiles' \ victims'[h] = JsonFiles \ victims[h] /\ victims'[h] \subseteq JsonFiles'
    <3>1. e \in victims[h] /\ victims[h] \subseteq JsonFiles
      BY <2>1, <2>2 DEF Chosen
    <3> QED
      BY <2>4, <3>1
  <2>6. \A v \in victims'[h] : OlderKept(v, h)' = OlderKept(v, h)
    BY <2>2, <2>5 DEF OlderKept
  <2>7. faults' = faults /\ pc' = pc
    BY <1>2 DEF Evict
  <2>8. /\ Cardinality(JsonFiles \ victims[h]) >= Cap - 1
        /\ \A v \in victims[h] : Cardinality(OlderKept(v, h)) <= faults
    BY <2>1, <2>2 DEF Chosen
  <2>9. \A v \in victims'[h] : Cardinality(OlderKept(v, h)') <= faults'
    BY <2>4, <2>6, <2>7, <2>8
  <2> QED
    BY <2>2, <2>5, <2>8, <2>9 DEF Chosen
<1>5. ASSUME NEW h \in Hooks, EvictFails(h) PROVE Chosen'
  <2>1. PICK e \in victims[h] : victims' = [victims EXCEPT ![h] = @ \ {e}]
    BY <1>5 DEF EvictFails
  <2>2. /\ pc[h] = "evict" /\ UNCHANGED <<stamp, dir>> /\ faults' = faults + 1
        /\ \A g \in Hooks : g = h
    BY <1>5 DEF EvictFails, Fault, OneAtATime
  <2>3. /\ JsonFiles' = JsonFiles /\ victims'[h] = victims[h] \ {e} /\ e \in Events
        /\ victims[h] \subseteq JsonFiles /\ JsonFiles \in SUBSET Events
        /\ Cardinality(JsonFiles \ victims[h]) >= Cap - 1
    BY <2>1, <2>2 DEF Chosen, JsonFiles
  <2>4. Cardinality(JsonFiles' \ victims'[h]) >= Cap - 1
    <3> DEFINE Before == JsonFiles \ victims[h]
               After == JsonFiles' \ victims'[h]
    <3>1. After \in SUBSET Events /\ Before \in SUBSET After
      BY <2>3
    <3> HIDE DEF Before, After
    <3>2. Cardinality(Before) <= Cardinality(After)
      BY <3>1, SmallerSets
    <3>3. Cardinality(Before) \in Nat /\ Cardinality(After) \in Nat
      BY <3>1, EventSets
    <3>4. Cardinality(Before) >= Cap - 1
      BY <2>3 DEF Before
    <3>5. Cardinality(After) >= Cap - 1
      BY <3>2, <3>3, <3>4, HookAssumption
    <3> QED
      BY <3>5 DEF After
  <2>5. ASSUME NEW v \in victims'[h] PROVE Cardinality(OlderKept(v, h)') <= faults'
    <3> DEFINE Before == OlderKept(v, h)
               After == OlderKept(v, h)'
    <3>1. Before \in SUBSET Events /\ Before \cup {e} \in SUBSET Events
      BY <2>3 DEF OlderKept
    <3>2. After \in SUBSET (Before \cup {e})
      BY <2>2, <2>3 DEF OlderKept
    <3>3. v \in victims[h]
      BY <2>3, <2>5
    <3>4. Cardinality(Before) <= faults
      BY <2>2, <3>3 DEF Chosen
    <3> HIDE DEF Before, After
    <3>5. /\ Cardinality(Before) \in Nat /\ Cardinality(Before \cup {e}) \in Nat
          /\ Cardinality(After) \in Nat /\ faults \in Nat
      BY <3>1, <3>2, EventSets
    <3>6. Cardinality(After) <= Cardinality(Before \cup {e})
      BY <3>1, <3>2, SmallerSets
    <3>7. Cardinality(Before \cup {e}) <= Cardinality(Before) + 1
      BY <3>1, OneMore
    <3>8. Cardinality(After) <= faults + 1
      BY <3>4, <3>5, <3>6, <3>7
    <3> QED
      BY <2>2, <3>8 DEF After
  <2>6. victims'[h] \subseteq JsonFiles'
    BY <2>3
  <2> QED
    BY <2>2, <2>4, <2>5, <2>6 DEF Chosen
<1>3. ASSUME NEW h \in Hooks,
             \/ Start(h) \/ Reclaim(h) \/ GlobBuffer(h) \/ Claim(h) \/ Load(h) \/ Remove(h)
             \/ PutBack(h) \/ ReadInput(h) \/ Attempt(h) \/ WriteTmp(h) \/ Publish(h)
             \/ ReclaimFails(h) \/ ClaimFails(h) \/ ReadFails(h) \/ ReleaseFails(h) \/ WriteFails(h) \/ Crash(h)
      PROVE  Chosen'
  <2>1. pc'[h] # "evict"
    BY <1>3 DEF Start, Reclaim, GlobBuffer, Claim, Load, Remove, PutBack, ReadInput, Attempt,
            WriteTmp, Publish, ReclaimFails, ClaimFails, ReadFails, ReleaseFails, WriteFails,
            Crash, AfterDrain, PostPcs
  <2> QED
    BY <1>a, <2>1 DEF OneAtATime
<1>4. CASE Flap \/ UNCHANGED vars \/ \E e \in Events : LateCommit(e)
  <2>1. UNCHANGED <<pc, victims, dir, stamp, faults>>
    BY <1>4 DEF Flap, LateCommit, local, vars
  <2>2. JsonFiles' = JsonFiles
    BY <2>1 DEF JsonFiles
  <2>3. \A e \in Events, h \in Hooks : OlderKept(e, h)' = OlderKept(e, h)
    BY <2>1, <2>2 DEF OlderKept
  <2> SUFFICES ASSUME NEW h \in Hooks, pc'[h] = "evict" /\ victims'[h] # {}
               PROVE  /\ victims'[h] \subseteq JsonFiles'
                      /\ Cardinality(JsonFiles' \ victims'[h]) >= Cap - 1
                      /\ \A e \in victims'[h] : Cardinality(OlderKept(e, h)') <= faults'
    BY DEF Chosen
  <2>4. /\ victims[h] \subseteq JsonFiles
        /\ Cardinality(JsonFiles \ victims[h]) >= Cap - 1
        /\ \A e \in victims[h] : Cardinality(OlderKept(e, h)) <= faults
    BY <2>1 DEF Chosen
  <2>5. victims'[h] = victims[h] /\ victims[h] \in SUBSET Events
    BY <2>1
  <2> QED
    BY <2>1, <2>2, <2>3, <2>4, <2>5
<1> QED
  BY <1>1, <1>2, <1>3, <1>4, <1>5 DEF Next, Step

\* A file that leaves the buffer unsent is one the hook has chosen.
LEMMA EvictionStep ==
    ASSUME TypeOK, Chosen, [Next]_vars, NEW e \in Events, dir[e] = JsonFile, dir'[e] = NotAFile
    PROVE  /\ Cardinality(JsonFiles) >= Cap
           /\ Cardinality({f \in JsonFiles : stamp[f] < stamp[e]}) <= faults
<1> USE DEF TypeOK, Places, Pcs, OwnPcs, DrainPcs, NotAFile, TmpFile, JsonFile, NoEvent,
            files, server
<1>1. PICK h \in Hooks : Evict(h)
  <2>1. ASSUME NEW h \in Hooks,
               \/ Start(h) \/ GlobBuffer(h) \/ Load(h) \/ ReadInput(h) \/ Attempt(h) \/ Buffer(h)
               \/ ReclaimFails(h) \/ ClaimFails(h) \/ EvictFails(h)
               \/ ReadFails(h) \/ ReleaseFails(h) \/ WriteFails(h) \/ Crash(h)
        PROVE  FALSE
    <3>1. dir' = dir
      BY <2>1 DEF Start, GlobBuffer, Load, ReadInput, Attempt, Buffer, ReclaimFails, ClaimFails,
            EvictFails, ReadFails, ReleaseFails, WriteFails, Crash
    <3> QED
      BY <3>1
  <2>2. ASSUME NEW h \in Hooks, Reclaim(h) PROVE FALSE
    <3>1. PICK f \in stale[h] :
              dir' = IF dir[f[1]] = f[2] THEN [dir EXCEPT ![f[1]] = JsonFile] ELSE dir
      BY <2>2 DEF Reclaim
    <3> QED
      BY <3>1
  <2>3. ASSUME NEW h \in Hooks, Remove(h) \/ PutBack(h) PROVE FALSE
    BY <2>3, HookAssumption DEF Remove, PutBack, MoveClaim
  <2>4. ASSUME NEW h \in Hooks, WriteTmp(h) \/ Publish(h) PROVE FALSE
    BY <2>4 DEF WriteTmp, Publish
  <2>5. CASE Flap \/ UNCHANGED vars \/ \E f \in Events : LateCommit(f)
    BY <2>5 DEF Flap, LateCommit, local, vars
  <2>6. ASSUME NEW h \in Hooks, Claim(h) PROVE FALSE
    <3>1. PICK f \in todo[h] : dir' = [dir EXCEPT ![f] = h] \/ dir' = dir
      BY <2>6 DEF Claim
    <3> QED
      BY <3>1, HookAssumption
  <2> QED
    BY <2>1, <2>2, <2>3, <2>4, <2>5, <2>6 DEF Next, Step
<1>2. PICK v \in victims[h] :
          /\ IsOldest(v, victims[h])
          /\ IF dir[v] = JsonFile THEN dir' = [dir EXCEPT ![v] = NotAFile] ELSE dir' = dir
  BY <1>1 DEF Evict
<1>3. v = e
  BY <1>2
<1>4. /\ pc[h] = "evict" /\ victims[h] \subseteq JsonFiles
      /\ Cardinality(JsonFiles \ victims[h]) >= Cap - 1
      /\ Cardinality(OlderKept(e, h)) <= faults
  BY <1>1, <1>2, <1>3 DEF Evict, Chosen
<1> DEFINE Older == {f \in JsonFiles : stamp[f] < stamp[e]}
<1>5. Cardinality(Older) <= faults
  <2>1. \A f \in victims[h] : stamp[e] <= stamp[f] /\ stamp[e] \in Nat /\ stamp[f] \in Nat
    BY <1>2, <1>3 DEF IsOldest
  <2>2. \A f \in victims[h] : ~(stamp[f] < stamp[e])
    BY <2>1
  <2>3. Older = OlderKept(e, h)
    BY <2>2 DEF OlderKept
  <2> QED
    BY <1>4, <2>3
<1> HIDE DEF Older
<1> DEFINE Rest == JsonFiles \ victims[h]
<1>6. /\ JsonFiles \in SUBSET Events /\ Rest \in SUBSET Events /\ e \notin Rest
      /\ Rest \cup {e} \in SUBSET JsonFiles
  BY <1>2, <1>3, <1>4 DEF JsonFiles
<1> HIDE DEF Rest
<1>7. IsFiniteSet(Rest) /\ Cardinality(Rest) \in Nat /\ Cardinality(JsonFiles) \in Nat
  BY <1>6, EventSets
<1>8. Cardinality(Rest \cup {e}) = Cardinality(Rest) + 1
  BY <1>6, <1>7, FS_AddElement
<1>9. Cardinality(Rest \cup {e}) <= Cardinality(JsonFiles)
  BY <1>6, SmallerSets
<1>10. Cardinality(Rest) >= Cap - 1
  BY <1>4 DEF Rest
<1>11. Cardinality(JsonFiles) >= Cap
  BY <1>7, <1>8, <1>9, <1>10, HookAssumption
<1> QED
  BY <1>5, <1>11 DEF Older

\* With one hook at a time (writeBuffer of cmd/sessionlens-hook) an unsent file is
\* sacrificed only when the buffer is full, and then the oldest but for those whose
\* remove failed.
THEOREM OldestEvicted == ASSUME OneAtATime PROVE Spec => EvictsOldestOfFull
<1>1. Init => Named /\ Chosen
  BY DEF Init, Named, Chosen, NotAFile
<1>2. TypeOK /\ Named /\ Chosen /\ [Next]_vars => Named' /\ Chosen'
  BY NamedStep, ChosenStep
<1>3. TypeOK /\ Chosen /\ [Next]_vars =>
          [\A e \in Events :
              dir[e] = JsonFile /\ dir'[e] = NotAFile =>
                  /\ Cardinality(JsonFiles) >= Cap
                  /\ Cardinality({f \in JsonFiles : stamp[f] < stamp[e]}) <= faults]_vars
  BY EvictionStep
<1> QED
  BY <1>1, <1>2, <1>3, TypeCorrect, PTL DEF Spec, EvictsOldestOfFull

-----------------------------------------------------------------------------
(* The hooks and their buffer implement Custody: every step of every hook,   *)
(* every fault and every late commit moves at most one event, and moves it   *)
(* as Custody allows.                                                        *)

\* What is left of the abstract state when one event is set apart: all the other
\* events keep theirs.
OthersKept(x) ==
    \A e \in Events \ {x} :
        /\ e \in delivered' <=> e \in delivered
        /\ e > built' <=> e > built
        /\ e \in Copies' <=> e \in Copies

\* A step that changes neither the copies nor what was committed, parsed or given
\* up is invisible to Custody.
LEMMA Stutter ==
    ASSUME built' = built, delivered' = delivered, forgone' = forgone, Copies' = Copies
    PROVE  UNCHANGED Abstract!vars
  BY DEF Abstract!vars, CustodyState

\* A step that keeps all events but one changes the abstract state at that one.
LEMMA OneMoves ==
    ASSUME NEW x \in Events, OthersKept(x)
    PROVE  /\ CustodyState' = [CustodyState EXCEPT ![x] = CustodyState'[x]]
           /\ CustodyState'[x] = CustodyState[x] => CustodyState' = CustodyState
<1>1. \A e \in Events \ {x} : CustodyState'[e] = CustodyState[e]
  BY DEF OthersKept, CustodyState
<1>2. CustodyState' = [CustodyState EXCEPT ![x] = CustodyState'[x]]
  BY <1>1 DEF CustodyState
<1>3. CustodyState = [e \in Events |-> CustodyState[e]]
  BY DEF CustodyState
<1>4. CustodyState = [CustodyState EXCEPT ![x] = CustodyState[x]]
  BY <1>3
<1> QED
  BY <1>2, <1>4

\* The abstract state of one event.
LEMMA StateOf ==
    ASSUME NEW x \in Events
    PROVE  /\ x \in delivered => CustodyState[x] = "stored"
           /\ x \notin delivered /\ x > built => CustodyState[x] = "new"
           /\ x \notin delivered /\ ~(x > built) /\ x \in Copies => CustodyState[x] = "held"
           /\ x \notin delivered /\ ~(x > built) /\ x \notin Copies => CustodyState[x] = "lost"
  BY DEF CustodyState

\* And after a step.
LEMMA StateOfNext ==
    ASSUME NEW x \in Events
    PROVE  /\ x \in delivered' => CustodyState'[x] = "stored"
           /\ x \notin delivered' /\ x > built' => CustodyState'[x] = "new"
           /\ x \notin delivered' /\ ~(x > built') /\ x \in Copies' => CustodyState'[x] = "held"
           /\ x \notin delivered' /\ ~(x > built') /\ x \notin Copies' => CustodyState'[x] = "lost"
  BY DEF CustodyState

\* Four ways a step at one event is a step of Custody: it is parsed, ...
LEMMA Takes ==
    ASSUME NEW x \in Events, OthersKept(x), forgone' = forgone,
           x > built, ~(x > built'), x \notin delivered, delivered' = delivered, x \in Copies'
    PROVE  Abstract!Next
<1>1. CustodyState[x] = "new" /\ CustodyState'[x] = "held"
  BY StateOf, StateOfNext
<1> QED
  BY <1>1, OneMoves DEF Abstract!Next, Abstract!Take, Abstract!Move

\* ... it is committed while a copy existed, or was committed before, ...
LEMMA Stores ==
    ASSUME NEW x \in Events, OthersKept(x), forgone' = forgone, built' = built,
           ~(x > built), x \in Copies, x \in delivered'
    PROVE  [Abstract!Next]_(Abstract!vars)
<1>1. CASE x \in delivered
  <2>1. CustodyState' = CustodyState
    BY <1>1, StateOf, StateOfNext, OneMoves
  <2> QED
    BY <2>1 DEF Abstract!vars
<1>2. CASE x \notin delivered
  <2>1. CustodyState[x] = "held" /\ CustodyState'[x] = "stored"
    BY <1>2, StateOf, StateOfNext
  <2> QED
    BY <2>1, OneMoves DEF Abstract!Next, Abstract!Store, Abstract!Move
<1> QED
  BY <1>1, <1>2

\* ... a copy of it is given up, ...
LEMMA GivesUp ==
    ASSUME NEW x \in Events, OthersKept(x), forgone' = forgone \cup {x}, built' = built,
           delivered' = delivered, ~(x > built), x \in Copies
    PROVE  Abstract!Next
<1>1. CASE CustodyState'[x] = CustodyState[x]
  <2>1. CustodyState' = CustodyState
    BY <1>1, OneMoves
  <2> QED
    BY <2>1 DEF Abstract!Next, Abstract!GiveUp
<1>2. CASE CustodyState'[x] # CustodyState[x]
  <2>1. CustodyState[x] = "held" /\ CustodyState'[x] = "lost"
    BY <1>2, StateOf, StateOfNext
  <2> QED
    BY <2>1, OneMoves DEF Abstract!Next, Abstract!GiveUp, Abstract!Move
<1> QED
  BY <1>1, <1>2

\* ... or a process forgets it that was given up or committed before.
LEMMA Forgets ==
    ASSUME NEW x \in Events, OthersKept(x), forgone' = forgone, built' = built,
           delivered' = delivered, ~(x > built), x \in Copies,
           x \in delivered \cup forgone \cup Copies'
    PROVE  [Abstract!Next]_(Abstract!vars)
<1>1. CASE CustodyState'[x] = CustodyState[x]
  <2>1. CustodyState' = CustodyState
    BY <1>1, OneMoves
  <2> QED
    BY <2>1 DEF Abstract!vars
<1>2. CASE CustodyState'[x] # CustodyState[x]
  <2>1. CustodyState[x] = "held" /\ CustodyState'[x] = "lost" /\ x \in forgone
    BY <1>2, StateOf, StateOfNext
  <2> QED
    BY <2>1, OneMoves DEF Abstract!Next, Abstract!Lose, Abstract!Move
<1> QED
  BY <1>1, <1>2

-----------------------------------------------------------------------------
(* Which copies a step of one process can touch *)

\* The memory of the other processes is untouched.
OthersQuiet(h) ==
    \A g \in Hooks \ {h} : pc'[g] = pc[g] /\ ev'[g] = ev[g] /\ cur'[g] = cur[g]

\* A process writes its own memory only.
LEMMA Isolation ==
    ASSUME TypeOK, NEW h \in Hooks,
           \/ Start(h) \/ Step(h)
           \/ ReclaimFails(h) \/ ClaimFails(h) \/ EvictFails(h)
           \/ ReadFails(h) \/ ReleaseFails(h) \/ WriteFails(h) \/ Crash(h)
    PROVE  OthersQuiet(h)
<1> USE DEF TypeOK, OthersQuiet
<1>1. CASE Start(h) \/ Reclaim(h) \/ GlobBuffer(h) \/ Load(h) \/ Remove(h) \/ PutBack(h)
  BY <1>1 DEF Start, Reclaim, GlobBuffer, Load, Remove, PutBack
<1>2. CASE Claim(h)
  BY <1>2 DEF Claim
<1>3. CASE ReadInput(h)
  BY <1>3 DEF ReadInput
<1>4. CASE Attempt(h)
  BY <1>4 DEF Attempt
<1>5. CASE Buffer(h) \/ Evict(h) \/ WriteTmp(h) \/ Publish(h)
  BY <1>5 DEF Buffer, Evict, WriteTmp, Publish
<1>6. CASE \/ ReclaimFails(h) \/ ClaimFails(h) \/ EvictFails(h)
           \/ ReadFails(h) \/ ReleaseFails(h) \/ WriteFails(h) \/ Crash(h)
  BY <1>6 DEF ReclaimFails, ClaimFails, EvictFails, ReadFails, ReleaseFails, WriteFails, Crash
<1> QED
  BY <1>1, <1>2, <1>3, <1>4, <1>5, <1>6 DEF Step

\* A step that keeps the files, the requests in flight and what h would post
\* keeps the copies.
LEMMA CopiesKept ==
    ASSUME NEW h \in Hooks, OthersQuiet(h), ev'[h] = ev[h],
           pc[h] # "drainPost", pc'[h] # "drainPost",
           Buffered' = Buffered, inflight' = inflight
    PROVE  Copies' = Copies
<1>1. ASSUME NEW e \in Events PROVE InMemory(e)' <=> InMemory(e)
  BY DEF InMemory, OthersQuiet
<1> QED
  BY <1>1 DEF Copies

\* A step of h that handles no event but x, on disk or in memory, keeps the others.
LEMMA OnlyOne ==
    ASSUME NEW x \in Events, NEW h \in Hooks, OthersQuiet(h),
           ev[h] \in {x, NoEvent}, ev'[h] \in {x, NoEvent},
           pc[h] = "drainPost" => cur[h] = x,
           pc'[h] = "drainPost" => cur'[h] = x,
           Buffered' \ {x} = Buffered \ {x},
           inflight' \ {x} = inflight \ {x},
           delivered' \ {x} = delivered \ {x},
           built' = built
    PROVE  OthersKept(x)
<1> SUFFICES ASSUME NEW e \in Events \ {x}
             PROVE  /\ e \in delivered' <=> e \in delivered
                    /\ e > built' <=> e > built
                    /\ e \in Copies' <=> e \in Copies
  BY DEF OthersKept
<1>1. e # NoEvent
  BY DEF Events, NoEvent
<1>2. InMemory(e)' <=> InMemory(e)
  BY <1>1 DEF InMemory, OthersQuiet
<1>3. e \in Copies' <=> e \in Copies
  BY <1>2 DEF Copies
<1> QED
  BY <1>3

\* Moving a file between the places a glob or an owner can find keeps the buffer.
LEMMA MoveKeepsBuffered ==
    ASSUME TypeOK, NEW e \in Events, dir[e] \in {JsonFile} \cup Hooks,
           NEW p \in {JsonFile} \cup Hooks, dir' = [dir EXCEPT ![e] = p]
    PROVE  Buffered' = Buffered
  BY DEF TypeOK, Buffered, JsonFiles, Claimed

\* Fresh, for one event that was parsed.
LEMMA Parsed ==
    ASSUME Fresh, NEW x \in Events,
           x \in delivered \cup inflight \cup Buffered \/ \E h \in Hooks : x \in {ev[h], cur[h]}
    PROVE  ~(x > built)
  BY HookAssumption DEF Fresh, Buffered, JsonFiles, Claimed, NotAFile, JsonFile

-----------------------------------------------------------------------------
(* The steps *)

\* A step of the hooks is a step of Custody, or none.
LEMMA CustodyStep == IInv /\ IInv' /\ [Next]_vars => [Abstract!Next]_(Abstract!vars)
<1> SUFFICES ASSUME IInv, IInv', [Next]_vars PROVE [Abstract!Next]_(Abstract!vars)
  OBVIOUS
<1>a. TypeOK /\ Fresh /\ Accounted /\ RemovesDelivered /\ Accounted' /\ TypeOK'
  BY DEF IInv
<1>b. \A h \in Hooks : /\ pc[h] \in OwnPcs <=> ev[h] # NoEvent
                       /\ pc[h] \in DrainPcs <=> cur[h] # NoEvent
  BY <1>a DEF TypeOK
<1>c. \A h \in Hooks : ev[h] \in Events \cup {NoEvent} /\ cur[h] \in Events \cup {NoEvent}
  BY <1>a DEF TypeOK
<1>d. pc \in [Hooks -> Pcs] /\ built' \in Nat
  BY <1>a DEF TypeOK
<1> USE DEF OwnPcs, DrainPcs, files, server
<1>1. ASSUME NEW h \in Hooks,
             \/ Start(h) \/ GlobBuffer(h) \/ Buffer(h) \/ ReadFails(h) \/ ReleaseFails(h)
             \/ ReclaimFails(h) \/ ClaimFails(h) \/ EvictFails(h)
      PROVE  [Abstract!Next]_(Abstract!vars)
  <2>1. OthersQuiet(h)
    BY <1>a, <1>1, Isolation DEF Step
  <2>2. /\ UNCHANGED <<ev, dir, inflight, built, delivered, forgone>>
        /\ pc[h] # "drainPost" /\ pc'[h] # "drainPost"
    BY <1>1, <1>d DEF Start, GlobBuffer, Buffer, ReadFails, ReleaseFails,
            ReclaimFails, ClaimFails, EvictFails
  <2>3. Buffered' = Buffered
    BY <2>2 DEF Buffered, JsonFiles, Claimed
  <2>4. Copies' = Copies
    BY <2>1, <2>2, <2>3, CopiesKept
  <2> QED
    BY <2>2, <2>4, Stutter
<1>2. ASSUME NEW h \in Hooks, Reclaim(h) \/ Claim(h) \/ PutBack(h)
      PROVE  [Abstract!Next]_(Abstract!vars)
  <2>1. OthersQuiet(h)
    BY <1>a, <1>2, Isolation DEF Step
  <2>2. /\ UNCHANGED <<ev, inflight, built, delivered, forgone>>
        /\ pc[h] # "drainPost" /\ pc'[h] # "drainPost"
    BY <1>2, <1>d DEF Reclaim, Claim, PutBack
  <2>3. Buffered' = Buffered
    <3>1. \/ dir' = dir
          \/ \E e \in Events, p \in {JsonFile} \cup Hooks :
                dir[e] \in {JsonFile} \cup Hooks /\ dir' = [dir EXCEPT ![e] = p]
      <4>1. CASE Reclaim(h)
        <5>1. PICK f \in stale[h] :
                dir' = IF dir[f[1]] = f[2] THEN [dir EXCEPT ![f[1]] = JsonFile] ELSE dir
          BY <4>1 DEF Reclaim
        <5>2. f[1] \in Events /\ f[2] \in Hooks
          BY <1>a DEF TypeOK
        <5>3. CASE dir[f[1]] = f[2]
          BY <5>1, <5>2, <5>3
        <5> QED
          BY <5>1, <5>3
      <4>2. CASE Claim(h)
        BY <1>a, <4>2 DEF Claim, TypeOK
      <4>3. CASE PutBack(h)
        BY <1>b, <1>c, <4>3 DEF PutBack, MoveClaim
      <4> QED
        BY <1>2, <4>1, <4>2, <4>3
    <3>2. CASE dir' = dir
      BY <3>2 DEF Buffered, JsonFiles, Claimed
    <3> QED
      BY <1>a, <3>1, <3>2, MoveKeepsBuffered
  <2>4. Copies' = Copies
    BY <2>1, <2>2, <2>3, CopiesKept
  <2> QED
    BY <2>2, <2>4, Stutter
<1>3. ASSUME NEW h \in Hooks, Load(h) PROVE [Abstract!Next]_(Abstract!vars)
  <2>1. OthersQuiet(h)
    BY <1>a, <1>3, Isolation DEF Step
  <2>2. UNCHANGED <<ev, cur, dir, inflight, built, delivered, forgone>> /\ pc[h] = "load"
    BY <1>3 DEF Load
  <2>3. Buffered' = Buffered
    BY <2>2 DEF Buffered, JsonFiles, Claimed
  <2>4. CASE dir[cur[h]] # h
    <3>1. pc'[h] # "drainPost"
      BY <1>3, <1>d, <2>4 DEF Load
    <3>2. Copies' = Copies
      BY <2>1, <2>2, <2>3, <3>1, CopiesKept
    <3> QED
      BY <2>2, <3>2, Stutter
  <2>5. CASE dir[cur[h]] = h
    <3>1. cur[h] \in Events /\ ev[h] = NoEvent
      BY <1>b, <1>c, <2>2
    <3>2. cur[h] \in Buffered
      BY <2>5, <3>1 DEF Buffered, Claimed
    <3>3. OthersKept(cur[h])
      BY <2>1, <2>2, <2>3, <3>1, OnlyOne
    <3>4. Copies' = Copies
      BY <2>2, <2>3, <3>1, <3>2, <3>3 DEF OthersKept, Copies
    <3> QED
      BY <2>2, <3>4, Stutter
  <2> QED
    BY <2>4, <2>5
<1>4. ASSUME NEW h \in Hooks, Remove(h) PROVE [Abstract!Next]_(Abstract!vars)
  <2>1. OthersQuiet(h)
    BY <1>a, <1>4, Isolation DEF Step
  <2>2. UNCHANGED <<ev, inflight, built, delivered, forgone>> /\ pc[h] = "remove"
    BY <1>4 DEF Remove
  <2>3. cur[h] \in Events /\ ev[h] = NoEvent /\ cur[h] \in delivered
    BY <1>a, <1>b, <1>c, <2>2 DEF RemovesDelivered
  <2>4. Buffered' \ {cur[h]} = Buffered \ {cur[h]}
    BY <1>a, <1>4, <2>3 DEF Remove, MoveClaim, Buffered, JsonFiles, Claimed, TypeOK
  <2>5. pc'[h] # "drainPost"
    BY <1>4, <1>d DEF Remove
  <2>6. OthersKept(cur[h])
    BY <2>1, <2>2, <2>3, <2>4, <2>5, OnlyOne
  <2>7. CustodyState'[cur[h]] = CustodyState[cur[h]]
    BY <2>2, <2>3, StateOf, StateOfNext
  <2> QED
    BY <2>2, <2>3, <2>6, <2>7, OneMoves DEF Abstract!vars
<1>5. ASSUME NEW h \in Hooks, ReadInput(h) PROVE [Abstract!Next]_(Abstract!vars)
  <2>1. OthersQuiet(h)
    BY <1>a, <1>5, Isolation DEF Step
  <2>2. UNCHANGED <<cur, dir, inflight, delivered, forgone>> /\ pc[h] = "claim"
    BY <1>5 DEF ReadInput
  <2>3. Buffered' = Buffered
    BY <2>2 DEF Buffered, JsonFiles, Claimed
  <2>4. pc'[h] # "drainPost" /\ ev[h] = NoEvent
    BY <1>5, <1>b, <1>d, <2>2 DEF ReadInput
  <2>5. CASE UNCHANGED <<ev, built>>
    <3>1. Copies' = Copies
      BY <2>1, <2>2, <2>3, <2>4, <2>5, CopiesKept
    <3> QED
      BY <2>2, <2>5, <3>1, Stutter
  <2>6. CASE /\ built < MaxEvents
             /\ built' = built + 1
             /\ ev' = [ev EXCEPT ![h] = built + 1]
    <3> DEFINE x == built + 1
    <3>1. x \in Events /\ x > built /\ ~(x > built') /\ x # NoEvent
      BY <1>a, <2>6 DEF Events, TypeOK, NoEvent
    <3>2. ev'[h] = x
      BY <1>a, <2>6 DEF TypeOK
    <3>3. x \notin delivered
      BY <1>a, <3>1 DEF Fresh
    <3>4. x \in Copies'
      BY <3>1, <3>2 DEF Copies, InMemory
    <3>5. \A e \in Events \ {x} : e > built' <=> e > built
      BY <1>a, <2>6 DEF Events, TypeOK
    <3>6. \A e \in Events \ {x} : InMemory(e)' <=> InMemory(e)
      BY <2>1, <2>2, <2>4, <3>2 DEF InMemory, OthersQuiet, Events, NoEvent
    <3>7. OthersKept(x)
      BY <2>2, <2>3, <3>5, <3>6 DEF OthersKept, Copies
    <3> HIDE DEF x
    <3> QED
      BY <2>2, <3>1, <3>3, <3>4, <3>7, Takes
  <2> QED
    BY <1>5, <2>5, <2>6 DEF ReadInput
<1>6. ASSUME NEW h \in Hooks, Attempt(h) PROVE [Abstract!Next]_(Abstract!vars)
  <2>0. PICK x \in Events : x = Posting(h)
    BY <1>6, <1>b, <1>c DEF Attempt, PostPcs, Posting
  <2>1. OthersQuiet(h)
    BY <1>a, <1>6, Isolation DEF Step
  <2>2. /\ UNCHANGED <<cur, dir, built, forgone>>
        /\ pc[h] \in {"drainPost", "post"}
    BY <1>6 DEF Attempt, PostPcs
  <2>3. /\ pc[h] = "drainPost" => ev[h] = NoEvent /\ x = cur[h]
        /\ pc[h] = "post" => ev[h] = x
    BY <1>b, <2>0, <2>2 DEF Posting
  <2>4. PICK o \in Outcomes(x) :
            /\ delivered' = IF o = "ok" THEN delivered \cup {x} ELSE delivered
            /\ inflight' = IF o = "timeout" THEN inflight \cup {x} ELSE inflight
            /\ \/ UNCHANGED <<pc, ev>>
               \/ /\ pc' = [pc EXCEPT ![h] =
                              IF @ = "drainPost" THEN AfterDrain(o)
                              ELSE IF o = "ok" THEN "idle" ELSE "buffer"]
                  /\ ev' = [ev EXCEPT ![h] = IF o = "ok" THEN NoEvent ELSE @]
    BY <1>6, <2>0 DEF Attempt, Commit
  <2>5. x \in Copies /\ ~(x > built)
    <3>1. InMemory(x)
      BY <2>2, <2>3 DEF InMemory
    <3> QED
      BY <1>a, <2>2, <2>3, <3>1, Parsed DEF Copies
  <2>6. Buffered' = Buffered
    BY <2>2 DEF Buffered, JsonFiles, Claimed
  <2>7. ev[h] \in {x, NoEvent} /\ ev'[h] \in {x, NoEvent}
    BY <1>a, <2>2, <2>3, <2>4 DEF TypeOK
  <2>8. /\ pc[h] = "drainPost" => cur[h] = x
        /\ pc'[h] = "drainPost" => cur'[h] = x
    BY <1>d, <2>2, <2>3, <2>4 DEF AfterDrain
  <2>9. OthersKept(x)
    BY <2>1, <2>2, <2>3, <2>4, <2>6, <2>7, <2>8, OnlyOne
  <2>10. CASE o = "ok"
    <3> QED
      BY <2>2, <2>3, <2>4, <2>5, <2>9, <2>10, Stores
  <2>11. CASE o # "ok"
    <3>1. delivered' = delivered
      BY <2>4, <2>11
    <3>2. x \in delivered \cup forgone \cup Copies'
      <4>1. CASE x \in Copies' \/ x \in delivered
        BY <4>1
      <4>2. CASE x \notin Copies' /\ x \notin delivered'
        <5>1. x \notin Buffered' /\ ~InMemory(x)'
          BY <2>3, <4>2 DEF Copies
        <5>2. x \in 1 .. built'
          BY <1>d, <2>2, <2>3, <2>5 DEF Events
        <5>3. x \in forgone'
          BY <1>a, <4>2, <5>1, <5>2 DEF Accounted, InMemory
        <5> QED
          BY <2>2, <5>3
      <4> QED
        BY <3>1, <4>1, <4>2
    <3> QED
      BY <2>2, <2>3, <2>5, <2>9, <3>1, <3>2, Forgets
  <2> QED
    BY <2>10, <2>11
<1>7. ASSUME NEW h \in Hooks, Evict(h) PROVE [Abstract!Next]_(Abstract!vars)
  <2>1. PICK e \in victims[h] :
            IF dir[e] = JsonFile
            THEN dir' = [dir EXCEPT ![e] = NotAFile] /\ forgone' = forgone \cup {e}
            ELSE UNCHANGED <<dir, forgone>>
    BY <1>7 DEF Evict
  <2>2. /\ e \in Events
        /\ UNCHANGED <<pc, ev, cur, inflight, delivered, built>>
    BY <1>a, <1>7 DEF Evict, TypeOK
  <2>3. \A f \in Events : InMemory(f)' <=> InMemory(f)
    BY <2>2 DEF InMemory
  <2>4. CASE dir[e] = JsonFile
    <3>1. e \in Buffered
      BY <2>2, <2>4 DEF Buffered, JsonFiles
    <3>2. ~(e > built)
      BY <1>a, <2>2, <3>1, Parsed
    <3>3. \A f \in Events \ {e} : f \in Buffered' <=> f \in Buffered
      BY <1>a, <2>1, <2>2, <2>4 DEF Buffered, JsonFiles, Claimed, TypeOK
    <3>4. OthersKept(e)
      BY <2>2, <2>3, <3>3 DEF OthersKept, Copies
    <3> QED
      BY <2>1, <2>2, <2>4, <3>1, <3>2, <3>4, GivesUp DEF Copies
  <2>5. CASE dir[e] # JsonFile
    <3>1. Buffered' = Buffered
      BY <2>1, <2>5 DEF Buffered, JsonFiles, Claimed
    <3>2. Copies' = Copies
      BY <2>2, <2>3, <3>1 DEF Copies
    <3> QED
      BY <2>1, <2>2, <2>5, <3>2, Stutter
  <2> QED
    BY <2>4, <2>5
<1>8. ASSUME NEW h \in Hooks, WriteTmp(h) \/ Publish(h)
      PROVE  [Abstract!Next]_(Abstract!vars)
  <2>1. OthersQuiet(h)
    BY <1>a, <1>8, Isolation DEF Step
  <2>2. /\ UNCHANGED <<cur, inflight, built, delivered, forgone>>
        /\ pc[h] \in {"evict", "rename"} /\ pc'[h] # "drainPost"
    BY <1>8, <1>d DEF WriteTmp, Publish
  <2>3. PICK x \in Events : x = ev[h]
    BY <1>b, <1>c, <2>2
  <2>4. ev'[h] \in {x, NoEvent} /\ \A e \in Events \ {x} : dir'[e] = dir[e]
    BY <1>a, <1>8, <2>3 DEF WriteTmp, Publish, TypeOK
  <2>5. Buffered' \ {x} = Buffered \ {x}
    BY <2>4 DEF Buffered, JsonFiles, Claimed
  <2>6. OthersKept(x)
    BY <2>1, <2>2, <2>3, <2>4, <2>5, OnlyOne
  <2>7. x \in Copies
    BY <2>3 DEF Copies, InMemory
  <2>8. x \in Copies'
    <3>1. CASE WriteTmp(h)
      <4>1. InMemory(x)'
        BY <2>3, <3>1 DEF WriteTmp, InMemory
      <4> QED
        BY <2>3, <4>1 DEF Copies
    <3>2. CASE Publish(h)
      <4>1. dir'[x] = JsonFile
        BY <1>a, <2>3, <3>2 DEF Publish, TypeOK
      <4> QED
        BY <2>3, <4>1 DEF Copies, Buffered, JsonFiles
    <3> QED
      BY <1>8, <3>1, <3>2
  <2>9. Copies' = Copies
    BY <2>6, <2>7, <2>8 DEF OthersKept, Copies
  <2> QED
    BY <2>2, <2>9, Stutter
<1>9. ASSUME NEW h \in Hooks, WriteFails(h) PROVE [Abstract!Next]_(Abstract!vars)
  <2>1. OthersQuiet(h)
    BY <1>a, <1>9, Isolation
  <2>2. /\ UNCHANGED <<cur, dir, inflight, built, delivered>>
        /\ forgone' = forgone \cup {ev[h]}
        /\ pc[h] \in {"buffer", "evict", "rename"} /\ pc'[h] # "drainPost"
    BY <1>9, <1>d DEF WriteFails
  <2>3. ev[h] \in Events /\ ev'[h] = NoEvent
    BY <1>a, <1>9, <1>b, <1>c, <2>2 DEF WriteFails, TypeOK
  <2>4. Buffered' = Buffered
    BY <2>2 DEF Buffered, JsonFiles, Claimed
  <2>5. OthersKept(ev[h])
    BY <2>1, <2>2, <2>3, <2>4, OnlyOne
  <2>6. ev[h] \in Copies /\ ~(ev[h] > built)
    BY <1>a, <2>3, Parsed DEF Copies, InMemory
  <2> QED
    BY <2>2, <2>3, <2>5, <2>6, GivesUp
<1>10. ASSUME NEW h \in Hooks, Crash(h) PROVE [Abstract!Next]_(Abstract!vars)
  <2>1. OthersQuiet(h)
    BY <1>a, <1>10, Isolation
  <2>2. /\ UNCHANGED <<dir, inflight, built, delivered>>
        /\ pc'[h] = "idle" /\ ev'[h] = NoEvent /\ cur'[h] = NoEvent
        /\ forgone' = IF ev[h] = NoEvent THEN forgone ELSE forgone \cup {ev[h]}
    BY <1>a, <1>10 DEF Crash, TypeOK
  <2>3. Buffered' = Buffered
    BY <2>2 DEF Buffered, JsonFiles, Claimed
  <2>4. CASE ev[h] # NoEvent
    <3>1. ev[h] \in Events /\ pc[h] # "drainPost"
      BY <1>b, <1>c, <2>4
    <3>2. OthersKept(ev[h])
      BY <2>1, <2>2, <2>3, <3>1, OnlyOne
    <3>3. ev[h] \in Copies /\ ~(ev[h] > built)
      BY <1>a, <3>1, Parsed DEF Copies, InMemory
    <3> QED
      BY <2>2, <2>4, <3>1, <3>2, <3>3, GivesUp
  <2>5. CASE ev[h] = NoEvent /\ pc[h] = "drainPost"
    <3>1. PICK x \in Events : x = cur[h]
      BY <1>b, <1>c, <2>5
    <3>2. OthersKept(x)
      BY <2>1, <2>2, <2>3, <2>5, <3>1, OnlyOne
    <3>3. x \in Copies /\ ~(x > built)
      BY <1>a, <2>5, <3>1, Parsed DEF Copies, InMemory
    <3>4. x \in delivered \cup forgone \cup Copies'
      <4>1. CASE x \notin Copies' /\ x \notin delivered
        <5>1. x \notin Buffered' /\ ~InMemory(x)'
          BY <3>1, <4>1 DEF Copies
        <5>2. x \in 1 .. built'
          BY <1>d, <2>2, <3>1, <3>3 DEF Events
        <5>3. x \in forgone'
          BY <1>a, <2>2, <4>1, <5>1, <5>2 DEF Accounted, InMemory
        <5> QED
          BY <2>2, <2>5, <5>3
      <4> QED
        BY <4>1
    <3> QED
      BY <2>2, <2>5, <3>1, <3>2, <3>3, <3>4, Forgets
  <2>6. CASE ev[h] = NoEvent /\ pc[h] # "drainPost"
    <3>1. Copies' = Copies
      BY <2>1, <2>2, <2>3, <2>6, CopiesKept
    <3> QED
      BY <2>2, <2>6, <3>1, Stutter
  <2> QED
    BY <2>4, <2>5, <2>6
<1>11. ASSUME NEW e \in Events, LateCommit(e) PROVE [Abstract!Next]_(Abstract!vars)
  <2>1. /\ UNCHANGED <<pc, ev, cur, dir, built, forgone>>
        /\ inflight' = inflight \ {e} /\ delivered' = delivered \cup {e}
        /\ e \in inflight
    BY <1>11 DEF LateCommit, Commit, local
  <2>2. \A f \in Events : InMemory(f)' <=> InMemory(f)
    BY <2>1 DEF InMemory
  <2>3. Buffered' = Buffered
    BY <2>1 DEF Buffered, JsonFiles, Claimed
  <2>4. OthersKept(e)
    BY <2>1, <2>2, <2>3 DEF OthersKept, Copies
  <2>5. e \in Copies /\ ~(e > built)
    BY <1>a, <2>1, Parsed DEF Copies
  <2> QED
    BY <2>1, <2>4, <2>5, Stores
<1>12. CASE Flap \/ UNCHANGED vars
  <2>1. UNCHANGED <<pc, ev, cur, dir, inflight, built, delivered, forgone>>
    BY <1>12 DEF Flap, vars, local
  <2>2. Copies' = Copies
    BY <2>1 DEF Copies, InMemory, Buffered, JsonFiles, Claimed
  <2> QED
    BY <2>1, <2>2, Stutter
<1> QED
  BY <1>1, <1>2, <1>3, <1>4, <1>5, <1>6, <1>7, <1>8, <1>9, <1>10, <1>11, <1>12 DEF Next, Step

\* The hooks and the buffer implement Custody: drainBuffer, writeBuffer and
\* postWithRetry together never lose an event they did not give up, and never
\* forget a stored one.
THEOREM ImplementsCustody == Spec => KeepsCustody
<1>1. Init => Abstract!Init
  BY DEF Init, Abstract!Init, CustodyState, Events, NoEvent
<1>2. IInv /\ IInv' /\ [Next]_vars => [Abstract!Next]_(Abstract!vars)
  BY CustodyStep
<1> QED
  BY <1>1, <1>2, InvAlways, PTL DEF Spec, KeepsCustody, Abstract!Spec
=============================================================================
