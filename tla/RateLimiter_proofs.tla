------------------------ MODULE RateLimiter_proofs --------------------------
(* The limiter is an ideal token bucket, for every number of IPs and every    *)
(* rate, burst and pruning threshold that satisfy LimiterAssumption.          *)
EXTENDS RateLimiter, FiniteSetTheorems, TLAPS

\* The lazy refill of an idle bucket reaches the brim before pruning may take it.
LEMMA FullWhenIdle ==
    ASSUME NEW d \in Nat, d > PruneAfter
    PROVE  d * Rate >= Burst
<1>1. PruneAfter \in Nat /\ Rate \in Nat /\ Burst \in Nat /\ PruneAfter * Rate >= Burst
  BY LimiterAssumption
<1>2. PICK c \in Nat : d = PruneAfter + c
  <2>1. d - PruneAfter \in Nat /\ d = PruneAfter + (d - PruneAfter)
    BY <1>1
  <2> QED
    BY <2>1
<1>3. d * Rate = PruneAfter * Rate + c * Rate /\ c * Rate \in Nat /\ PruneAfter * Rate \in Nat
  BY <1>1, <1>2
<1> QED
  BY <1>1, <1>3

\* One tick adds Rate to the refill.
LEMMA OneMoreTick ==
    ASSUME NEW d \in Nat
    PROVE  d * Rate \in Nat /\ (d + 1) * Rate = d * Rate + Rate
  BY LimiterAssumption

\* A bucket's lazy refill is a level between empty and the brim.
LEMMA RefilledRange ==
    ASSUME NEW b \in Bucket, now \in Nat
    PROVE  Refilled(b) \in 0 .. Burst
<1>1. /\ b.tokens \in 0 .. Burst /\ now - b.updated \in Nat /\ Burst \in Nat
  BY LimiterAssumption DEF Bucket
<1>2. (now - b.updated) * Rate \in Nat
  BY <1>1, OneMoreTick
<1> QED
  BY <1>1, <1>2 DEF Refilled

\* So is what Allow finds for any IP.
LEMMA FoundRange ==
    ASSUME TypeOK, NEW k \in Keys
    PROVE  Found(k) \in 0 .. Burst
  BY RefilledRange, LimiterAssumption DEF TypeOK, Found

\* The map after Allow(k) left t credits in k's bucket: k has its bucket, and every
\* other bucket is the old one or was pruned when idle.
LEMMA MapAfter ==
    ASSUME TypeOK, NEW k \in Keys, NEW t \in 0 .. Burst,
           buckets' = Pruned(Touched(k, t))
    PROVE  /\ k \in DOMAIN buckets'
           /\ buckets'[k] = [tokens |-> t, updated |-> now, lastSeen |-> now]
           /\ DOMAIN buckets' \subseteq DOMAIN buckets \cup {k}
           /\ buckets' = [j \in DOMAIN buckets' |-> buckets'[j]]
           /\ \A j \in DOMAIN buckets' \ {k} : buckets'[j] = buckets[j]
           /\ \A j \in DOMAIN buckets \ {k} :
                j \notin DOMAIN buckets' => now - buckets[j].lastSeen > PruneAfter
<1> DEFINE bs == Touched(k, t)
<1>1. DOMAIN bs = DOMAIN buckets \cup {k}
  BY DEF Touched
<1>2. bs[k] = [tokens |-> t, updated |-> now, lastSeen |-> now]
  BY DEF Touched
<1>3. \A j \in DOMAIN buckets \ {k} : bs[j] = buckets[j]
  BY DEF Touched
<1>4. bs = [j \in DOMAIN bs |-> bs[j]]
  BY DEF Touched
<1>5. ~Idle(bs[k])
  BY <1>2, LimiterAssumption DEF Idle, TypeOK
<1> HIDE DEF bs
<1>6. buckets' = IF Cardinality(DOMAIN bs) < PruneAt
                 THEN bs
                 ELSE [j \in {i \in DOMAIN bs : ~Idle(bs[i])} |-> bs[j]]
  BY DEF Pruned, bs
<1>7. CASE Cardinality(DOMAIN bs) < PruneAt
  BY <1>1, <1>2, <1>3, <1>4, <1>6, <1>7
<1>8. CASE ~(Cardinality(DOMAIN bs) < PruneAt)
  <2>1. buckets' = [j \in {i \in DOMAIN bs : ~Idle(bs[i])} |-> bs[j]]
    BY <1>6, <1>8
  <2>2. DOMAIN buckets' = {i \in DOMAIN bs : ~Idle(bs[i])}
    BY <2>1
  <2>3. \A j \in DOMAIN buckets' : buckets'[j] = bs[j]
    BY <2>1, <2>2
  <2> QED
    BY <1>1, <1>2, <1>3, <1>5, <2>1, <2>2, <2>3 DEF Idle
<1> QED
  BY <1>7, <1>8

\* Allow changes what it finds for its own IP only: pruning an idle bucket and
\* making it again later gives the same credit as keeping it.
LEMMA FoundAfter ==
    ASSUME TypeOK, NEW k \in Keys, NEW t \in 0 .. Burst,
           buckets' = Pruned(Touched(k, t)), now' = now
    PROVE  \A j \in Keys : Found(j)' = IF j = k THEN t ELSE Found(j)
<1> SUFFICES ASSUME NEW j \in Keys PROVE Found(j)' = IF j = k THEN t ELSE Found(j)
  OBVIOUS
<1>0. now \in Nat /\ Burst \in Nat /\ Rate \in Nat
  BY LimiterAssumption DEF TypeOK
<1>1. CASE j = k
  <2>0. /\ k \in DOMAIN buckets'
        /\ buckets'[k] = [tokens |-> t, updated |-> now, lastSeen |-> now]
    BY MapAfter
  <2>1. k \in DOMAIN buckets' /\ buckets'[k].tokens = t /\ now' - buckets'[k].updated = 0
    BY <1>0, <2>0
  <2>2. 0 * Rate = 0 /\ t \in 0 .. Burst /\ t + 0 = t
    BY <1>0
  <2>3. Refilled(buckets[k])' = t
    BY <1>0, <2>1, <2>2 DEF Refilled
  <2> QED
    BY <1>1, <2>1, <2>3 DEF Found
<1>2. CASE j # k /\ j \in DOMAIN buckets'
  <2>1. j \in DOMAIN buckets /\ buckets'[j] = buckets[j]
    BY <1>2, MapAfter
  <2> QED
    BY <1>2, <2>1 DEF Found, Refilled
<1>3. CASE j # k /\ j \notin DOMAIN buckets' /\ j \in DOMAIN buckets
  <2>1. now - buckets[j].lastSeen > PruneAfter
    BY <1>3, MapAfter
  <2>2. buckets[j] \in Bucket /\ buckets[j].updated = buckets[j].lastSeen
    BY <1>3 DEF TypeOK
  <2>3. now - buckets[j].updated \in Nat /\ buckets[j].tokens \in Nat
    BY <1>0, <2>2 DEF Bucket
  <2>4. (now - buckets[j].updated) * Rate >= Burst
    BY <2>1, <2>2, <2>3, FullWhenIdle
  <2>5. (now - buckets[j].updated) * Rate \in Nat
    BY <2>3, OneMoreTick
  <2>6. Refilled(buckets[j]) = Burst
    <3> DEFINE r == (now - buckets[j].updated) * Rate
    <3>1. r \in Nat /\ r >= Burst
      BY <2>4, <2>5
    <3>2. Refilled(buckets[j]) =
              IF buckets[j].tokens + r > Burst THEN Burst ELSE buckets[j].tokens + r
      BY DEF Refilled
    <3> HIDE DEF r
    <3> QED
      BY <1>0, <2>3, <3>1, <3>2
  <2> QED
    BY <1>3, <2>6 DEF Found
<1>4. CASE j # k /\ j \notin DOMAIN buckets' /\ j \notin DOMAIN buckets
  BY <1>4 DEF Found
<1> QED
  BY <1>1, <1>2, <1>3, <1>4

\* A tick tops every level up by Rate, to the brim at most.
LEMMA FoundAfterTick ==
    ASSUME TypeOK, Tick
    PROVE  \A k \in Keys :
              Found(k)' = IF Found(k) + Rate > Burst THEN Burst ELSE Found(k) + Rate
<1> SUFFICES ASSUME NEW k \in Keys
             PROVE Found(k)' = IF Found(k) + Rate > Burst THEN Burst ELSE Found(k) + Rate
  OBVIOUS
<1>1. now \in Nat /\ now' = now + 1 /\ buckets' = buckets /\ Rate \in Nat /\ Burst \in Nat
  BY LimiterAssumption DEF TypeOK, Tick
<1>2. CASE k \notin DOMAIN buckets
  BY <1>1, <1>2 DEF Found
<1>3. CASE k \in DOMAIN buckets
  <2> DEFINE d == now - buckets[k].updated
             t == buckets[k].tokens
  <2>1. buckets[k] \in Bucket
    BY <1>3 DEF TypeOK
  <2>2. d \in Nat /\ t \in Nat /\ now + 1 - buckets[k].updated = d + 1
    BY <1>1, <2>1, LimiterAssumption DEF Bucket
  <2>3. d * Rate \in Nat /\ (d + 1) * Rate = d * Rate + Rate
    BY <2>2, OneMoreTick
  <2>4. Found(k) = IF t + d * Rate > Burst THEN Burst ELSE t + d * Rate
    BY <1>3 DEF Found, Refilled
  <2>5. Found(k)' = IF t + (d + 1) * Rate > Burst THEN Burst ELSE t + (d + 1) * Rate
    <3>1. now' - buckets'[k].updated = d + 1 /\ buckets'[k].tokens = t /\ k \in DOMAIN buckets'
      <4>1. buckets[k].updated \in Nat
        BY <2>1 DEF Bucket
      <4> QED
        BY <1>1, <1>3, <4>1
    <3> HIDE DEF d, t
    <3> QED
      BY <3>1 DEF Found, Refilled
  <2> HIDE DEF d, t
  <2> QED
    BY <1>1, <2>2, <2>3, <2>4, <2>5
<1> QED
  BY <1>2, <1>3

-----------------------------------------------------------------------------
(* The theorems *)

\* Every step keeps the map well-formed.
LEMMA TypeStep == TypeOK /\ [Next]_vars => TypeOK'
<1> SUFFICES ASSUME TypeOK, [Next]_vars PROVE TypeOK'
  OBVIOUS
<1>1. CASE Tick
  BY <1>1, LimiterAssumption DEF Tick, TypeOK, Bucket
<1>2. ASSUME NEW k \in Keys, NEW t \in 0 .. Burst, now' = now,
             buckets' = Pruned(Touched(k, t)), answer' \in Keys \X BOOLEAN,
             granted' \in [Keys -> Nat]
      PROVE  TypeOK'
  <2>1. /\ DOMAIN buckets' \subseteq Keys
        /\ buckets' = [j \in DOMAIN buckets' |-> buckets'[j]]
    BY <1>2, MapAfter DEF TypeOK
  <2>2. ASSUME NEW j \in DOMAIN buckets'
        PROVE  buckets'[j] \in Bucket' /\ buckets'[j].updated = buckets'[j].lastSeen
    <3>0. now \in Nat
      BY DEF TypeOK
    <3>1. CASE j = k
      <4>1. buckets'[j] = [tokens |-> t, updated |-> now, lastSeen |-> now]
        BY <1>2, <3>1, MapAfter
      <4> QED
        BY <1>2, <3>0, <4>1 DEF Bucket
    <3>2. CASE j # k
      <4>1. j \in DOMAIN buckets /\ buckets'[j] = buckets[j]
        BY <1>2, <2>2, <3>2, MapAfter
      <4> QED
        BY <1>2, <4>1 DEF TypeOK, Bucket
    <3> QED
      BY <3>1, <3>2
  <2> QED
    BY <1>2, <2>1, <2>2 DEF TypeOK
<1>3. ASSUME NEW k \in Keys, Grant(k) PROVE TypeOK'
  <2>1. Found(k) - Cost \in 0 .. Burst
    BY <1>3, FoundRange, LimiterAssumption DEF Grant
  <2>2. granted' \in [Keys -> Nat]
    BY <1>3 DEF Grant, TypeOK
  <2>3. /\ now' = now /\ answer' \in Keys \X BOOLEAN
        /\ buckets' = Pruned(Touched(k, Found(k) - Cost))
    BY <1>3 DEF Grant
  <2> QED
    BY <1>2, <2>1, <2>2, <2>3
<1>4. ASSUME NEW k \in Keys, Deny(k) PROVE TypeOK'
  BY <1>2, <1>4, FoundRange DEF Deny, TypeOK
<1>5. CASE UNCHANGED vars
  BY <1>5 DEF vars, TypeOK, Bucket
<1> QED
  BY <1>1, <1>3, <1>4, <1>5 DEF Next

\* The map of Allow and maybePrune always holds well-formed buckets.
THEOREM TypeCorrect == Spec => []TypeOK
<1>1. Init => TypeOK
  BY LimiterAssumption DEF Init, TypeOK, NoAnswer
<1> QED
  BY <1>1, TypeStep, PTL DEF Spec

\* Allow never gives an IP more than Rate a tick, whatever is pruned in between.
THEOREM NoFreeTokensEver == Spec => NoFreeTokens
<1> DEFINE Fair == \A k \in Keys :
              Cost * granted'[k] + Found(k)' <=
                  Cost * granted[k] + Found(k) + Rate * (now' - now)
<1>0. Rate \in Nat /\ Burst \in Nat /\ Cost \in Nat
  BY LimiterAssumption
<1>1. TypeOK /\ [Next]_vars => [Fair]_vars
  <2> SUFFICES ASSUME TypeOK, Next, NEW k \in Keys
               PROVE  Cost * granted'[k] + Found(k)' <=
                        Cost * granted[k] + Found(k) + Rate * (now' - now)
    OBVIOUS
  <2>1. Found(k) \in Nat /\ granted[k] \in Nat /\ Cost * granted[k] \in Nat /\ now \in Nat
    BY <1>0, FoundRange DEF TypeOK
  <2>2. CASE Tick
    <3>1. Rate * (now' - now) = Rate /\ granted' = granted
      BY <1>0, <2>1, <2>2 DEF Tick
    <3> QED
      BY <1>0, <2>1, <2>2, <3>1, FoundAfterTick
  <2>3. ASSUME NEW j \in Keys, Grant(j) PROVE Cost * granted'[k] + Found(k)' <=
                        Cost * granted[k] + Found(k) + Rate * (now' - now)
    <3>1. Found(j) - Cost \in 0 .. Burst /\ now' = now
      BY <2>3, FoundRange, LimiterAssumption DEF Grant
    <3>2. Found(k)' = IF k = j THEN Found(j) - Cost ELSE Found(k)
      BY <2>3, <3>1, FoundAfter DEF Grant
    <3>3. granted'[k] = IF k = j THEN granted[k] + 1 ELSE granted[k]
      BY <2>3 DEF Grant, TypeOK
    <3>4. Cost * (granted[k] + 1) = Cost * granted[k] + Cost /\ Rate * (now' - now) = 0
      BY <1>0, <2>1, <3>1
    <3> QED
      BY <1>0, <2>1, <3>2, <3>3, <3>4
  <2>4. ASSUME NEW j \in Keys, Deny(j) PROVE Cost * granted'[k] + Found(k)' <=
                        Cost * granted[k] + Found(k) + Rate * (now' - now)
    <3>1. Found(j) \in 0 .. Burst /\ now' = now /\ granted' = granted
      BY <2>4, FoundRange DEF Deny
    <3>2. Found(k)' = IF k = j THEN Found(j) ELSE Found(k)
      BY <2>4, <3>1, FoundAfter DEF Deny
    <3>3. Rate * (now' - now) = 0
      BY <1>0, <2>1, <3>1
    <3> QED
      BY <2>1, <3>1, <3>2, <3>3
  <2> QED
    BY <2>2, <2>3, <2>4 DEF Next
<1> QED
  BY <1>1, TypeCorrect, PTL DEF Spec, NoFreeTokens

\* Every Allow adds at most one bucket, so the map is finite however many IPs there
\* are.
FiniteMap == IsFiniteSet(DOMAIN buckets)

\* The map stays finite.
LEMMA MapIsFinite == Spec => [](TypeOK /\ FiniteMap)
<1>1. Init => FiniteMap
  BY FS_EmptySet DEF Init, FiniteMap
<1>2. TypeOK /\ FiniteMap /\ [Next]_vars => FiniteMap'
  <2> SUFFICES ASSUME TypeOK, FiniteMap, [Next]_vars
               PROVE  FiniteMap'
    OBVIOUS
  <2>1. ASSUME NEW k \in Keys, NEW t \in 0 .. Burst, buckets' = Pruned(Touched(k, t))
        PROVE  FiniteMap'
    <3>1. IsFiniteSet(DOMAIN buckets \cup {k})
      BY FS_AddElement DEF FiniteMap
    <3>2. DOMAIN buckets' \subseteq DOMAIN buckets \cup {k}
      BY <2>1, MapAfter
    <3> QED
      BY <3>1, <3>2, FS_Subset DEF FiniteMap
  <2>2. CASE buckets' = buckets
    BY <2>2 DEF FiniteMap
  <2>3. ASSUME NEW k \in Keys, Grant(k) PROVE FiniteMap'
    <3>1. Found(k) - Cost \in 0 .. Burst
      BY <2>3, FoundRange, LimiterAssumption DEF Grant
    <3> QED
      BY <2>1, <2>3, <3>1 DEF Grant
  <2>4. ASSUME NEW k \in Keys, Deny(k) PROVE FiniteMap'
    BY <2>1, <2>4, FoundRange DEF Deny
  <2> QED
    BY <2>2, <2>3, <2>4 DEF Next, Tick, vars
<1> QED
  BY <1>1, <1>2, TypeCorrect, PTL DEF Spec

\* A map that an Allow leaves at its threshold or above was pruned by it.
LEMMA PrunedAtThreshold ==
    ASSUME TypeOK, IsFiniteSet(DOMAIN buckets), NEW k \in Keys, NEW t \in 0 .. Burst,
           buckets' = Pruned(Touched(k, t)), Cardinality(DOMAIN buckets') >= PruneAt
    PROVE  \A j \in DOMAIN buckets' : now - buckets'[j].lastSeen <= PruneAfter
<1> DEFINE bs == Touched(k, t)
<1>1. DOMAIN bs = DOMAIN buckets \cup {k}
  BY DEF Touched
<1>2. \A j \in DOMAIN bs : bs[j].lastSeen \in Int
  BY DEF Touched, TypeOK, Bucket
<1>3. IsFiniteSet(DOMAIN bs)
  BY <1>1, FS_AddElement
<1> HIDE DEF bs
<1>4. Cardinality(DOMAIN bs) \in Nat
  BY <1>3, FS_CardinalityType
<1>5. buckets' = IF Cardinality(DOMAIN bs) < PruneAt
                 THEN bs
                 ELSE [j \in {i \in DOMAIN bs : ~Idle(bs[i])} |-> bs[j]]
  BY DEF Pruned, bs
<1>6. ~(Cardinality(DOMAIN bs) < PruneAt)
  <2>1. SUFFICES ASSUME Cardinality(DOMAIN bs) < PruneAt PROVE FALSE
    OBVIOUS
  <2>2. buckets' = bs
    BY <1>5, <2>1
  <2> QED
    BY <1>4, <2>1, <2>2, LimiterAssumption
<1>7. buckets' = [j \in {i \in DOMAIN bs : ~Idle(bs[i])} |-> bs[j]]
  BY <1>5, <1>6
<1>8. \A j \in DOMAIN buckets' : j \in DOMAIN bs /\ ~Idle(bs[j]) /\ buckets'[j] = bs[j]
  BY <1>7
<1> QED
  BY <1>2, <1>8, LimiterAssumption DEF Idle, TypeOK

\* "Buckets are pruned lazily ... to bound memory": from the threshold on, the map
\* that a request leaves holds only the buckets of active IPs.
THEOREM MapStaysBounded == Spec => MapIsBounded
<1> DEFINE Bounded == answer' # NoAnswer /\ Cardinality(DOMAIN buckets') >= PruneAt =>
              \A k \in DOMAIN buckets' : now - buckets'[k].lastSeen <= PruneAfter
<1>1. TypeOK /\ FiniteMap /\ [Next]_vars => [Bounded]_vars
  <2> SUFFICES ASSUME TypeOK, IsFiniteSet(DOMAIN buckets), Next PROVE Bounded
    BY DEF FiniteMap
  <2>1. CASE Tick
    BY <2>1 DEF Tick
  <2>2. ASSUME NEW k \in Keys, Grant(k) PROVE Bounded
    <3>1. Found(k) - Cost \in 0 .. Burst
      BY <2>2, FoundRange, LimiterAssumption DEF Grant
    <3> QED
      BY <2>2, <3>1, PrunedAtThreshold DEF Grant
  <2>3. ASSUME NEW k \in Keys, Deny(k) PROVE Bounded
    BY <2>3, FoundRange, PrunedAtThreshold DEF Deny
  <2> QED
    BY <2>1, <2>2, <2>3 DEF Next
<1> QED
  BY <1>1, MapIsFinite, PTL DEF Spec, MapIsBounded

\* The limiter answers every request as an ideal token bucket would.
THEOREM ImplementsTokenBucket == Spec => IsTokenBucket
<1>1. Init => Ideal!Init
  BY DEF Init, Ideal!Init, Found, NoAnswer, Ideal!NoAnswer
<1>2. TypeOK /\ [Next]_vars => [Ideal!Next]_(Ideal!vars)
  <2> SUFFICES ASSUME TypeOK, [Next]_vars PROVE [Ideal!Next]_(Ideal!vars)
    OBVIOUS
  <2>1. CASE Tick
    <3>1. Ideal!Refill
      BY <2>1, FoundAfterTick DEF Ideal!Refill, Tick, NoAnswer, Ideal!NoAnswer
    <3> QED
      BY <3>1 DEF Ideal!Next
  <2>2. ASSUME NEW k \in Keys, Grant(k) PROVE Ideal!Next
    <3>1. Found(k) - Cost \in 0 .. Burst /\ Found(k) >= Cost
      BY <2>2, FoundRange, LimiterAssumption DEF Grant
    <3>2. \A j \in Keys : Found(j)' = IF j = k THEN Found(k) - Cost ELSE Found(j)
      BY <2>2, <3>1, FoundAfter DEF Grant
    <3>3. Ideal!Take(k)
      BY <2>2, <3>1, <3>2 DEF Grant, Ideal!Take
    <3> QED
      BY <3>3 DEF Ideal!Next
  <2>3. ASSUME NEW k \in Keys, Deny(k) PROVE Ideal!Next
    <3>1. Found(k) \in 0 .. Burst /\ Found(k) < Cost
      BY <2>3, FoundRange DEF Deny
    <3>2. \A j \in Keys : Found(j)' = Found(j)
      BY <2>3, <3>1, FoundAfter DEF Deny
    <3>3. Ideal!Refuse(k)
      BY <2>3, <3>1, <3>2 DEF Deny, Ideal!Refuse
    <3> QED
      BY <3>3 DEF Ideal!Next
  <2>4. CASE UNCHANGED vars
    BY <2>4 DEF vars, Ideal!vars, Found, Refilled
  <2> QED
    BY <2>1, <2>2, <2>3, <2>4 DEF Next
<1> QED
  BY <1>1, <1>2, TypeCorrect, PTL DEF Spec, IsTokenBucket, Ideal!Spec
=============================================================================
