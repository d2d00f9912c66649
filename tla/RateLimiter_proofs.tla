-------------------------- MODULE RateLimiter_proofs --------------------------
(***************************************************************************)
(* The limiter keeps its bounds for any number of keys, buckets, requests  *)
(* and permits, and for ever: nothing below uses MaxTime.                  *)
(***************************************************************************)
EXTENDS RateLimiter, FiniteSetTheorems, TLAPS

USE LimiterAssumption, NoBucketAssumption

\* A request brings a time that is past, and a bucket no more permits than max.
ReadingsArePast ==
    \A r \in Requests : req[r].pc = "waiting" => req[r].now <= clock

BucketsHoldMax ==
    \A k \in Keys : buckets[k] # NoBucket => buckets[k].count <= max

\* The map is the history for every key that was not evicted.
MapIsHistory == \A k \in Keys \ evicted : permits[k] = buckets[k]

Inv ==
    /\ TypeOK
    /\ ReadingsArePast
    /\ BucketsHoldMax
    /\ MapIsHistory
    /\ IsFiniteSet(Live(buckets))
    /\ BucketsAreBounded

-----------------------------------------------------------------------------
(* The map with room for a key. *)

LEMMA LocalsByCounter ==
    ASSUME NEW s \in RequestState
    PROVE  /\ s.pc = "waiting" => s.key \in Keys /\ s.now \in Nat
           /\ s.pc = "checking" => s.key \in Keys
  BY DEF RequestState, Idle

Only(S) == [k \in Keys |-> IF k \in S THEN buckets[k] ELSE NoBucket]

LEMMA LiveOnly ==
    ASSUME NEW S, S \subseteq Live(buckets)
    PROVE  Live(Only(S)) = S
  BY DEF Live, Only

\* Whatever evictOldest drops, the rest of the map is as it was, and there is
\* room for k.
LEMMA RoomIsMade ==
    ASSUME Inv, NEW k \in Keys, NEW now \in Nat, NEW map \in Roomy(k, now)
    PROVE  /\ \E S \in SUBSET Live(buckets) : map = Only(S)
           /\ IsFiniteSet(Live(map) \cup {k})
           /\ Cardinality(Live(map) \cup {k}) <= maxRateLimitBuckets
<1> DEFINE kept == {j \in Live(buckets) : ~Expired(buckets[j], now)}
<1>1. /\ IsFiniteSet(Live(buckets))
      /\ Cardinality(Live(buckets)) \in Nat
      /\ Cardinality(Live(buckets)) <= maxRateLimitBuckets
  BY FS_CardinalityType DEF Inv, BucketsAreBounded
<1>2. /\ IsFiniteSet(kept)
      /\ Cardinality(kept) \in Nat
      /\ Cardinality(kept) <= maxRateLimitBuckets
  <2>1. kept \in SUBSET Live(buckets)
    OBVIOUS
  <2>2. IsFiniteSet(kept) /\ Cardinality(kept) <= Cardinality(Live(buckets))
    BY <1>1, <2>1, FS_Subset
  <2>3. QED
    BY <1>1, <2>2, FS_CardinalityType
<1>3. CASE buckets[k] = NoBucket
           /\ Cardinality(Live(buckets)) >= maxRateLimitBuckets
  <2>1. map \in EvictOldest(now) /\ k \notin kept
    BY <1>3 DEF Roomy, Live
  <2>2. CASE Cardinality(kept) < maxRateLimitBuckets
    <3>1. map = Only(kept)
      BY <2>1, <2>2 DEF EvictOldest, Only
    <3>2. Live(map) = kept
      BY <3>1, LiveOnly
    <3>3. /\ IsFiniteSet(kept \cup {k})
          /\ Cardinality(kept \cup {k}) = Cardinality(kept) + 1
      BY <1>2, <2>1, FS_AddElement
    <3>4. Cardinality(kept \cup {k}) <= maxRateLimitBuckets
      BY <1>2, <2>2, <3>3
    <3>5. kept \in SUBSET Live(buckets)
      OBVIOUS
    <3>6. QED
      BY <3>1, <3>2, <3>3, <3>4, <3>5
  <2>3. CASE ~(Cardinality(kept) < maxRateLimitBuckets)
    <3>1. PICK o \in kept : map = Only(kept \ {o})
      BY <2>1, <2>3 DEF EvictOldest, Only
    <3>2. Live(map) = kept \ {o}
      BY <3>1, LiveOnly
    <3>3. /\ IsFiniteSet(kept \ {o})
          /\ Cardinality(kept \ {o}) = Cardinality(kept) - 1
      BY <1>2, FS_RemoveElement
    <3>4. /\ IsFiniteSet((kept \ {o}) \cup {k})
          /\ Cardinality((kept \ {o}) \cup {k}) = Cardinality(kept \ {o}) + 1
      BY <2>1, <3>3, FS_AddElement
    <3>5. Cardinality((kept \ {o}) \cup {k}) <= maxRateLimitBuckets
      BY <1>2, <3>3, <3>4
    <3>6. kept \ {o} \in SUBSET Live(buckets)
      OBVIOUS
    <3>7. QED
      BY <3>1, <3>2, <3>4, <3>5, <3>6
  <2>4. QED
    BY <2>2, <2>3
<1>4. CASE ~(buckets[k] = NoBucket
             /\ Cardinality(Live(buckets)) >= maxRateLimitBuckets)
  <2>1. map = buckets
    BY <1>4 DEF Roomy
  <2>2. buckets = Only(Live(buckets))
    BY DEF Inv, TypeOK, Only, Live
  <2>3. CASE buckets[k] # NoBucket
    <3>1. Live(buckets) \cup {k} = Live(buckets)
      BY <2>3 DEF Live
    <3>2. QED
      BY <1>1, <2>1, <2>2, <3>1
  <2>4. CASE buckets[k] = NoBucket
    <3>1. k \notin Live(buckets) /\ Cardinality(Live(buckets)) < maxRateLimitBuckets
      BY <1>1, <1>4, <2>4 DEF Live
    <3>2. /\ IsFiniteSet(Live(buckets) \cup {k})
          /\ Cardinality(Live(buckets) \cup {k}) = Cardinality(Live(buckets)) + 1
      BY <1>1, <3>1, FS_AddElement
    <3>3. Cardinality(Live(buckets) \cup {k}) <= maxRateLimitBuckets
      BY <1>1, <3>1, <3>2
    <3>4. QED
      BY <2>1, <2>2, <3>2, <3>3
  <2>5. QED
    BY <2>3, <2>4
<1>5. QED
  BY <1>3, <1>4

-----------------------------------------------------------------------------
(* The invariant. *)

LEMMA InitInv == Init => Inv
<1> SUFFICES ASSUME Init PROVE Inv
  OBVIOUS
<1>1. Live(buckets) = {}
  BY DEF Init, Live
<1>2. IsFiniteSet(Live(buckets)) /\ BucketsAreBounded
  BY <1>1, FS_EmptySet DEF BucketsAreBounded
<1>3. QED
  BY <1>2 DEF Init, Inv, TypeOK, RequestState, Idle, ReadingsArePast,
              BucketsHoldMax, MapIsHistory

\* A permit is recorded in the bucket it was granted from.
LEMMA RecordedHoldsMax ==
    ASSUME Inv, NEW k \in Keys, NEW now \in Nat, Permitted(k, now),
           NEW map \in [Keys -> Bucket \cup {NoBucket}],
           map[k] \in {buckets[k], NoBucket}
    PROVE  /\ Recorded(map, k, now) \in Bucket
           /\ Recorded(map, k, now).count <= max
<1>1. CASE StartsWindow(map, k, now)
  BY <1>1 DEF Recorded, Bucket
<1>2. CASE ~StartsWindow(map, k, now)
  <2>1. map[k] = buckets[k] /\ buckets[k] \in Bucket /\ map[k] \in Bucket
    BY <1>2 DEF StartsWindow
  <2>2. buckets[k].count < max
    BY <1>2, <2>1 DEF Permitted, StartsWindow
  <2>3. Recorded(map, k, now) = [map[k] EXCEPT !.count = @ + 1]
    BY <1>2 DEF Recorded
  <2>4. QED
    BY <2>1, <2>2, <2>3 DEF Bucket
<1>3. QED
  BY <1>1, <1>2

LEMMA AllowKeepsInv ==
    ASSUME Inv, NEW r \in Requests, Allow(r)
    PROVE  Inv'
<1> DEFINE k == req[r].key
           now == req[r].now
<1>1. k \in Keys /\ now \in Nat
  BY LocalsByCounter DEF Allow, Inv, TypeOK
<1>2. CASE ~Permitted(k, now)
  <2>1. req' = [req EXCEPT ![r] = Idle] /\ UNCHANGED <<buckets, permits, evicted, clock>>
    BY <1>2 DEF Allow, Goto
  <2>2. TypeOK' /\ ReadingsArePast'
    BY <2>1 DEF Inv, TypeOK, RequestState, Idle, ReadingsArePast
  <2>3. QED
    BY <2>1, <2>2 DEF Inv, BucketsHoldMax, MapIsHistory, BucketsAreBounded, Live
<1>3. CASE Permitted(k, now)
  <2>1. PICK map \in Roomy(k, now) :
             /\ buckets' = [map EXCEPT ![k] = Recorded(map, k, now)]
             /\ evicted' = (evicted \cup (Live(buckets) \ Live(map)))
                           \ {j \in {k} : Agree(map, k, now)}
    BY <1>3 DEF Allow
  <2>2. /\ permits' = [permits EXCEPT ![k] = Counted(Recorded(permits, k, now))]
        /\ req' = [req EXCEPT ![r] = [pc |-> "checking", key |-> k]]
        /\ clock' = clock
    BY <1>3 DEF Allow, Goto
  <2>3. PICK S \in SUBSET Live(buckets) : map = Only(S)
    BY <1>1, RoomIsMade
  <2>4. /\ map \in [Keys -> Bucket \cup {NoBucket}]
        /\ \A j \in Keys : map[j] \in {buckets[j], NoBucket}
    BY <2>3 DEF Only, Inv, TypeOK
  <2>5. /\ Recorded(map, k, now) \in Bucket
        /\ Recorded(map, k, now).count <= max
    BY <1>1, <1>3, <2>4, RecordedHoldsMax
  <2>6. Counted(Recorded(permits, k, now)) \in Bucket
    <3>1. permits[k] \in Bucket \cup {NoBucket}
      BY <1>1 DEF Inv, TypeOK
    <3>2. Recorded(permits, k, now) \in Bucket
      BY <1>1, <3>1 DEF Recorded, StartsWindow, Bucket
    <3>3. QED
      BY <3>2 DEF Counted, Bucket
  <2>7. TypeOK'
    BY <1>1, <2>1, <2>2, <2>4, <2>5, <2>6 DEF Inv, TypeOK, RequestState, Live
  <2>8. ReadingsArePast'
    BY <2>2 DEF Inv, TypeOK, ReadingsArePast
  <2>9. BucketsHoldMax'
    BY <1>1, <2>1, <2>4, <2>5 DEF Inv, BucketsHoldMax
  <2>10. ASSUME NEW j \in Keys \ evicted' PROVE permits'[j] = buckets'[j]
    <3>1. CASE j # k
      <4>1. j \notin evicted /\ j \notin Live(buckets) \ Live(map)
        BY <2>1, <2>10, <3>1
      <4>2. map[j] = buckets[j]
        BY <2>4, <2>10, <4>1 DEF Live
      <4>3. buckets'[j] = map[j] /\ permits'[j] = permits[j]
        BY <2>1, <2>2, <2>4, <2>10, <3>1 DEF Inv, TypeOK
      <4>4. QED
        BY <2>10, <4>1, <4>2, <4>3 DEF Inv, MapIsHistory
    <3>2. CASE j = k
      <4>1. Agree(map, k, now)
        <5>1. SUFFICES ASSUME ~Agree(map, k, now) PROVE FALSE
          OBVIOUS
        <5>2. k \notin evicted /\ k \notin Live(buckets) \ Live(map)
          BY <2>1, <2>10, <3>2, <5>1
        <5>3. map[k] = buckets[k] /\ permits[k] = buckets[k]
          BY <1>1, <2>4, <5>2 DEF Live, Inv, MapIsHistory
        <5>4. QED
          BY <5>1, <5>3 DEF Agree, Recorded, StartsWindow
      <4>2. Counted(Recorded(map, k, now)) = Recorded(map, k, now)
        BY <2>5 DEF Counted, Bucket
      <4>3. buckets'[k] = Recorded(map, k, now)
            /\ permits'[k] = Counted(Recorded(permits, k, now))
        BY <1>1, <2>1, <2>2, <2>4 DEF Inv, TypeOK
      <4>4. QED
        BY <3>2, <4>1, <4>2, <4>3 DEF Agree
    <3>3. QED
      BY <3>1, <3>2
  <2>11. IsFiniteSet(Live(buckets')) /\ BucketsAreBounded'
    <3>1. Live(buckets') = Live(map) \cup {k}
      BY <1>1, <2>1, <2>4, <2>5 DEF Live
    <3>2. QED
      BY <1>1, <3>1, RoomIsMade DEF BucketsAreBounded
  <2>12. QED
    BY <2>7, <2>8, <2>9, <2>10, <2>11 DEF Inv, MapIsHistory
<1>4. QED
  BY <1>2, <1>3

LEMMA ResetKeepsInv ==
    ASSUME Inv, NEW r \in Requests, Reset(r)
    PROVE  Inv'
<1> DEFINE k == req[r].key
<1>1. k \in Keys
  BY LocalsByCounter DEF Reset, Inv, TypeOK
<1>2. Live(buckets') = Live(buckets) \ {k}
  BY <1>1 DEF Reset, Live, Inv, TypeOK
<1>3. IsFiniteSet(Live(buckets')) /\ BucketsAreBounded'
  <2>1. /\ IsFiniteSet(Live(buckets) \ {k})
        /\ Cardinality(Live(buckets) \ {k}) <= Cardinality(Live(buckets))
    BY FS_Subset DEF Inv
  <2>2. /\ Cardinality(Live(buckets)) \in Nat
        /\ Cardinality(Live(buckets) \ {k}) \in Nat
    BY <2>1, FS_CardinalityType DEF Inv
  <2>3. QED
    BY <1>2, <2>1, <2>2 DEF Inv, BucketsAreBounded
<1>4. TypeOK' /\ ReadingsArePast'
  BY <1>1 DEF Reset, Goto, Inv, TypeOK, RequestState, Idle, ReadingsArePast
<1>5. BucketsHoldMax' /\ MapIsHistory'
  BY <1>1 DEF Reset, Inv, TypeOK, BucketsHoldMax, MapIsHistory
<1>6. QED
  BY <1>3, <1>4, <1>5 DEF Inv

LEMMA NextKeepsInv == Inv /\ [Next]_vars => Inv'
<1> SUFFICES ASSUME Inv, [Next]_vars PROVE Inv'
  OBVIOUS
<1>1. ASSUME UNCHANGED <<buckets, permits, evicted>>, TypeOK', ReadingsArePast'
      PROVE  Inv'
  BY <1>1 DEF Inv, BucketsHoldMax, MapIsHistory, BucketsAreBounded, Live
<1>2. ASSUME NEW r \in Requests, NEW k \in Keys, ReadClock(r, k)
      PROVE  Inv'
  <2>1. TypeOK' /\ ReadingsArePast'
    BY <1>2 DEF ReadClock, Goto, Inv, TypeOK, RequestState, Idle, ReadingsArePast
  <2>2. QED
    BY <1>1, <1>2, <2>1 DEF ReadClock
<1>3. ASSUME NEW r \in Requests, AttemptFails(r)
      PROVE  Inv'
  <2>1. TypeOK' /\ ReadingsArePast'
    BY <1>3 DEF AttemptFails, Goto, Inv, TypeOK, RequestState, Idle, ReadingsArePast
  <2>2. QED
    BY <1>1, <1>3, <2>1 DEF AttemptFails
<1>4. CASE Tick
  <2>1. ReadingsArePast'
    <3>1. \A r \in Requests : req[r].pc = "waiting" => req[r].now \in Nat
      BY LocalsByCounter DEF Inv, TypeOK
    <3>2. QED
      BY <1>4, <3>1 DEF Tick, Inv, TypeOK, ReadingsArePast
  <2>2. TypeOK'
    BY <1>4 DEF Tick, Inv, TypeOK
  <2>3. QED
    BY <1>1, <1>4, <2>1, <2>2 DEF Tick
<1>5. CASE UNCHANGED vars
  BY <1>5 DEF vars, Inv, TypeOK, ReadingsArePast, BucketsHoldMax, MapIsHistory,
              BucketsAreBounded, Live
<1>6. QED
  BY <1>2, <1>3, <1>4, <1>5, AllowKeepsInv, ResetKeepsInv DEF Next

THEOREM LimiterInvariant == Spec => []Inv
  BY InitInv, NextKeepsInv, PTL DEF Spec

-----------------------------------------------------------------------------
(* What it gives. *)

\* Buckets and requests always have their fields, whatever the delays between
\* reading the clock and taking the mutex.
THEOREM LimiterTypeCorrect == Spec => []TypeOK
<1>1. Inv => TypeOK
  BY DEF Inv
<1>2. QED
  BY <1>1, LimiterInvariant, PTL

\* The map never outgrows maxRateLimitBuckets: every eviction makes room for
\* the one bucket Allow adds, also when it judges by an old reading.
THEOREM MapStaysBounded == Spec => []BucketsAreBounded
<1>1. Inv => BucketsAreBounded
  BY DEF Inv
<1>2. QED
  BY <1>1, LimiterInvariant, PTL

\* A key that was not evicted gets at most max permits in a window.
THEOREM AtMostMaxPermits == Spec => []PermitsMaxPerWindow
<1>1. Inv => PermitsMaxPerWindow
  <2> SUFFICES ASSUME Inv, NEW k \in Keys, permits[k] # NoBucket,
                      permits[k].count > max, k \notin evicted
               PROVE  FALSE
    BY DEF PermitsMaxPerWindow
  <2>1. permits[k] = buckets[k] /\ buckets[k] \in Bucket
    BY DEF Inv, TypeOK, MapIsHistory
  <2>2. QED
    BY <2>1 DEF Inv, BucketsHoldMax, Bucket
<1>2. QED
  BY <1>1, LimiterInvariant, PTL

LEMMA LockedOutKeysStay ==
    ASSUME Inv, [Next]_vars, NEW k \in Keys, LockedOut(k),
           buckets'[k] # buckets[k]
    PROVE  \/ \E r \in Requests : req[r] = [pc |-> "checking", key |-> k]
                                  /\ req'[r] = Idle
           \/ /\ Cardinality(Live(buckets)) = maxRateLimitBuckets
              /\ \A j \in Live(buckets) :
                    /\ ~Expired(buckets[j], clock)
                    /\ buckets[k].started <= buckets[j].started
<1> USE DEF Inv, TypeOK
<1>1. /\ buckets[k] \in Bucket
      /\ k \in Live(buckets)
      /\ \A j \in Live(buckets) : buckets[j] \in Bucket
  BY DEF LockedOut, Live
<1>2. ASSUME NEW r \in Requests, Reset(r)
      PROVE  req[r] = [pc |-> "checking", key |-> k] /\ req'[r] = Idle
  <2>1. req[r].key = k
    BY <1>2 DEF Reset
  <2>2. req[r] = [pc |-> "checking", key |-> k]
    BY <1>2, <2>1 DEF Reset, RequestState, Idle
  <2>3. QED
    BY <1>2, <2>2 DEF Reset, Goto
<1>3. ASSUME NEW r \in Requests, Allow(r)
      PROVE  /\ Cardinality(Live(buckets)) = maxRateLimitBuckets
             /\ \A j \in Live(buckets) :
                   /\ ~Expired(buckets[j], clock)
                   /\ buckets[k].started <= buckets[j].started
  <2> DEFINE h == req[r].key
             now == req[r].now
             kept == {j \in Live(buckets) : ~Expired(buckets[j], now)}
  <2>1. h \in Keys /\ now \in Nat /\ now <= clock
    BY <1>3, LocalsByCounter DEF Allow, ReadingsArePast
  <2>2. ~Expired(buckets[k], now)
    BY <1>1, <2>1 DEF LockedOut, Expired, Bucket
  <2>3. PICK map \in Roomy(h, now) :
             /\ Permitted(h, now)
             /\ buckets' = [map EXCEPT ![h] = Recorded(map, h, now)]
    BY <1>3 DEF Allow
  <2>4. h # k
    BY <1>1, <2>2, <2>3 DEF Permitted, StartsWindow, LockedOut, Bucket
  <2>5. buckets'[k] = map[k]
    <3>1. \E S \in SUBSET Live(buckets) : map = Only(S)
      BY <2>1, RoomIsMade
    <3>2. QED
      BY <2>3, <2>4, <3>1 DEF Only
  <2>6. map \in EvictOldest(now) /\ k \in kept
    BY <1>1, <2>2, <2>3, <2>5 DEF Roomy
  <2>7. ~(Cardinality(kept) < maxRateLimitBuckets)
    <3>1. SUFFICES ASSUME Cardinality(kept) < maxRateLimitBuckets PROVE FALSE
      OBVIOUS
    <3>2. map = Only(kept)
      BY <2>6, <3>1 DEF EvictOldest, Only
    <3>3. QED
      BY <2>5, <2>6, <3>2 DEF Only
  <2>8. PICK o \in {j \in kept :
                     \A i \in kept : buckets[j].started <= buckets[i].started} :
             map = Only(kept \ {o})
    BY <2>6, <2>7 DEF EvictOldest, Only
  <2>9. o = k
    BY <2>5, <2>6, <2>8 DEF Only
  <2>10. kept = Live(buckets) /\ Cardinality(Live(buckets)) = maxRateLimitBuckets
    <3>1. /\ IsFiniteSet(kept)
          /\ Cardinality(kept) <= Cardinality(Live(buckets))
          /\ Cardinality(Live(buckets)) = Cardinality(kept) => Live(buckets) = kept
      BY FS_Subset, kept \in SUBSET Live(buckets)
    <3>2. Cardinality(kept) \in Nat /\ Cardinality(Live(buckets)) \in Nat
      BY <3>1, FS_CardinalityType
    <3>3. QED
      BY <2>7, <3>1, <3>2 DEF BucketsAreBounded
  <2>11. ASSUME NEW j \in Live(buckets)
         PROVE  /\ buckets[k].started <= buckets[j].started
                /\ ~Expired(buckets[j], clock)
    <3>1. buckets[k].started <= buckets[j].started
      BY <2>8, <2>9, <2>10
    <3>2. QED
      BY <1>1, <2>11, <3>1 DEF LockedOut, Expired, Bucket
  <2>12. QED
    BY <2>10, <2>11
<1>4. QED
  BY <1>2, <1>3 DEF Next, vars, ReadClock, AttemptFails, Tick

\* Who is locked out stays so until the window is over, but for a success of
\* the same key or a map full of younger windows.
THEOREM LockoutAlwaysLasts == Spec => LockoutLasts
<1>1. Inv /\ [Next]_vars =>
        [\A k \in Keys : LockedOut(k) /\ buckets'[k] # buckets[k] =>
          \/ \E r \in Requests : req[r] = [pc |-> "checking", key |-> k]
                                 /\ req'[r] = Idle
          \/ /\ Cardinality(Live(buckets)) = maxRateLimitBuckets
             /\ \A j \in Live(buckets) :
                   /\ ~Expired(buckets[j], clock)
                   /\ buckets[k].started <= buckets[j].started]_vars
  BY LockedOutKeysStay
<1>2. QED
  BY <1>1, LimiterInvariant, PTL DEF Spec, LockoutLasts

=============================================================================
