----------------------------- MODULE RateLimiter -----------------------------
(***************************************************************************)
(* The fixed-window limiter of login and registration attempts             *)
(* (src/internal/admin/ratelimit.go): a map of at most maxRateLimitBuckets *)
(* buckets behind a mutex, shared by all requests.  A request reads the    *)
(* clock before it waits for the mutex, so the time it brings may be older *)
(* than the buckets it finds.                                              *)
(***************************************************************************)
EXTENDS Integers, FiniteSets

CONSTANTS
    Keys,           \* client address and normalized identifier
    Requests,       \* requests that may be in flight together
    max, window,    \* fields of RateLimiter
    maxRateLimitBuckets,
    NoBucket,       \* the map has no entry
    MaxTime         \* bound on the clock

\* NewRateLimiter raises both to at least one.
ASSUME LimiterAssumption ==
    /\ max \in Nat \ {0}
    /\ window \in Nat \ {0}
    /\ maxRateLimitBuckets \in Nat \ {0}

VARIABLES
    buckets,    \* key -> bucket or NoBucket
    req,        \* request -> what its handler is doing
    clock,
    permits,    \* key -> permits of its current window (history)
    evicted     \* keys that lost their bucket in it or since (history)

vars == <<buckets, req, clock, permits, evicted>>

Bucket == [started : Nat, count : Nat]

\* No entry is told from every entry.
ASSUME NoBucketAssumption == NoBucket \notin Bucket

Idle == [pc |-> "idle"]
RequestState ==
    {Idle}
    \cup [pc : {"waiting"}, key : Keys, now : Nat]
    \cup [pc : {"checking"}, key : Keys]

Init ==
    /\ buckets = [k \in Keys |-> NoBucket]
    /\ req = [r \in Requests |-> Idle]
    /\ clock = 0
    /\ permits = [k \in Keys |-> NoBucket]
    /\ evicted = {}

Live(map) == {k \in Keys : map[k] # NoBucket}
Expired(bucket, now) == now - bucket.started >= window

Goto(r, state) == req' = [req EXCEPT ![r] = state]

\* Allow: the clock is read before the mutex is taken.
ReadClock(r, k) ==
    /\ req[r] = Idle
    /\ Goto(r, [pc |-> "waiting", key |-> k, now |-> clock])
    /\ UNCHANGED <<buckets, clock, permits, evicted>>

\* Variant: only expired windows are dropped.
EvictOldest_ExpiredOnly(now) ==
    {[k \in Keys |-> IF buckets[k] # NoBucket /\ Expired(buckets[k], now)
                      THEN NoBucket ELSE buckets[k]]}

\* Variant: the comparison is the wrong way round.
EvictOldest_Newest(now) ==
    LET kept == {k \in Live(buckets) : ~Expired(buckets[k], now)}
        newest == {k \in kept :
                      \A j \in kept : buckets[k].started >= buckets[j].started}
        Only(S) == [k \in Keys |-> IF k \in S THEN buckets[k] ELSE NoBucket]
    IN IF Cardinality(kept) < maxRateLimitBuckets
       THEN {Only(kept)}
       ELSE {Only(kept \ {k}) : k \in newest}

\* The maps evictOldest may leave (buckets started at the same time are
\* visited in any order).
EvictOldest(now) ==
    LET kept == {k \in Live(buckets) : ~Expired(buckets[k], now)}
        oldest == {k \in kept :
                      \A j \in kept : buckets[k].started <= buckets[j].started}
        Only(S) == [k \in Keys |-> IF k \in S THEN buckets[k] ELSE NoBucket]
    IN IF Cardinality(kept) < maxRateLimitBuckets
       THEN {Only(kept)}
       ELSE {Only(kept \ {k}) : k \in oldest}

\* The map in which Allow starts a new bucket for k.
Roomy(k, now) ==
    IF buckets[k] = NoBucket /\ Cardinality(Live(buckets)) >= maxRateLimitBuckets
    THEN EvictOldest(now)
    ELSE {buckets}

StartsWindow(map, k, now) == map[k] = NoBucket \/ Expired(map[k], now)
\* Variant: one permit too many.
Permitted_OneMore(k, now) ==
    StartsWindow(buckets, k, now) \/ buckets[k].count <= max

Permitted(k, now) ==
    StartsWindow(buckets, k, now) \/ buckets[k].count < max

\* The bucket for k after one more permit.
Recorded(map, k, now) ==
    IF StartsWindow(map, k, now) THEN [started |-> now, count |-> 1]
    ELSE [map[k] EXCEPT !.count = @ + 1]

\* The history counts no further than one permit too many.
Counted(bucket) ==
    [bucket EXCEPT !.count = IF @ > max THEN max + 1 ELSE @]

\* From here on the bucket has what an evicted one had forgotten.
Agree(map, k, now) == Recorded(map, k, now) = Recorded(permits, k, now)

\* The rest of Allow, with the mutex held.
Allow(r) ==
    /\ req[r].pc = "waiting"
    /\ LET k == req[r].key
           now == req[r].now
       IN IF Permitted(k, now)
          THEN /\ \E map \in Roomy(k, now) :
                     /\ buckets' = [map EXCEPT ![k] = Recorded(map, k, now)]
                     /\ evicted' = (evicted \cup (Live(buckets) \ Live(map)))
                                   \ {j \in {k} : Agree(map, k, now)}
               /\ permits' = [permits EXCEPT ![k] =
                                Counted(Recorded(permits, k, now))]
               /\ Goto(r, [pc |-> "checking", key |-> k])
          ELSE Goto(r, Idle) /\ UNCHANGED <<buckets, permits, evicted>>
    /\ UNCHANGED clock

\* The password was right or the account was created.
Reset(r) ==
    /\ req[r].pc = "checking"
    /\ buckets' = [buckets EXCEPT ![req[r].key] = NoBucket]
    /\ permits' = [permits EXCEPT ![req[r].key] = NoBucket]
    /\ evicted' = evicted \ {req[r].key}
    /\ Goto(r, Idle)
    /\ UNCHANGED clock

AttemptFails(r) ==
    /\ req[r].pc = "checking"
    /\ Goto(r, Idle)
    /\ UNCHANGED <<buckets, clock, permits, evicted>>

Tick ==
    /\ clock < MaxTime
    /\ clock' = clock + 1
    /\ UNCHANGED <<buckets, req, permits, evicted>>

Next ==
    \/ \E r \in Requests :
          \/ \E k \in Keys : ReadClock(r, k)
          \/ Allow(r)
          \/ Reset(r)
          \/ AttemptFails(r)
    \/ Tick

Spec == Init /\ [][Next]_vars

-----------------------------------------------------------------------------
(* Properties *)

TypeOK ==
    /\ buckets \in [Keys -> Bucket \cup {NoBucket}]
    /\ req \in [Requests -> RequestState]
    /\ clock \in Nat
    /\ permits \in [Keys -> Bucket \cup {NoBucket}]
    /\ evicted \subseteq Keys

\* The map never outgrows its limit (ratelimit.go:21), however many keys
\* arrive at once and however old the clock reading of the request that
\* evicts.
BucketsAreBounded == Cardinality(Live(buckets)) <= maxRateLimitBuckets

\* NewRateLimiter: permits max failures per window for each key.  A window
\* starts with the first permit after the last one or after a success; only a
\* key that has lost its bucket to an eviction may get more, whatever the delay
\* between reading the clock and taking the mutex.
PermitsMaxPerWindow ==
    \A k \in Keys : permits[k] # NoBucket /\ permits[k].count > max => k \in evicted

\* The key has used up its window, which is not over.
LockedOut(k) ==
    /\ buckets[k] # NoBucket
    /\ buckets[k].count >= max
    /\ ~Expired(buckets[k], clock)

\* Who is locked out stays so until the window is over, unless a request for
\* the same key that was already past the limiter succeeds, or the map is full
\* of windows none of which is over and none of which is older: a request that
\* evicts with an old clock reading still takes the right bucket.
LockoutLasts ==
    [][\A k \in Keys : LockedOut(k) /\ buckets'[k] # buckets[k] =>
          \/ \E r \in Requests : req[r] = [pc |-> "checking", key |-> k]
                                 /\ req'[r] = Idle
          \/ /\ Cardinality(Live(buckets)) = maxRateLimitBuckets
             /\ \A j \in Live(buckets) :
                   /\ ~Expired(buckets[j], clock)
                   /\ buckets[k].started <= buckets[j].started]_vars

=============================================================================
