-------------------------- MODULE AcceptLoopProofs ---------------------------
(***************************************************************************)
(* Proofs about the two sides of the accept loop: which connections it     *)
(* serves and what their sessions may use (Security), for any number of    *)
(* sessions and hosts, any rates, limits and lengths of bans, and for as   *)
(* long as the server runs; and how it ends (Lifecycle), for any number of *)
(* connections and any limit on retries.  The two models share no state.   *)
(***************************************************************************)
EXTENDS Lifecycle, Security, WellFoundedInduction, TLAPS

(***************************************************************************)
(* The buckets.  What a session was granted and what its bucket holds by   *)
(* now add up to a burst at least, and to a burst with all that has been   *)
(* refilled at most.                                                       *)
(***************************************************************************)

Bucket(count, ts, refill, capacity, given, start) ==
    /\ count \in 0 .. capacity /\ ts \in 0 .. now /\ given \in Nat
    /\ given * Cost + count >= capacity
    /\ given * Cost + Filled(count, refill, capacity, now - ts)
         <= capacity + refill * (now - start)

Buckets(s) ==
    /\ Bucket(tokens[s], bucketTS[s], Refill, Capacity, granted[s], since[s])
    /\ Bucket(queryCount[s], qcBucketTS[s], QueryRefill, QueryCapacity,
              queriesGranted[s], since[s])

(* A session that is not served has the Player of a new one. *)
Fresh(s) ==
    /\ tokens[s] = Capacity /\ bucketTS[s] = 0 /\ granted[s] = 0
    /\ queryCount[s] = QueryCapacity /\ qcBucketTS[s] = 0 /\ queriesGranted[s] = 0
    /\ timeoutEnd[s] = 0

(* No timeout without a whole burst from one of the buckets.               *)
Earned(s) ==
    timeoutEnd[s] # 0 => \/ granted[s] * Cost > Capacity - Cost
                         \/ queriesGranted[s] * Cost > QueryCapacity - Cost

SessionInv(s) ==
    /\ s \in open => since[s] \in 0 .. now /\ Buckets(s) /\ Earned(s)
    /\ s \notin open => Fresh(s)

Shapes ==
    /\ now \in Nat
    /\ tokens \in [Sessions -> Int] /\ bucketTS \in [Sessions -> Int]
    /\ granted \in [Sessions -> Int]
    /\ queryCount \in [Sessions -> Int] /\ qcBucketTS \in [Sessions -> Int]
    /\ queriesGranted \in [Sessions -> Int]
    /\ timeoutEnd \in [Sessions -> Int] /\ since \in [Sessions -> Int]
    /\ open \subseteq Sessions /\ banning \subseteq open
    /\ admitting \in Sessions \cup {None}
    /\ admitting \notin open

RateInv == Shapes /\ \A s \in Sessions : SessionInv(s)

(* Arithmetic: a bucket never holds more than its capacity, nor less than  *)
(* what was in it, and fills by at most refill in a tick.                  *)
LEMMA Filling ==
    ASSUME NEW refill \in Nat, NEW capacity \in Nat, NEW count \in 0 .. capacity,
           NEW elapsed \in Nat
    PROVE  /\ Filled(count, refill, capacity, elapsed) \in count .. capacity
           /\ Filled(count, refill, capacity, 0) = count
           /\ Filled(count, refill, capacity, elapsed + 1)
                <= Filled(count, refill, capacity, elapsed) + refill
PROOF
<1>1. refill * elapsed \in Nat /\ refill * (elapsed + 1) = refill * elapsed + refill
      /\ refill * 0 = 0
  OBVIOUS
<1> QED BY <1>1 DEF Filled

(* The bucket of a new session. *)
LEMMA NewBucket ==
    ASSUME NEW refill \in Nat, NEW capacity \in Nat, now \in Nat, Cost \in Nat
    PROVE  Bucket(capacity, 0, refill, capacity, 0, now)
PROOF
<1>1. Filled(capacity, refill, capacity, now - 0) \in capacity .. capacity
  <2>1. now - 0 \in Nat /\ capacity \in 0 .. capacity  OBVIOUS
  <2> QED BY <2>1, Filling
<1>2. 0 * Cost = 0 /\ refill * (now - now) = 0  OBVIOUS
<1> QED BY <1>1, <1>2 DEF Bucket

(* A tick. *)
LEMMA BucketTicks ==
    ASSUME NEW count, NEW ts, NEW refill \in Nat, NEW capacity \in Nat, NEW given,
           NEW start \in 0 .. now, now \in Nat, now' = now + 1, Cost \in Nat,
           Bucket(count, ts, refill, capacity, given, start)
    PROVE  Bucket(count, ts, refill, capacity, given, start)'
PROOF
<1> DEFINE old == Filled(count, refill, capacity, now - ts)
           new == Filled(count, refill, capacity, (now + 1) - ts)
<1>1. count \in 0 .. capacity /\ ts \in 0 .. now /\ given \in Nat
      /\ given * Cost + count >= capacity
      /\ given * Cost + old <= capacity + refill * (now - start)
  BY DEF Bucket
<1>2. old \in count .. capacity /\ new \in count .. capacity /\ new <= old + refill
  <2>1. now - ts \in Nat /\ (now + 1) - ts = (now - ts) + 1  BY <1>1
  <2> QED BY <1>1, <2>1, Filling
<1>3. refill * ((now + 1) - start) = refill * (now - start) + refill
      /\ refill * (now - start) \in Int /\ given * Cost \in Nat
  BY <1>1
<1> HIDE DEF old, new
<1>4. given * Cost + new <= capacity + refill * ((now + 1) - start)
  BY <1>1, <1>2, <1>3
<1> QED BY <1>1, <1>4 DEF Bucket, new

(* The bucket is filled, and an input is granted or refused.               *)
LEMMA BucketAsked ==
    ASSUME NEW count, NEW ts, NEW refill \in Nat, NEW capacity \in Nat, NEW given,
           NEW start \in 0 .. now, now \in Nat, Cost \in Nat,
           Bucket(count, ts, refill, capacity, given, start),
           NEW filled, filled = Filled(count, refill, capacity, now - ts)
    PROVE  /\ filled \in 0 .. capacity
           /\ filled >= Cost => Bucket(filled - Cost, now, refill, capacity, given + 1, start)
           /\ Bucket(filled, now, refill, capacity, given, start)
           /\ ~(filled >= Cost) => given * Cost > capacity - Cost
PROOF
<1>1. count \in 0 .. capacity /\ ts \in 0 .. now /\ given \in Nat
      /\ given * Cost + count >= capacity
      /\ given * Cost + filled <= capacity + refill * (now - start)
  BY DEF Bucket
<1>2. filled \in count .. capacity
  BY <1>1, Filling
<1>3. given * Cost \in Nat /\ (given + 1) * Cost = given * Cost + Cost
      /\ refill * (now - start) \in Int
  BY <1>1
<1>4. \A c \in 0 .. capacity : Filled(c, refill, capacity, now - now) = c
  <2>1. now - now = 0  OBVIOUS
  <2> QED BY <2>1, Filling
<1>5. filled >= Cost => Bucket(filled - Cost, now, refill, capacity, given + 1, start)
  <2> SUFFICES ASSUME filled >= Cost
               PROVE  Bucket(filled - Cost, now, refill, capacity, given + 1, start)
    OBVIOUS
  <2>1. filled - Cost \in 0 .. capacity /\ given + 1 \in Nat  BY <1>1, <1>2
  <2>2. Filled(filled - Cost, refill, capacity, now - now) = filled - Cost
    BY <1>4, <2>1
  <2> QED BY <1>1, <1>2, <1>3, <2>1, <2>2 DEF Bucket
<1>6. Bucket(filled, now, refill, capacity, given, start)
  <2>1. filled \in 0 .. capacity  BY <1>1, <1>2
  <2>2. Filled(filled, refill, capacity, now - now) = filled  BY <1>4, <2>1
  <2> QED BY <1>1, <1>2, <1>3, <2>1, <2>2 DEF Bucket
<1>7. ~(filled >= Cost) => given * Cost > capacity - Cost
  BY <1>1, <1>2, <1>3
<1> QED BY <1>1, <1>2, <1>5, <1>6, <1>7

------------------------------------------------------------------------------
(* The actions *)

LEMMA Limits ==
    /\ Refill \in Nat /\ QueryRefill \in Nat /\ Cost \in Nat \ {0}
    /\ Capacity \in Nat /\ QueryCapacity \in Nat
    /\ TimeoutLength \in Nat /\ None \notin Sessions
PROOF BY SecurityAssumption DEF SecurityAssumption

(* What a bucket is does not depend on anything but the time.              *)
LEMMA SameTime ==
    ASSUME NEW count, NEW ts, NEW refill, NEW capacity, NEW given, NEW start,
           now' = now, Bucket(count, ts, refill, capacity, given, start)
    PROVE  Bucket(count, ts, refill, capacity, given, start)'
PROOF BY DEF Bucket

(* A session of which the step changes nothing, not the time either. *)
Untouched(s) ==
    /\ now' = now
    /\ tokens'[s] = tokens[s] /\ bucketTS'[s] = bucketTS[s] /\ granted'[s] = granted[s]
    /\ queryCount'[s] = queryCount[s] /\ qcBucketTS'[s] = qcBucketTS[s]
    /\ queriesGranted'[s] = queriesGranted[s]
    /\ timeoutEnd'[s] = timeoutEnd[s] /\ since'[s] = since[s]
    /\ s \in open' <=> s \in open

LEMMA UntouchedKept ==
    ASSUME NEW s \in Sessions, SessionInv(s), Untouched(s)
    PROVE  SessionInv(s)'
PROOF
<1>1. CASE s \in open
  <2>1. Buckets(s)'
    BY <1>1, SameTime DEF SessionInv, Buckets, Untouched
  <2> QED BY <1>1, <2>1 DEF SessionInv, Untouched, Earned
<1>2. CASE s \notin open
  BY <1>2 DEF SessionInv, Untouched, Fresh
<1> QED BY <1>1, <1>2

LEMMA TickKeeps ==
    ASSUME RateInv, Tick
    PROVE  RateInv'
PROOF
<1> USE DEF Tick, bucketVars, queryVars, timeoutVars, loopVars
<1>1. Shapes'  BY DEF RateInv, Shapes
<1>2. ASSUME NEW s \in Sessions
      PROVE  SessionInv(s)'
  <2>1. SessionInv(s) /\ now \in Nat  BY DEF RateInv, Shapes
  <2>2. CASE s \in open
    <3>1. Buckets(s) /\ Earned(s) /\ since[s] \in 0 .. now  BY <2>1, <2>2 DEF SessionInv
    <3>2. Buckets(s)'  BY <2>1, <3>1, Limits, BucketTicks DEF Buckets
    <3>3. since'[s] \in 0 .. now'  BY <2>1, <3>1
    <3> QED BY <2>2, <3>1, <3>2, <3>3 DEF SessionInv, Earned
  <2>3. CASE s \notin open
    BY <2>1, <2>3 DEF SessionInv, Fresh
  <2> QED BY <2>2, <2>3
<1> QED BY <1>1, <1>2 DEF RateInv

LEMMA InputKeeps ==
    ASSUME RateInv, NEW s \in Sessions, Input(s)
    PROVE  RateInv'
PROOF
<1> USE DEF queryVars, timeoutVars, loopVars
<1> DEFINE filled == Filled(tokens[s], Refill, Capacity, now - bucketTS[s])
<1>1. Shapes /\ SessionInv(s) /\ s \in open /\ now \in Nat
  BY DEF RateInv, Shapes, Input, CanRun
<1>2. Bucket(tokens[s], bucketTS[s], Refill, Capacity, granted[s], since[s])
      /\ Bucket(queryCount[s], qcBucketTS[s], QueryRefill, QueryCapacity,
                queriesGranted[s], since[s])
      /\ Earned(s) /\ since[s] \in 0 .. now
  BY <1>1 DEF SessionInv, Buckets
<1>3. /\ filled \in 0 .. Capacity
      /\ filled >= Cost =>
           Bucket(filled - Cost, now, Refill, Capacity, granted[s] + 1, since[s])
      /\ Bucket(filled, now, Refill, Capacity, granted[s], since[s])
      /\ ~(filled >= Cost) => granted[s] * Cost > Capacity - Cost
  BY <1>1, <1>2, Limits, BucketAsked
<1>4. Shapes'
  <2>1. filled - Cost \in Int /\ filled \in Int /\ NewTimeoutEnd(s) \in Int
    BY <1>1, <1>3, Limits DEF NewTimeoutEnd
  <2>2. /\ tokens' = [tokens EXCEPT ![s] = filled]
           \/ tokens' = [tokens EXCEPT ![s] = filled - Cost]
        /\ granted' = granted \/ granted' = [granted EXCEPT ![s] = @ + 1]
        /\ timeoutEnd' = timeoutEnd
           \/ timeoutEnd' = [timeoutEnd EXCEPT ![s] = NewTimeoutEnd(s)]
        /\ bucketTS' = [bucketTS EXCEPT ![s] = now]
        /\ UNCHANGED <<now, queryCount, qcBucketTS, queriesGranted, since, open,
                       banning, admitting>>
    BY DEF Input, BucketTime
  <2> HIDE DEF filled
  <2> QED BY <1>1, <2>1, <2>2 DEF Shapes
<1>5. ASSUME NEW q \in Sessions \ {s}
      PROVE  SessionInv(q)'
  <2>1. Untouched(q)  BY <1>1 DEF Shapes, Input, Untouched
  <2> QED BY <2>1, UntouchedKept DEF RateInv
<1>6. now' = now /\ s \in open' /\ since'[s] = since[s] /\ bucketTS'[s] = now
      /\ queryCount'[s] = queryCount[s] /\ qcBucketTS'[s] = qcBucketTS[s]
      /\ queriesGranted'[s] = queriesGranted[s]
  BY <1>1 DEF Input, BucketTime, Shapes
<1>7. ASSUME filled >= Cost, tokens' = [tokens EXCEPT ![s] = filled - Cost],
             granted' = [granted EXCEPT ![s] = @ + 1], timeoutEnd' = timeoutEnd
      PROVE  SessionInv(s)'
  <2>1. tokens'[s] = filled - Cost /\ granted'[s] = granted[s] + 1
    BY <1>1, <1>7 DEF Shapes
  <2>2. Buckets(s)'  BY <1>2, <1>3, <1>6, <1>7, <2>1, SameTime DEF Buckets
  <2>3. Earned(s)'
    <3>1. granted[s] \in Nat /\ (granted[s] + 1) * Cost = granted[s] * Cost + Cost
          /\ granted[s] * Cost \in Nat /\ Capacity \in Nat /\ Cost \in Nat
      BY <1>2, Limits DEF Bucket
    <3> HIDE DEF filled
    <3> QED BY <1>2, <1>6, <1>7, <2>1, <3>1 DEF Earned
  <2> QED BY <1>2, <1>6, <2>2, <2>3 DEF SessionInv
<1>8. ASSUME ~(filled >= Cost), tokens' = [tokens EXCEPT ![s] = filled],
             granted' = granted
      PROVE  SessionInv(s)'
  <2>1. tokens'[s] = filled  BY <1>1, <1>8 DEF Shapes
  <2>2. Buckets(s)'  BY <1>2, <1>3, <1>6, <1>8, <2>1, SameTime DEF Buckets
  <2>3. Earned(s)'  BY <1>3, <1>8 DEF Earned
  <2> QED BY <1>2, <1>6, <2>2, <2>3 DEF SessionInv
<1> QED BY <1>4, <1>5, <1>7, <1>8 DEF RateInv, Input, Enough

LEMMA QueryKeeps ==
    ASSUME RateInv, NEW s \in Sessions, Query(s)
    PROVE  RateInv'
PROOF
<1> USE DEF bucketVars, timeoutVars, loopVars
<1> DEFINE filled == QueryFilled(s)
<1>1. Shapes /\ SessionInv(s) /\ s \in open /\ now \in Nat
  BY DEF RateInv, Shapes, Query, CanRun
<1>2. Bucket(tokens[s], bucketTS[s], Refill, Capacity, granted[s], since[s])
      /\ Bucket(queryCount[s], qcBucketTS[s], QueryRefill, QueryCapacity,
                queriesGranted[s], since[s])
      /\ Earned(s) /\ since[s] \in 0 .. now
  BY <1>1 DEF SessionInv, Buckets
<1>3. /\ filled \in 0 .. QueryCapacity
      /\ filled >= Cost =>
           Bucket(filled - Cost, now, QueryRefill, QueryCapacity,
                  queriesGranted[s] + 1, since[s])
  BY <1>1, <1>2, Limits, BucketAsked DEF QueryFilled
<1>4. /\ queryCount' = [queryCount EXCEPT ![s] = filled - Cost]
      /\ qcBucketTS' = [qcBucketTS EXCEPT ![s] = now]
      /\ queriesGranted' = [queriesGranted EXCEPT ![s] = @ + 1]
      /\ filled >= Cost
      /\ UNCHANGED <<now, tokens, bucketTS, granted, timeoutEnd, since, open,
                     banning, admitting>>
  BY DEF Query, Enough
<1> HIDE DEF filled
<1>5. Shapes'
  <2>1. filled - Cost \in Int  BY <1>3, Limits
  <2> QED BY <1>1, <1>4, <2>1 DEF Shapes
<1>6. ASSUME NEW q \in Sessions \ {s}
      PROVE  SessionInv(q)'
  <2>1. Untouched(q)  BY <1>1, <1>4 DEF Shapes, Untouched
  <2> QED BY <2>1, UntouchedKept DEF RateInv
<1>7. /\ queryCount'[s] = filled - Cost /\ qcBucketTS'[s] = now
      /\ queriesGranted'[s] = queriesGranted[s] + 1
  BY <1>1, <1>4 DEF Shapes
<1>8. Buckets(s)'  BY <1>2, <1>3, <1>4, <1>7, SameTime DEF Buckets
<1>9. Earned(s)'
  <2>1. queriesGranted[s] \in Nat /\ queriesGranted[s] * Cost \in Nat
        /\ (queriesGranted[s] + 1) * Cost = queriesGranted[s] * Cost + Cost
        /\ QueryCapacity \in Nat /\ Cost \in Nat
    BY <1>2, Limits DEF Bucket
  <2> QED BY <1>2, <1>4, <1>7, <2>1 DEF Earned
<1>10. SessionInv(s)'  BY <1>1, <1>2, <1>4, <1>8, <1>9 DEF SessionInv
<1> QED BY <1>5, <1>6, <1>10 DEF RateInv

LEMMA RejectQueryKeeps ==
    ASSUME RateInv, NEW s \in Sessions, RejectQuery(s)
    PROVE  RateInv'
PROOF
<1> USE DEF bucketVars, timeoutVars, loopVars
<1> DEFINE filled == QueryFilled(s)
<1>1. Shapes /\ SessionInv(s) /\ s \in open /\ now \in Nat
  BY DEF RateInv, Shapes, RejectQuery, CanRun
<1>2. Bucket(tokens[s], bucketTS[s], Refill, Capacity, granted[s], since[s])
      /\ Bucket(queryCount[s], qcBucketTS[s], QueryRefill, QueryCapacity,
                queriesGranted[s], since[s])
      /\ since[s] \in 0 .. now
  BY <1>1 DEF SessionInv, Buckets
<1>3. /\ filled \in 0 .. QueryCapacity
      /\ Bucket(filled, now, QueryRefill, QueryCapacity, queriesGranted[s], since[s])
      /\ ~(filled >= Cost) => queriesGranted[s] * Cost > QueryCapacity - Cost
  BY <1>1, <1>2, Limits, BucketAsked DEF QueryFilled
<1>4. /\ queryCount' = [queryCount EXCEPT ![s] = filled]
      /\ qcBucketTS' = [qcBucketTS EXCEPT ![s] = now]
      /\ ~(filled >= Cost)
      /\ timeoutEnd' = timeoutEnd
         \/ timeoutEnd' = [timeoutEnd EXCEPT ![s] = NewTimeoutEnd(s)]
      /\ banning' = banning \/ banning' = banning \cup {s}
      /\ UNCHANGED <<now, tokens, bucketTS, granted, queriesGranted, since, open, admitting>>
  BY DEF RejectQuery, Enough, Strike
<1> HIDE DEF filled
<1>5. Shapes'
  <2>1. filled \in Int /\ NewTimeoutEnd(s) \in Int
    BY <1>1, <1>3, Limits DEF NewTimeoutEnd
  <2> QED BY <1>1, <1>4, <2>1 DEF Shapes
<1>6. ASSUME NEW q \in Sessions \ {s}
      PROVE  SessionInv(q)'
  <2>1. Untouched(q)  BY <1>1, <1>4 DEF Shapes, Untouched
  <2> QED BY <2>1, UntouchedKept DEF RateInv
<1>7. queryCount'[s] = filled /\ qcBucketTS'[s] = now
  BY <1>1, <1>4 DEF Shapes
<1>8. Buckets(s)'  BY <1>2, <1>3, <1>4, <1>7, SameTime DEF Buckets
<1>9. Earned(s)'  BY <1>3, <1>4 DEF Earned
<1>10. SessionInv(s)'  BY <1>1, <1>2, <1>4, <1>8, <1>9 DEF SessionInv
<1> QED BY <1>5, <1>6, <1>10 DEF RateInv

(* A session ends, for whatever reason. *)
LEMMA CloseKeeps ==
    ASSUME RateInv, NEW s \in open, Close(s), UNCHANGED <<now, admitting>>,
           banning' = banning \ {s}
    PROVE  RateInv'
PROOF
<1>1. Shapes /\ s \in Sessions  BY DEF RateInv, Shapes
<1>2. Shapes'
  BY <1>1, Limits DEF Shapes, Close
<1>3. ASSUME NEW q \in Sessions \ {s}
      PROVE  SessionInv(q)'
  <2>1. Untouched(q)  BY <1>1 DEF Shapes, Close, Untouched
  <2> QED BY <2>1, UntouchedKept DEF RateInv
<1>4. SessionInv(s)'
  BY <1>1 DEF Shapes, Close, SessionInv, Fresh
<1> QED BY <1>2, <1>3, <1>4 DEF RateInv

LEMMA ServeKeeps ==
    ASSUME RateInv, Serve
    PROVE  RateInv'
PROOF
<1> USE DEF Serve, bucketVars, queryVars, timeoutVars
<1> DEFINE s == admitting
<1>1. Shapes /\ s \in Sessions /\ s \notin open /\ now \in Nat
  BY DEF RateInv, Shapes
<1>2. PICK r \in Sessions : r = admitting  BY <1>1
<1>3. Fresh(r)  BY <1>1, <1>2 DEF RateInv, SessionInv
<1>4. Shapes'  BY <1>1, Limits DEF Shapes
<1>5. ASSUME NEW q \in Sessions \ {r}
      PROVE  SessionInv(q)'
  <2>1. Untouched(q)  BY <1>1, <1>2 DEF Shapes, Untouched
  <2> QED BY <2>1, UntouchedKept DEF RateInv
<1>6. now' = now /\ since'[r] = now /\ r \in open'  BY <1>1, <1>2 DEF Shapes
<1>7. Bucket(Capacity, 0, Refill, Capacity, 0, now)
      /\ Bucket(QueryCapacity, 0, QueryRefill, QueryCapacity, 0, now)
  BY <1>1, Limits, NewBucket
<1>8. Buckets(r)'
  BY <1>3, <1>6, <1>7, SameTime DEF Buckets, Fresh
<1>9. SessionInv(r)'
  BY <1>1, <1>3, <1>6, <1>8 DEF SessionInv, Earned, Fresh
<1> QED BY <1>4, <1>5, <1>9 DEF RateInv

(* The rest changes nothing that the invariant speaks of. *)
LEMMA RestKeeps ==
    ASSUME RateInv, Shapes',
           UNCHANGED <<now, open, tokens, bucketTS, granted, queryCount, qcBucketTS,
                       queriesGranted, timeoutEnd, since>>
    PROVE  RateInv'
PROOF
<1>1. \A s \in Sessions : Untouched(s)  BY DEF Untouched
<1> QED BY <1>1, UntouchedKept DEF RateInv

LEMMA NextKeeps == RateInv /\ [Next]_vars => RateInv'
PROOF
<1> SUFFICES ASSUME RateInv, [Next]_vars  PROVE RateInv'  OBVIOUS
<1> USE DEF bucketVars, queryVars, timeoutVars, loopVars
<1>1. Shapes  BY DEF RateInv
<1>2. CASE Tick  BY <1>2, TickKeeps
<1>3. ASSUME NEW s \in Sessions, StrikeInput(s)  PROVE RateInv'
  <2>1. Shapes'  BY <1>1, <1>3 DEF Shapes, StrikeInput, Strike, CanRun
  <2> QED BY <1>3, <2>1, RestKeeps DEF StrikeInput
<1>4. ASSUME NEW s \in Sessions, Input(s)  PROVE RateInv'  BY <1>4, InputKeeps
<1>5. ASSUME NEW s \in Sessions, Query(s)  PROVE RateInv'  BY <1>5, QueryKeeps
<1>6. ASSUME NEW s \in Sessions, RejectQuery(s)  PROVE RateInv'
  BY <1>6, RejectQueryKeeps
<1>7. ASSUME NEW s \in Sessions, BanForStrikes(s)  PROVE RateInv'
  BY <1>1, <1>7, CloseKeeps DEF BanForStrikes, Shapes
<1>8. ASSUME NEW s \in Sessions, End(s)  PROVE RateInv'
  <2>1. banning = banning \ {s}  BY <1>8 DEF End, CanRun
  <2> QED BY <1>8, <2>1, CloseKeeps DEF End, CanRun
<1>9. ASSUME NEW s \in Sessions, Track(s)  PROVE RateInv'
  <2>1. Shapes'  BY <1>1, <1>9 DEF Shapes, Track
  <2> QED BY <1>9, <2>1, RestKeeps DEF Track
<1>10. CASE BanForFlood
  <2>1. Shapes'  BY <1>1, <1>10 DEF Shapes, BanForFlood
  <2> QED BY <1>10, <2>1, RestKeeps DEF BanForFlood
<1>11. CASE TurnAway
  <2>1. Shapes'  BY <1>1, <1>11, Limits DEF Shapes, TurnAway
  <2> QED BY <1>11, <2>1, RestKeeps DEF TurnAway
<1>12. CASE Serve  BY <1>12, ServeKeeps
<1>13. CASE Clean
  <2>1. Shapes'  BY <1>1, <1>13 DEF Shapes, Clean
  <2> QED BY <1>13, <2>1, RestKeeps DEF Clean
<1>14. CASE UNCHANGED vars
  <2>1. Shapes'  BY <1>1, <1>14 DEF Shapes, vars
  <2> QED BY <1>14, <2>1, RestKeeps DEF vars
<1> QED BY <1>2, <1>3, <1>4, <1>5, <1>6, <1>7, <1>8, <1>9, <1>10, <1>11, <1>12,
           <1>13, <1>14 DEF Next

(* What a bucket has granted and what it still holds stay between its      *)
(* capacity and its capacity with all that was refilled since.             *)
THEOREM RateInvariant == Spec => []RateInv
PROOF
<1>1. Init => RateInv
  <2> SUFFICES ASSUME Init  PROVE RateInv  OBVIOUS
  <2>1. Shapes  BY Limits DEF Init, Shapes
  <2>2. \A s \in Sessions : SessionInv(s)  BY DEF Init, SessionInv, Fresh
  <2> QED BY <2>1, <2>2 DEF RateInv
<1> QED BY <1>1, NextKeeps, PTL DEF Spec

------------------------------------------------------------------------------
(* What it says of the rates *)

(* However inputs and queries follow each other, a session is granted at   *)
(* most one burst and what was refilled since it began, by both buckets.   *)
THEOREM RatesBounded == Spec => []RateBounded
PROOF
<1>1. RateInv => RateBounded
  <2> SUFFICES ASSUME RateInv, NEW s \in open
               PROVE  /\ granted[s] * Cost <= Capacity + Refill * (now - since[s])
                      /\ queriesGranted[s] * Cost
                           <= QueryCapacity + QueryRefill * (now - since[s])
    BY DEF RateBounded
  <2>1. ASSUME NEW count, NEW ts, NEW refill \in Nat, NEW capacity \in Nat, NEW given,
               NEW start \in 0 .. now, now \in Nat,
               Bucket(count, ts, refill, capacity, given, start)
        PROVE  given * Cost <= capacity + refill * (now - start)
    <3>1. /\ count \in 0 .. capacity /\ ts \in 0 .. now /\ given \in Nat
          /\ given * Cost + Filled(count, refill, capacity, now - ts)
               <= capacity + refill * (now - start)
      BY <2>1 DEF Bucket
    <3>2. Filled(count, refill, capacity, now - ts) \in count .. capacity
      <4>1. now - ts \in Nat  BY <2>1, <3>1
      <4> QED BY <3>1, <4>1, Filling
    <3>3. given * Cost \in Nat /\ refill * (now - start) \in Int
      BY <2>1, <3>1, Limits
    <3> QED BY <3>1, <3>2, <3>3
  <2>2. now \in Nat /\ since[s] \in 0 .. now /\ Buckets(s)
    BY DEF RateInv, Shapes, SessionInv
  <2> QED BY <2>1, <2>2, Limits DEF Buckets
<1> QED BY <1>1, RateInvariant, PTL

(* Nobody is timed out before a whole burst of one bucket was used.        *)
THEOREM NoEarlyTimeout == Spec => []NotBeforeABurst
PROOF
<1>1. RateInv => NotBeforeABurst
  BY DEF RateInv, Shapes, SessionInv, Earned, NotBeforeABurst
<1> QED BY <1>1, RateInvariant, PTL

------------------------------------------------------------------------------
(* The bans.  Between the count of a flood and the look at the bans the    *)
(* host is banned, and time does not pass: what anybody else writes into   *)
(* softbannedPlayers meanwhile is a ban, too, or an expired one erased.    *)

FloodInv ==
    /\ now \in Nat /\ softbanned \in [Hosts -> Int]
    /\ attempts = [h \in Hosts |-> attempts[h]]
    /\ admitting \in Sessions \cup {None}
    /\ flooded => admitting # None
    /\ admitting # None /\ ~flooded /\ Len(attempts[HostOf[admitting]]) >= FloodLimit =>
         Banned(HostOf[admitting])

LEMMA BanFacts ==
    /\ HostOf \in [Sessions -> Hosts] /\ None \notin Sessions
    /\ BanLength \in Nat \ {0} /\ FloodBans \subseteq Nat \ {0}
PROOF BY SecurityAssumption DEF SecurityAssumption

(* Whoever writes to softbannedPlayers leaves the bans in force in force.  *)
BansStay == \A h \in Hosts : Banned(h) => now < softbanned'[h]

LEMMA BansOverwritten ==
    ASSUME FloodInv, [Next]_vars
    PROVE  /\ softbanned' \in [Hosts -> Int]
           /\ BansStay
PROOF
<1> USE DEF FloodInv, BansStay, Banned
<1> DEFINE Goal == softbanned' \in [Hosts -> Int] /\ BansStay
<1>1. CASE UNCHANGED softbanned  BY <1>1
<1>2. ASSUME NEW s \in Sessions, BanForStrikes(s)  PROVE Goal
  <2>1. HostOf[s] \in Hosts /\ now + BanLength \in Int /\ now < now + BanLength
    BY BanFacts
  <2> QED BY <1>2, <2>1 DEF BanForStrikes
<1>3. ASSUME BanForFlood  PROVE Goal
  <2>1. PICK length \in FloodBans :
          softbanned' = [softbanned EXCEPT ![HostOf[admitting]] = now + length]
    BY <1>3 DEF BanForFlood
  <2>2. HostOf[admitting] \in Hosts /\ now + length \in Int /\ now < now + length
    BY <1>3, BanFacts DEF BanForFlood
  <2> QED BY <2>1, <2>2
<1>4. ASSUME Clean  PROVE Goal
  <2>1. softbanned' = [h \in Hosts |-> IF now > softbanned[h] THEN 0 ELSE softbanned[h]]
    BY <1>4 DEF Clean, Expired
  <2> QED BY <2>1
<1>5. [Next]_vars => \/ UNCHANGED softbanned \/ BanForFlood \/ Clean
                     \/ \E s \in Sessions : BanForStrikes(s)
  BY DEF Next, Tick, StrikeInput, Input, Query, RejectQuery, End, Track, TurnAway, Serve,
         vars
<1> QED BY <1>1, <1>2, <1>3, <1>4, <1>5

(* Nothing but Track and BanForFlood touches what a flood has been counted *)
(* from while the loop admits a connection.                                *)
LEMMA FloodStep ==
    ASSUME FloodInv, [Next]_vars
    PROVE  \/ UNCHANGED <<now, attempts, admitting, flooded>>
           \/ Tick \/ BanForFlood \/ TurnAway \/ Serve
           \/ \E s \in Sessions : Track(s)
PROOF
  BY DEF Next, StrikeInput, Input, Query, RejectQuery, BanForStrikes, End, Clean, vars,
         loopVars

LEMMA FloodKeeps == FloodInv /\ [Next]_vars => FloodInv'
PROOF
<1> SUFFICES ASSUME FloodInv, [Next]_vars  PROVE FloodInv'  OBVIOUS
<1>1. softbanned' \in [Hosts -> Int] /\ BansStay  BY BansOverwritten
<1> USE DEF FloodInv, Banned, BansStay
<1>2. CASE UNCHANGED <<now, attempts, admitting, flooded>>
  <2>1. admitting # None => HostOf[admitting] \in Hosts  BY BanFacts
  <2> QED BY <1>1, <1>2, <2>1
<1>3. CASE Tick  BY <1>1, <1>3 DEF Tick, loopVars
<1>4. CASE BanForFlood
  <2>1. PICK length \in FloodBans :
          softbanned' = [softbanned EXCEPT ![HostOf[admitting]] = now + length]
    BY <1>4 DEF BanForFlood
  <2>2. HostOf[admitting] \in Hosts /\ now + length \in Int /\ now < now + length
    BY <1>4, BanFacts DEF BanForFlood
  <2>3. now < softbanned'[HostOf[admitting]]  BY <2>1, <2>2
  <2> QED BY <1>1, <1>4, <2>3 DEF BanForFlood
<1>5. CASE TurnAway  BY <1>1, <1>5 DEF TurnAway
<1>6. CASE Serve  BY <1>1, <1>6 DEF Serve
<1>7. ASSUME NEW s \in Sessions, Track(s)  PROVE FloodInv'
  <2>1. HostOf[s] \in Hosts /\ s # None  BY BanFacts
  <2>2. /\ attempts' = [attempts EXCEPT ![HostOf[s]] = Recent(HostOf[s])]
        /\ flooded' = (Len(Recent(HostOf[s])) >= FloodLimit)
        /\ admitting' = s /\ now' = now
    BY <1>7 DEF Track, Floods
  <2>3. attempts'[HostOf[s]] = Recent(HostOf[s])  BY <2>1, <2>2
  <2>4. attempts' = [h \in Hosts |-> attempts'[h]]  BY <2>2
  <2>5. ~flooded' => ~(Len(attempts'[HostOf[s]]) >= FloodLimit)  BY <2>2, <2>3
  <2> QED BY <1>1, <2>1, <2>2, <2>4, <2>5
<1> QED BY <1>2, <1>3, <1>4, <1>5, <1>6, <1>7, FloodStep

(* From the count of a flood to the look at the bans, the host is banned.  *)
THEOREM FloodInvariant == Spec => []FloodInv
PROOF
<1>1. Init => FloodInv
  BY BanFacts DEF Init, FloodInv
<1> QED BY <1>1, FloodKeeps, PTL DEF Spec

(* A ban in force stays in force, whichever of its writers comes last: a   *)
(* flood, the strikes of any session of the host, or the cleaner.          *)
THEOREM BansKept == Spec => BanKept
PROOF
<1>1. FloodInv /\ [Next]_vars =>
        [\A h \in Hosts : Banned(h) => now < softbanned'[h] \/ now' > now]_vars
  BY BansOverwritten DEF BansStay
<1> QED BY <1>1, FloodInvariant, PTL DEF Spec, BanKept

(* A connection that made its host's attempts a flood is never served.     *)
THEOREM FloodsTurnedAway == Spec => FloodTurnedAway
PROOF
<1>1. FloodInv /\ [Next]_vars =>
        [\A s \in open' \ open : ~(Len(attempts[HostOf[s]]) >= FloodLimit)]_vars
  <2> SUFFICES ASSUME FloodInv, Next, NEW s \in open' \ open
               PROVE  ~(Len(attempts[HostOf[s]]) >= FloodLimit)
    OBVIOUS
  <2>1. Serve
    BY DEF Next, Tick, StrikeInput, Input, Query, RejectQuery, BanForStrikes, End, Close,
           Track, BanForFlood, TurnAway, Clean
  <2>2. s = admitting /\ admitting # None /\ ~flooded /\ ~Banned(HostOf[admitting])
    BY <2>1 DEF Serve
  <2> QED BY <2>2 DEF FloodInv
<1> QED BY <1>1, FloodInvariant, PTL DEF Spec, FloodTurnedAway

------------------------------------------------------------------------------
(* The list of attempts is filtered one element at a time, by a fold.      *)

(* What holds of 0, and of n + 1 if it holds of n, holds of every number: *)
(* induction, for a set, from the order of the natural numbers.            *)
LEMMA Induction ==
    ASSUME NEW S, 0 \in S, \A n \in Nat : n \in S => n + 1 \in S
    PROVE  Nat \subseteq S
PROOF
<1> DEFINE Less == {p \in Nat \X Nat : p[1] < p[2]}
           Rest == Nat \ S
<1>1. IsWellFoundedOn(Less, Nat)
  BY NatLessThanWellFounded DEF OpToRel
<1> HIDE DEF Less
<1>2. SUFFICES ASSUME Rest # {}  PROVE FALSE
  OBVIOUS
<1>3. PICK n \in Rest : \A m \in Rest : <<m, n>> \notin Less
  <2> HIDE DEF Rest
  <2>1. Rest \subseteq Nat  BY DEF Rest
  <2> QED BY <1>1, <1>2, <2>1, WFMin
<1>4. n - 1 \in Nat /\ n - 1 \in S
  <2>1. n \in Nat /\ n # 0  BY <1>3
  <2>2. n - 1 \in Nat /\ <<n - 1, n>> \in Less  BY <2>1 DEF Less
  <2> QED BY <1>3, <2>2
<1> QED BY <1>3, <1>4

(* FoldLeft is defined by a function of the sets of indices that are left. *)
Iterates(f, b, s) ==
    f = [t \in SUBSET DOMAIN s |->
           IF t = {} THEN b ELSE KeepRecent(f[t \ {Max(t)}], s[Max(t)])]

LEMMA LastIndex ==
    ASSUME NEW n \in Nat, NEW t \in SUBSET (1 .. n), n \in t
    PROVE  Max(t) = n
PROOF
<1>1. n \in t /\ \A y \in t : n >= y  OBVIOUS
<1>2. Max(t) \in t /\ \A y \in t : Max(t) >= y  BY <1>1, Zenon DEF Max
<1>3. n \in Nat /\ t \subseteq Int  OBVIOUS
<1>4. Max(t) >= n /\ n >= Max(t) /\ Max(t) \in Int  BY <1>1, <1>2, <1>3
<1> QED BY <1>3, <1>4

(* There is such a function: it grows with the length of the sequence.     *)
LEMMA IteratesExists ==
    ASSUME NEW b, NEW s, NEW n \in Nat, DOMAIN s = 1 .. n
    PROVE  \E f : Iterates(f, b, s)
PROOF
<1> DEFINE Upto(f, k) ==
             f = [t \in SUBSET (1 .. k) |->
                    IF t = {} THEN b ELSE KeepRecent(f[t \ {Max(t)}], s[Max(t)])]
           S == {k \in Nat : \E f : Upto(f, k)}
<1>1. 0 \in S
  <2>1. \A t \in SUBSET (1 .. 0) : t = {}  OBVIOUS
  <2>2. Upto([t \in SUBSET (1 .. 0) |-> b], 0)  BY <2>1
  <2> QED BY <2>2
<1>2. ASSUME NEW k \in Nat, k \in S  PROVE k + 1 \in S
  <2>1. PICK f : Upto(f, k)  BY <1>2
  <2> DEFINE g == [t \in SUBSET (1 .. k + 1) |->
                     IF k + 1 \in t THEN KeepRecent(f[t \ {k + 1}], s[k + 1]) ELSE f[t]]
  <2>2. \A t \in SUBSET (1 .. k) : t \in SUBSET (1 .. k + 1) /\ k + 1 \notin t
    OBVIOUS
  <2>3. \A t \in SUBSET (1 .. k) : g[t] = f[t]  BY <2>2
  <2>4. \A t \in SUBSET (1 .. k) :
          f[t] = IF t = {} THEN b ELSE KeepRecent(f[t \ {Max(t)}], s[Max(t)])
    BY <2>1
  <2>5. ASSUME NEW t \in SUBSET (1 .. k + 1)
        PROVE  g[t] = IF t = {} THEN b ELSE KeepRecent(g[t \ {Max(t)}], s[Max(t)])
    <3>1. CASE k + 1 \in t
      <4>1. Max(t) = k + 1  BY <3>1, LastIndex
      <4>2. t \ {k + 1} \in SUBSET (1 .. k)  OBVIOUS
      <4> HIDE DEF g
      <4>3. g[t] = KeepRecent(f[t \ {k + 1}], s[k + 1])  BY <3>1 DEF g
      <4> QED BY <2>3, <3>1, <4>1, <4>2, <4>3
    <3>2. CASE k + 1 \notin t
      <4>1. t \in SUBSET (1 .. k)  BY <3>2
      <4>2. t \ {Max(t)} \in SUBSET (1 .. k)  BY <4>1
      <4> QED BY <2>3, <2>4, <4>1, <4>2
    <3> QED BY <3>1, <3>2
  <2>6. Upto(g, k + 1)  BY <2>5
  <2>7. \E h : Upto(h, k + 1)
    <3> HIDE DEF g, Upto
    <3> QED BY <2>6
  <2>8. k + 1 \in Nat  OBVIOUS
  <2> HIDE DEF Upto
  <2> QED BY <2>7, <2>8
<1> HIDE DEF S
<1>3. n \in S  BY <1>1, <1>2, Induction
<1> QED BY <1>3 DEF S, Iterates

(* h is a run of KeepRecent over s: what it has come to after each element.       *)
Runs(h, b, s) ==
    /\ h[0] = b
    /\ \A k \in 1 .. Len(s) : h[k] = KeepRecent(h[k - 1], s[k])

(* The fold is the end of a run. *)
LEMMA FoldRuns ==
    ASSUME NEW b, NEW L, NEW s \in Seq(L)
    PROVE  \E h : Runs(h, b, s) /\ FoldLeft(KeepRecent, b, s) = h[Len(s)]
PROOF
<1>1. Len(s) \in Nat /\ DOMAIN s = 1 .. Len(s)  OBVIOUS
<1> DEFINE f == CHOOSE f : Iterates(f, b, s)
           h == [k \in 0 .. Len(s) |-> f[1 .. k]]
<1>2. Iterates(f, b, s)
  <2>1. \E g : Iterates(g, b, s)  BY <1>1, IteratesExists
  <2> QED BY <2>1
<1>3. FoldLeft(KeepRecent, b, s) = f[1 .. Len(s)]
  BY <1>1 DEF FoldLeft, MapThenFoldSet, Iterates
<1> HIDE DEF f
<1>4. h[0] = b
  <2>1. 1 .. 0 = {} /\ {} \in SUBSET (DOMAIN s)  BY <1>1
  <2> QED BY <1>2, <2>1 DEF Iterates
<1>5. ASSUME NEW k \in 1 .. Len(s)  PROVE h[k] = KeepRecent(h[k - 1], s[k])
  <2>1. k \in Nat /\ k \in 1 .. k /\ 1 .. k \subseteq 1 .. Len(s)  BY <1>1
  <2>2. Max(1 .. k) = k  BY <2>1, LastIndex
  <2>3. 1 .. k \in SUBSET (DOMAIN s) /\ 1 .. k # {}  BY <1>1, <2>1
  <2>4. f[1 .. k] = KeepRecent(f[(1 .. k) \ {k}], s[k])
    BY <1>2, <2>2, <2>3 DEF Iterates
  <2>5. (1 .. k) \ {k} = 1 .. (k - 1)  OBVIOUS
  <2>6. h[k] = f[1 .. k] /\ h[k - 1] = f[1 .. (k - 1)]  BY <1>1
  <2> QED BY <2>4, <2>5, <2>6
<1>6. h[Len(s)] = f[1 .. Len(s)]  BY <1>1
<1> QED BY <1>3, <1>4, <1>5, <1>6 DEF Runs

(* What is kept of a list of times is a list of times. *)
LEMMA KeptTyped ==
    ASSUME NEW s \in Seq(Nat)
    PROVE  FoldLeft(KeepRecent, <<>>, s) \in Seq(Nat)
PROOF
<1>1. PICK h : Runs(h, <<>>, s) /\ FoldLeft(KeepRecent, <<>>, s) = h[Len(s)]
  BY FoldRuns
<1>2. Runs(h, <<>>, s)  BY <1>1
<1> DEFINE S == {k \in Nat : k <= Len(s) => h[k] \in Seq(Nat)}
<1>3. 0 \in S
  <2>1. h[0] = <<>> /\ <<>> \in Seq(Nat)  BY <1>2 DEF Runs
  <2> QED BY <2>1
<1>4. ASSUME NEW k \in Nat, k \in S  PROVE k + 1 \in S
  <2> SUFFICES ASSUME k + 1 <= Len(s)  PROVE h[k + 1] \in Seq(Nat)
    OBVIOUS
  <2>1. k + 1 \in 1 .. Len(s) /\ (k + 1) - 1 = k /\ Len(s) \in Nat  OBVIOUS
  <2>2. h[k] \in Seq(Nat) /\ s[k + 1] \in Nat  BY <1>4, <2>1
  <2>3. h[k + 1] = KeepRecent(h[k], s[k + 1])  BY <1>2, <2>1 DEF Runs
  <2> QED BY <2>2, <2>3 DEF KeepRecent
<1> HIDE DEF S
<1>5. Len(s) \in S  BY <1>3, <1>4, Induction
<1>6. h[Len(s)] \in Seq(Nat)  BY <1>5 DEF S
<1> QED BY <1>1, <1>6

------------------------------------------------------------------------------
(* Types.  The tokens stay within their buckets by the invariant above;    *)
(* for the strikes to stay within MaxStrikes, a session that may still run *)
(* must have one left.                                                     *)

StrikesLeft == \A s \in Sessions : s \notin banning => timeoutActions[s] < MaxStrikes

CountersTyped ==
    /\ rejectionCount \in [Sessions -> 0 .. RejectionLimit]
    /\ rejectionTS \in [Sessions -> Int]
    /\ timeoutEnd \in [Sessions -> Nat]
    /\ timeoutActions \in [Sessions -> 0 .. MaxStrikes]

BansTyped ==
    /\ softbanned \in [Hosts -> Nat]
    /\ attempts \in [Hosts -> Seq(Nat)]
    /\ flooded \in BOOLEAN
    /\ flooded => admitting # None

TypeInv == CountersTyped /\ StrikesLeft /\ BansTyped /\ since \in [Sessions -> Nat]

LEMMA CounterFacts ==
    /\ RejectionLimit \in Nat \ {0} /\ MaxStrikes \in Nat \ {0} /\ TimeoutLength \in Nat
    /\ BanLength \in Nat /\ FloodBans \subseteq Nat /\ RejectionWindow \in Nat
    /\ HostOf \in [Sessions -> Hosts] /\ None \notin Sessions
PROOF BY SecurityAssumption DEF SecurityAssumption

(* Strikes, for StrikeInput and RejectQuery. *)
LEMMA StrikeTyped ==
    ASSUME TypeInv, NEW s \in Sessions, NEW n \in Nat, n < MaxStrikes, Strike(s, n)
    PROVE  timeoutActions' \in [Sessions -> 0 .. MaxStrikes] /\ StrikesLeft'
PROOF
<1>1. timeoutActions \in [Sessions -> 0 .. MaxStrikes] /\ StrikesLeft
  BY DEF TypeInv, CountersTyped
<1>2. /\ timeoutActions' = [timeoutActions EXCEPT ![s] = n + 1]
      /\ banning' = IF n + 1 >= MaxStrikes THEN banning \cup {s} ELSE banning
  BY DEF Strike
<1>3. n + 1 \in 0 .. MaxStrikes  BY CounterFacts
<1>4. timeoutActions' \in [Sessions -> 0 .. MaxStrikes]  BY <1>1, <1>2, <1>3
<1>5. ASSUME NEW q \in Sessions, q \notin banning'  PROVE timeoutActions'[q] < MaxStrikes
  <2>1. CASE q = s
    <3>1. timeoutActions'[q] = n + 1  BY <1>1, <1>2, <2>1
    <3>2. ~(n + 1 >= MaxStrikes)  BY <1>2, <1>5, <2>1
    <3> QED BY <3>1, <3>2, CounterFacts
  <2>2. CASE q # s
    BY <1>1, <1>2, <1>5, <2>2 DEF StrikesLeft
  <2> QED BY <2>1, <2>2
<1> QED BY <1>4, <1>5 DEF StrikesLeft

LEMMA SameStrikes ==
    ASSUME TypeInv, UNCHANGED timeoutActions, banning \subseteq banning'
    PROVE  timeoutActions' \in [Sessions -> 0 .. MaxStrikes] /\ StrikesLeft'
PROOF BY DEF TypeInv, CountersTyped, StrikesLeft

LEMMA InputTyped ==
    ASSUME TypeInv, now \in Nat, NEW s \in Sessions,
           StrikeInput(s) \/ Input(s) \/ Query(s)
    PROVE  TypeInv'
PROOF
<1> USE DEF timeoutVars, queryVars, bucketVars, loopVars
<1>1. BansTyped' /\ since' \in [Sessions -> Nat]
  BY DEF StrikeInput, Input, Query, TypeInv, BansTyped
<1>2. rejectionCount' \in [Sessions -> 0 .. RejectionLimit]
      /\ rejectionTS' \in [Sessions -> Int]
  BY DEF StrikeInput, Input, Query, TypeInv, CountersTyped
<1>3. CASE StrikeInput(s)
  <2>1. timeoutActions[s] \in Nat /\ timeoutActions[s] < MaxStrikes
    BY <1>3, CounterFacts DEF StrikeInput, CanRun, TypeInv, CountersTyped, StrikesLeft
  <2>2. timeoutActions' \in [Sessions -> 0 .. MaxStrikes] /\ StrikesLeft'
    BY <1>3, <2>1, StrikeTyped DEF StrikeInput
  <2>3. timeoutEnd' \in [Sessions -> Nat]
    BY <1>3 DEF StrikeInput, TypeInv, CountersTyped
  <2> QED BY <1>1, <1>2, <2>2, <2>3 DEF TypeInv, CountersTyped
<1>4. CASE Input(s)
  <2>1. NewTimeoutEnd(s) \in Nat  BY CounterFacts DEF NewTimeoutEnd
  <2>2. /\ \/ UNCHANGED <<timeoutEnd, timeoutActions>>
           \/ /\ timeoutEnd' = [timeoutEnd EXCEPT ![s] = NewTimeoutEnd(s)]
              /\ timeoutActions' = [timeoutActions EXCEPT ![s] = 0]
        /\ banning' = banning
    BY <1>4 DEF Input
  <2>3. timeoutEnd' \in [Sessions -> Nat]
    BY <2>1, <2>2 DEF TypeInv, CountersTyped
  <2>4. timeoutActions' \in [Sessions -> 0 .. MaxStrikes] /\ StrikesLeft'
    BY <2>2, CounterFacts DEF TypeInv, CountersTyped, StrikesLeft
  <2> QED BY <1>1, <1>2, <2>3, <2>4 DEF TypeInv, CountersTyped
<1>5. CASE Query(s)
  <2>1. timeoutActions' \in [Sessions -> 0 .. MaxStrikes] /\ StrikesLeft'
    BY <1>5, SameStrikes DEF Query
  <2>2. timeoutEnd' \in [Sessions -> Nat]  BY <1>5 DEF Query, TypeInv, CountersTyped
  <2> QED BY <1>1, <1>2, <2>1, <2>2 DEF TypeInv, CountersTyped
<1> QED BY <1>3, <1>4, <1>5

LEMMA RejectQueryTyped ==
    ASSUME TypeInv, now \in Nat, NEW s \in Sessions, RejectQuery(s)
    PROVE  TypeInv'
PROOF
<1> USE DEF timeoutVars, bucketVars, loopVars
<1>1. BansTyped' /\ since' \in [Sessions -> Nat]
  BY DEF RejectQuery, TypeInv, BansTyped
<1>2. rejectionTS' \in [Sessions -> Int]
  BY DEF RejectQuery, TypeInv, CountersTyped
<1>3. rejectionCount' \in [Sessions -> 0 .. RejectionLimit]
  <2>1. rejectionCount[s] \in Nat  BY CounterFacts DEF TypeInv, CountersTyped
  <2>2. Rejections(s) \in Nat  BY <2>1 DEF Rejections
  <2>3. (IF TooMany(s) THEN 1 ELSE Rejections(s)) \in 0 .. RejectionLimit
    BY <2>2, CounterFacts DEF TooMany
  <2> QED BY <2>3 DEF RejectQuery, TypeInv, CountersTyped
<1>4. timeoutEnd' \in [Sessions -> Nat]
  <2>1. NewTimeoutEnd(s) \in Nat  BY CounterFacts DEF NewTimeoutEnd
  <2>2. timeoutEnd' = timeoutEnd \/ timeoutEnd' = [timeoutEnd EXCEPT ![s] = NewTimeoutEnd(s)]
    BY DEF RejectQuery
  <2> QED BY <2>1, <2>2 DEF TypeInv, CountersTyped
<1>5. timeoutActions' \in [Sessions -> 0 .. MaxStrikes] /\ StrikesLeft'
  <2>1. 0 < MaxStrikes /\ timeoutActions[s] \in Nat /\ timeoutActions[s] < MaxStrikes
    BY CounterFacts DEF RejectQuery, CanRun, TypeInv, CountersTyped, StrikesLeft
  <2>2. CASE Strike(s, 0)  BY <2>1, <2>2, StrikeTyped
  <2>3. CASE Strike(s, timeoutActions[s])  BY <2>1, <2>3, StrikeTyped
  <2>4. CASE UNCHANGED <<timeoutVars, banning>>  BY <2>4, SameStrikes
  <2> QED BY <2>2, <2>3, <2>4 DEF RejectQuery
<1> QED BY <1>1, <1>2, <1>3, <1>4, <1>5 DEF TypeInv, CountersTyped

LEMMA CloseTyped ==
    ASSUME TypeInv, NEW s \in Sessions, Close(s), banning' = banning \ {s},
           UNCHANGED loopVars, softbanned' \in [Hosts -> Nat]
    PROVE  TypeInv'
PROOF
<1>1. BansTyped' /\ since' \in [Sessions -> Nat]
  BY DEF Close, TypeInv, BansTyped, loopVars
<1>2. CountersTyped'
  <2>1. LongAgo \in Int /\ 0 \in 0 .. RejectionLimit /\ 0 \in 0 .. MaxStrikes
    BY CounterFacts DEF LongAgo
  <2> QED BY <2>1 DEF Close, TypeInv, CountersTyped
<1>3. StrikesLeft'
  <2>1. timeoutActions' = [timeoutActions EXCEPT ![s] = 0]  BY DEF Close
  <2> QED BY <2>1, CounterFacts DEF TypeInv, CountersTyped, StrikesLeft
<1> QED BY <1>1, <1>2, <1>3 DEF TypeInv

(* The accept loop and the cleaner leave the counters of the sessions.     *)
LEMMA LoopTyped ==
    ASSUME TypeInv, UNCHANGED <<rejectionCount, rejectionTS, timeoutVars, banning>>,
           since' \in [Sessions -> Nat], BansTyped'
    PROVE  TypeInv'
PROOF BY DEF TypeInv, CountersTyped, StrikesLeft, timeoutVars

LEMMA TypesKept ==
    ASSUME TypeInv, now \in Nat, admitting \in Sessions \cup {None}, banning \subseteq Sessions,
           [Next]_vars
    PROVE  TypeInv'
PROOF
<1> USE DEF bucketVars, queryVars
<1>0. since \in [Sessions -> Nat] /\ BansTyped  BY DEF TypeInv
<1>1. CASE Tick
  BY <1>0, <1>1, LoopTyped DEF Tick, BansTyped, loopVars
<1>2. ASSUME NEW s \in Sessions, StrikeInput(s) \/ Input(s) \/ Query(s)  PROVE TypeInv'
  BY <1>2, InputTyped
<1>3. ASSUME NEW s \in Sessions, RejectQuery(s)  PROVE TypeInv'
  BY <1>3, RejectQueryTyped
<1>4. ASSUME NEW s \in Sessions, BanForStrikes(s)  PROVE TypeInv'
  <2>1. HostOf[s] \in Hosts /\ now + BanLength \in Nat  BY CounterFacts
  <2>2. softbanned' \in [Hosts -> Nat]  BY <1>0, <1>4, <2>1 DEF BanForStrikes, BansTyped
  <2> QED BY <1>4, <2>2, CloseTyped DEF BanForStrikes
<1>5. ASSUME NEW s \in Sessions, End(s)  PROVE TypeInv'
  <2>1. banning' = banning \ {s}  BY <1>5 DEF End, CanRun
  <2> QED BY <1>0, <1>5, <2>1, CloseTyped DEF End, BansTyped
<1>6. ASSUME NEW s \in Sessions, Track(s)  PROVE TypeInv'
  <2>1. HostOf[s] \in Hosts /\ s # None  BY CounterFacts
  <2>2. Append(attempts[HostOf[s]], now) \in Seq(Nat)
    BY <1>0, <2>1 DEF BansTyped
  <2>3. Recent(HostOf[s]) \in Seq(Nat)
    <3> DEFINE a == Append(attempts[HostOf[s]], now)
    <3> HIDE DEF a
    <3>1. FoldLeft(KeepRecent, <<>>, a) \in Seq(Nat)  BY <2>2, KeptTyped DEF a
    <3> QED BY <3>1 DEF Recent, a
  <2>4. Floods(HostOf[s]) \in BOOLEAN  BY DEF Floods
  <2>5. BansTyped'
    BY <1>0, <1>6, <2>1, <2>3, <2>4 DEF Track, BansTyped
  <2> QED BY <1>0, <1>6, <2>5, LoopTyped DEF Track
<1>7. CASE BanForFlood
  <2>1. PICK length \in FloodBans :
          softbanned' = [softbanned EXCEPT ![HostOf[admitting]] = now + length]
    BY <1>7 DEF BanForFlood
  <2>2. now + length \in Nat  BY CounterFacts
  <2>3. BansTyped'  BY <1>0, <1>7, <2>1, <2>2 DEF BanForFlood, BansTyped
  <2> QED BY <1>0, <1>7, <2>3, LoopTyped DEF BanForFlood
<1>8. CASE TurnAway
  <2>1. BansTyped'  BY <1>0, <1>8 DEF TurnAway, BansTyped
  <2> QED BY <1>0, <1>8, <2>1, LoopTyped DEF TurnAway
<1>9. CASE Serve
  <2>1. BansTyped' /\ since' \in [Sessions -> Nat]  BY <1>0, <1>9 DEF Serve, BansTyped
  <2> QED BY <1>9, <2>1, LoopTyped DEF Serve
<1>10. CASE Clean
  <2>1. BansTyped'  BY <1>0, <1>10 DEF Clean, BansTyped, loopVars
  <2> QED BY <1>0, <1>10, <2>1, LoopTyped DEF Clean
<1>11. CASE UNCHANGED vars
  <2>1. BansTyped'  BY <1>0, <1>11 DEF vars, BansTyped, loopVars
  <2> QED BY <1>0, <1>11, <2>1, LoopTyped DEF vars
<1> QED BY <1>1, <1>2, <1>3, <1>4, <1>5, <1>6, <1>7, <1>8, <1>9, <1>10, <1>11 DEF Next

(* Every variable is of its type: the tokens stay between none and a full  *)
(* bucket, the strikes below the ban and the rejections below the limit.   *)
(* With RatesBounded this is all that a run checks of the buckets.         *)
THEOREM BucketsStaySound == Spec => []BucketsSound
PROOF
<1>1. Init => TypeInv
  <2>1. LongAgo \in Int /\ 0 \in 0 .. RejectionLimit /\ 0 \in 0 .. MaxStrikes
        /\ 0 < MaxStrikes
    BY CounterFacts DEF LongAgo
  <2>2. Init => CountersTyped  BY <2>1 DEF Init, CountersTyped
  <2>3. Init => StrikesLeft  BY <2>1 DEF Init, StrikesLeft
  <2>4. Init => BansTyped /\ since \in [Sessions -> Nat]
    <3> SUFFICES ASSUME Init  PROVE BansTyped /\ since \in [Sessions -> Nat]  OBVIOUS
    <3>1. flooded \in BOOLEAN /\ (flooded => admitting # None)  BY Zenon DEF Init
    <3>2. <<>> \in Seq(Nat)  OBVIOUS
    <3>3. /\ softbanned \in [Hosts -> Nat] /\ attempts \in [Hosts -> Seq(Nat)]
          /\ since \in [Sessions -> Nat]
      BY <3>2 DEF Init
    <3> QED BY <3>1, <3>3, Zenon DEF BansTyped
  <2> QED BY <2>2, <2>3, <2>4 DEF TypeInv
<1>2. RateInv /\ TypeInv /\ [Next]_vars => TypeInv'
  BY TypesKept DEF RateInv, Shapes
<1>3. RateInv /\ TypeInv => TypeOK
  <2> SUFFICES ASSUME RateInv, TypeInv  PROVE TypeOK  OBVIOUS
  <2>1. Shapes /\ \A s \in Sessions : SessionInv(s)  BY DEF RateInv
  <2>2. ASSUME NEW s \in Sessions
        PROVE  /\ tokens[s] \in 0 .. Capacity /\ bucketTS[s] \in Nat /\ granted[s] \in Nat
               /\ queryCount[s] \in 0 .. QueryCapacity /\ qcBucketTS[s] \in Nat
               /\ queriesGranted[s] \in Nat
    <3>1. CASE s \in open
      BY <2>1, <3>1 DEF Shapes, SessionInv, Buckets, Bucket
    <3>2. CASE s \notin open
      BY <2>1, <3>2, Limits DEF SessionInv, Fresh
    <3> QED BY <3>1, <3>2
  <2>3. /\ tokens \in [Sessions -> 0 .. Capacity] /\ bucketTS \in [Sessions -> Nat]
        /\ granted \in [Sessions -> Nat] /\ queriesGranted \in [Sessions -> Nat]
        /\ queryCount \in [Sessions -> 0 .. QueryCapacity]
        /\ qcBucketTS \in [Sessions -> Nat]
    BY <2>1, <2>2 DEF Shapes
  <2> QED BY <2>1, <2>3 DEF Shapes, TypeInv, CountersTyped, BansTyped, TypeOK
<1>4. RateInv /\ TypeInv /\ RateBounded => BucketsSound  BY <1>3 DEF BucketsSound
<1> QED BY <1>1, <1>2, <1>4, RateInvariant, RatesBounded, PTL DEF Spec

------------------------------------------------------------------------------
(***************************************************************************)
(* The accept loop, the signal goroutine and the connections.  NoneEscapes *)
(* is not inductive: CloseConns closes what is in netConns, so netConns    *)
(* has to be exactly what is served, and only a connection that is served  *)
(* may have a player.                                                      *)
(***************************************************************************)

(* netConns is what is served, and a player belongs to a connection whose  *)
(* cleanup is still to come, or stuck.                                     *)
Tracked ==
    /\ netConns = Served
    /\ \A c \in online : handler[c] \in {"top", "scan", "line", "cleanup", "stuck"}

(* The connection being admitted is not served yet, and an unused one      *)
(* never was.                                                              *)
Admission ==
    /\ main = "admit" => /\ conn \in Conns
                         /\ handler[conn] = "none"
                         /\ socket[conn] # "unused"
    /\ \A c \in Conns : socket[c] = "unused" => handler[c] = "none"

(* After the signal goroutine nothing is admitted, main ends last, and it  *)
(* leaves its loop at the last retry.                                      *)
Ending ==
    /\ main \in {"accept", "admit"} => currRetries < MaxRetries
    /\ signal = "done" => shuttingDown
    /\ main = "exited" => Served = {}

LifecycleInv == LifecycleTypeOK /\ Tracked /\ Admission /\ Ending /\ NoneEscapes

(* The invariant holds in the initial state. *)
LEMMA LifecycleInitInv == LifecycleInit => LifecycleInv
<1> SUFFICES ASSUME LifecycleInit PROVE LifecycleInv
  OBVIOUS
<1>1. LifecycleTypeOK
  <2>1. listening \in BOOLEAN /\ shuttingDown \in BOOLEAN
    BY Zenon DEF LifecycleInit
  <2>2. 0 \in 0 .. MaxRetries
    BY LifecycleAssumption DEF LifecycleAssumption
  <2>3. /\ socket \in [Conns -> {"unused", "open", "closed"}]
        /\ handler \in [Conns -> {"none", "top", "scan", "line", "cleanup",
                                   "untrack", "done", "stuck"}]
    BY DEF LifecycleInit
  <2> QED
    BY <2>1, <2>2, <2>3, Zenon DEF LifecycleInit, LifecycleTypeOK
<1>2. Served = {}
  BY DEF LifecycleInit, Served
<1>3. Tracked /\ Admission /\ Ending /\ NoneEscapes
  <2>1. Tracked
    BY <1>2 DEF LifecycleInit, Tracked
  <2>2. Admission
    BY DEF LifecycleInit, Admission
  <2>3. Ending
    BY <1>2, LifecycleAssumption DEF LifecycleAssumption, LifecycleInit, Ending
  <2>4. NoneEscapes
    BY DEF LifecycleInit, NoneEscapes
  <2> QED
    BY <2>1, <2>2, <2>3, <2>4
<1> QED
  BY <1>1, <1>3 DEF LifecycleInv

(* Every step of main preserves the invariant. *)
LEMMA MainInv ==
    ASSUME LifecycleInv, Running, Main \/ \E c \in Conns : Accept(c)
    PROVE  LifecycleInv'
<1> USE LifecycleAssumption DEF LifecycleAssumption, LifecycleInv, LifecycleTypeOK, Running, connVars, signalVars
<1>1. ASSUME NEW c \in Conns, Accept(c) PROVE LifecycleInv'
  BY <1>1 DEF Accept, Tracked, Admission, Ending, NoneEscapes, Served
<1>2. CASE AcceptError
  BY <1>2 DEF AcceptError, TooManyErrors, Tracked, Admission, Ending, NoneEscapes, Served
<1>3. CASE AcceptClosed
  BY <1>3 DEF AcceptClosed, Tracked, Admission, Ending, NoneEscapes, Served
<1>4. CASE TurnAwayConn
  BY <1>4 DEF TurnAwayConn, CloseSockets, Tracked, Admission, Ending, NoneEscapes, Served
<1>5. CASE ServeConn
  BY <1>5 DEF ServeConn, Admit, CloseSockets, Tracked, Admission, Ending, NoneEscapes, Served
<1>6. CASE Exit
  BY <1>6 DEF Exit, Tracked, Admission, Ending, NoneEscapes, Served
<1> QED
  BY <1>1, <1>2, <1>3, <1>4, <1>5, <1>6 DEF Main

(* Every step of the signal goroutine preserves the invariant. *)
LEMMA ShutdownInv ==
    ASSUME LifecycleInv, Running, Signal \/ Shutdown \/ StickSignal
    PROVE  LifecycleInv'
<1> USE DEF LifecycleInv, LifecycleTypeOK, Running, mainVars, connVars
<1>1. CASE Signal
  BY <1>1 DEF Signal, Tracked, Admission, Ending, NoneEscapes, Served
<1>2. CASE CloseListener
  BY <1>2 DEF CloseListener, Tracked, Admission, Ending, NoneEscapes, Served
<1>3. CASE ListPlayers
  BY <1>3 DEF ListPlayers, Tracked, Admission, Ending, NoneEscapes, Served
<1>4. ASSUME NEW c \in Conns, ClosePlayer(c) PROVE LifecycleInv'
  BY <1>4 DEF ClosePlayer, CloseSockets, Tracked, Admission, Ending, NoneEscapes, Served
<1>5. CASE CloseConns
  BY <1>5 DEF CloseConns, ToClose, CloseSockets, Tracked, Admission, Ending, NoneEscapes, Served
<1>6. CASE StickSignal
  BY <1>6 DEF StickSignal, Tracked, Admission, Ending, NoneEscapes, Served
<1> QED
  BY <1>1, <1>2, <1>3, <1>4, <1>5, <1>6 DEF Shutdown

(* Every step of a connection's goroutine preserves the invariant. *)
LEMMA HandlerInv ==
    ASSUME LifecycleInv, Running,
           NEW c \in Conns, Proceed(c) \/ Scan(c) \/ EndOfInput(c) \/ Stick(c)
    PROVE  LifecycleInv'
<1> USE DEF LifecycleInv, LifecycleTypeOK, Running, mainVars, signalVars, Goto
<1>1. CASE SetReadDeadline(c)
  BY <1>1 DEF SetReadDeadline, Tracked, Admission, Ending, NoneEscapes, Served
<1>2. CASE Scan(c)
  BY <1>2 DEF Scan, Tracked, Admission, Ending, NoneEscapes, Served
<1>3. CASE EndOfInput(c)
  BY <1>3 DEF EndOfInput, Tracked, Admission, Ending, NoneEscapes, Served
<1>4. CASE Login(c)
  BY <1>4 DEF Login, Tracked, Admission, Ending, NoneEscapes, Served
<1>5. CASE Command(c)
  BY <1>5 DEF Command, Tracked, Admission, Ending, NoneEscapes, Served
<1>6. CASE Cleanup(c)
  BY <1>6 DEF Cleanup, LeftOnline, Tracked, Admission, Ending, NoneEscapes, Served
<1>7. CASE Untrack(c)
  BY <1>7 DEF Untrack, CloseSockets, Tracked, Admission, Ending, NoneEscapes, Served
<1>8. CASE Stick(c)
  BY <1>8 DEF Stick, LeftOnline, Tracked, Admission, Ending, NoneEscapes, Served
<1> QED
  BY <1>1, <1>2, <1>3, <1>4, <1>5, <1>6, <1>7, <1>8 DEF Proceed, ReadError

(* LifecycleInv is an inductive invariant. *)
THEOREM LifecycleInvariant == LifecycleSpec => []LifecycleInv
<1>1. ASSUME LifecycleInv, [LifecycleNext]_lifecycleVars PROVE LifecycleInv'
  <2>1. CASE UNCHANGED lifecycleVars
    BY <1>1, <2>1
    DEF LifecycleInv, LifecycleTypeOK, Tracked, Admission, Ending, NoneEscapes, Served,
        lifecycleVars, mainVars, signalVars, connVars
  <2>2. CASE LifecycleNext
    BY <1>1, <2>2, MainInv, ShutdownInv, HandlerInv DEF LifecycleNext
  <2> QED
    BY <1>1, <2>1, <2>2
<1> QED
  BY <1>1, LifecycleInitInv, PTL DEF LifecycleSpec

(* Every variable stays of its type, for any number of connections: main,  *)
(* the signal goroutine and those of the connections are where they can    *)
(* be, and the errors in a row never pass MaxRetries.                      *)
THEOREM LifecycleTyped == LifecycleSpec => []LifecycleTypeOK
<1>1. LifecycleInv => LifecycleTypeOK
  BY DEF LifecycleInv
<1> QED
  BY <1>1, LifecycleInvariant, PTL

(* After the shutdown's last step no connection that is served is open:    *)
(* the check of shuttingDown and netConns leave no gap.                    *)
THEOREM NoConnectionEscapes == LifecycleSpec => []NoneEscapes
<1>1. LifecycleInv => NoneEscapes
  BY DEF LifecycleInv
<1> QED
  BY <1>1, LifecycleInvariant, PTL

(* The process ends only when every player has been cleaned up.            *)
THEOREM ExitsClean == LifecycleSpec => []CleanExit
<1>1. LifecycleInv => CleanExit
  BY DEF LifecycleInv, LifecycleTypeOK, Tracked, Ending, CleanExit, Served
<1> QED
  BY <1>1, LifecycleInvariant, PTL
==============================================================================
