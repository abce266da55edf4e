------------------------------ MODULE Security -------------------------------
(***************************************************************************)
(* Rate limits and bans: the two token buckets of a session, the timeout   *)
(* they start, the strikes during a timeout, and the bans of hosts that    *)
(* strikes and floods of connections lead to.                              *)
(*                                                                         *)
(* Time is counted in ticks, and the times that one input or one accepted  *)
(* connection reads within a critical section are of one tick.  Sessions   *)
(* share only softbannedPlayers, with each other, the accept loop and the  *)
(* cleaner: a step is one of its critical sections.  Tokens are counted    *)
(* in fractions of which an input costs Cost.                              *)
(***************************************************************************)
EXTENDS Integers, Sequences, SequencesExt

CONSTANTS
    Sessions, Hosts,
    HostOf,                   \* HostOf[s]: the host of session s
    Cost,                     \* one token
    Refill, Capacity,         \* refill per tick and maxCapacity
    QueryRefill, QueryCapacity,
    RejectionLimit, RejectionWindow,
    TimeoutLength,
    MaxStrikes,
    BanLength,                \* of a ban for strikes
    FloodBans,                \* lengths of a ban for a flood
    FloodLimit, FloodWindow,
    MaxTime,                  \* bound on time
    MaxAttempts,              \* bound on connections of a host in a window
    None

ASSUME SecurityAssumption ==
    /\ HostOf \in [Sessions -> Hosts]
    /\ {Cost, Capacity, QueryCapacity, RejectionLimit, TimeoutLength, MaxStrikes,
        BanLength, FloodLimit} \subseteq Nat \ {0}
    /\ {Refill, QueryRefill, RejectionWindow, FloodWindow, MaxTime, MaxAttempts} \subseteq Nat
    /\ FloodBans \subseteq Nat \ {0}
    /\ None \notin Sessions

VARIABLES
    now,
    open,             \* sessions that are served
    tokens,           \* TokenCount
    bucketTS,         \* BucketTS
    queryCount,       \* QueryCount
    qcBucketTS,       \* QCBucketTS
    rejectionCount,   \* RejectionCount
    rejectionTS,      \* RejectionTS
    timeoutEnd,       \* TimeoutEnd
    timeoutActions,   \* TimeoutActions
    banning,          \* sessions in handleSoftban whose host is about to be banned
    softbanned,       \* softbannedPlayers, 0 without an entry
    attempts,         \* spammingIPConns
    admitting,        \* the session the accept loop is admitting, or None
    flooded,          \* ... whose flood it is about to ban
    since, granted, queriesGranted
                      \* history: when a session began, and what it was granted

bucketVars == <<tokens, bucketTS, granted>>
queryVars == <<queryCount, qcBucketTS, rejectionCount, rejectionTS, queriesGranted>>
timeoutVars == <<timeoutEnd, timeoutActions>>
loopVars == <<attempts, admitting, flooded>>
vars == <<now, open, bucketVars, queryVars, timeoutVars, banning, softbanned,
          loopVars, since>>

(* The zero time is so long ago that the first input fills a bucket, and   *)
(* the first rejection begins a window.                                    *)
LongAgo == -RejectionWindow - 1

Init ==
    /\ now = 0
    /\ open = {}
    /\ tokens = [s \in Sessions |-> Capacity]
    /\ bucketTS = [s \in Sessions |-> 0]
    /\ queryCount = [s \in Sessions |-> QueryCapacity]
    /\ qcBucketTS = [s \in Sessions |-> 0]
    /\ rejectionCount = [s \in Sessions |-> 0]
    /\ rejectionTS = [s \in Sessions |-> LongAgo]
    /\ timeoutEnd = [s \in Sessions |-> 0]
    /\ timeoutActions = [s \in Sessions |-> 0]
    /\ banning = {}
    /\ softbanned = [h \in Hosts |-> 0]
    /\ attempts = [h \in Hosts |-> <<>>]
    /\ admitting = None
    /\ flooded = FALSE
    /\ since = [s \in Sessions |-> 0]
    /\ granted = [s \in Sessions |-> 0]
    /\ queriesGranted = [s \in Sessions |-> 0]

(* A definition named ...Fault is a seeded fault: a mutation run puts it   *)
(* in the place of the definition that follows it.                         *)

Tick ==
    /\ now < MaxTime
    /\ admitting = None
    /\ now' = now + 1
    /\ UNCHANGED <<open, bucketVars, queryVars, timeoutVars, banning, softbanned,
                   loopVars, since>>

------------------------------------------------------------------------------
(* Inputs of a session *)

CanRun(s) == s \in open /\ s \notin banning

FilledFault(count, refill, capacity, elapsed) == count + refill * elapsed
Filled(count, refill, capacity, elapsed) ==
    IF count + refill * elapsed > capacity THEN capacity ELSE count + refill * elapsed

EnoughFault(count) == count > Cost
Enough(count) == count >= Cost

(* handleSoftban, with the strikes counted so far: a warning, or the end   *)
(* of the connection and, in a critical section of its own, a ban.         *)
Strike(s, strikes) ==
    /\ timeoutActions' = [timeoutActions EXCEPT ![s] = strikes + 1]
    /\ banning' = IF strikes + 1 >= MaxStrikes THEN banning \cup {s} ELSE banning

OnTimeout(s) == now < timeoutEnd[s]

NewTimeoutEndFault(s) == timeoutEnd[s] + TimeoutLength
NewTimeoutEnd(s) == now + TimeoutLength

(* Any command but LOOK, WHO, STATUS, GOLD and QUIT, during a timeout. *)
StrikeInput(s) ==
    /\ CanRun(s)
    /\ OnTimeout(s)
    /\ Strike(s, timeoutActions[s])
    /\ UNCHANGED <<now, open, bucketVars, queryVars, timeoutEnd, softbanned, loopVars,
                   since>>

(* ... and otherwise: handleTimeoutBucket. *)
BucketTimeFault(s) == bucketTS[s]
BucketTime(s) == now

Input(s) ==
    LET filled == Filled(tokens[s], Refill, Capacity, now - bucketTS[s])
    IN  /\ CanRun(s)
        /\ ~OnTimeout(s)
        /\ bucketTS' = [bucketTS EXCEPT ![s] = BucketTime(s)]
        /\ \/ /\ Enough(filled)
              /\ tokens' = [tokens EXCEPT ![s] = filled - Cost]
              /\ granted' = [granted EXCEPT ![s] = @ + 1]
              /\ UNCHANGED timeoutVars
           \/ /\ ~Enough(filled)
              /\ tokens' = [tokens EXCEPT ![s] = filled]
              /\ timeoutEnd' = [timeoutEnd EXCEPT ![s] = NewTimeoutEnd(s)]
              /\ timeoutActions' = [timeoutActions EXCEPT ![s] = 0]
              /\ UNCHANGED granted
        /\ UNCHANGED <<now, open, queryVars, banning, softbanned, loopVars, since>>

(* LOOK, WHO, STATUS or GOLD with a token left: answered, timeout or not. *)
QueryFilled(s) ==
    Filled(queryCount[s], QueryRefill, QueryCapacity, now - qcBucketTS[s])

Query(s) ==
    /\ CanRun(s)
    /\ Enough(QueryFilled(s))
    /\ queryCount' = [queryCount EXCEPT ![s] = QueryFilled(s) - Cost]
    /\ qcBucketTS' = [qcBucketTS EXCEPT ![s] = now]
    /\ queriesGranted' = [queriesGranted EXCEPT ![s] = @ + 1]
    /\ UNCHANGED <<now, open, bucketVars, rejectionCount, rejectionTS, timeoutVars,
                   banning, softbanned, loopVars, since>>

(* ... and without: the rejections in the window are counted, too many of  *)
(* them start a timeout, and a rejection during one is a strike.           *)
NewWindow(s) == now > rejectionTS[s] + RejectionWindow
Rejections(s) == IF NewWindow(s) THEN 1 ELSE rejectionCount[s] + 1
TooMany(s) == Rejections(s) >= RejectionLimit

RejectQuery(s) ==
    /\ CanRun(s)
    /\ ~Enough(QueryFilled(s))
    /\ queryCount' = [queryCount EXCEPT ![s] = QueryFilled(s)]
    /\ qcBucketTS' = [qcBucketTS EXCEPT ![s] = now]
    /\ rejectionTS' = IF NewWindow(s) THEN [rejectionTS EXCEPT ![s] = now] ELSE rejectionTS
    /\ rejectionCount' =
           [rejectionCount EXCEPT ![s] = IF TooMany(s) THEN 1 ELSE Rejections(s)]
    /\ \/ /\ TooMany(s)
          /\ timeoutEnd' = [timeoutEnd EXCEPT ![s] = NewTimeoutEnd(s)]
          /\ Strike(s, 0)
       \/ /\ ~TooMany(s) /\ OnTimeout(s)
          /\ Strike(s, timeoutActions[s])
          /\ UNCHANGED timeoutEnd
       \/ /\ ~TooMany(s) /\ ~OnTimeout(s)
          /\ UNCHANGED <<timeoutVars, banning>>
    /\ UNCHANGED <<now, open, bucketVars, queriesGranted, softbanned, loopVars, since>>

(* A session ends: the next one has a new Player. *)
Close(s) ==
    /\ open' = open \ {s}
    /\ tokens' = [tokens EXCEPT ![s] = Capacity]
    /\ bucketTS' = [bucketTS EXCEPT ![s] = 0]
    /\ queryCount' = [queryCount EXCEPT ![s] = QueryCapacity]
    /\ qcBucketTS' = [qcBucketTS EXCEPT ![s] = 0]
    /\ rejectionCount' = [rejectionCount EXCEPT ![s] = 0]
    /\ rejectionTS' = [rejectionTS EXCEPT ![s] = LongAgo]
    /\ timeoutEnd' = [timeoutEnd EXCEPT ![s] = 0]
    /\ timeoutActions' = [timeoutActions EXCEPT ![s] = 0]
    /\ since' = [since EXCEPT ![s] = 0]
    /\ granted' = [granted EXCEPT ![s] = 0]
    /\ queriesGranted' = [queriesGranted EXCEPT ![s] = 0]

(* The end of handleSoftban at the last strike.                            *)
BanForStrikes(s) ==
    /\ s \in banning
    /\ softbanned' = [softbanned EXCEPT ![HostOf[s]] = now + BanLength]
    /\ banning' = banning \ {s}
    /\ Close(s)
    /\ UNCHANGED <<now, loopVars>>

(* The connection ends otherwise. *)
End(s) ==
    /\ CanRun(s)
    /\ Close(s)
    /\ UNCHANGED <<now, banning, softbanned, loopVars>>

------------------------------------------------------------------------------
(* The accept loop and the cleaner *)

(* trackConnCount: the attempts of the last FloodWindow ticks, and this.   *)
KeepRecent(newTList, t) == IF now - t <= FloodWindow THEN Append(newTList, t) ELSE newTList
Recent(h) == FoldLeft(KeepRecent, <<>>, Append(attempts[h], now))

FloodsFault(h) == Len(Recent(h)) > FloodLimit
Floods(h) == Len(Recent(h)) >= FloodLimit

Track(s) ==
    LET h == HostOf[s]
    IN  /\ admitting = None
        /\ s \notin open
        /\ Len(Recent(h)) <= MaxAttempts
        /\ attempts' = [attempts EXCEPT ![h] = Recent(h)]
        /\ flooded' = Floods(h)
        /\ admitting' = s
        /\ UNCHANGED <<now, open, bucketVars, queryVars, timeoutVars, banning,
                       softbanned, since>>

BanForFlood ==
    /\ flooded
    /\ \E length \in FloodBans :
           softbanned' = [softbanned EXCEPT ![HostOf[admitting]] = now + length]
    /\ flooded' = FALSE
    /\ UNCHANGED <<now, open, bucketVars, queryVars, timeoutVars, banning, attempts,
                   admitting, since>>

(* isIPSoftbanned. *)
Banned(h) == now < softbanned[h]

TurnAway ==
    /\ admitting # None /\ ~flooded
    /\ Banned(HostOf[admitting])
    /\ admitting' = None
    /\ UNCHANGED <<now, open, bucketVars, queryVars, timeoutVars, banning, softbanned,
                   attempts, flooded, since>>

Serve ==
    /\ admitting # None /\ ~flooded
    /\ ~Banned(HostOf[admitting])
    /\ open' = open \cup {admitting}
    /\ since' = [since EXCEPT ![admitting] = now]
    /\ admitting' = None
    /\ UNCHANGED <<now, bucketVars, queryVars, timeoutVars, banning, softbanned,
                   attempts, flooded>>

(* cleanSoftbanList, once a minute and whenever an expired ban is met.     *)
ExpiredFault(h) == now < softbanned[h]
Expired(h) == now > softbanned[h]

Clean ==
    /\ softbanned' = [h \in Hosts |-> IF Expired(h) THEN 0 ELSE softbanned[h]]
    /\ UNCHANGED <<now, open, bucketVars, queryVars, timeoutVars, banning, loopVars,
                   since>>

------------------------------------------------------------------------------
Next ==
    \/ Tick
    \/ \E s \in Sessions :
         \/ StrikeInput(s) \/ Input(s) \/ Query(s) \/ RejectQuery(s)
         \/ BanForStrikes(s)
         \/ End(s)
         \/ Track(s)
    \/ BanForFlood
    \/ TurnAway
    \/ Serve
    \/ Clean

Spec == Init /\ [][Next]_vars

------------------------------------------------------------------------------
(* Every variable is of its type. *)
TypeOK ==
    /\ now \in Nat
    /\ open \subseteq Sessions
    /\ tokens \in [Sessions -> 0 .. Capacity]
    /\ bucketTS \in [Sessions -> Nat]
    /\ queryCount \in [Sessions -> 0 .. QueryCapacity]
    /\ qcBucketTS \in [Sessions -> Nat]
    /\ rejectionCount \in [Sessions -> 0 .. RejectionLimit]
    /\ rejectionTS \in [Sessions -> Int]
    /\ timeoutEnd \in [Sessions -> Nat]
    /\ timeoutActions \in [Sessions -> 0 .. MaxStrikes]
    /\ banning \subseteq open
    /\ softbanned \in [Hosts -> Nat]
    /\ attempts \in [Hosts -> Seq(Nat)]
    /\ admitting \in Sessions \cup {None}
    /\ flooded \in BOOLEAN
    /\ since \in [Sessions -> Nat]
    /\ granted \in [Sessions -> Nat]
    /\ queriesGranted \in [Sessions -> Nat]

(* Neither bucket lets a session have more than one burst and what has     *)
(* been refilled since it began, in whatever order inputs and queries come. *)
RateBounded ==
    \A s \in open :
        /\ granted[s] * Cost <= Capacity + Refill * (now - since[s])
        /\ queriesGranted[s] * Cost <= QueryCapacity + QueryRefill * (now - since[s])

(* The buckets stay within their bounds, with the types above.             *)
BucketsSound == TypeOK /\ RateBounded

(* No session is timed out, and so none banned, that has not used a whole  *)
(* burst of one of the two buckets: "fast clicking during normal play      *)
(* doesn't start a timeout".                                               *)
NotBeforeABurst ==
    \A s \in open :
        timeoutEnd[s] # 0 => \/ granted[s] * Cost > Capacity - Cost
                             \/ queriesGranted[s] * Cost > QueryCapacity - Cost

(* A ban in force stays in force, though two kinds of ban and the cleaner  *)
(* write to the same map.                                                  *)
BanKept == [][\A h \in Hosts : Banned(h) => now < softbanned'[h] \/ now' > now]_vars

(* A connection that floods is never served, whatever the sessions of its  *)
(* host and the cleaner do between the count and the look at the bans.     *)
FloodTurnedAway ==
    [][\A s \in open' \ open :
         ~(Len(attempts[HostOf[s]]) >= FloodLimit)]_vars
==============================================================================
