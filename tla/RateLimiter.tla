---------------------------- MODULE RateLimiter ----------------------------
(***************************************************************************)
(* createRateLimiter of src/request-guard.js: a fixed window per client,   *)
(* opened by the client's first request and replaced by the first request  *)
(* after its end; the buckets that ended are dropped when there are many.  *)
(* Time is Date.now(), assumed not to be set back, in ticks.               *)
(***************************************************************************)
EXTENDS Integers, Sequences, FiniteSets

CONSTANTS
  Keys,       \* the clients, as requestKey tells them apart
  Max,        \* max
  Window,     \* windowMs
  Second,     \* ticks per second of the Retry-After header
  ManyBuckets,\* the number of buckets above which ended ones are dropped: 500
  MaxTime,    \* bound: the time up to which the clock advances
  MaxCount    \* bound: requests of one client counted in one window

ASSUME LimiterAssumption ==
  /\ IsFiniteSet(Keys)
  /\ Max \in Nat \ {0}
  /\ Window \in Nat \ {0}
  /\ Second \in Nat \ {0}
  /\ ManyBuckets \in Nat
  /\ MaxTime \in Nat
  /\ MaxCount \in Nat

VARIABLES
  now,      \* Date.now()
  buckets,  \* the Map: a function on the clients that have a bucket
  allowed,  \* history: when each client's requests were allowed
  retryAt   \* history: the time a refused client was told to wait for; 0
            \* when it was not refused, or has called again since

vars == <<now, buckets, allowed, retryAt>>

Bucket == [count : Nat, resetAt : Nat]

TypeOK ==
  /\ now \in Nat
  /\ DOMAIN buckets \subseteq Keys
  /\ \A key \in DOMAIN buckets : buckets[key] \in Bucket
  /\ allowed \in [Keys -> Seq(Nat)]
  /\ retryAt \in [Keys -> Nat]

Init ==
  /\ now = 1
  /\ buckets = [key \in {} |-> 0]
  /\ allowed = [key \in Keys |-> <<>>]
  /\ retryAt = [key \in Keys |-> 0]

Ended(bucket) == bucket.resetAt <= now

(* Math.ceil(ticks / Second), in seconds.                                  *)
RetryAfterFloor(ticks) == ticks \div Second \* mutant: Math.floor
RetryAfter(ticks) == (ticks + Second - 1) \div Second

CountedDown(key) == \* mutant: count -= 1
  IF key \notin DOMAIN buckets \/ Ended(buckets[key])
  THEN [count |-> 1, resetAt |-> now + Window]
  ELSE [buckets[key] EXCEPT !.count = @ - 1]

Counted(key) ==
  IF key \notin DOMAIN buckets \/ Ended(buckets[key])
  THEN [count |-> 1, resetAt |-> now + Window]
  ELSE [buckets[key] EXCEPT !.count = @ + 1]

Stored(key) ==
  [k \in DOMAIN buckets \cup {key} |-> IF k = key THEN Counted(key) ELSE buckets[k]]

PrunedLive(all) == \* mutant: the windows that have not ended are dropped
  IF Cardinality(DOMAIN all) > ManyBuckets
  THEN [k \in {k \in DOMAIN all : Ended(all[k])} |-> all[k]]
  ELSE all

Pruned(all) ==
  IF Cardinality(DOMAIN all) > ManyBuckets
  THEN [k \in {k \in DOMAIN all : ~Ended(all[k])} |-> all[k]]
  ELSE all

Check(key) ==
  LET bucket == Counted(key) IN
  /\ bucket.count <= MaxCount
  /\ buckets' = Pruned(Stored(key))
  /\ IF bucket.count > Max
     THEN /\ retryAt' = [retryAt EXCEPT ![key] =
                           now + Second * RetryAfter(bucket.resetAt - now)]
          /\ UNCHANGED allowed
     ELSE /\ allowed' = [allowed EXCEPT ![key] = Append(@, now)]
          /\ retryAt' = [retryAt EXCEPT ![key] = 0]
  /\ UNCHANGED now

Tick ==
  /\ now < MaxTime
  /\ now' = now + 1
  /\ UNCHANGED <<buckets, allowed, retryAt>>

Next == Tick \/ \E key \in Keys : Check(key)

Spec == Init /\ [][Next]_vars

-----------------------------------------------------------------------------
(* In no period as long as the window are more than 2 * max - 1 requests   *)
(* of a client allowed, wherever its windows begin and whatever is dropped *)
(* from the Map: a window opens with a request, so a period that reaches   *)
(* into the next window misses at least that one.                          *)
AnyWindowBounded ==
  \A key \in Keys : \A i \in 1..Len(allowed[key]) :
    2 * Max <= i => allowed[key][i] - allowed[key][i - 2 * Max + 1] >= Window

(* A client that waits as long as Retry-After says is served: the header,  *)
(* rounded to seconds, never names a time inside the window.               *)
RetryAfterSuffices ==
  [][\A key \in Keys :
       Check(key) /\ retryAt[key] # 0 /\ now >= retryAt[key]
         => allowed'[key] # allowed[key]]_vars
=============================================================================
