--------------------------- MODULE RateLimiterProofs ---------------------------
(***************************************************************************)
(* What the rate limiter guarantees for any number of clients, any limit,  *)
(* window and size of its Map, and for ever.                               *)
(***************************************************************************)
EXTENDS RateLimiter, SequenceTheorems, TLAPS

-----------------------------------------------------------------------------
(* The Map after a request: what was dropped from it had ended.            *)
LEMMA MapAfter ==
  ASSUME NEW key \in Keys, Check(key)
  PROVE  /\ DOMAIN buckets' \subseteq DOMAIN buckets \cup {key}
         /\ \A k \in DOMAIN buckets' :
              buckets'[k] = IF k = key THEN Counted(key) ELSE buckets[k]
         /\ \A k \in DOMAIN buckets \ DOMAIN buckets' : k # key => Ended(buckets[k])
         /\ key \notin DOMAIN buckets' => Ended(Counted(key))
<1> DEFINE all == Stored(key)
<1>1. /\ DOMAIN all = DOMAIN buckets \cup {key}
      /\ \A k \in DOMAIN all : all[k] = IF k = key THEN Counted(key) ELSE buckets[k]
  BY DEF Stored
<1>2. buckets' = Pruned(all)
  BY DEF Check
<1> HIDE DEF all
<1>3. \/ buckets' = all
      \/ buckets' = [k \in {k \in DOMAIN all : ~Ended(all[k])} |-> all[k]]
  BY <1>2 DEF Pruned
<1>4. CASE buckets' = all
  BY <1>1, <1>4
<1>5. CASE buckets' = [k \in {k \in DOMAIN all : ~Ended(all[k])} |-> all[k]]
  <2>1. /\ DOMAIN buckets' = {k \in DOMAIN all : ~Ended(all[k])}
        /\ \A k \in DOMAIN buckets' : buckets'[k] = all[k]
    BY <1>5
  <2> QED BY <1>1, <2>1
<1> QED BY <1>3, <1>4, <1>5

LEMMA CountedTyped ==
  ASSUME TypeOK, NEW key \in Keys
  PROVE  Counted(key) \in Bucket
<1>1. now + Window \in Nat
  BY LimiterAssumption DEF TypeOK, LimiterAssumption
<1>2. CASE key \notin DOMAIN buckets \/ Ended(buckets[key])
  BY <1>1, <1>2 DEF Bucket, Counted
<1>3. CASE ~(key \notin DOMAIN buckets \/ Ended(buckets[key]))
  <2> DEFINE b == buckets[key]
  <2>1. b \in [count : Nat, resetAt : Nat] /\ Counted(key) = [b EXCEPT !.count = b.count + 1]
    BY <1>3 DEF Counted, TypeOK, Bucket
  <2> HIDE DEF b
  <2> QED BY <2>1 DEF Bucket
<1> QED BY <1>2, <1>3

(* Retry-After names a time at or after the end of the window.             *)
LEMMA RetryAfterLate ==
  ASSUME NEW ticks \in Nat
  PROVE  RetryAfter(ticks) \in Nat /\ Second * RetryAfter(ticks) >= ticks
<1>1. Second \in Nat /\ Second > 0
  BY LimiterAssumption DEF LimiterAssumption
<1> DEFINE sum == ticks + Second - 1
<1>2. sum \in Nat
  BY <1>1
<1>3. /\ sum \div Second \in Nat /\ sum % Second < Second
      /\ sum = Second * (sum \div Second) + (sum % Second)
      /\ sum % Second \in Nat
  <2> HIDE DEF sum
  <2> QED BY <1>1, <1>2
<1>4. Second * (sum \div Second) \in Nat
  BY <1>1, <1>3
<1>5. Second * (sum \div Second) >= ticks
  <2> DEFINE p == Second * (sum \div Second)
             r == sum % Second
  <2>1. p \in Nat /\ r \in Nat /\ r < Second /\ ticks + Second - 1 = p + r
    BY <1>3, <1>4
  <2> HIDE DEF p, r
  <2>2. p >= ticks
    BY <1>1, <2>1
  <2> QED BY <2>2 DEF p
<1> QED BY <1>3, <1>5 DEF RetryAfter

-----------------------------------------------------------------------------
(* Every reachable state is well typed.                                    *)
LEMMA TypeStep == TypeOK /\ [Next]_vars => TypeOK'
<1> SUFFICES ASSUME TypeOK, [Next]_vars PROVE TypeOK'
  OBVIOUS
<1>1. CASE UNCHANGED vars
  BY <1>1 DEF vars, TypeOK
<1>2. CASE Tick
  BY <1>2 DEF Tick, TypeOK
<1>3. ASSUME NEW key \in Keys, Check(key) PROVE TypeOK'
  <2>1. Counted(key) \in Bucket
    BY CountedTyped
  <2>2. DOMAIN buckets' \subseteq Keys /\ \A k \in DOMAIN buckets' : buckets'[k] \in Bucket
    BY <1>3, <2>1, MapAfter DEF TypeOK
  <2>3. Append(allowed[key], now) \in Seq(Nat)
    BY AppendProperties DEF TypeOK
  <2>4. allowed' \in [Keys -> Seq(Nat)]
    BY <1>3, <2>3 DEF Check, TypeOK
  <2>5. retryAt' \in [Keys -> Nat]
    <3>1. CASE Counted(key).count > Max
      <4>1. ~Ended(buckets[key]) /\ key \in DOMAIN buckets
            /\ Counted(key).resetAt = buckets[key].resetAt
        BY <3>1, LimiterAssumption DEF Counted, LimiterAssumption, TypeOK, Bucket
      <4>2. Counted(key).resetAt - now \in Nat
        BY <2>1, <4>1 DEF Ended, TypeOK, Bucket
      <4>3. Second * RetryAfter(Counted(key).resetAt - now) \in Nat
        BY <4>2, RetryAfterLate, LimiterAssumption DEF LimiterAssumption
      <4>4. now + Second * RetryAfter(Counted(key).resetAt - now) \in Nat
        BY <4>3 DEF TypeOK
      <4> QED BY <1>3, <3>1, <4>4 DEF Check, TypeOK
    <3>2. CASE ~(Counted(key).count > Max)
      BY <1>3, <3>2 DEF Check, TypeOK
    <3> QED BY <3>1, <3>2
  <2> QED BY <1>3, <2>2, <2>4, <2>5 DEF Check, TypeOK
<1> QED BY <1>1, <1>2, <1>3 DEF Next

LEMMA InitTyped == Init => TypeOK
<1>1. <<>> \in Seq(Nat)
  BY EmptySeq
<1> QED BY <1>1 DEF Init, TypeOK

-----------------------------------------------------------------------------
(* The last window of a client was opened by one of its requests, o; of    *)
(* those allowed since there are no more than the bucket counted, nor than *)
(* max, and the one max places before it is at least a window older.       *)
Opened(key, o) ==
  LET times == allowed[key] IN
    /\ Len(times) - o + 1 <= Max
    /\ Max < o => times[o] - times[o - Max] >= Window
    /\ IF key \in DOMAIN buckets
       THEN /\ buckets[key].resetAt = times[o] + Window
            /\ Len(times) - o + 1 <= buckets[key].count
       ELSE times[o] + Window <= now

InOrder(key) ==
  LET times == allowed[key] IN
    /\ \A i \in 1..Len(times) : times[i] <= now
    /\ \A i, k \in 1..Len(times) : i <= k => times[i] <= times[k]

LastWindow(key) ==
  \/ Len(allowed[key]) = 0 /\ key \notin DOMAIN buckets
  \/ \E o \in 1..Len(allowed[key]) : Opened(key, o)

Spread(key) ==
  \A i \in 1..Len(allowed[key]) :
    2 * Max <= i => allowed[key][i] - allowed[key][i - 2 * Max + 1] >= Window

Told(key) ==
  retryAt[key] # 0 /\ key \in DOMAIN buckets /\ ~Ended(buckets[key]) =>
    buckets[key].resetAt <= retryAt[key]

KeyInv(key) == InOrder(key) /\ LastWindow(key) /\ Spread(key) /\ Told(key)
IInv == TypeOK /\ \A key \in Keys : KeyInv(key)

LEMMA Times ==
  ASSUME TypeOK, NEW key \in Keys
  PROVE  /\ Len(allowed[key]) \in Nat
         /\ \A i \in 1..Len(allowed[key]) : allowed[key][i] \in Nat
  BY LenProperties, ElementOfSeq DEF TypeOK

(* A request that is not that client's drops its bucket only when ended.   *)
LEMMA OthersKept ==
  ASSUME IInv, NEW key \in Keys, Check(key), NEW other \in Keys, other # key
  PROVE  KeyInv(other)'
<1>1. /\ now' = now /\ allowed'[other] = allowed[other] /\ retryAt'[other] = retryAt[other]
  BY DEF Check, IInv, TypeOK
<1>2. \/ /\ other \in DOMAIN buckets <=> other \in DOMAIN buckets'
         /\ other \in DOMAIN buckets => buckets'[other] = buckets[other]
      \/ /\ other \in DOMAIN buckets /\ other \notin DOMAIN buckets'
         /\ Ended(buckets[other])
  BY MapAfter
<1>3. InOrder(other)' /\ Spread(other)'
  BY <1>1 DEF IInv, KeyInv, InOrder, Spread
<1>4. Told(other)'
  BY <1>1, <1>2 DEF IInv, KeyInv, Told, Ended
<1>5. LastWindow(other)'
  <2>1. CASE Len(allowed[other]) = 0 /\ other \notin DOMAIN buckets
    BY <1>1, <1>2, <2>1 DEF LastWindow
  <2>2. ASSUME NEW o \in 1..Len(allowed[other]), Opened(other, o) PROVE Opened(other, o)'
    BY <1>1, <1>2, <2>2 DEF Opened, Ended
  <2> QED BY <1>1, <2>1, <2>2 DEF IInv, KeyInv, LastWindow
<1> QED BY <1>3, <1>4, <1>5 DEF KeyInv

(* The bucket of the client itself, after its request.                     *)
LEMMA OwnBucket ==
  ASSUME IInv, NEW key \in Keys, Check(key)
  PROVE  key \in DOMAIN buckets' /\ buckets'[key] = Counted(key) /\ ~Ended(Counted(key))
<1>1. ~Ended(Counted(key))
  BY LimiterAssumption DEF Counted, Ended, LimiterAssumption, IInv, TypeOK, Bucket
<1> QED BY <1>1, MapAfter

(* A request that is refused leaves the history of the client as it was.   *)
LEMMA Refused ==
  ASSUME IInv, NEW key \in Keys, Check(key), Counted(key).count > Max
  PROVE  KeyInv(key)'
<1> DEFINE b == buckets[key]
<1>1. /\ key \in DOMAIN buckets /\ ~Ended(b) /\ b \in Bucket
      /\ Counted(key) = [b EXCEPT !.count = b.count + 1]
  BY LimiterAssumption DEF Counted, LimiterAssumption, IInv, TypeOK, Bucket
<1>2. /\ now' = now /\ allowed' = allowed /\ key \in DOMAIN buckets'
      /\ buckets'[key].resetAt = b.resetAt /\ buckets'[key].count = b.count + 1
      /\ retryAt'[key] = now + Second * RetryAfter(b.resetAt - now)
  BY <1>1, OwnBucket DEF Check, IInv, TypeOK, Bucket
<1>3. InOrder(key)' /\ Spread(key)'
  BY <1>2 DEF IInv, KeyInv, InOrder, Spread
<1>4. PICK o \in 1..Len(allowed[key]) : Opened(key, o)
  BY <1>1 DEF IInv, KeyInv, LastWindow
<1>5. Opened(key, o)'
  <2>1. Len(allowed[key]) - o + 1 <= b.count + 1
    BY <1>1, <1>4, Times DEF Opened, IInv, Bucket
  <2> QED BY <1>1, <1>2, <1>4, <2>1 DEF Opened
<1>6. Told(key)'
  <2>1. b.resetAt - now \in Nat /\ now \in Nat /\ b.resetAt \in Nat
    BY <1>1 DEF Ended, Bucket, IInv, TypeOK
  <2> DEFINE ticks == b.resetAt - now
             wait == Second * RetryAfter(ticks)
  <2>2. ticks \in Nat
    BY <2>1
  <2> HIDE DEF ticks
  <2>3. /\ Second \in Nat \ {0} /\ RetryAfter(ticks) \in Nat
        /\ Second * RetryAfter(ticks) >= ticks
    BY <2>2, RetryAfterLate, LimiterAssumption DEF LimiterAssumption
  <2>6. wait >= ticks /\ wait \in Nat
    BY <2>3
  <2> HIDE DEF wait, b
  <2>5. ticks = b.resetAt - now
    BY DEF ticks
  <2>4. b.resetAt <= now + wait
    BY <2>1, <2>2, <2>6, <2>5
  <2> QED BY <1>2, <2>4 DEF Told, wait, ticks
<1> QED BY <1>2, <1>3, <1>4, <1>5, <1>6 DEF KeyInv, LastWindow

(* A request that is allowed is the next of its history: in the window of  *)
(* the last opener, or the opener of the next window.                      *)
LEMMA Allowed ==
  ASSUME IInv, NEW key \in Keys, Check(key), ~(Counted(key).count > Max)
  PROVE  KeyInv(key)'
<1>0. PICK times, n : times = allowed[key] /\ n = Len(times)
  OBVIOUS
<1>1. Max \in Nat /\ Max > 0 /\ Window \in Nat /\ Window > 0 /\ now \in Nat
  BY LimiterAssumption DEF LimiterAssumption, IInv, TypeOK
<1>2. n \in Nat /\ \A i \in 1..n : times[i] \in Nat
  BY <1>0, Times DEF IInv
<1>3. /\ now' = now /\ allowed'[key] = Append(times, now) /\ retryAt'[key] = 0
  BY <1>0 DEF Check, IInv, TypeOK
<1>4. /\ Len(allowed'[key]) = n + 1 /\ allowed'[key][n + 1] = now
      /\ \A i \in 1..n : allowed'[key][i] = times[i]
  BY <1>0, <1>3, AppendProperties DEF IInv, TypeOK
<1>5. key \in DOMAIN buckets' /\ buckets'[key] = Counted(key)
  BY OwnBucket
<1>6. /\ \A i \in 1..n : times[i] <= now
      /\ \A i, k \in 1..n : i <= k => times[i] <= times[k]
      /\ \A i \in 1..n : 2 * Max <= i => times[i] - times[i - 2 * Max + 1] >= Window
  BY <1>0 DEF IInv, KeyInv, InOrder, Spread
<1>7. Told(key)'
  BY <1>3 DEF Told
<1>8. /\ n = 0 => key \notin DOMAIN buckets
      /\ n # 0 => \E o \in 1..n : Opened(key, o)
  BY <1>0, <1>2 DEF IInv, KeyInv, LastWindow
<1>9. CASE key \in DOMAIN buckets /\ ~Ended(buckets[key])
  <2>1. PICK o \in 1..n : Opened(key, o)
    BY <1>8, <1>9
  <2>2. /\ buckets[key].count \in Nat
        /\ Counted(key).resetAt = buckets[key].resetAt
        /\ Counted(key).count = buckets[key].count + 1
    BY <1>9 DEF Counted, IInv, TypeOK, Bucket
  <2>3. /\ n - o + 1 <= buckets[key].count /\ buckets[key].count + 1 <= Max
        /\ buckets[key].resetAt = times[o] + Window
        /\ Max < o => times[o] - times[o - Max] >= Window
    BY <1>0, <1>1, <1>9, <2>1, <2>2 DEF Opened
  <2>4. (n + 1) - o + 1 <= buckets[key].count + 1 /\ (n + 1) - o + 1 <= Max
    BY <1>1, <1>2, <2>2, <2>3
  <2>5. Max < o => o - Max \in 1..n
    BY <1>1, <1>2
  <2>6. o \in 1..Len(allowed'[key]) /\ Opened(key, o)'
    BY <1>2, <1>4, <1>5, <2>2, <2>3, <2>4, <2>5 DEF Opened
  <2>7. 2 * Max <= n + 1 => now - times[n + 1 - 2 * Max + 1] >= Window
    <3> SUFFICES ASSUME 2 * Max <= n + 1
                 PROVE  now - times[n + 1 - 2 * Max + 1] >= Window
      OBVIOUS
    <3> DEFINE m == n + 1 - 2 * Max + 1
    <3>1. Max < o /\ m \in 1..n /\ m <= o - Max
      BY <1>1, <1>2, <2>4
    <3> HIDE DEF m
    <3>2. times[m] <= times[o - Max] /\ times[o] <= now
      BY <1>6, <2>5, <3>1
    <3>3. times[m] \in Nat /\ times[o - Max] \in Nat /\ times[o] \in Nat
      BY <1>2, <2>5, <3>1
    <3>4. now - times[m] >= Window
      BY <1>1, <2>3, <3>1, <3>2, <3>3
    <3> QED BY <3>4 DEF m
  <2>8. Spread(key)'
    <3> SUFFICES ASSUME NEW i \in 1..(n + 1), 2 * Max <= i
                 PROVE  allowed'[key][i] - allowed'[key][i - 2 * Max + 1] >= Window
      BY <1>4 DEF Spread
    <3>1. i - 2 * Max + 1 \in 1..n
      BY <1>1, <1>2
    <3>2. CASE i = n + 1
      <4>1. i - 2 * Max + 1 = n + 1 - 2 * Max + 1 /\ 2 * Max <= n + 1
        BY <1>1, <1>2, <3>2
      <4>2. allowed'[key][i - 2 * Max + 1] = times[n + 1 - 2 * Max + 1]
        BY <1>4, <3>1, <4>1
      <4> QED BY <1>4, <2>7, <3>2, <4>1, <4>2
    <3>3. CASE i \in 1..n
      BY <1>4, <1>6, <3>1, <3>3
    <3> QED BY <1>2, <3>2, <3>3
  <2>9. InOrder(key)'
    <3>1. \A i \in 1..(n + 1) : i = n + 1 \/ i \in 1..n
      BY <1>2
    <3>2. \A i \in 1..(n + 1) : allowed'[key][i] <= now
      BY <1>1, <1>4, <1>6, <3>1
    <3>3. \A i, k \in 1..(n + 1) : i <= k => allowed'[key][i] <= allowed'[key][k]
      BY <1>1, <1>2, <1>4, <1>6, <3>1
    <3> QED BY <1>3, <1>4, <3>2, <3>3 DEF InOrder
  <2> QED BY <1>7, <2>6, <2>8, <2>9 DEF KeyInv, LastWindow
<1>10. CASE ~(key \in DOMAIN buckets /\ ~Ended(buckets[key]))
  <2>1. Counted(key) = [count |-> 1, resetAt |-> now + Window]
    BY <1>10 DEF Counted
  <2>2. n # 0 => \E o \in 1..n : n - o + 1 <= Max /\ times[o] + Window <= now
    <3>1. ASSUME NEW o \in 1..n, Opened(key, o) PROVE times[o] + Window <= now
      BY <1>0, <1>10, <3>1 DEF Opened, Ended
    <3> QED BY <1>0, <1>8, <3>1 DEF Opened
  <2>3. \A m \in 1..n : m <= n + 1 - Max => now - times[m] >= Window
    <3> SUFFICES ASSUME NEW m \in 1..n, m <= n + 1 - Max PROVE now - times[m] >= Window
      OBVIOUS
    <3>1. PICK o \in 1..n : n - o + 1 <= Max /\ times[o] + Window <= now
      BY <1>2, <2>2
    <3>2. m <= o /\ times[m] \in Nat /\ times[o] \in Nat
      BY <1>1, <1>2, <3>1
    <3>3. times[m] <= times[o]
      BY <1>6, <3>2
    <3> QED BY <1>1, <3>1, <3>2, <3>3
  <2>8. PICK last : last = n + 1
    OBVIOUS
  <2>4. Opened(key, last)'
    <3>1. Max < last => last - Max \in 1..n
      BY <1>1, <1>2, <2>8
    <3>2. Max < last => allowed'[key][last] - allowed'[key][last - Max] >= Window
      <4> SUFFICES ASSUME Max < last
                   PROVE  allowed'[key][last] - allowed'[key][last - Max] >= Window
        OBVIOUS
      <4>1. last - Max \in 1..n /\ last - Max <= n + 1 - Max /\ allowed'[key][last] = now
        BY <1>1, <1>2, <1>4, <2>8, <3>1
      <4>2. allowed'[key][last - Max] = times[last - Max] /\ now - times[last - Max] >= Window
        BY <1>4, <2>3, <4>1
      <4> QED BY <4>1, <4>2
    <3>3. Len(allowed'[key]) - last + 1 = 1
      BY <1>2, <1>4, <2>8
    <3>4. buckets'[key].resetAt = now + Window /\ buckets'[key].count = 1
      BY <1>5, <2>1
    <3>5. /\ key \in DOMAIN buckets'
          /\ buckets'[key].resetAt = allowed'[key][last] + Window
          /\ Len(allowed'[key]) - last + 1 <= buckets'[key].count
      <4>1. allowed'[key][last] = now
        BY <1>4, <2>8
      <4>2. Len(allowed'[key]) - last + 1 <= buckets'[key].count
        BY <3>3, <3>4
      <4>3. buckets'[key].resetAt = allowed'[key][last] + Window
        BY <3>4, <4>1
      <4> QED BY <1>5, <4>2, <4>3
    <3>6. Len(allowed'[key]) - last + 1 <= Max
      BY <1>1, <3>3
    <3> QED BY <3>2, <3>5, <3>6 DEF Opened
  <2>5. Spread(key)'
    <3> SUFFICES ASSUME NEW i \in 1..(n + 1), 2 * Max <= i
                 PROVE  allowed'[key][i] - allowed'[key][i - 2 * Max + 1] >= Window
      BY <1>4 DEF Spread
    <3>1. i - 2 * Max + 1 \in 1..n /\ (i = n + 1 => i - 2 * Max + 1 <= n + 1 - Max)
      BY <1>1, <1>2
    <3>2. CASE i = n + 1
      BY <1>4, <2>3, <3>1, <3>2
    <3>3. CASE i \in 1..n
      BY <1>4, <1>6, <3>1, <3>3
    <3> QED BY <1>2, <3>2, <3>3
  <2>6. InOrder(key)'
    <3>1. \A i \in 1..(n + 1) : i = n + 1 \/ i \in 1..n
      BY <1>2
    <3>2. \A i \in 1..(n + 1) : allowed'[key][i] <= now
      BY <1>1, <1>4, <1>6, <3>1
    <3>3. \A i, k \in 1..(n + 1) : i <= k => allowed'[key][i] <= allowed'[key][k]
      BY <1>1, <1>2, <1>4, <1>6, <3>1
    <3> QED BY <1>3, <1>4, <3>2, <3>3 DEF InOrder
  <2>7. last \in 1..Len(allowed'[key])
    BY <1>2, <1>4, <2>8
  <2> QED BY <1>7, <2>4, <2>5, <2>6, <2>7 DEF KeyInv, LastWindow
<1> QED BY <1>9, <1>10

LEMMA InvariantStep == IInv /\ [Next]_vars => IInv'
<1> SUFFICES ASSUME IInv, [Next]_vars PROVE IInv'
  OBVIOUS
<1>0. TypeOK'
  BY TypeStep DEF IInv
<1>1. ASSUME NEW key \in Keys PROVE KeyInv(key)'
  <2>1. CASE UNCHANGED vars
    BY <2>1 DEF vars, IInv, KeyInv, InOrder, LastWindow, Opened, Spread, Told, Ended
  <2>2. CASE Tick
    <3>1. now' = now + 1 /\ now \in Nat /\ UNCHANGED <<buckets, allowed, retryAt>>
      BY <2>2 DEF Tick, IInv, TypeOK
    <3>2. InOrder(key)'
      <4>1. \A i \in 1..Len(allowed[key]) : allowed[key][i] <= now + 1
        BY <3>1, Times DEF IInv, KeyInv, InOrder
      <4> QED BY <3>1, <4>1 DEF IInv, KeyInv, InOrder
    <3>3. ASSUME NEW o \in 1..Len(allowed[key]), Opened(key, o) PROVE Opened(key, o)'
      <4>1. allowed[key][o] \in Nat /\ Window \in Nat
        BY Times, LimiterAssumption DEF IInv, LimiterAssumption
      <4> QED BY <3>1, <3>3, <4>1 DEF Opened
    <3>4. LastWindow(key)'
      BY <3>1, <3>3 DEF IInv, KeyInv, LastWindow
    <3>5. key \in DOMAIN buckets => buckets[key].resetAt \in Nat
      BY DEF IInv, TypeOK, Bucket
    <3>6. Spread(key)' /\ Told(key)'
      BY <3>1, <3>5 DEF IInv, KeyInv, Spread, Told, Ended
    <3> QED BY <3>2, <3>4, <3>6 DEF KeyInv
  <2>3. ASSUME NEW k \in Keys, Check(k) PROVE KeyInv(key)'
    BY <2>3, OthersKept, Refused, Allowed
  <2> QED BY <2>1, <2>2, <2>3 DEF Next
<1> QED BY <1>0, <1>1 DEF IInv

LEMMA InvariantInit == Init => IInv
<1> SUFFICES ASSUME Init PROVE IInv
  OBVIOUS
<1>1. \A key \in Keys : allowed[key] = <<>> /\ Len(allowed[key]) = 0 /\ key \notin DOMAIN buckets
  BY EmptySeq DEF Init
<1> QED BY <1>1, InitTyped DEF IInv, KeyInv, InOrder, LastWindow, Spread, Told

(* The inductive invariant holds of every client at all times.            *)
THEOREM Invariant == Spec => []IInv
  BY InvariantInit, InvariantStep, PTL DEF Spec

(* Whatever the limit and the window are, no period as long as the window  *)
(* lets more than 2 * max - 1 requests of a client through.                *)
THEOREM WindowsBounded == Spec => []AnyWindowBounded
<1>1. IInv => AnyWindowBounded
  BY DEF IInv, KeyInv, Spread, AnyWindowBounded
<1> QED BY <1>1, Invariant, PTL

(* A client that waits as long as Retry-After says is served.              *)
THEOREM RetryServed == Spec => RetryAfterSuffices
<1>1. ASSUME IInv, NEW key \in Keys, Check(key), retryAt[key] # 0, now >= retryAt[key]
      PROVE  allowed'[key] # allowed[key]
  <2>1. ~(key \in DOMAIN buckets /\ ~Ended(buckets[key]))
    <3>1. key \in DOMAIN buckets => buckets[key].resetAt \in Nat
      BY <1>1 DEF IInv, TypeOK, Bucket
    <3> QED BY <1>1, <3>1 DEF IInv, KeyInv, Told, Ended, TypeOK
  <2>2. ~(Counted(key).count > Max)
    BY <2>1, LimiterAssumption DEF Counted, LimiterAssumption
  <2>3. allowed'[key] = Append(allowed[key], now) /\ allowed[key] \in Seq(Nat) /\ now \in Nat
    BY <1>1, <2>2 DEF Check, IInv, TypeOK
  <2>4. Len(allowed'[key]) = Len(allowed[key]) + 1 /\ Len(allowed[key]) \in Nat
    BY <2>3, AppendProperties, LenProperties
  <2> QED BY <2>4
<1>2. IInv /\ [Next]_vars =>
        [\A key \in Keys : Check(key) /\ retryAt[key] # 0 /\ now >= retryAt[key]
           => allowed'[key] # allowed[key]]_vars
  BY <1>1
<1> QED BY <1>2, Invariant, PTL DEF Spec, RetryAfterSuffices
=============================================================================
