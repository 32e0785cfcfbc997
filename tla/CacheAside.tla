------------------------------ MODULE CacheAside ------------------------------
(***************************************************************************)
(* The caching demo (src/cache-lab.js): ProductCacheService, a cache-aside *)
(* with single flight over a repository, driven by cachingStrategies.      *)
(*                                                                         *)
(* There is one product.  Its cache entry may expire at any moment after   *)
(* it was stored, for the process may be slower than the TTL.  The store   *)
(* is in memory: its answers come in microtasks, which run before the      *)
(* timer of a repository read.                                             *)
(***************************************************************************)
EXTENDS Naturals, Sequences

CONSTANT Burst  \* the number of getById calls made at once

Callers == 1..Burst
Nothing == 0

(* What cachingStrategies awaits, one after the other.                     *)
Script == <<"read", "read", "read", "expiry", "read", "delete", "burst",
            "update", "read">>

VARIABLES
  step,     \* position in Script
  caller,   \* the calls of getById under way, and what they returned
  loader,   \* the loading promise each caller started or joined
  inFlight, \* this.inFlight of the key: the caller whose loader it is
  cached,   \* the entry of the store: a revision
  current,  \* the revision in the repository
  reads     \* readCount since the step began

cacheVars == <<step, caller, loader, inFlight, cached, current, reads>>

Revisions == Nat
Uncalled == [at |-> "uncalled", value |-> Nothing]

CacheTypeOK ==
  /\ step \in 1..(Len(Script) + 1)
  /\ caller \in [Callers ->
       [at : {"uncalled", "called", "missed", "loading", "storing", "awaiting", "returned"},
        value : Revisions]]
  /\ loader \in [Callers -> Callers \cup {Nothing}]
  /\ inFlight \in Callers \cup {Nothing}
  /\ cached \in Revisions
  /\ current \in Revisions
  /\ reads \in Nat

CacheInit ==
  /\ step = 1
  /\ caller = [c \in Callers |-> IF c = 1 THEN [Uncalled EXCEPT !.at = "called"] ELSE Uncalled]
  /\ loader = [c \in Callers |-> Nothing]
  /\ inFlight = Nothing
  /\ cached = Nothing
  /\ current = 1
  /\ reads = 0

At(c, place, value) == caller' = [caller EXCEPT ![c] = [at |-> place, value |-> value]]

-----------------------------------------------------------------------------
(* getById: the answer of the store.                                       *)
Hit(c) ==
  /\ caller[c].at = "called"
  /\ cached # Nothing
  /\ At(c, "returned", cached)
  /\ UNCHANGED <<step, loader, inFlight, cached, current, reads>>

Miss(c) ==
  /\ caller[c].at = "called"
  /\ cached = Nothing
  /\ At(c, "missed", Nothing)
  /\ UNCHANGED <<step, loader, inFlight, cached, current, reads>>

(* ... and, in a later microtask, what a miss does.                        *)
Join(c) ==
  /\ caller[c].at = "missed"
  /\ inFlight # Nothing
  /\ At(c, "awaiting", Nothing)
  /\ loader' = [loader EXCEPT ![c] = inFlight]
  /\ UNCHANGED <<step, inFlight, cached, current, reads>>

Load(c) ==
  /\ caller[c].at = "missed"
  /\ inFlight = Nothing
  /\ At(c, "loading", Nothing)
  /\ inFlight' = c
  /\ loader' = [loader EXCEPT ![c] = c]
  /\ reads' = reads + 1
  /\ UNCHANGED <<step, cached, current>>

(* findById after its wait of 35 ms: a timer, so no microtask is pending.  *)
Found(c) ==
  /\ caller[c].at = "loading"
  /\ \A d \in Callers : caller[d].at \notin {"called", "missed"}
  /\ At(c, "storing", current)
  /\ UNCHANGED <<step, loader, inFlight, cached, current, reads>>

(* The store took the value; finally clears inFlight, and all who await    *)
(* the loader return.                                                      *)
Return(c, value) ==
  caller' = [d \in Callers |-> IF loader[d] = c /\ caller[d].at # "returned"
                               THEN [at |-> "returned", value |-> value] ELSE caller[d]]

Stored(c) ==
  /\ caller[c].at = "storing"
  /\ cached' = caller[c].value
  /\ inFlight' = Nothing
  /\ Return(c, caller[c].value)
  /\ UNCHANGED <<step, loader, current, reads>>

Expire ==
  /\ cached # Nothing
  /\ cached' = Nothing
  /\ UNCHANGED <<step, caller, loader, inFlight, current, reads>>

-----------------------------------------------------------------------------
(* cachingStrategies: a step ends when all its calls returned.             *)
Doing == IF step <= Len(Script) THEN Script[step] ELSE "over"
AllReturned == \A c \in Callers : caller[c].at \in {"uncalled", "returned"}

Calls(what) == CASE what = "read" -> {1} [] what = "burst" -> Callers [] OTHER -> {}
Proceed ==
  LET next == IF step < Len(Script) THEN Script[step + 1] ELSE "over" IN
    /\ step' = step + 1
    /\ caller' = [c \in Callers |->
         IF c \in Calls(next) THEN [Uncalled EXCEPT !.at = "called"] ELSE Uncalled]
    /\ loader' = [c \in Callers |-> Nothing]
    /\ reads' = 0
    /\ UNCHANGED inFlight

ReadsReturn ==
  /\ Doing \in {"read", "burst"}
  /\ AllReturned
  /\ Proceed
  /\ UNCHANGED <<cached, current>>

(* wait(PRODUCT_TTL_MS + 20)                                               *)
WaitForExpiry ==
  /\ Doing = "expiry"
  /\ cached = Nothing
  /\ Proceed
  /\ UNCHANGED <<cached, current>>

(* cache.del                                                               *)
Delete ==
  /\ Doing = "delete"
  /\ cached' = Nothing
  /\ Proceed
  /\ UNCHANGED current

(* updatePrice: write, then invalidate.                                    *)
UpdatePriceOnly == \* mutant: no cache.del
  /\ Doing = "update"
  /\ current' = current + 1
  /\ Proceed
  /\ UNCHANGED cached

UpdatePrice ==
  /\ Doing = "update"
  /\ current' = current + 1
  /\ cached' = Nothing
  /\ Proceed

ScriptStep == ReadsReturn \/ WaitForExpiry \/ Delete \/ UpdatePrice
CacheCallback(c) == Hit(c) \/ Miss(c) \/ Join(c) \/ Load(c) \/ Found(c) \/ Stored(c)
CacheNext == ScriptStep \/ Expire \/ \E c \in Callers : CacheCallback(c)

(* Microtasks and timers run; the TTL passes.                              *)
CacheFairness ==
  /\ WF_cacheVars(ScriptStep) /\ WF_cacheVars(Expire)
  /\ \A c \in Callers : WF_cacheVars(CacheCallback(c))

-----------------------------------------------------------------------------
(* What the demo reports of its burst (src/cache-lab.js:197): calls that   *)
(* miss together are answered by one loader, with one revision.            *)
BurstLoadsOnce ==
  Doing = "burst" /\ AllReturned =>
    reads = 1 /\ \A c \in Callers : caller[c].value = current

(* What it reports of the update (src/cache-lab.js:205): no answer is      *)
(* older than the last update that was awaited, whenever entries expire.   *)
(* The script awaits its reads before it updates.                          *)
NoStaleAnswer ==
  \A c \in Callers : caller[c].at = "returned" => caller[c].value = current
=============================================================================
