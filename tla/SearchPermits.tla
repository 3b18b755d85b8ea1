---------------------------- MODULE SearchPermits ----------------------------
(***************************************************************************)
(* Permits for searches on the GPU: backend/app/core/gpu_semaphore.py, as  *)
(* used by api/chat_agent.py.  A search takes a slot of its process's      *)
(* semaphore and then a cluster-wide permit: a token in a sorted set of    *)
(* Redis, dropped by the next acquire once it is PermitTtl old.            *)
(*                                                                         *)
(* Time is discrete and relative: what is kept is how old a token is, how  *)
(* long a search has waited and how long it has held its token, each up to *)
(* the limit the code compares it with.  The processes' clocks agree.      *)
(***************************************************************************)
EXTENDS Naturals, FiniteSets

CONSTANTS
    Searches,        \* calls of gpu_search_slot
    Backends,        \* backend processes
    BackendOf,       \* [Searches -> Backends]
    LocalLimit,      \* HRAG_SEARCH_GPU_CONCURRENCY
    GlobalLimit,     \* HRAG_SEARCH_GPU_GLOBAL_CONCURRENCY
    PermitTtl,       \* HRAG_SEARCH_GPU_PERMIT_TTL
    WaitTimeout,     \* HRAG_SEARCH_GPU_WAIT_TIMEOUT
    MaxRedisFaults   \* bound on failed calls, cancellations and crashes

ASSUME SearchPermitsAssumption ==
    /\ IsFiniteSet(Searches)
    /\ BackendOf \in [Searches -> Backends]
    /\ LocalLimit \in Nat \ {0}
    /\ GlobalLimit \in Nat \ {0}
    /\ PermitTtl \in Nat \ {0}
    /\ WaitTimeout \in Nat
    /\ MaxRedisFaults \in Nat

VARIABLES
    search,          \* [Searches -> new, acquiring, running, over]
    token,           \* searches whose _acquire_global returned a token
    permits,         \* tokens in the sorted set, named by their search
    permitAge,       \* [Searches -> 0..PermitTtl]: age of a token in permits
    heldFor,         \* [Searches -> 0..PermitTtl]: how long ago it was taken
    waited,          \* [Searches -> 0..WaitTimeout]
    redisUp,
    redisFaults

permitVars == <<search, token, permits, permitAge, heldFor, waited, redisUp,
                redisFaults>>

PermitsTypeOK ==
    /\ search \in [Searches -> {"new", "acquiring", "running", "over"}]
    /\ token \in SUBSET Searches
    /\ permits \in SUBSET Searches
    /\ permitAge \in [Searches -> 0..PermitTtl]
    /\ heldFor \in [Searches -> 0..PermitTtl]
    /\ waited \in [Searches -> 0..WaitTimeout]
    /\ redisUp \in BOOLEAN
    /\ redisFaults \in 0..MaxRedisFaults

PermitsInit ==
    /\ search = [s \in Searches |-> "new"]
    /\ token = {}
    /\ permits = {}
    /\ permitAge = [s \in Searches |-> 0]
    /\ heldFor = [s \in Searches |-> 0]
    /\ waited = [s \in Searches |-> 0]
    /\ redisUp = TRUE
    /\ redisFaults = 0

InSlot(b) == {s \in Searches : /\ BackendOf[s] = b
                               /\ search[s] \in {"acquiring", "running"}}

\* Mutant: tokens are dropped one unit too early.
UnexpiredEarly == {s \in permits : permitAge[s] + 1 < PermitTtl}

\* What ZREMRANGEBYSCORE -inf now-ttl leaves in the sorted set.
Unexpired == {s \in permits : permitAge[s] < PermitTtl}

Room == Cardinality(Unexpired) < GlobalLimit

\* The script's successful branch: prune, then add the token of s.
AddToken(s) ==
    /\ Room
    /\ permits' = Unexpired \cup {s}
    /\ permitAge' = [permitAge EXCEPT ![s] = 0]

\* A call to Redis raises: Redis is down, or one call is lost.
CallFails ==
    IF redisUp THEN redisFaults < MaxRedisFaults /\ redisFaults' = redisFaults + 1
               ELSE UNCHANGED redisFaults

\* What a call that failed at the client has done at the server: nothing, or
\* the whole script, whose answer was lost.
MaybeAddToken(s) ==
    \/ UNCHANGED <<permits, permitAge>>
    \/ redisUp /\ AddToken(s)

-----------------------------------------------------------------------------
\* The local semaphore has a free slot.
TakeSlot(s) ==
    /\ search[s] = "new"
    /\ Cardinality(InSlot(BackendOf[s])) < LocalLimit
    /\ search' = [search EXCEPT ![s] = "acquiring"]
    /\ UNCHANGED <<token, permits, permitAge, heldFor, waited, redisUp, redisFaults>>

\* The script returns 1.
AcquirePermit(s) ==
    /\ search[s] = "acquiring"
    /\ redisUp
    /\ AddToken(s)
    /\ search' = [search EXCEPT ![s] = "running"]
    /\ token' = token \cup {s}
    /\ heldFor' = [heldFor EXCEPT ![s] = 0]
    /\ UNCHANGED <<waited, redisUp, redisFaults>>

\* The script returns 0 and the deadline has passed: run without a permit.
WaitTimesOut(s) ==
    /\ search[s] = "acquiring"
    /\ redisUp
    /\ ~Room
    /\ waited[s] = WaitTimeout
    /\ search' = [search EXCEPT ![s] = "running"]
    /\ UNCHANGED <<token, permits, permitAge, heldFor, waited, redisUp, redisFaults>>

\* The call to Redis raises: run without a permit.
AcquireFails(s) ==
    /\ search[s] = "acquiring"
    /\ CallFails
    /\ MaybeAddToken(s)
    /\ search' = [search EXCEPT ![s] = "running"]
    /\ UNCHANGED <<token, heldFor, waited, redisUp>>

\* The search is cancelled inside the call: nothing releases a token that the
\* script may have added.
CancelledAcquiring(s) ==
    /\ search[s] = "acquiring"
    /\ redisFaults < MaxRedisFaults
    /\ redisFaults' = redisFaults + 1
    /\ MaybeAddToken(s)
    /\ search' = [search EXCEPT ![s] = "over"]
    /\ UNCHANGED <<token, heldFor, waited, redisUp>>

\* The search is done, or cancelled: _release_global if it has a token.
ReleasePermit(s) ==
    /\ search[s] = "running"
    /\ redisUp \/ s \notin token
    /\ search' = [search EXCEPT ![s] = "over"]
    /\ permits' = IF s \in token THEN permits \ {s} ELSE permits
    /\ token' = token \ {s}
    /\ UNCHANGED <<permitAge, heldFor, waited, redisUp, redisFaults>>

\* zrem fails, and is only logged.
ReleaseFails(s) ==
    /\ search[s] = "running"
    /\ s \in token
    /\ CallFails
    /\ search' = [search EXCEPT ![s] = "over"]
    /\ token' = token \ {s}
    /\ UNCHANGED <<permits, permitAge, heldFor, waited, redisUp>>

\* A backend process dies with its searches; their tokens stay.
BackendCrashes(b) ==
    /\ InSlot(b) # {}
    /\ redisFaults < MaxRedisFaults
    /\ redisFaults' = redisFaults + 1
    /\ search' = [s \in Searches |-> IF s \in InSlot(b) THEN "over" ELSE search[s]]
    /\ token' = token \ InSlot(b)
    /\ UNCHANGED <<permits, permitAge, heldFor, waited, redisUp>>

\* Redis goes down, or comes back with its data.
RedisFlips ==
    /\ redisFaults < MaxRedisFaults
    /\ redisFaults' = redisFaults + 1
    /\ redisUp' = ~redisUp
    /\ UNCHANGED <<search, token, permits, permitAge, heldFor, waited>>

UpTo(n, limit) == IF n < limit THEN n + 1 ELSE n

\* Time passes.
PermitsTick ==
    /\ permitAge' = [s \in Searches |-> IF s \in permits
                                        THEN UpTo(permitAge[s], PermitTtl)
                                        ELSE permitAge[s]]
    /\ heldFor' = [s \in Searches |-> IF s \in token
                                      THEN UpTo(heldFor[s], PermitTtl)
                                      ELSE heldFor[s]]
    /\ waited' = [s \in Searches |-> IF search[s] = "acquiring"
                                     THEN UpTo(waited[s], WaitTimeout)
                                     ELSE waited[s]]
    /\ UNCHANGED <<search, token, permits, redisUp, redisFaults>>

PermitsNext ==
    \/ \E s \in Searches :
          \/ TakeSlot(s)
          \/ AcquirePermit(s)
          \/ WaitTimesOut(s)
          \/ AcquireFails(s)
          \/ CancelledAcquiring(s)
          \/ ReleasePermit(s)
          \/ ReleaseFails(s)
    \/ \E b \in Backends : BackendCrashes(b)
    \/ RedisFlips
    \/ PermitsTick

\* Time passes and a search that waits keeps calling Redis, with one outcome or
\* another.  A search may run for ever, and Redis may stay down.
PermitsFairness ==
    /\ WF_permitVars(PermitsTick)
    /\ \A s \in Searches :
          WF_permitVars(AcquirePermit(s) \/ WaitTimesOut(s) \/ (~redisUp /\ AcquireFails(s)))

PermitsSpec == PermitsInit /\ [][PermitsNext]_permitVars /\ PermitsFairness

-----------------------------------------------------------------------------
(* Properties.                                                             *)

\* Searches that hold a token they took less than PermitTtl ago.
FreshHolders == {s \in token : heldFor[s] < PermitTtl}

\* The cluster-wide cap: whatever is lost, cancelled or crashes, the searches
\* that were granted a permit within the last PermitTtl are at most
\* GlobalLimit.  Those that run beyond it outlived their token, timed out
\* waiting or could not reach Redis.
PermitsBounded == Cardinality(FreshHolders) <= GlobalLimit

\* Such a permit is still in the sorted set: no prune, no release by another
\* search and no crash takes it from its holder before its time.
GrantsAreCounted == FreshHolders \subseteq permits

\* "Redis must never wedge search" (gpu_semaphore.py:85): a search that waits
\* for a permit stops waiting, though every holder may run for ever, every token
\* may have been left behind and Redis may be down for good.
SearchNotWedged ==
    \A s \in Searches : (search[s] = "acquiring") ~> (search[s] # "acquiring")

\* The cap holds, and it never holds a search up for good.
PermitsAreKept == [](PermitsBounded /\ GrantsAreCounted) /\ SearchNotWedged
=============================================================================
