----------------------------- MODULE RateLimiter -----------------------------
(***************************************************************************)
(* The fixed-window rate limiter (internal/middleware/ratelimit.go): every *)
(* request of a client is counted by an INCR of the client's Redis key, an *)
(* EXPIRE NX gives the key a TTL if it has none, and a request over the    *)
(* limit asks for the TTL to answer 429 with Retry-After.  The three       *)
(* commands are separate calls: other requests, and time, come between     *)
(* them.  Redis may fail each of them, go-redis retries an INCR whose      *)
(* reply is lost, and an API process may die with its requests.            *)
(***************************************************************************)
EXTENDS Clock, FiniteSets

CONSTANTS
    Keys,        \* Redis keys, one per limiter and client
    Requests,    \* requests, each sent once
    Limit,       \* requests per window
    Window,      \* length of the window in ticks
    PerSecond,   \* ticks of a second
    MaxFaults    \* bound on Redis errors, lost replies and deaths

ASSUME LimiterAssumption ==
    /\ Limit \in Nat \ {0}
    /\ Window \in Nat \ {0}
    /\ PerSecond \in Nat \ {0}

VARIABLES
    counters,    \* Redis: key -> counter
    calls,       \* how far the middleware is with each request
    faults       \* faults so far

limiterVars == <<counters, calls, faults>>
redisVars == <<now, counters, calls, faults>>

(* A key without TTL, and the key of a request that has none yet. *)
Never == -1
NoKey == <<>>

(* born is history: the time of the INCR that created the key. *)
Counters == [n : Nat, expires : Nat \cup {Never}, born : Nat]
NoCounter == [n |-> 0, expires |-> Never, born |-> 0]

Exists(k) == counters[k].n > 0

(* n is what INCR returned, 0 if the request was not counted.  at, born and *)
(* expired are history: when it was counted, in which window, and whether  *)
(* Redis has executed its EXPIRE.                                          *)
Stages == {"new", "incr", "expire", "ttl", "passed", "rejected", "dead"}
Calls == [pc : Stages, key : Keys \cup {NoKey}, n : Nat, at : Nat, born : Nat,
          expired : BOOLEAN, retryAfter : Nat]
NewCall == [pc |-> "new", key |-> NoKey, n |-> 0, at |-> 0, born |-> 0,
            expired |-> FALSE, retryAfter |-> 0]

At(r, pc) == calls[r].pc = pc

LimiterInit ==
    /\ ClockInit
    /\ counters = [k \in Keys |-> NoCounter]
    /\ calls = [r \in Requests |-> NewCall]
    /\ faults = 0

Fault ==
    /\ faults < MaxFaults
    /\ faults' = faults + 1

-----------------------------------------------------------------------------
(* The keyer has found the client's key. *)
Arrive(r, k) ==
    /\ At(r, "new")
    /\ calls' = [calls EXCEPT ![r].pc = "incr", ![r].key = k]
    /\ UNCHANGED <<counters, faults>>

(* Redis' INCR, which creates a missing key without TTL. *)
Incremented(k) ==
    [n |-> counters[k].n + 1,
     expires |-> counters[k].expires,
     born |-> IF Exists(k) THEN counters[k].born ELSE now]

Incr(r) ==
    LET k == calls[r].key
    IN  /\ At(r, "incr")
        /\ counters' = [counters EXCEPT ![k] = Incremented(k)]
        /\ calls' = [calls EXCEPT ![r].pc = "expire",
                                  ![r].n = Incremented(k).n,
                                  ![r].at = now,
                                  ![r].born = Incremented(k).born]
        /\ UNCHANGED faults

(* The reply is lost; go-redis sends the command again, or gives up. *)
LoseIncrReply(r) ==
    LET k == calls[r].key
    IN  /\ At(r, "incr")
        /\ Fault
        /\ counters' = [counters EXCEPT ![k] = Incremented(k)]
        /\ UNCHANGED calls

(* Fail open. *)
IncrFails(r) ==
    /\ At(r, "incr")
    /\ Fault
    /\ calls' = [calls EXCEPT ![r].pc = "passed"]
    /\ UNCHANGED counters

MutantVerdictByGet(r) ==
    IF counters[calls[r].key].n > Limit THEN "ttl" ELSE "passed"

MutantRefuseAtLimit(r) == IF calls[r].n >= Limit THEN "ttl" ELSE "passed"

Verdict(r) == IF calls[r].n > Limit THEN "ttl" ELSE "passed"

MutantExpireAlways(k) ==
    IF Exists(k) THEN [counters[k] EXCEPT !.expires = now + Window] ELSE counters[k]

(* Redis' EXPIRE NX: sets a TTL on a key that exists and has none. *)
WithTTL(k) ==
    IF Exists(k) /\ counters[k].expires = Never
    THEN [counters[k] EXCEPT !.expires = now + Window]
    ELSE counters[k]

MutantExpireIfFirst(r) ==
    LET k == calls[r].key
    IN  /\ At(r, "expire")
        /\ counters' = [counters EXCEPT ![k] = IF calls[r].n = 1 THEN WithTTL(k) ELSE @]
        /\ calls' = [calls EXCEPT ![r].pc = Verdict(r), ![r].expired = TRUE]
        /\ UNCHANGED faults

ExpireNX(r) ==
    LET k == calls[r].key
    IN  /\ At(r, "expire")
        /\ counters' = [counters EXCEPT ![k] = WithTTL(k)]
        /\ calls' = [calls EXCEPT ![r].pc = Verdict(r), ![r].expired = TRUE]
        /\ UNCHANGED faults

(* The error is not looked at. *)
ExpireFails(r) ==
    /\ At(r, "expire")
    /\ Fault
    /\ calls' = [calls EXCEPT ![r].pc = Verdict(r)]
    /\ UNCHANGED counters

(* Redis' TTL answers in whole seconds, rounded; -1 without a TTL and -2   *)
(* without a key.                                                          *)
TTL(k) ==
    IF ~ Exists(k) THEN -2
    ELSE IF counters[k].expires = Never THEN -1
    ELSE (2 * (counters[k].expires - now) + PerSecond) \div (2 * PerSecond)

WindowSeconds == Window \div PerSecond

(* Only a positive answer is used.  It is a whole second at least, so that *)
(* the code's bump of fractions to one second never applies.               *)
RetryAfter(ttl) == IF ttl > 0 THEN ttl ELSE WindowSeconds

AskTTL(r) ==
    /\ At(r, "ttl")
    /\ calls' = [calls EXCEPT ![r].pc = "rejected",
                              ![r].retryAfter = RetryAfter(TTL(calls[r].key))]
    /\ UNCHANGED <<counters, faults>>

TTLFails(r) ==
    /\ At(r, "ttl")
    /\ Fault
    /\ calls' = [calls EXCEPT ![r].pc = "rejected", ![r].retryAfter = WindowSeconds]
    /\ UNCHANGED counters

(* The process that handles the request dies. *)
Die(r) ==
    /\ calls[r].pc \in {"incr", "expire", "ttl"}
    /\ Fault
    /\ calls' = [calls EXCEPT ![r].pc = "dead"]
    /\ UNCHANGED counters

(* Keys whose TTL has run out are gone. *)
Tick ==
    /\ Advance
    /\ counters' = [k \in Keys |-> IF counters[k].expires = now'
                                   THEN NoCounter ELSE counters[k]]
    /\ UNCHANGED <<calls, faults>>

Handle(r) ==
    \/ Incr(r)
    \/ LoseIncrReply(r)
    \/ IncrFails(r)
    \/ ExpireNX(r)
    \/ ExpireFails(r)
    \/ AskTTL(r)
    \/ TTLFails(r)
    \/ Die(r)

LimiterNext ==
    \/ \E r \in Requests : \/ \E k \in Keys : Arrive(r, k) /\ UNCHANGED now
                           \/ Handle(r) /\ UNCHANGED now
    \/ Tick

LimiterSpec == LimiterInit /\ [][LimiterNext]_redisVars

-----------------------------------------------------------------------------
(* The clock, the counters and the calls have their types. *)
LimiterTypeOK ==
    /\ now \in Nat
    /\ counters \in [Keys -> Counters]
    /\ calls \in [Requests -> Calls]
    /\ faults \in Nat
    /\ \A r \in Requests : ~ At(r, "new") => calls[r].key \in Keys

Counted(r, k) == calls[r].key = k /\ calls[r].n > 0

(* Requests of a client that were let through, counted from time t on for  *)
(* the length of a window.  Fail-open requests are not counted.            *)
LetThrough(k, t) ==
    {r \in Requests : /\ Counted(r, k)
                      /\ At(r, "passed")
                      /\ t <= calls[r].at /\ calls[r].at < t + Window}

(* The burst across a boundary is the worst case (ratelimit.go:18-24, where *)
(* it is "an effective 2N"): whatever requests race, fail or die, an        *)
(* interval as long as a window lets less than twice the limit in.  It is  *)
(* 2N - 1, since a window begins with its first request and not at a       *)
(* minute of the clock: N at its end and N after it span more than it.     *)
BurstIsBounded ==
    \A k \in Keys : \A t \in 0..now :
        /\ IsFiniteSet(LetThrough(k, t))
        /\ Cardinality(LetThrough(k, t)) < 2 * Limit

(* Nobody is refused for the requests of others or of an earlier window:   *)
(* a refused request is one of more than the limit that its client sent    *)
(* since the key was created, up to an INCR sent again for a lost reply.   *)
RefusalIsEarned ==
    \A r \in Requests :
        At(r, "rejected")
            => LET sent == {q \in Requests : /\ Counted(q, calls[r].key)
                                            /\ calls[q].born = calls[r].born}
               IN  Cardinality(sent) + faults > Limit

(* One EXPIRE that Redis executes is enough, whichever request of the      *)
(* window it is of: a counter that a dead request has left without TTL is  *)
(* repaired by the next one, and no client stays locked out for good.      *)
ExpireHeals ==
    \A k \in Keys, r \in Requests :
        Counted(r, k) /\ calls[r].expired /\ Exists(k) /\ calls[r].born = counters[k].born
            => counters[k].expires # Never

(* However many requests a client goes on sending, they do not put off the *)
(* end of its window.                                                      *)
WindowIsNotExtended ==
    [][\A k \in Keys :
          counters[k].expires # Never
             => \/ counters'[k].expires = counters[k].expires
                \/ now' = counters[k].expires /\ ~ Exists(k)']_redisVars

-----------------------------------------------------------------------------
(* ratelimit.go:106-108: "Retry-After MUST reflect the actual remaining    *)
(* seconds until reset — hardcoding the window length would tell a         *)
(* well-behaved client to back off longer than necessary".  Of a TTL       *)
(* shorter than a second the client is told a second.                      *)
RetryAfterIsRemaining ==
    [][\A r \in Requests :
          AskTTL(r) => LET k == calls[r].key
                           remaining == IF Exists(k) THEN counters[k].expires - now ELSE 0
                           retry == calls'[r].retryAfter
                       IN  \/ Exists(k) /\ counters[k].expires = Never
                           \/ retry = 1
                           \/ (retry - 1) * PerSecond < remaining]_redisVars
=============================================================================
