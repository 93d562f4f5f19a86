-------------------------- MODULE RateLimiterProofs --------------------------
(***************************************************************************)
(* Proofs about RateLimiter, for any number of clients, requests and       *)
(* faults, any limit and any window: the burst across a boundary is the    *)
(* worst case, one EXPIRE repairs a counter, a window ends when it was to  *)
(* end, and nobody is refused for less than the limit.                     *)
(***************************************************************************)
EXTENDS RateLimiter, FiniteSetTheorems, TLAPS

(* What a request knows at each stage. *)
CallsAreSound ==
    \A r \in Requests :
        /\ calls[r].pc \in {"new", "incr"} => calls[r].n = 0 /\ ~ calls[r].expired
        /\ calls[r].pc \in {"expire", "ttl"} => calls[r].n > 0
        /\ calls[r].pc = "passed" => calls[r].n <= Limit
        /\ calls[r].n > 0 => /\ calls[r].born <= calls[r].at
                             /\ calls[r].at <= now
                             /\ calls[r].n = 1 => calls[r].at = calls[r].born

(* A counter with a TTL lives for a window at least, and is not overdue.   *)
CountersAreSound ==
    \A k \in Keys :
        /\ counters[k].born <= now
        /\ ~ Exists(k) => counters[k].expires = Never
        /\ counters[k].expires # Never => /\ counters[k].born + Window <= counters[k].expires
                                          /\ now < counters[k].expires

(* A counted request belongs to the window of the counter there is, or to  *)
(* one that began a window's length before it and has ended.               *)
WindowsAreApart ==
    \A r \in Requests, k \in Keys :
        Counted(r, k) =>
            IF Exists(k)
            THEN \/ calls[r].born = counters[k].born /\ calls[r].n <= counters[k].n
                 \/ calls[r].born + Window <= counters[k].born /\ calls[r].at < counters[k].born
            ELSE calls[r].born + Window <= now /\ calls[r].at < now

Earlier(r, s) ==
    calls[r].born + Window <= calls[s].born /\ calls[r].at < calls[s].born

(* INCR gives no number twice within a window.                             *)
OrdinalsDiffer ==
    \A r, s \in Requests :
        (r # s /\ calls[r].key = calls[s].key /\ calls[r].n > 0 /\ calls[s].n > 0)
            => \/ calls[r].born = calls[s].born /\ calls[r].n # calls[s].n
               \/ Earlier(r, s)
               \/ Earlier(s, r)

LimiterInv ==
    /\ LimiterTypeOK
    /\ CallsAreSound
    /\ CountersAreSound
    /\ WindowsAreApart
    /\ OrdinalsDiffer
    /\ ExpireHeals

-----------------------------------------------------------------------------
(* The steps as a flat disjunction: those that touch the counters, and     *)
(* those that only move a request on.                                      *)
MovesOn(r) ==
    /\ \/ IncrFails(r) \/ ExpireFails(r) \/ AskTTL(r) \/ TTLFails(r) \/ Die(r)
    /\ UNCHANGED now

LimiterAction ==
    \/ \E r \in Requests, k \in Keys : Arrive(r, k) /\ UNCHANGED now
    \/ \E r \in Requests : Incr(r) /\ UNCHANGED now
    \/ \E r \in Requests : LoseIncrReply(r) /\ UNCHANGED now
    \/ \E r \in Requests : ExpireNX(r) /\ UNCHANGED now
    \/ \E r \in Requests : MovesOn(r)
    \/ Tick
    \/ UNCHANGED redisVars

LEMMA LimiterCases == ASSUME [LimiterNext]_redisVars PROVE LimiterAction
BY DEF LimiterNext, LimiterAction, Handle, MovesOn

(* Retry-After is a number of seconds.                                     *)
LEMMA RetryAfterIsNat ==
    ASSUME LimiterTypeOK, NEW k \in Keys
    PROVE  /\ WindowSeconds \in Nat
           /\ RetryAfter(TTL(k)) \in Nat
<1> USE LimiterAssumption
<1>1. WindowSeconds \in Nat
  BY DEF WindowSeconds
<1>2. TTL(k) \in Int
  <2>1. counters[k] \in Counters
    BY DEF LimiterTypeOK
  <2>2. counters[k].expires \in Int /\ now \in Int
    BY <2>1 DEF Counters, Never, LimiterTypeOK
  <2>3. 2 * (counters[k].expires - now) + PerSecond \in Int /\ 2 * PerSecond \in Nat \ {0}
    BY <2>2
  <2>4. (2 * (counters[k].expires - now) + PerSecond) \div (2 * PerSecond) \in Int
    BY <2>3
  <2> QED BY <2>4 DEF TTL
<1> QED BY <1>1, <1>2 DEF RetryAfter

(* What moving a request on leaves alone.                                  *)
LEMMA MovesOnFacts ==
    ASSUME LimiterTypeOK, CallsAreSound, NEW r \in Requests, MovesOn(r)
    PROVE  /\ UNCHANGED <<counters, now>>
           /\ calls' \in [Requests -> Calls]
           /\ faults' \in Nat
           /\ calls[r].pc # "new"
           /\ calls'[r].pc \in {"passed", "ttl", "rejected", "dead"}
           /\ calls'[r].pc = "ttl" => calls[r].n > 0
           /\ calls'[r].pc = "passed" => calls[r].n <= Limit
           /\ \A s \in Requests :
                 /\ calls'[s].key = calls[s].key
                 /\ calls'[s].n = calls[s].n
                 /\ calls'[s].at = calls[s].at
                 /\ calls'[s].born = calls[s].born
                 /\ calls'[s].expired = calls[s].expired
                 /\ s # r => calls'[s] = calls[s]
<1> USE LimiterAssumption
<1>0. calls \in [Requests -> Calls] /\ faults \in Nat /\ calls[r] \in Calls
  BY DEF LimiterTypeOK
<1>1. UNCHANGED <<counters, now>> /\ faults' \in Nat
  BY <1>0 DEF MovesOn, IncrFails, ExpireFails, AskTTL, TTLFails, Die, Fault
<1>2. CASE IncrFails(r)
  <2>1. calls' = [calls EXCEPT ![r].pc = "passed"] /\ calls[r].pc = "incr"
    BY <1>2 DEF IncrFails, At
  <2>2. calls[r].n = 0
    BY <2>1 DEF CallsAreSound
  <2> QED BY <1>0, <1>1, <2>1, <2>2 DEF Calls, Stages
<1>3. CASE ExpireFails(r)
  <2>1. calls' = [calls EXCEPT ![r].pc = Verdict(r)] /\ calls[r].pc = "expire"
    BY <1>3 DEF ExpireFails, At
  <2>2. calls[r].n > 0 /\ calls[r].n \in Nat
    BY <1>0, <2>1 DEF CallsAreSound, Calls
  <2> QED BY <1>0, <1>1, <2>1, <2>2 DEF Calls, Stages, Verdict
<1>4. CASE AskTTL(r) \/ TTLFails(r)
  <2>1. calls[r].pc = "ttl" /\ calls[r].key \in Keys
    BY <1>4 DEF AskTTL, TTLFails, At, LimiterTypeOK
  <2>2. PICK x \in Nat : calls' = [calls EXCEPT ![r].pc = "rejected", ![r].retryAfter = x]
    BY <1>4, <2>1, RetryAfterIsNat DEF AskTTL, TTLFails
  <2>3. calls' \in [Requests -> Calls]
    BY <1>0, <2>2 DEF Calls, Stages
  <2>4. calls'[r].pc = "rejected"
    BY <1>0, <2>2 DEF Calls
  <2> QED BY <1>0, <1>1, <2>1, <2>2, <2>3, <2>4 DEF Calls
<1>5. CASE Die(r)
  <2>1. calls' = [calls EXCEPT ![r].pc = "dead"] /\ calls[r].pc # "new"
    BY <1>5 DEF Die
  <2> QED BY <1>0, <1>1, <2>1 DEF Calls, Stages
<1> QED BY <1>2, <1>3, <1>4, <1>5 DEF MovesOn

(* What counting a request does.                                           *)
LEMMA CountFacts ==
    ASSUME LimiterTypeOK, CountersAreSound, NEW k \in Keys
    PROVE  LET c == Incremented(k)
           IN  /\ c \in Counters
               /\ c.n \in Nat \ {0}
               /\ c.expires = counters[k].expires
               /\ Exists(k) => c.n = counters[k].n + 1 /\ c.born = counters[k].born
               /\ ~ Exists(k) => c.n = 1 /\ c.born = now /\ c.expires = Never
<1>1. counters[k] \in Counters /\ now \in Nat
  BY DEF LimiterTypeOK
<1>2. ~ Exists(k) => counters[k].n = 0 /\ counters[k].expires = Never
  BY <1>1 DEF Exists, Counters, CountersAreSound
<1>3. /\ counters[k].n \in Nat /\ counters[k].born \in Nat
      /\ counters[k].expires \in Nat \cup {Never}
  BY <1>1 DEF Counters
<1>4. Incremented(k) \in Counters
  BY <1>1, <1>3 DEF Incremented, Counters
<1> QED BY <1>2, <1>3, <1>4 DEF Incremented

(* What EXPIRE NX does.                                                    *)
LEMMA WithTTLFacts ==
    ASSUME LimiterTypeOK, NEW k \in Keys
    PROVE  LET c == WithTTL(k)
           IN  /\ c \in Counters
               /\ c.n = counters[k].n
               /\ c.born = counters[k].born
               /\ ~ Exists(k) => c = counters[k]
               /\ counters[k].expires # Never => c = counters[k]
               /\ Exists(k) /\ counters[k].expires = Never => c.expires = now + Window
<1>1. counters[k] \in Counters /\ now \in Nat
  BY DEF LimiterTypeOK
<1> QED BY <1>1, LimiterAssumption DEF WithTTL, Counters

(* Types. *)
LEMMA LimiterTypeStep ==
    LimiterTypeOK /\ CallsAreSound /\ CountersAreSound /\ [LimiterNext]_redisVars
        => LimiterTypeOK'
<1> SUFFICES ASSUME LimiterTypeOK, CallsAreSound, CountersAreSound, [LimiterNext]_redisVars
             PROVE  LimiterTypeOK'
  OBVIOUS
<1>0. /\ counters \in [Keys -> Counters]
      /\ calls \in [Requests -> Calls]
      /\ now \in Nat
      /\ faults \in Nat
      /\ \A r \in Requests : calls[r].pc # "new" => calls[r].key \in Keys
  BY DEF LimiterTypeOK, At
<1>1. ASSUME NEW r \in Requests, NEW k \in Keys, Arrive(r, k), UNCHANGED now
      PROVE  LimiterTypeOK'
  <2> DEFINE c == [calls[r] EXCEPT !.pc = "incr", !.key = k]
  <2>1. calls' = [calls EXCEPT ![r] = c]
    BY <1>1 DEF Arrive
  <2>2. c \in Calls /\ c.key \in Keys
    BY <1>0 DEF Calls, Stages
  <2> HIDE DEF c
  <2>3. calls' \in [Requests -> Calls]
    BY <1>0, <2>1, <2>2
  <2>4. \A s \in Requests : calls'[s].pc # "new" => calls'[s].key \in Keys
    BY <1>0, <2>1, <2>2
  <2> QED BY <1>0, <1>1, <2>3, <2>4 DEF Arrive, LimiterTypeOK, At
<1>2. ASSUME NEW r \in Requests, Incr(r), UNCHANGED now
      PROVE  LimiterTypeOK'
  <2> DEFINE k == calls[r].key
  <2>1. k \in Keys
    BY <1>0, <1>2 DEF Incr, At
  <2>2. Incremented(k) \in Counters
    BY <2>1, CountFacts
  <2>3. counters' \in [Keys -> Counters]
    BY <1>0, <1>2, <2>1, <2>2 DEF Incr
  <2>4. Incremented(k).n \in Nat /\ Incremented(k).born \in Nat
    BY <2>2 DEF Counters
  <2> DEFINE c == [calls[r] EXCEPT !.pc = "expire", !.n = Incremented(k).n, !.at = now,
                                   !.born = Incremented(k).born]
  <2>7. c \in Calls
    BY <1>0, <2>4 DEF Calls, Stages
  <2>8. calls' = [calls EXCEPT ![r] = c]
    BY <1>2 DEF Incr
  <2>5. calls' \in [Requests -> Calls]
    <3> HIDE DEF c
    <3> QED BY <1>0, <2>7, <2>8
  <2>6. \A s \in Requests : calls'[s].pc # "new" => calls'[s].key \in Keys
    BY <1>0, <1>2, <2>1 DEF Incr, Calls
  <2> QED BY <1>0, <1>2, <2>3, <2>5, <2>6 DEF Incr, LimiterTypeOK, At
<1>3. ASSUME NEW r \in Requests, LoseIncrReply(r), UNCHANGED now
      PROVE  LimiterTypeOK'
  <2> DEFINE k == calls[r].key
  <2>1. k \in Keys
    BY <1>0, <1>3 DEF LoseIncrReply, At
  <2>2. Incremented(k) \in Counters
    BY <2>1, CountFacts
  <2>3. counters' \in [Keys -> Counters]
    BY <1>0, <1>3, <2>1, <2>2 DEF LoseIncrReply
  <2> QED BY <1>0, <1>3, <2>3 DEF LoseIncrReply, Fault, LimiterTypeOK, At
<1>4. ASSUME NEW r \in Requests, ExpireNX(r), UNCHANGED now
      PROVE  LimiterTypeOK'
  <2> DEFINE k == calls[r].key
  <2>1. k \in Keys
    BY <1>0, <1>4 DEF ExpireNX, At
  <2>2. WithTTL(k) \in Counters
    BY <2>1, WithTTLFacts
  <2>3. counters' \in [Keys -> Counters]
    BY <1>0, <1>4, <2>1, <2>2 DEF ExpireNX
  <2> DEFINE c == [calls[r] EXCEPT !.pc = Verdict(r), !.expired = TRUE]
  <2>6. c \in Calls
    BY <1>0 DEF Calls, Stages, Verdict
  <2>7. calls' = [calls EXCEPT ![r] = c]
    BY <1>4 DEF ExpireNX
  <2>4. calls' \in [Requests -> Calls]
    <3> HIDE DEF c
    <3> QED BY <1>0, <2>6, <2>7
  <2>5. \A s \in Requests : calls'[s].pc # "new" => calls'[s].key \in Keys
    BY <1>0, <1>4, <2>1 DEF ExpireNX, Calls
  <2> QED BY <1>0, <1>4, <2>3, <2>4, <2>5 DEF ExpireNX, LimiterTypeOK, At
<1>5. ASSUME NEW r \in Requests, MovesOn(r)
      PROVE  LimiterTypeOK'
  BY <1>0, <1>5, MovesOnFacts DEF LimiterTypeOK, At
<1>6. CASE Tick
  <2>1. now' \in Nat
    BY <1>0, <1>6 DEF Tick, Advance
  <2>2. counters' \in [Keys -> Counters]
    BY <1>0, <1>6 DEF Tick, NoCounter, Counters, Never
  <2> QED BY <1>0, <1>6, <2>1, <2>2 DEF Tick, LimiterTypeOK, At
<1>7. CASE UNCHANGED redisVars
  BY <1>0, <1>7 DEF redisVars, LimiterTypeOK, At
<1> QED BY <1>1, <1>2, <1>3, <1>4, <1>5, <1>6, <1>7, LimiterCases DEF LimiterAction

(* Requests know what they did. *)
LEMMA CallsStep ==
    LimiterTypeOK /\ CallsAreSound /\ CountersAreSound /\ [LimiterNext]_redisVars
        => CallsAreSound'
<1> SUFFICES ASSUME LimiterTypeOK, CallsAreSound, CountersAreSound, [LimiterNext]_redisVars
             PROVE  CallsAreSound'
  OBVIOUS
<1> USE LimiterAssumption
<1>0. /\ calls \in [Requests -> Calls]
      /\ now \in Nat
      /\ \A r \in Requests : calls[r].pc # "new" => calls[r].key \in Keys
  BY DEF LimiterTypeOK, At
<1>1. ASSUME NEW r \in Requests, NEW k \in Keys, Arrive(r, k), UNCHANGED now
      PROVE  CallsAreSound'
  BY <1>0, <1>1 DEF Arrive, CallsAreSound, Calls, At
<1>2. ASSUME NEW r \in Requests, Incr(r), UNCHANGED now
      PROVE  CallsAreSound'
  <2> DEFINE c == Incremented(calls[r].key)
  <2>1. calls[r].key \in Keys
    BY <1>0, <1>2 DEF Incr, At
  <2>2. c.n \in Nat \ {0} /\ c.born \in Nat /\ c.born <= now /\ (c.n = 1 => c.born = now)
    <3>1. counters[calls[r].key] \in Counters
      BY <2>1 DEF LimiterTypeOK
    <3> QED BY <1>0, <2>1, <3>1, CountFacts DEF CountersAreSound, Counters, Exists
  <2>3. calls' = [calls EXCEPT ![r].pc = "expire", ![r].n = c.n, ![r].at = now, ![r].born = c.born]
    BY <1>2 DEF Incr
  <2>4. calls'[r].pc = "expire" /\ calls'[r].n = c.n /\ calls'[r].at = now /\ calls'[r].born = c.born
    BY <1>0, <2>3 DEF Calls
  <2>5. \A s \in Requests : s # r => calls'[s] = calls[s]
    BY <1>0, <2>3
  <2> HIDE DEF c
  <2> QED BY <1>0, <1>2, <2>2, <2>4, <2>5 DEF CallsAreSound
<1>3. ASSUME NEW r \in Requests, LoseIncrReply(r), UNCHANGED now
      PROVE  CallsAreSound'
  BY <1>3 DEF LoseIncrReply, CallsAreSound
<1>4. ASSUME NEW r \in Requests, ExpireNX(r), UNCHANGED now
      PROVE  CallsAreSound'
  <2>1. calls' = [calls EXCEPT ![r].pc = Verdict(r), ![r].expired = TRUE] /\ calls[r].pc = "expire"
    BY <1>4 DEF ExpireNX, At
  <2>2. calls[r].n > 0 /\ calls[r].n \in Nat
    BY <1>0, <2>1 DEF CallsAreSound, Calls
  <2>3. \A s \in Requests : /\ calls'[s].n = calls[s].n
                            /\ calls'[s].at = calls[s].at
                            /\ calls'[s].born = calls[s].born
                            /\ s # r => calls'[s] = calls[s]
    BY <1>0, <2>1 DEF Calls
  <2>4. calls'[r].pc = Verdict(r)
    BY <1>0, <2>1 DEF Calls
  <2> QED BY <1>4, <2>2, <2>3, <2>4 DEF CallsAreSound, Verdict
<1>5. ASSUME NEW r \in Requests, MovesOn(r)
      PROVE  CallsAreSound'
  <2> USE MovesOnFacts, <1>5
  <2>1. ASSUME NEW s \in Requests, calls'[s].pc \in {"new", "incr"}
        PROVE  calls'[s].n = 0 /\ ~ calls'[s].expired
    BY <2>1 DEF CallsAreSound
  <2>2. ASSUME NEW s \in Requests, calls'[s].pc \in {"expire", "ttl"}
        PROVE  calls'[s].n > 0
    BY <2>2 DEF CallsAreSound
  <2>3. ASSUME NEW s \in Requests, calls'[s].pc = "passed"
        PROVE  calls'[s].n <= Limit
    BY <2>3 DEF CallsAreSound
  <2>4. ASSUME NEW s \in Requests, calls'[s].n > 0
        PROVE  /\ calls'[s].born <= calls'[s].at
               /\ calls'[s].at <= now'
               /\ calls'[s].n = 1 => calls'[s].at = calls'[s].born
    BY <2>4 DEF CallsAreSound
  <2> QED BY <2>1, <2>2, <2>3, <2>4 DEF CallsAreSound
<1>6. CASE Tick
  BY <1>0, <1>6 DEF Tick, Advance, CallsAreSound, Calls
<1>7. CASE UNCHANGED redisVars
  BY <1>7 DEF redisVars, CallsAreSound
<1> QED BY <1>1, <1>2, <1>3, <1>4, <1>5, <1>6, <1>7, LimiterCases DEF LimiterAction

(* A request that is counted, and the one whose reply is lost.             *)
LEMMA IncrFacts ==
    ASSUME LimiterTypeOK, CallsAreSound, NEW r \in Requests, Incr(r)
    PROVE  \E k \in Keys :
               /\ k = calls[r].key
               /\ calls[r].n = 0 /\ ~ calls[r].expired
               /\ counters' = [counters EXCEPT ![k] = Incremented(k)]
               /\ calls'[r].n = Incremented(k).n
               /\ calls'[r].at = now
               /\ calls'[r].born = Incremented(k).born
               /\ calls'[r].key = k
               /\ ~ calls'[r].expired
               /\ \A s \in Requests : s # r => calls'[s] = calls[s]
<1> DEFINE k == calls[r].key
<1>1. calls \in [Requests -> Calls] /\ calls[r].pc = "incr" /\ k \in Keys
  BY DEF LimiterTypeOK, Incr, At
<1>2. calls[r].n = 0 /\ ~ calls[r].expired
  BY <1>1 DEF CallsAreSound
<1>3. calls' = [calls EXCEPT ![r].pc = "expire", ![r].n = Incremented(k).n, ![r].at = now,
                             ![r].born = Incremented(k).born]
  BY DEF Incr
<1>4. \A s \in Requests : s # r => calls'[s] = calls[s]
  BY <1>1, <1>3
<1>5. calls'[r].key = k /\ calls'[r].n = Incremented(k).n /\ calls'[r].at = now
  BY <1>1, <1>3 DEF Calls
<1>6. calls'[r].born = Incremented(k).born /\ calls'[r].expired = calls[r].expired
  BY <1>1, <1>3 DEF Calls
<1>7. counters' = [counters EXCEPT ![k] = Incremented(k)]
  BY DEF Incr
<1> QED BY <1>1, <1>2, <1>4, <1>5, <1>6, <1>7

LEMMA LostReplyFacts ==
    ASSUME LimiterTypeOK, NEW r \in Requests, LoseIncrReply(r)
    PROVE  \E k \in Keys :
               /\ k = calls[r].key
               /\ counters' = [counters EXCEPT ![k] = Incremented(k)]
               /\ UNCHANGED calls
BY DEF LimiterTypeOK, LoseIncrReply, At

LEMMA ExpireFacts ==
    ASSUME LimiterTypeOK, NEW r \in Requests, ExpireNX(r)
    PROVE  /\ \E k \in Keys : k = calls[r].key /\ counters' = [counters EXCEPT ![k] = WithTTL(k)]
           /\ calls'[r].expired = TRUE
           /\ \A s \in Requests : /\ calls'[s].key = calls[s].key
                                   /\ calls'[s].n = calls[s].n
                                   /\ calls'[s].at = calls[s].at
                                   /\ calls'[s].born = calls[s].born
                                   /\ s # r => calls'[s] = calls[s]
<1>1. calls \in [Requests -> Calls] /\ calls[r].pc = "expire" /\ calls[r].key \in Keys
  BY DEF LimiterTypeOK, ExpireNX, At
<1>2. /\ calls' = [calls EXCEPT ![r].pc = Verdict(r), ![r].expired = TRUE]
      /\ counters' = [counters EXCEPT ![calls[r].key] = WithTTL(calls[r].key)]
  BY DEF ExpireNX
<1>3. calls'[r].expired = TRUE
  BY <1>1, <1>2 DEF Calls
<1>4. \A s \in Requests : /\ calls'[s].key = calls[s].key
                          /\ calls'[s].n = calls[s].n
                          /\ calls'[s].at = calls[s].at
                          /\ calls'[s].born = calls[s].born
                          /\ s # r => calls'[s] = calls[s]
  BY <1>1, <1>2 DEF Calls
<1> QED BY <1>1, <1>2, <1>3, <1>4

(* An EXPIRE leaves what INCR said alone.                                  *)
LEMMA ExpireKeepsNumbers ==
    ASSUME LimiterTypeOK, NEW r \in Requests, ExpireNX(r), NEW s \in Requests
    PROVE  /\ calls'[s].key = calls[s].key
           /\ calls'[s].n = calls[s].n
           /\ calls'[s].at = calls[s].at
           /\ calls'[s].born = calls[s].born
           /\ s # r => calls'[s] = calls[s]
<1>1. calls \in [Requests -> Calls]
  BY DEF LimiterTypeOK
<1>2. calls' = [calls EXCEPT ![r].pc = Verdict(r), ![r].expired = TRUE]
  BY DEF ExpireNX
<1> QED BY <1>1, <1>2 DEF Calls

LEMMA MovesOnKeepsNumbers ==
    ASSUME LimiterTypeOK, CallsAreSound, NEW r \in Requests, MovesOn(r), NEW s \in Requests
    PROVE  /\ calls'[s].key = calls[s].key
           /\ calls'[s].n = calls[s].n
           /\ calls'[s].at = calls[s].at
           /\ calls'[s].born = calls[s].born
BY MovesOnFacts

LEMMA ArriveFacts ==
    ASSUME LimiterTypeOK, CallsAreSound, NEW r \in Requests, NEW k \in Keys, Arrive(r, k)
    PROVE  /\ UNCHANGED counters
           /\ calls'[r].n = 0
           /\ \A s \in Requests : s # r => calls'[s] = calls[s]
<1>1. calls \in [Requests -> Calls] /\ calls[r].pc = "new"
  BY DEF LimiterTypeOK, Arrive, At
<1>2. calls[r].n = 0
  BY <1>1 DEF CallsAreSound
<1>3. calls' = [calls EXCEPT ![r].pc = "incr", ![r].key = k] /\ UNCHANGED counters
  BY DEF Arrive
<1>4. calls'[r].n = calls[r].n
  BY <1>1, <1>3 DEF Calls
<1> QED BY <1>1, <1>2, <1>3, <1>4

-----------------------------------------------------------------------------
(* Counters. *)
LEMMA IncrementKeepsCounters ==
    ASSUME LimiterTypeOK, CountersAreSound, NEW k \in Keys, UNCHANGED now,
           counters' = [counters EXCEPT ![k] = Incremented(k)]
    PROVE  CountersAreSound'
<1> DEFINE c == Incremented(k)
<1>1. /\ c \in Counters
      /\ c.n \in Nat \ {0}
      /\ c.expires = counters[k].expires
      /\ Exists(k) => c.born = counters[k].born
      /\ ~ Exists(k) => c.born = now /\ c.expires = Never
  BY CountFacts
<1>2. counters \in [Keys -> Counters] /\ now \in Nat
  BY DEF LimiterTypeOK
<1>3. counters'[k] = c /\ \A j \in Keys : j # k => counters'[j] = counters[j]
  BY <1>2
<1> HIDE DEF c
<1>4. c.born <= now /\ c.n > 0
  BY <1>1, <1>2 DEF CountersAreSound
<1>5. c.expires # Never => c.born + Window <= c.expires /\ now < c.expires
  BY <1>1 DEF CountersAreSound
<1> QED BY <1>3, <1>4, <1>5 DEF CountersAreSound, Exists

LEMMA CountersStep ==
    LimiterTypeOK /\ CallsAreSound /\ CountersAreSound /\ [LimiterNext]_redisVars
        => CountersAreSound'
<1> SUFFICES ASSUME LimiterTypeOK, CallsAreSound, CountersAreSound, [LimiterNext]_redisVars
             PROVE  CountersAreSound'
  OBVIOUS
<1> USE LimiterAssumption
<1>0. counters \in [Keys -> Counters] /\ now \in Nat
  BY DEF LimiterTypeOK
<1>1. CASE UNCHANGED <<counters, now>>
  BY <1>1 DEF CountersAreSound, Exists
<1>2. ASSUME NEW r \in Requests, Incr(r) \/ LoseIncrReply(r), UNCHANGED now
      PROVE  CountersAreSound'
  BY <1>2, IncrFacts, LostReplyFacts, IncrementKeepsCounters
<1>3. ASSUME NEW r \in Requests, ExpireNX(r), UNCHANGED now
      PROVE  CountersAreSound'
  <2>1. PICK k \in Keys : counters' = [counters EXCEPT ![k] = WithTTL(k)]
    BY <1>3, ExpireFacts
  <2> DEFINE c == WithTTL(k)
  <2>2. /\ c.n = counters[k].n
        /\ c.born = counters[k].born
        /\ ~ Exists(k) => c = counters[k]
        /\ counters[k].expires # Never => c = counters[k]
        /\ Exists(k) /\ counters[k].expires = Never => c.expires = now + Window
    BY <2>1, WithTTLFacts
  <2>3. counters'[k] = c /\ \A j \in Keys : j # k => counters'[j] = counters[j]
    BY <1>0, <2>1
  <2>4. counters[k] \in Counters
    BY <1>0, <2>1
  <2> HIDE DEF c
  <2>5. c.born <= now
    BY <2>1, <2>2 DEF CountersAreSound
  <2>6. c.n <= 0 \/ ~ (c.n > 0) => c.expires = Never
    BY <2>1, <2>2, <2>4 DEF CountersAreSound, Exists, Counters
  <2>7. c.expires # Never => c.born + Window <= c.expires /\ now < c.expires
    <3>1. counters[k].born \in Nat /\ counters[k].born <= now
      BY <2>1, <2>4 DEF CountersAreSound, Counters
    <3>2. CASE Exists(k) /\ counters[k].expires = Never
      BY <1>0, <2>2, <3>1, <3>2
    <3>3. CASE ~ (Exists(k) /\ counters[k].expires = Never)
      BY <2>1, <2>2, <3>3 DEF CountersAreSound
    <3> QED BY <3>2, <3>3
  <2> QED BY <1>3, <2>3, <2>5, <2>6, <2>7 DEF CountersAreSound, Exists
<1>4. CASE Tick
  <2>1. /\ now' = now + 1
        /\ counters' = [k \in Keys |-> IF counters[k].expires = now' THEN NoCounter ELSE counters[k]]
    BY <1>4 DEF Tick, Advance
  <2>2. ASSUME NEW k \in Keys
        PROVE  /\ counters'[k].born <= now'
               /\ ~ (counters'[k].n > 0) => counters'[k].expires = Never
               /\ counters'[k].expires # Never
                     => /\ counters'[k].born + Window <= counters'[k].expires
                        /\ now' < counters'[k].expires
    <3>1. counters[k] \in Counters
      BY <1>0
    <3>2. CASE counters[k].expires = now'
      <4>1. counters'[k] = NoCounter
        BY <2>1, <3>2
      <4> QED BY <1>0, <2>1, <4>1 DEF NoCounter, Never
    <3>3. CASE counters[k].expires # now'
      <4>1. counters'[k] = counters[k]
        BY <2>1, <3>3
      <4>2. counters[k].born <= now /\ counters[k].born \in Nat
        BY <3>1 DEF CountersAreSound, Counters
      <4>3. counters[k].expires # Never =>
               /\ counters[k].expires \in Nat
               /\ counters[k].born + Window <= counters[k].expires
               /\ now < counters[k].expires
        BY <3>1 DEF CountersAreSound, Counters
      <4>4. ~ (counters[k].n > 0) => counters[k].expires = Never
        BY DEF CountersAreSound, Exists
      <4> QED BY <1>0, <2>1, <3>3, <4>1, <4>2, <4>3, <4>4
    <3> QED BY <3>2, <3>3
  <2> QED BY <2>2 DEF CountersAreSound, Exists
<1> QED BY <1>1, <1>2, <1>3, <1>4, LimiterCases, MovesOnFacts, ArriveFacts
        DEF LimiterAction, redisVars

-----------------------------------------------------------------------------
(* Windows: counting a request puts it into the window there is, or opens  *)
(* one when every earlier window has ended.                                *)
LEMMA IncrementKeepsWindows ==
    ASSUME LimiterTypeOK, CallsAreSound, CountersAreSound, WindowsAreApart,
           NEW s \in Requests, NEW k \in Keys, Counted(s, k)
    PROVE  \/ calls[s].born = Incremented(k).born /\ calls[s].n < Incremented(k).n
           \/ calls[s].born + Window <= Incremented(k).born /\ calls[s].at < Incremented(k).born
<1>1. /\ Exists(k) => /\ Incremented(k).n = counters[k].n + 1
                      /\ Incremented(k).born = counters[k].born
      /\ ~ Exists(k) => Incremented(k).born = now
  BY CountFacts
<1>2. calls[s].n \in Nat /\ counters[k].n \in Nat
  BY DEF LimiterTypeOK, Calls, Counters
<1>3. CASE Exists(k)
  BY <1>1, <1>2, <1>3 DEF WindowsAreApart
<1>4. CASE ~ Exists(k)
  BY <1>1, <1>4 DEF WindowsAreApart
<1> QED BY <1>3, <1>4

LEMMA WindowsStep ==
    /\ LimiterTypeOK /\ CallsAreSound /\ CountersAreSound /\ WindowsAreApart
    /\ [LimiterNext]_redisVars
    => WindowsAreApart'
<1> SUFFICES ASSUME LimiterTypeOK, CallsAreSound, CountersAreSound, WindowsAreApart,
                    [LimiterNext]_redisVars
             PROVE  WindowsAreApart'
  OBVIOUS
<1> USE LimiterAssumption
<1>0. counters \in [Keys -> Counters] /\ calls \in [Requests -> Calls] /\ now \in Nat
  BY DEF LimiterTypeOK
<1>1. ASSUME NEW r \in Requests, NEW k \in Keys, Arrive(r, k), UNCHANGED now
      PROVE  WindowsAreApart'
  <2>1. /\ UNCHANGED counters
        /\ calls'[r].n = 0
        /\ \A s \in Requests : s # r => calls'[s] = calls[s]
    BY <1>1, ArriveFacts
  <2> QED BY <1>1, <2>1 DEF WindowsAreApart, Counted, Exists
<1>2. ASSUME NEW r \in Requests, Incr(r), UNCHANGED now
      PROVE  WindowsAreApart'
  <2>1. PICK k \in Keys :
           /\ counters' = [counters EXCEPT ![k] = Incremented(k)]
           /\ calls'[r].n = Incremented(k).n /\ calls'[r].born = Incremented(k).born
           /\ calls'[r].key = k
           /\ \A s \in Requests : s # r => calls'[s] = calls[s]
    BY <1>2, IncrFacts
  <2> DEFINE c == Incremented(k)
  <2>2. c.n \in Nat \ {0}
    BY CountFacts
  <2>3. counters'[k] = c /\ \A j \in Keys : j # k => counters'[j] = counters[j]
    BY <1>0, <2>1
  <2>8. calls'[r].n = c.n /\ calls'[r].born = c.born
    BY <2>1
  <2>4. \A s \in Requests : Counted(s, k) =>
            \/ calls[s].born = c.born /\ calls[s].n < c.n
            \/ calls[s].born + Window <= c.born /\ calls[s].at < c.born
    BY <2>1, IncrementKeepsWindows
  <2>5. \A s \in Requests : calls[s].n \in Nat
    BY <1>0 DEF Calls
  <2> HIDE DEF c
  <2>6. ASSUME NEW s \in Requests, Counted(s, k)'
        PROVE  \/ calls'[s].born = c.born /\ calls'[s].n <= c.n
               \/ calls'[s].born + Window <= c.born /\ calls'[s].at < c.born
    BY <2>1, <2>2, <2>4, <2>5, <2>6, <2>8 DEF Counted
  <2>7. ASSUME NEW s \in Requests, NEW j \in Keys, j # k, Counted(s, j)'
        PROVE  s # r /\ Counted(s, j) /\ calls'[s] = calls[s]
    BY <2>1, <2>7 DEF Counted
  <2> QED BY <1>2, <2>2, <2>3, <2>6, <2>7 DEF WindowsAreApart, Exists
<1>3. ASSUME NEW r \in Requests, LoseIncrReply(r), UNCHANGED now
      PROVE  WindowsAreApart'
  <2>1. PICK k \in Keys : counters' = [counters EXCEPT ![k] = Incremented(k)] /\ UNCHANGED calls
    BY <1>3, LostReplyFacts
  <2> DEFINE c == Incremented(k)
  <2>2. c.n \in Nat \ {0}
    BY CountFacts
  <2>3. counters'[k] = c /\ \A j \in Keys : j # k => counters'[j] = counters[j]
    BY <1>0, <2>1
  <2>4. \A s \in Requests : Counted(s, k) =>
            \/ calls[s].born = c.born /\ calls[s].n < c.n
            \/ calls[s].born + Window <= c.born /\ calls[s].at < c.born
    BY <2>1, IncrementKeepsWindows
  <2>5. \A s \in Requests : calls[s].n \in Nat
    BY <1>0 DEF Calls
  <2> HIDE DEF c
  <2> QED BY <1>3, <2>1, <2>2, <2>3, <2>4, <2>5 DEF WindowsAreApart, Exists, Counted
<1>4. ASSUME NEW r \in Requests, ExpireNX(r), UNCHANGED now
      PROVE  WindowsAreApart'
  <2>1. \A k \in Keys : counters'[k].n = counters[k].n /\ counters'[k].born = counters[k].born
    <3>1. PICK k \in Keys : counters' = [counters EXCEPT ![k] = WithTTL(k)]
      <4>1. ExpireNX(r)
        BY <1>4
      <4> QED BY <4>1, ExpireFacts
    <3>2. WithTTL(k).n = counters[k].n /\ WithTTL(k).born = counters[k].born
      BY WithTTLFacts
    <3> QED BY <1>0, <3>1, <3>2
  <2>2. \A s \in Requests : /\ calls'[s].key = calls[s].key
                            /\ calls'[s].n = calls[s].n
                            /\ calls'[s].at = calls[s].at
                            /\ calls'[s].born = calls[s].born
    <3>1. ExpireNX(r)
      BY <1>4
    <3> QED BY <3>1, ExpireKeepsNumbers
  <2> QED BY <1>4, <2>1, <2>2 DEF WindowsAreApart, Exists, Counted
<1>5. ASSUME NEW r \in Requests, MovesOn(r)
      PROVE  WindowsAreApart'
  BY <1>5, MovesOnFacts DEF WindowsAreApart, Exists, Counted
<1>6. CASE Tick
  <2>1. /\ now' = now + 1
        /\ counters' = [k \in Keys |-> IF counters[k].expires = now' THEN NoCounter ELSE counters[k]]
        /\ UNCHANGED calls
    BY <1>6 DEF Tick, Advance
  <2>2. ASSUME NEW s \in Requests, NEW k \in Keys, Counted(s, k)'
        PROVE  IF Exists(k)'
               THEN \/ calls'[s].born = counters'[k].born /\ calls'[s].n <= counters'[k].n
                    \/ calls'[s].born + Window <= counters'[k].born /\ calls'[s].at < counters'[k].born
               ELSE calls'[s].born + Window <= now' /\ calls'[s].at < now'
    <3>1. Counted(s, k) /\ calls[s].n > 0
      BY <2>1, <2>2 DEF Counted
    <3>2. calls[s] \in Calls /\ counters[k] \in Counters
      BY <1>0
    <3>3. calls[s].at \in Nat /\ calls[s].born \in Nat /\ calls[s].at <= now
      BY <3>1, <3>2 DEF CallsAreSound, Calls
    <3>4. CASE counters[k].expires = now'
      <4>1. counters'[k] = NoCounter
        BY <2>1, <3>4
      <4>2. ~ Exists(k)'
        BY <4>1 DEF Exists, NoCounter
      <4>3. now' # Never
        BY <1>0, <2>1 DEF Never
      <4>4. Exists(k) /\ counters[k].born + Window <= now' /\ counters[k].born \in Nat
        BY <3>2, <3>4, <4>3 DEF CountersAreSound, Counters
      <4>5. calls[s].born + Window <= now'
        BY <1>0, <2>1, <3>1, <3>3, <4>4 DEF WindowsAreApart
      <4> QED BY <1>0, <2>1, <3>3, <4>2, <4>5
    <3>5. CASE counters[k].expires # now'
      <4>1. counters'[k] = counters[k]
        BY <2>1, <3>5
      <4> QED BY <1>0, <2>1, <3>1, <3>3, <4>1 DEF WindowsAreApart, Exists
    <3> QED BY <3>4, <3>5
  <2> QED BY <2>2 DEF WindowsAreApart
<1>7. CASE UNCHANGED redisVars
  BY <1>7 DEF redisVars, WindowsAreApart, Exists, Counted
<1> QED BY <1>1, <1>2, <1>3, <1>4, <1>5, <1>6, <1>7, LimiterCases DEF LimiterAction

-----------------------------------------------------------------------------
(* Ordinals: the number a request gets is larger than those given before   *)
(* in its window.                                                          *)
LEMMA OrdinalsStep ==
    /\ LimiterTypeOK /\ CallsAreSound /\ CountersAreSound /\ WindowsAreApart /\ OrdinalsDiffer
    /\ [LimiterNext]_redisVars
    => OrdinalsDiffer'
<1> SUFFICES ASSUME LimiterTypeOK, CallsAreSound, CountersAreSound, WindowsAreApart,
                    OrdinalsDiffer, [LimiterNext]_redisVars
             PROVE  OrdinalsDiffer'
  OBVIOUS
<1>0. calls \in [Requests -> Calls] /\ now \in Nat
  BY DEF LimiterTypeOK
<1>1. ASSUME NEW r \in Requests, NEW k \in Keys, Arrive(r, k)
      PROVE  OrdinalsDiffer'
  <2>1. calls'[r].n = 0 /\ \A s \in Requests : s # r => calls'[s] = calls[s]
    BY <1>1, ArriveFacts
  <2> QED BY <2>1 DEF OrdinalsDiffer, Earlier
<1>2. ASSUME NEW r \in Requests, Incr(r)
      PROVE  OrdinalsDiffer'
  <2>1. PICK k \in Keys :
           /\ calls'[r].n = Incremented(k).n /\ calls'[r].born = Incremented(k).born
           /\ calls'[r].key = k
           /\ calls'[r].at = now
           /\ \A s \in Requests : s # r => calls'[s] = calls[s]
    BY <1>2, IncrFacts
  <2>2. Incremented(k).n \in Nat
    BY CountFacts
  <2>3. ASSUME NEW s \in Requests, s # r, calls'[s].key = k, calls'[s].n > 0
        PROVE  (calls'[s].born = calls'[r].born /\ calls'[s].n # calls'[r].n) \/ Earlier(s, r)'
    <3>1. calls'[s] = calls[s] /\ Counted(s, k)
      BY <2>1, <2>3 DEF Counted
    <3>2. \/ calls[s].born = Incremented(k).born /\ calls[s].n < Incremented(k).n
          \/ calls[s].born + Window <= Incremented(k).born /\ calls[s].at < Incremented(k).born
      BY <3>1, IncrementKeepsWindows
    <3>3. calls[s].n \in Nat
      BY <1>0 DEF Calls
    <3> QED BY <2>1, <2>2, <3>1, <3>2, <3>3 DEF Earlier
  <2>4. ASSUME NEW s \in Requests, NEW t \in Requests, s # r, t # r, s # t,
               calls'[s].key = calls'[t].key, calls'[s].n > 0, calls'[t].n > 0
        PROVE  \/ calls'[s].born = calls'[t].born /\ calls'[s].n # calls'[t].n
               \/ Earlier(s, t)'
               \/ Earlier(t, s)'
    <3>1. calls'[s] = calls[s] /\ calls'[t] = calls[t]
      BY <2>1, <2>4
    <3> QED BY <2>4, <3>1 DEF OrdinalsDiffer, Earlier
  <2>5. ASSUME NEW s \in Requests, NEW t \in Requests, s # t,
               calls'[s].key = calls'[t].key, calls'[s].n > 0, calls'[t].n > 0
        PROVE  \/ calls'[s].born = calls'[t].born /\ calls'[s].n # calls'[t].n
               \/ Earlier(s, t)'
               \/ Earlier(t, s)'
    <3>1. CASE s = r
      BY <2>1, <2>3, <2>5, <3>1
    <3>2. CASE t = r
      BY <2>1, <2>3, <2>5, <3>2
    <3>3. CASE s # r /\ t # r
      BY <2>4, <2>5, <3>3
    <3> QED BY <3>1, <3>2, <3>3
  <2> QED BY <2>5 DEF OrdinalsDiffer
<1>3. CASE UNCHANGED calls
  BY <1>3 DEF OrdinalsDiffer, Earlier
<1>4. ASSUME NEW r \in Requests, ExpireNX(r) \/ MovesOn(r)
      PROVE  OrdinalsDiffer'
  <2>1. \A s \in Requests : /\ calls'[s].key = calls[s].key
                            /\ calls'[s].n = calls[s].n
                            /\ calls'[s].at = calls[s].at
                            /\ calls'[s].born = calls[s].born
    <3>1. CASE ExpireNX(r)
      BY <3>1, ExpireKeepsNumbers
    <3>2. CASE MovesOn(r)
      BY <3>2, MovesOnKeepsNumbers
    <3> QED BY <1>4, <3>1, <3>2
  <2> QED BY <2>1 DEF OrdinalsDiffer, Earlier
<1> QED BY <1>1, <1>2, <1>3, <1>4, LimiterCases
        DEF LimiterAction, redisVars, LoseIncrReply, Tick

(* One EXPIRE is enough.                                                   *)
LEMMA HealsStep ==
    LimiterInv /\ [LimiterNext]_redisVars => ExpireHeals'
<1> SUFFICES ASSUME LimiterInv, [LimiterNext]_redisVars
             PROVE  ExpireHeals'
  OBVIOUS
<1> USE LimiterAssumption
<1>0. /\ LimiterTypeOK /\ CallsAreSound /\ CountersAreSound /\ WindowsAreApart /\ ExpireHeals
      /\ calls \in [Requests -> Calls] /\ counters \in [Keys -> Counters] /\ now \in Nat
  BY DEF LimiterInv, LimiterTypeOK
<1>1. ASSUME NEW r \in Requests, NEW k \in Keys, Arrive(r, k)
      PROVE  ExpireHeals'
  <2>1. /\ UNCHANGED counters
        /\ calls'[r].n = 0
        /\ \A s \in Requests : s # r => calls'[s] = calls[s]
    BY <1>0, <1>1, ArriveFacts
  <2> QED BY <1>0, <2>1 DEF ExpireHeals, Counted, Exists
<1>2. ASSUME NEW k \in Keys, counters' = [counters EXCEPT ![k] = Incremented(k)],
             NEW s \in Requests, calls'[s] = calls[s],
             NEW j \in Keys, Counted(s, j), calls[s].expired,
             counters'[j].n > 0, calls[s].born = counters'[j].born
      PROVE  counters'[j].expires # Never
  <2>1. CASE j # k
    <3>1. counters'[j] = counters[j]
      BY <1>0, <1>2, <2>1
    <3> QED BY <1>0, <1>2, <3>1 DEF ExpireHeals, Exists
  <2>2. CASE j = k
    <3>1. counters'[k] = Incremented(k)
      BY <1>0, <1>2
    <3>2. Incremented(k).expires = counters[k].expires
      BY <1>0, CountFacts
    <3>3. CASE Exists(k)
      <4>1. Incremented(k).born = counters[k].born
        BY <1>0, <3>3, CountFacts
      <4> QED BY <1>0, <1>2, <2>2, <3>1, <3>2, <3>3, <4>1 DEF ExpireHeals
    <3>4. CASE ~ Exists(k)
      <4>1. Incremented(k).born = now
        BY <1>0, <3>4, CountFacts
      <4>2. calls[s].born + Window <= now /\ calls[s].born \in Nat
        BY <1>0, <1>2, <2>2, <3>4 DEF WindowsAreApart, Calls
      <4>3. calls[s].born # now
        BY <1>0, <4>2
      <4> QED BY <1>2, <2>2, <3>1, <4>1, <4>3
    <3> QED BY <3>3, <3>4
  <2> QED BY <2>1, <2>2
<1>3. ASSUME NEW r \in Requests, Incr(r)
      PROVE  ExpireHeals'
  <2>1. PICK k \in Keys :
           /\ counters' = [counters EXCEPT ![k] = Incremented(k)]
           /\ ~ calls'[r].expired
           /\ \A s \in Requests : s # r => calls'[s] = calls[s]
    BY <1>0, <1>3, IncrFacts
  <2>2. ASSUME NEW j \in Keys, NEW s \in Requests, Counted(s, j)', calls'[s].expired,
               counters'[j].n > 0, calls'[s].born = counters'[j].born
        PROVE  counters'[j].expires # Never
    <3>1. s # r /\ calls'[s] = calls[s]
      BY <2>1, <2>2
    <3>2. Counted(s, j) /\ calls[s].expired /\ calls[s].born = counters'[j].born
      BY <2>2, <3>1 DEF Counted
    <3> QED BY <1>2, <2>1, <2>2, <3>1, <3>2
  <2> QED BY <2>2 DEF ExpireHeals, Exists
<1>4. ASSUME NEW r \in Requests, LoseIncrReply(r)
      PROVE  ExpireHeals'
  <2>1. PICK k \in Keys : counters' = [counters EXCEPT ![k] = Incremented(k)] /\ UNCHANGED calls
    BY <1>0, <1>4, LostReplyFacts
  <2>2. ASSUME NEW j \in Keys, NEW s \in Requests, Counted(s, j)', calls'[s].expired,
               counters'[j].n > 0, calls'[s].born = counters'[j].born
        PROVE  counters'[j].expires # Never
    <3>1. Counted(s, j) /\ calls[s].expired /\ calls[s].born = counters'[j].born
      BY <2>1, <2>2 DEF Counted
    <3> QED BY <1>2, <2>1, <2>2, <3>1
  <2> QED BY <2>2 DEF ExpireHeals, Exists
<1>5. ASSUME NEW r \in Requests, ExpireNX(r)
      PROVE  ExpireHeals'
  <2>1. PICK k \in Keys : k = calls[r].key /\ counters' = [counters EXCEPT ![k] = WithTTL(k)]
    BY <1>0, <1>5, ExpireFacts
  <2>2. /\ \A s \in Requests : s # r => calls'[s] = calls[s]
        /\ calls'[r].key = k /\ calls'[r].born = calls[r].born /\ calls'[r].n = calls[r].n
    <3>1. calls'[r].key = calls[r].key /\ calls'[r].born = calls[r].born /\ calls'[r].n = calls[r].n
      BY <1>0, <1>5, ExpireKeepsNumbers
    <3>2. \A s \in Requests : s # r => calls'[s] = calls[s]
      BY <1>0, <1>5, ExpireKeepsNumbers
    <3> QED BY <2>1, <3>1, <3>2
  <2>3. /\ counters'[k] = WithTTL(k)
        /\ \A j \in Keys : j # k => counters'[j] = counters[j]
    BY <1>0, <2>1
  <2>4. /\ WithTTL(k).n = counters[k].n
        /\ WithTTL(k).born = counters[k].born
        /\ counters[k].expires # Never => WithTTL(k) = counters[k]
        /\ Exists(k) /\ counters[k].expires = Never => WithTTL(k).expires = now + Window
    BY <1>0, WithTTLFacts
  <2>5. Exists(k)' => counters'[k].expires # Never
    <3>1. now + Window # Never
      BY <1>0 DEF Never
    <3> QED BY <2>3, <2>4, <3>1 DEF Exists
  <2>6. ASSUME NEW j \in Keys, j # k, NEW s \in Requests, Counted(s, j)', calls'[s].expired,
               Exists(j)', calls'[s].born = counters'[j].born
        PROVE  counters'[j].expires # Never
    <3>1. s # r
      BY <2>2, <2>6 DEF Counted
    <3>2. calls'[s] = calls[s] /\ counters'[j] = counters[j]
      BY <2>2, <2>3, <2>6, <3>1
    <3>3. Counted(s, j) /\ calls[s].expired /\ Exists(j) /\ calls[s].born = counters[j].born
      BY <2>6, <3>2 DEF Counted, Exists
    <3> QED BY <1>0, <3>2, <3>3 DEF ExpireHeals
  <2> QED BY <2>5, <2>6 DEF ExpireHeals
<1>6. ASSUME NEW r \in Requests, MovesOn(r)
      PROVE  ExpireHeals'
  <2>1. /\ UNCHANGED counters
        /\ \A s \in Requests : /\ calls'[s].key = calls[s].key
                                /\ calls'[s].n = calls[s].n
                                /\ calls'[s].born = calls[s].born
                                /\ calls'[s].expired = calls[s].expired
    BY <1>0, <1>6, MovesOnFacts
  <2> QED BY <1>0, <2>1 DEF ExpireHeals, Counted, Exists
<1>7. CASE Tick
  <2>1. /\ counters' = [k \in Keys |-> IF counters[k].expires = now' THEN NoCounter ELSE counters[k]]
        /\ UNCHANGED calls
    BY <1>7 DEF Tick
  <2>2. \A k \in Keys : counters'[k] = counters[k] \/ ~ Exists(k)'
    BY <2>1 DEF Exists, NoCounter
  <2> QED BY <1>0, <2>1, <2>2 DEF ExpireHeals, Counted, Exists
<1>8. CASE UNCHANGED redisVars
  BY <1>0, <1>8 DEF redisVars, ExpireHeals, Counted, Exists
<1> QED BY <1>1, <1>3, <1>4, <1>5, <1>6, <1>7, <1>8, LimiterCases DEF LimiterAction

-----------------------------------------------------------------------------
(* LimiterInv holds in every state.                                        *)
LEMMA LimiterInitially == LimiterInit => LimiterInv
<1> SUFFICES ASSUME LimiterInit PROVE LimiterInv
  OBVIOUS
<1>1. /\ now = 0
      /\ counters = [k \in Keys |-> NoCounter]
      /\ calls = [r \in Requests |-> NewCall]
      /\ faults = 0
  BY DEF LimiterInit, ClockInit
<1>2. NoCounter \in Counters /\ NewCall \in Calls
  BY DEF NoCounter, Counters, Never, NewCall, Calls, Stages
<1>3. LimiterTypeOK
  BY <1>1, <1>2 DEF LimiterTypeOK, At, NewCall
<1>4. /\ \A r \in Requests : /\ calls[r].pc = "new" /\ calls[r].n = 0
                              /\ calls[r].expired = FALSE
      /\ \A k \in Keys : /\ counters[k].n = 0 /\ counters[k].born = 0
                          /\ counters[k].expires = Never
  BY <1>1 DEF NewCall, NoCounter
<1>5. CallsAreSound /\ CountersAreSound
  BY <1>1, <1>4 DEF CallsAreSound, CountersAreSound, Exists
<1>6. WindowsAreApart /\ OrdinalsDiffer /\ ExpireHeals
  BY <1>4 DEF WindowsAreApart, OrdinalsDiffer, ExpireHeals, Counted
<1> QED BY <1>3, <1>5, <1>6 DEF LimiterInv

LEMMA LimiterInductive == LimiterInv /\ [LimiterNext]_redisVars => LimiterInv'
<1> SUFFICES ASSUME LimiterInv, [LimiterNext]_redisVars PROVE LimiterInv'
  OBVIOUS
<1>0. LimiterTypeOK /\ CallsAreSound /\ CountersAreSound /\ WindowsAreApart /\ OrdinalsDiffer
  BY DEF LimiterInv
<1>1. LimiterTypeOK'
  BY <1>0, LimiterTypeStep
<1>2. CallsAreSound'
  BY <1>0, CallsStep
<1>3. CountersAreSound'
  BY <1>0, CountersStep
<1>4. WindowsAreApart'
  BY <1>0, WindowsStep
<1>5. OrdinalsDiffer'
  BY <1>0, OrdinalsStep
<1>6. ExpireHeals'
  BY HealsStep
<1> QED BY <1>1, <1>2, <1>3, <1>4, <1>5, <1>6 DEF LimiterInv

THEOREM LimiterInvariant == LimiterSpec => []LimiterInv
<1> QED BY LimiterInitially, LimiterInductive, PTL DEF LimiterSpec

(* The clock, the counters and the calls have their types.                 *)
THEOREM LimiterTypeCorrect == LimiterSpec => []LimiterTypeOK
<1>1. LimiterInv => LimiterTypeOK
  BY DEF LimiterInv
<1> QED BY <1>1, LimiterInvariant, PTL

(* One EXPIRE that Redis executes repairs the counter of its window.       *)
THEOREM OneExpireHeals == LimiterSpec => []ExpireHeals
<1>1. LimiterInv => ExpireHeals
  BY DEF LimiterInv
<1> QED BY <1>1, LimiterInvariant, PTL

-----------------------------------------------------------------------------
(* A set of requests whose ordinals differ and lie in lo..Limit.           *)
LEMMA OrdinalsCount ==
    ASSUME NEW A \in SUBSET Requests, NEW lo \in Nat, lo <= Limit + 1,
           \A r \in A : calls[r].n \in lo..Limit,
           \A r, s \in A : r # s => calls[r].n # calls[s].n
    PROVE  /\ IsFiniteSet(A)
           /\ Cardinality(A) \in Nat
           /\ Cardinality(A) <= Limit - lo + 1
<1> USE LimiterAssumption
<1> DEFINE f == [r \in A |-> calls[r].n]
<1>1. f \in Injection(A, lo..Limit)
  BY DEF Injection, IsInjective
<1>2. /\ IsFiniteSet(lo..Limit)
      /\ Cardinality(lo..Limit) = IF lo > Limit THEN 0 ELSE Limit - lo + 1
  BY FS_Interval
<1>3. Cardinality(lo..Limit) <= Limit - lo + 1
  BY <1>2
<1> HIDE DEF f
<1>4. IsFiniteSet(A) /\ Cardinality(A) <= Cardinality(lo..Limit)
  BY <1>1, <1>2, FS_Injection
<1>5. Cardinality(A) \in Nat /\ Cardinality(lo..Limit) \in Nat
  BY <1>2, <1>4, FS_CardinalityType
<1> QED BY <1>3, <1>4, <1>5

(* What LimiterInv says of the requests let through in an interval.        *)
LEMMA LetThroughFacts ==
    ASSUME LimiterInv, NEW k \in Keys, NEW t \in Nat, NEW r \in LetThrough(k, t)
    PROVE  /\ r \in Requests /\ calls[r].key = k
           /\ calls[r].n \in 1..Limit /\ calls[r].born \in Nat /\ calls[r].at \in Nat
           /\ calls[r].born <= calls[r].at
           /\ t <= calls[r].at /\ calls[r].at < t + Window
           /\ calls[r].n = 1 => calls[r].at = calls[r].born
<1>1. r \in Requests /\ Counted(r, k) /\ calls[r].pc = "passed"
      /\ t <= calls[r].at /\ calls[r].at < t + Window
  BY DEF LetThrough, At
<1>2. calls[r] \in Calls
  BY <1>1 DEF LimiterInv, LimiterTypeOK
<1>3. calls[r].n <= Limit
  BY <1>1 DEF LimiterInv, CallsAreSound
<1>4. calls[r].n > 0 => /\ calls[r].born <= calls[r].at
                        /\ calls[r].n = 1 => calls[r].at = calls[r].born
  BY <1>1 DEF LimiterInv, CallsAreSound
<1> QED BY <1>1, <1>2, <1>3, <1>4, LimiterAssumption DEF Counted, Calls

(* An interval as long as a window meets two windows at most, and of the   *)
(* earlier one it misses the first request.                                *)
LEMMA BurstFollows == LimiterInv => BurstIsBounded
<1> SUFFICES ASSUME LimiterInv, NEW k \in Keys, NEW t \in 0..now
             PROVE  /\ IsFiniteSet(LetThrough(k, t))
                    /\ Cardinality(LetThrough(k, t)) < 2 * Limit
  BY DEF BurstIsBounded
<1> USE LimiterAssumption
<1> DEFINE A == LetThrough(k, t)
           Of(b) == {r \in A : calls[r].born = b}
<1>0. t \in Nat
  BY DEF LimiterInv, LimiterTypeOK
<1>1. \A r \in A : /\ r \in Requests /\ calls[r].key = k
                   /\ calls[r].n \in 1..Limit /\ calls[r].born \in Nat /\ calls[r].at \in Nat
                   /\ calls[r].born <= calls[r].at
                   /\ t <= calls[r].at /\ calls[r].at < t + Window
                   /\ calls[r].n = 1 => calls[r].at = calls[r].born
  BY <1>0, LetThroughFacts
<1>2. \A r, s \in A : r # s => \/ calls[r].born = calls[s].born /\ calls[r].n # calls[s].n
                               \/ Earlier(r, s)
                               \/ Earlier(s, r)
  BY <1>1 DEF LimiterInv, OrdinalsDiffer
<1> HIDE DEF A
<1>3. ASSUME NEW b \in Nat
      PROVE  IsFiniteSet(Of(b)) /\ Cardinality(Of(b)) \in Nat /\ Cardinality(Of(b)) <= Limit
  <2>1. Of(b) \in SUBSET Requests /\ \A r \in Of(b) : calls[r].n \in 1..Limit
    BY <1>1
  <2>2. \A r, s \in Of(b) : r # s => calls[r].n # calls[s].n
    BY <1>1, <1>2 DEF Earlier
  <2> HIDE DEF Of
  <2> QED BY <2>1, <2>2, OrdinalsCount
<1>4. CASE \A r, s \in A : calls[r].born = calls[s].born
  <2>1. CASE A = {}
    <3>1. IsFiniteSet(A) /\ Cardinality(A) = 0
      BY <2>1, FS_EmptySet
    <3> QED BY <3>1 DEF A
  <2>2. CASE A # {}
    <3>1. PICK p \in A : TRUE
      BY <2>2
    <3>2. A = Of(calls[p].born) /\ calls[p].born \in Nat
      BY <1>1, <1>4, <3>1
    <3> HIDE DEF Of
    <3>3. IsFiniteSet(A) /\ Cardinality(A) \in Nat /\ Cardinality(A) <= Limit
      BY <1>3, <3>2
    <3> QED BY <3>3 DEF A
  <2> QED BY <2>1, <2>2
<1>5. CASE \E p, q \in A : calls[p].born # calls[q].born
  <2>1. PICK p \in A, q \in A : Earlier(p, q)
    BY <1>2, <1>5
  <2> DEFINE b1 == calls[p].born
             b2 == calls[q].born
  <2>2. b1 \in Nat /\ b2 \in Nat /\ b1 < t /\ b1 + Window <= b2 /\ t < b2 /\ b2 < t + Window
    BY <1>0, <1>1, <2>1 DEF Earlier
  <2>3. ASSUME NEW r \in A, calls[r].born # b1, calls[r].born # b2
        PROVE  FALSE
    <3>1. Earlier(r, p) \/ Earlier(p, r)
      BY <1>2, <2>3
    <3>2. Earlier(r, q) \/ Earlier(q, r)
      BY <1>2, <2>3
    <3>3. ~ Earlier(r, p)
      BY <1>0, <1>1, <2>2 DEF Earlier
    <3>4. ~ Earlier(q, r)
      BY <1>0, <1>1, <2>2 DEF Earlier
    <3>5. calls[p].at < calls[r].born /\ calls[r].born + Window <= b2
      BY <3>1, <3>2, <3>3, <3>4 DEF Earlier
    <3> QED BY <1>0, <1>1, <2>2, <3>5
  <2>4. A = Of(b1) \cup Of(b2)
    BY <2>3
  <2>5. IsFiniteSet(Of(b1)) /\ Cardinality(Of(b1)) \in Nat /\ Cardinality(Of(b1)) <= Limit - 1
    <3>1. \A r \in Of(b1) : calls[r].n \in 2..Limit
      BY <1>0, <1>1, <2>2
    <3>2. Of(b1) \in SUBSET Requests
      BY <1>1
    <3>3. \A r, s \in Of(b1) : r # s => calls[r].n # calls[s].n
      BY <1>1, <1>2 DEF Earlier
    <3> HIDE DEF Of, b1
    <3>4. /\ IsFiniteSet(Of(b1)) /\ Cardinality(Of(b1)) \in Nat
          /\ Cardinality(Of(b1)) <= Limit - 2 + 1
      <4> DEFINE B == Of(b1)
                 lo == 2
      <4>1. B \in SUBSET Requests /\ lo \in Nat /\ lo <= Limit + 1
        BY <3>2
      <4>2. \A r \in B : calls[r].n \in lo..Limit
        BY <3>1
      <4>3. \A r, s \in B : r # s => calls[r].n # calls[s].n
        BY <3>3
      <4>4. lo = 2
        OBVIOUS
      <4> HIDE DEF lo, B
      <4>5. /\ IsFiniteSet(B) /\ Cardinality(B) \in Nat
            /\ Cardinality(B) <= Limit - lo + 1
        BY <4>1, <4>2, <4>3, OrdinalsCount
      <4> QED BY <4>4, <4>5 DEF B
    <3> QED BY <3>4
  <2>6. IsFiniteSet(Of(b2)) /\ Cardinality(Of(b2)) \in Nat /\ Cardinality(Of(b2)) <= Limit
    BY <1>3, <2>2
  <2> HIDE DEF Of, b1, b2
  <2>7. /\ IsFiniteSet(A)
        /\ Cardinality(A) = Cardinality(Of(b1)) + Cardinality(Of(b2))
                             - Cardinality(Of(b1) \cap Of(b2))
    BY <2>4, <2>5, <2>6, FS_Union
  <2>8. Cardinality(Of(b1) \cap Of(b2)) \in Nat
    <3>1. Of(b1) \cap Of(b2) \in SUBSET Of(b1)
      OBVIOUS
    <3>2. IsFiniteSet(Of(b1) \cap Of(b2))
      BY <2>5, <3>1, FS_Subset
    <3> QED BY <3>2, FS_CardinalityType
  <2>9. Cardinality(A) < 2 * Limit
    BY <2>5, <2>6, <2>7, <2>8
  <2> QED BY <2>7, <2>9 DEF A
<1> QED BY <1>4, <1>5

(* Whatever races, fails or dies, an interval as long as a window lets     *)
(* less than twice the limit in.                                           *)
THEOREM BurstBounded == LimiterSpec => []BurstIsBounded
<1> QED BY BurstFollows, LimiterInvariant, PTL

-----------------------------------------------------------------------------
(* A window ends when it was to end, however many requests come.           *)
THEOREM WindowNotExtended == LimiterSpec => WindowIsNotExtended
<1> DEFINE Kept == \A k \in Keys :
                      counters[k].expires # Never
                         => \/ counters'[k].expires = counters[k].expires
                            \/ now' = counters[k].expires /\ ~ Exists(k)'
<1>1. LimiterInv /\ [LimiterNext]_redisVars => [Kept]_redisVars
  <2> SUFFICES ASSUME LimiterInv, [LimiterNext]_redisVars,
                      NEW k \in Keys, counters[k].expires # Never
               PROVE  \/ counters'[k].expires = counters[k].expires
                      \/ now' = counters[k].expires /\ ~ Exists(k)'
    OBVIOUS
  <2>0. /\ LimiterTypeOK /\ CallsAreSound
        /\ counters \in [Keys -> Counters]
    BY DEF LimiterInv, LimiterTypeOK
  <2>1. ASSUME NEW j \in Keys, counters' = [counters EXCEPT ![j] = Incremented(j)]
        PROVE  counters'[k].expires = counters[k].expires
    BY <2>0, <2>1 DEF Incremented
  <2>2. ASSUME NEW r \in Requests, NEW j \in Keys, Arrive(r, j)
        PROVE  counters'[k].expires = counters[k].expires
    BY <2>2 DEF Arrive
  <2>3. ASSUME NEW r \in Requests, Incr(r)
        PROVE  counters'[k].expires = counters[k].expires
    <3>1. PICK j \in Keys : counters' = [counters EXCEPT ![j] = Incremented(j)]
      BY <2>0, <2>3, IncrFacts
    <3> QED BY <2>1, <3>1
  <2>4. ASSUME NEW r \in Requests, LoseIncrReply(r)
        PROVE  counters'[k].expires = counters[k].expires
    <3>1. PICK j \in Keys : counters' = [counters EXCEPT ![j] = Incremented(j)]
      BY <2>0, <2>4, LostReplyFacts
    <3> QED BY <2>1, <3>1
  <2>5. ASSUME NEW r \in Requests, ExpireNX(r)
        PROVE  counters'[k].expires = counters[k].expires
    <3>1. PICK j \in Keys : counters' = [counters EXCEPT ![j] = WithTTL(j)]
      BY <2>0, <2>5, ExpireFacts
    <3>2. counters[j].expires # Never => WithTTL(j) = counters[j]
      BY <2>0, WithTTLFacts
    <3> QED BY <2>0, <3>1, <3>2
  <2>6. ASSUME NEW r \in Requests, MovesOn(r)
        PROVE  counters'[k].expires = counters[k].expires
    BY <2>0, <2>6, MovesOnFacts
  <2>7. CASE Tick
    <3>1. counters'[k] = IF counters[k].expires = now' THEN NoCounter ELSE counters[k]
      BY <2>7 DEF Tick
    <3> QED BY <3>1 DEF Exists, NoCounter
  <2>8. CASE UNCHANGED redisVars
    BY <2>8 DEF redisVars
  <2> QED BY <2>2, <2>3, <2>4, <2>5, <2>6, <2>7, <2>8, LimiterCases DEF LimiterAction
<1> QED BY <1>1, LimiterInvariant, PTL DEF LimiterSpec, WindowIsNotExtended

-----------------------------------------------------------------------------
(* Every request that was let through uncounted has cost a fault.          *)
FailedOpen == {r \in Requests : calls[r].pc = "passed" /\ calls[r].n = 0}

FailOpensAreFaults == IsFiniteSet(FailedOpen) /\ Cardinality(FailedOpen) <= faults

LEMMA FailOpensInductive ==
    LimiterInv /\ FailOpensAreFaults /\ [LimiterNext]_redisVars => FailOpensAreFaults'
<1> SUFFICES ASSUME LimiterInv, FailOpensAreFaults, [LimiterNext]_redisVars
             PROVE  FailOpensAreFaults'
  OBVIOUS
<1>0. /\ LimiterTypeOK /\ CallsAreSound
      /\ calls \in [Requests -> Calls] /\ faults \in Nat
      /\ IsFiniteSet(FailedOpen) /\ Cardinality(FailedOpen) <= faults
  BY DEF LimiterInv, LimiterTypeOK, FailOpensAreFaults
<1>1. ASSUME FailedOpen' \subseteq FailedOpen, faults' \in Nat, faults <= faults'
      PROVE  FailOpensAreFaults'
  <2> DEFINE A == FailedOpen
             B == FailedOpen'
  <2>1. IsFiniteSet(B) /\ Cardinality(B) <= Cardinality(A)
    <3>1. IsFiniteSet(A) /\ B \in SUBSET A
      BY <1>0, <1>1
    <3> HIDE DEF A, B
    <3> QED BY <3>1, FS_Subset
  <2>2. Cardinality(A) \in Nat /\ Cardinality(B) \in Nat
    <3>1. IsFiniteSet(A) /\ IsFiniteSet(B)
      BY <1>0, <2>1
    <3> HIDE DEF A, B
    <3> QED BY <3>1, FS_CardinalityType
  <2>3. Cardinality(B) <= faults'
    <3>1. Cardinality(A) <= faults
      BY <1>0
    <3> HIDE DEF A, B
    <3> QED BY <1>0, <1>1, <2>1, <2>2, <3>1
  <2> QED BY <2>1, <2>3 DEF FailOpensAreFaults
<1>2. ASSUME NEW r \in Requests, IncrFails(r)
      PROVE  FailOpensAreFaults'
  <2> DEFINE A == FailedOpen
             B == FailedOpen'
  <2>1. faults' = faults + 1 /\ calls' = [calls EXCEPT ![r].pc = "passed"]
    BY <1>2 DEF IncrFails, Fault
  <2>2. B \in SUBSET (A \cup {r})
    BY <1>0, <2>1 DEF FailedOpen
  <2>3. IsFiniteSet(A) /\ Cardinality(A) <= faults
    BY <1>0
  <2>9. B = FailedOpen'
    OBVIOUS
  <2> HIDE DEF A, B
  <2>4. Cardinality(A) \in Nat
    BY <2>3, FS_CardinalityType
  <2>5. IsFiniteSet(A \cup {r}) /\ Cardinality(A \cup {r}) <= Cardinality(A) + 1
    <3>1. /\ IsFiniteSet(A \cup {r})
          /\ Cardinality(A \cup {r}) = IF r \in A THEN Cardinality(A) ELSE Cardinality(A) + 1
      BY <2>3, FS_AddElement
    <3> QED BY <2>4, <3>1
  <2>6. IsFiniteSet(B) /\ Cardinality(B) <= Cardinality(A \cup {r})
    BY <2>2, <2>5, FS_Subset
  <2>7. Cardinality(B) \in Nat /\ Cardinality(A \cup {r}) \in Nat
    BY <2>5, <2>6, FS_CardinalityType
  <2>8. Cardinality(B) <= faults'
    BY <1>0, <2>1, <2>3, <2>4, <2>5, <2>6, <2>7
  <2> QED BY <2>6, <2>8, <2>9 DEF FailOpensAreFaults
<1>3. ASSUME NEW r \in Requests, Incr(r) \/ LoseIncrReply(r) \/ ExpireNX(r) \/ ExpireFails(r)
                                \/ AskTTL(r) \/ TTLFails(r) \/ Die(r)
      PROVE  FailOpensAreFaults'
  <2>1. /\ calls[r].pc = "incr" => calls[r].n = 0
        /\ calls[r].pc \in {"expire", "ttl"} => calls[r].n > 0
    BY <1>0 DEF CallsAreSound
  <2>2. CASE Incr(r)
    BY <1>0, <1>1, <2>2 DEF Incr, At, FailedOpen, Calls
  <2>3. CASE LoseIncrReply(r)
    BY <1>0, <1>1, <2>3 DEF LoseIncrReply, Fault, FailedOpen
  <2>4. CASE ExpireNX(r)
    BY <1>0, <1>1, <2>1, <2>4 DEF ExpireNX, At, FailedOpen, Calls
  <2>5. CASE ExpireFails(r)
    BY <1>0, <1>1, <2>1, <2>5 DEF ExpireFails, At, Fault, FailedOpen, Calls
  <2>6. CASE AskTTL(r)
    BY <1>0, <1>1, <2>6 DEF AskTTL, FailedOpen, Calls
  <2>7. CASE TTLFails(r)
    BY <1>0, <1>1, <2>7 DEF TTLFails, Fault, FailedOpen, Calls
  <2>8. CASE Die(r)
    BY <1>0, <1>1, <2>8 DEF Die, Fault, FailedOpen, Calls
  <2> QED BY <1>3, <2>2, <2>3, <2>4, <2>5, <2>6, <2>7, <2>8
<1>4. ASSUME NEW r \in Requests, NEW k \in Keys, Arrive(r, k)
      PROVE  FailOpensAreFaults'
  BY <1>0, <1>1, <1>4 DEF Arrive, FailedOpen, Calls
<1>5. CASE Tick \/ UNCHANGED redisVars
  BY <1>0, <1>1, <1>5 DEF Tick, redisVars, FailedOpen
<1> QED BY <1>2, <1>3, <1>4, <1>5 DEF LimiterNext, Handle

LEMMA FailOpens == LimiterSpec => []FailOpensAreFaults
<1>1. LimiterInit => FailOpensAreFaults
  <2> SUFFICES ASSUME LimiterInit PROVE FailOpensAreFaults
    OBVIOUS
  <2>1. FailedOpen = {}
    BY DEF LimiterInit, NewCall, FailedOpen
  <2>2. faults = 0
    BY DEF LimiterInit
  <2> QED BY <2>1, <2>2, FS_EmptySet DEF FailOpensAreFaults
<1> QED BY <1>1, FailOpensInductive, LimiterInvariant, PTL DEF LimiterSpec

-----------------------------------------------------------------------------
(* The requests counted in the window of key k that began at b.            *)
Sent(cs, k, b) == {q \in Requests : cs[q].key = k /\ cs[q].n > 0 /\ cs[q].born = b}

(* A counter, and a number that INCR returned, is at most the requests of  *)
(* its window and the INCRs sent again.                                    *)
CountsAreSent ==
    /\ \A k \in Keys, b \in Nat : IsFiniteSet(Sent(calls, k, b))
    /\ \A k \in Keys :
          Exists(k) => counters[k].n <= Cardinality(Sent(calls, k, counters[k].born)) + faults
    /\ \A r \in Requests :
          calls[r].n > 0
             => calls[r].n <= Cardinality(Sent(calls, calls[r].key, calls[r].born)) + faults

RefusedAreOver ==
    \A r \in Requests : calls[r].pc \in {"ttl", "rejected"} => calls[r].n > Limit

LEMMA RefusedAreOverInductive ==
    LimiterInv /\ RefusedAreOver /\ [LimiterNext]_redisVars => RefusedAreOver'
<1> SUFFICES ASSUME LimiterInv, RefusedAreOver, [LimiterNext]_redisVars
             PROVE  RefusedAreOver'
  OBVIOUS
<1>0. calls \in [Requests -> Calls]
  BY DEF LimiterInv, LimiterTypeOK
<1>1. ASSUME NEW r \in Requests, NEW k \in Keys, Arrive(r, k)
      PROVE  RefusedAreOver'
  BY <1>0, <1>1 DEF Arrive, RefusedAreOver, Calls
<1>2. ASSUME NEW r \in Requests, Incr(r) \/ LoseIncrReply(r) \/ IncrFails(r) \/ Die(r)
      PROVE  RefusedAreOver'
  <2>1. CASE Incr(r)
    <3>1. calls'[r].pc = "expire" /\ \A s \in Requests : s # r => calls'[s] = calls[s]
      BY <1>0, <2>1 DEF Incr, Calls
    <3> QED BY <3>1 DEF RefusedAreOver
  <2>2. CASE LoseIncrReply(r)
    BY <2>2 DEF LoseIncrReply, RefusedAreOver
  <2>3. CASE IncrFails(r)
    BY <1>0, <2>3 DEF IncrFails, RefusedAreOver, Calls
  <2>4. CASE Die(r)
    BY <1>0, <2>4 DEF Die, RefusedAreOver, Calls
  <2> QED BY <1>2, <2>1, <2>2, <2>3, <2>4
<1>3. ASSUME NEW r \in Requests, ExpireNX(r) \/ ExpireFails(r)
      PROVE  RefusedAreOver'
  <2>1. /\ calls'[r].pc = Verdict(r) /\ calls'[r].n = calls[r].n
        /\ \A s \in Requests : s # r => calls'[s] = calls[s]
    BY <1>0, <1>3 DEF ExpireNX, ExpireFails, Calls
  <2> QED BY <2>1 DEF RefusedAreOver, Verdict
<1>4. ASSUME NEW r \in Requests, AskTTL(r) \/ TTLFails(r)
      PROVE  RefusedAreOver'
  <2>1. /\ calls[r].pc = "ttl" /\ calls'[r].n = calls[r].n
        /\ \A s \in Requests : s # r => calls'[s] = calls[s]
    BY <1>0, <1>4 DEF AskTTL, TTLFails, At, Calls
  <2> QED BY <2>1 DEF RefusedAreOver
<1>5. CASE Tick \/ UNCHANGED redisVars
  BY <1>5 DEF Tick, redisVars, RefusedAreOver
<1> QED BY <1>1, <1>2, <1>3, <1>4, <1>5 DEF LimiterNext, Handle

(* What LimiterInv says of the numbers.                                    *)
LEMMA NumbersAreTyped ==
    ASSUME LimiterInv
    PROVE  /\ faults \in Nat /\ now \in Nat
           /\ \A k \in Keys : counters[k].n \in Nat /\ counters[k].born \in Nat
           /\ \A r \in Requests : calls[r].n \in Nat /\ calls[r].born \in Nat
           /\ \A r \in Requests : calls[r].n > 0 => calls[r].key \in Keys
<1>1. ASSUME NEW k \in Keys PROVE counters[k].n \in Nat /\ counters[k].born \in Nat
  <2>1. counters[k] \in Counters
    BY DEF LimiterInv, LimiterTypeOK
  <2> QED BY <2>1 DEF Counters
<1>2. ASSUME NEW r \in Requests PROVE calls[r].n \in Nat /\ calls[r].born \in Nat
  <2>1. calls[r] \in Calls
    BY DEF LimiterInv, LimiterTypeOK
  <2> QED BY <2>1 DEF Calls
<1>3. ASSUME NEW r \in Requests, calls[r].n > 0 PROVE calls[r].key \in Keys
  <2>1. calls[r].pc # "new"
    BY <1>3 DEF LimiterInv, CallsAreSound
  <2> QED BY <2>1 DEF LimiterInv, LimiterTypeOK, At
<1> QED BY <1>1, <1>2, <1>3 DEF LimiterInv, LimiterTypeOK

(* The numbers stay within what was sent if the sets of requests grow, the *)
(* faults do not fall, and what a step writes is within it.                *)
LEMMA CountsStay ==
    ASSUME LimiterInv, CountsAreSent, faults' \in Nat, faults <= faults',
           \A k \in Keys, b \in Nat :
              /\ IsFiniteSet(Sent(calls', k, b))
              /\ Cardinality(Sent(calls, k, b)) <= Cardinality(Sent(calls', k, b)),
           \A k \in Keys :
              counters'[k].n > 0
                 => \/ /\ counters'[k].n = counters[k].n
                       /\ counters'[k].born = counters[k].born
                    \/ counters'[k].n <= Cardinality(Sent(calls', k, counters'[k].born)) + faults',
           \A r \in Requests :
              calls'[r].n > 0
                 => \/ /\ calls'[r].n = calls[r].n
                       /\ calls'[r].born = calls[r].born
                       /\ calls'[r].key = calls[r].key
                    \/ calls'[r].n
                          <= Cardinality(Sent(calls', calls'[r].key, calls'[r].born)) + faults'
    PROVE  CountsAreSent'
<1>1. \A k \in Keys, b \in Nat : /\ Cardinality(Sent(calls, k, b)) \in Nat
                                 /\ Cardinality(Sent(calls', k, b)) \in Nat
  BY FS_CardinalityType DEF CountsAreSent
<1>2. ASSUME NEW k \in Keys, NEW b \in Nat, NEW n \in Nat,
             n <= Cardinality(Sent(calls, k, b)) + faults
      PROVE  n <= Cardinality(Sent(calls', k, b)) + faults'
  BY <1>1, <1>2, NumbersAreTyped
<1>3. ASSUME NEW k \in Keys, counters'[k].n > 0
      PROVE  counters'[k].n <= Cardinality(Sent(calls', k, counters'[k].born)) + faults'
  <2>1. CASE counters'[k].n = counters[k].n /\ counters'[k].born = counters[k].born
    <3>1. counters[k].n <= Cardinality(Sent(calls, k, counters[k].born)) + faults
      BY <1>3, <2>1 DEF CountsAreSent, Exists
    <3>2. counters[k].n <= Cardinality(Sent(calls', k, counters[k].born)) + faults'
      BY <1>2, <3>1, NumbersAreTyped
    <3> QED BY <2>1, <3>2
  <2> QED BY <1>3, <2>1
<1>4. ASSUME NEW r \in Requests, calls'[r].n > 0
      PROVE  calls'[r].n <= Cardinality(Sent(calls', calls'[r].key, calls'[r].born)) + faults'
  <2>1. CASE calls'[r].n = calls[r].n /\ calls'[r].born = calls[r].born
             /\ calls'[r].key = calls[r].key
    <3>1. calls[r].n <= Cardinality(Sent(calls, calls[r].key, calls[r].born)) + faults
      BY <1>4, <2>1 DEF CountsAreSent
    <3>2. calls[r].n <= Cardinality(Sent(calls', calls[r].key, calls[r].born)) + faults'
      BY <1>2, <1>4, <2>1, <3>1, NumbersAreTyped
    <3> QED BY <2>1, <3>2
  <2> QED BY <1>4, <2>1
<1> QED BY <1>3, <1>4 DEF CountsAreSent, Exists

(* INCR adds its request to one window's, and to no other.                 *)
LEMMA IncrSends ==
    ASSUME CountsAreSent, NEW r \in Requests, NEW key \in Keys, NEW born \in Nat,
           calls[r].n = 0, calls'[r].n > 0, calls'[r].key = key, calls'[r].born = born,
           \A s \in Requests : s # r => calls'[s] = calls[s]
    PROVE  /\ \A k \in Keys, b \in Nat :
                 /\ IsFiniteSet(Sent(calls', k, b))
                 /\ Cardinality(Sent(calls, k, b)) <= Cardinality(Sent(calls', k, b))
           /\ Cardinality(Sent(calls', key, born)) = Cardinality(Sent(calls, key, born)) + 1
           /\ Cardinality(Sent(calls, key, born)) \in Nat
<1>1. ASSUME NEW k \in Keys, NEW b \in Nat
      PROVE  IsFiniteSet(Sent(calls, k, b)) /\ Cardinality(Sent(calls, k, b)) \in Nat
  BY FS_CardinalityType DEF CountsAreSent
<1>2. r \notin Sent(calls, key, born) /\ Sent(calls', key, born) = Sent(calls, key, born) \cup {r}
  BY DEF Sent
<1>3. /\ IsFiniteSet(Sent(calls', key, born))
      /\ Cardinality(Sent(calls', key, born)) = Cardinality(Sent(calls, key, born)) + 1
  BY <1>1, <1>2, FS_AddElement
<1>4. ASSUME NEW k \in Keys, NEW b \in Nat, k # key \/ b # born
      PROVE  Sent(calls', k, b) = Sent(calls, k, b)
  BY <1>4 DEF Sent
<1>5. ASSUME NEW k \in Keys, NEW b \in Nat
      PROVE  /\ IsFiniteSet(Sent(calls', k, b))
             /\ Cardinality(Sent(calls, k, b)) <= Cardinality(Sent(calls', k, b))
  BY <1>1, <1>3, <1>4
<1> QED BY <1>1, <1>3, <1>5

(* A step that counts nobody leaves the sets of requests alone.            *)
LEMMA NobodySends ==
    ASSUME CountsAreSent,
           \A s \in Requests : /\ calls'[s].n = calls[s].n
                               /\ calls'[s].born = calls[s].born
                               /\ calls[s].n > 0 => calls'[s].key = calls[s].key
    PROVE  \A k \in Keys, b \in Nat :
              /\ Sent(calls', k, b) = Sent(calls, k, b)
              /\ IsFiniteSet(Sent(calls', k, b))
              /\ Cardinality(Sent(calls, k, b)) \in Nat
              /\ Cardinality(Sent(calls, k, b)) <= Cardinality(Sent(calls', k, b))
<1>1. ASSUME NEW k \in Keys, NEW b \in Nat
      PROVE  Sent(calls', k, b) = Sent(calls, k, b)
  BY DEF Sent
<1>2. ASSUME NEW k \in Keys, NEW b \in Nat
      PROVE  IsFiniteSet(Sent(calls, k, b)) /\ Cardinality(Sent(calls, k, b)) \in Nat
  BY FS_CardinalityType DEF CountsAreSent
<1> QED BY <1>1, <1>2

LEMMA CountsInductive ==
    LimiterInv /\ CountsAreSent /\ [LimiterNext]_redisVars => CountsAreSent'
<1> SUFFICES ASSUME LimiterInv, CountsAreSent, [LimiterNext]_redisVars
             PROVE  CountsAreSent'
  OBVIOUS
<1>0. /\ LimiterTypeOK /\ CallsAreSound /\ CountersAreSound
      /\ counters \in [Keys -> Counters] /\ calls \in [Requests -> Calls]
      /\ faults \in Nat /\ now \in Nat
  BY DEF LimiterInv, LimiterTypeOK
<1>1. ASSUME NEW r \in Requests, NEW k \in Keys, Arrive(r, k)
      PROVE  CountsAreSent'
  <2>1. calls[r].n = 0 /\ UNCHANGED <<counters, faults>>
    BY <1>0, <1>1 DEF Arrive, At, CallsAreSound
  <2>2. \A s \in Requests : /\ calls'[s].n = calls[s].n
                            /\ calls'[s].born = calls[s].born
                            /\ calls[s].n > 0 => calls'[s].key = calls[s].key
    BY <1>0, <1>1, <2>1 DEF Arrive, Calls
  <2> QED BY <1>0, <2>1, <2>2, NobodySends, CountsStay
<1>2. ASSUME NEW r \in Requests, Incr(r)
      PROVE  CountsAreSent'
  <2> DEFINE k == calls[r].key
             c == Incremented(k)
  <2>1. /\ k \in Keys /\ calls[r].n = 0
        /\ counters' = [counters EXCEPT ![k] = c]
        /\ calls'[r].n = c.n /\ calls'[r].born = c.born /\ calls'[r].key = k
        /\ \A s \in Requests : s # r => calls'[s] = calls[s]
    BY <1>0, <1>2, IncrFacts
  <2>2. faults' = faults
    BY <1>2 DEF Incr
  <2>3. /\ c.n \in Nat \ {0} /\ c.born \in Nat
        /\ Exists(k) => c.n = counters[k].n + 1 /\ c.born = counters[k].born
        /\ ~ Exists(k) => c.n = 1
    <3>1. c \in Counters
      BY <1>0, <2>1, CountFacts
    <3> QED BY <1>0, <2>1, <3>1, CountFacts DEF Counters
  <2>4. Exists(k) => counters[k].n <= Cardinality(Sent(calls, k, counters[k].born)) + faults
    BY <2>1 DEF CountsAreSent
  <2>5. counters[k].n \in Nat
    BY <2>1, NumbersAreTyped
  <2>6. /\ counters'[k] = c
        /\ \A j \in Keys : j # k => counters'[j] = counters[j]
    BY <1>0, <2>1
  <2> HIDE DEF k, c
  <2>7. /\ \A j \in Keys, b \in Nat :
              /\ IsFiniteSet(Sent(calls', j, b))
              /\ Cardinality(Sent(calls, j, b)) <= Cardinality(Sent(calls', j, b))
        /\ Cardinality(Sent(calls', k, c.born)) = Cardinality(Sent(calls, k, c.born)) + 1
        /\ Cardinality(Sent(calls, k, c.born)) \in Nat
    <3>1. calls'[r].n > 0
      BY <2>1, <2>3
    <3> QED BY <2>1, <2>3, <3>1, IncrSends
  <2>8. c.n <= Cardinality(Sent(calls', k, c.born)) + faults'
    BY <1>0, <2>2, <2>3, <2>4, <2>5, <2>7
  <2>9. \A j \in Keys :
           \/ counters'[j].n = counters[j].n /\ counters'[j].born = counters[j].born
           \/ counters'[j].n <= Cardinality(Sent(calls', j, counters'[j].born)) + faults'
    BY <2>6, <2>8
  <2>10. \A s \in Requests :
            \/ /\ calls'[s].n = calls[s].n
               /\ calls'[s].born = calls[s].born
               /\ calls'[s].key = calls[s].key
            \/ calls'[s].n <= Cardinality(Sent(calls', calls'[s].key, calls'[s].born)) + faults'
    BY <2>1, <2>8
  <2> QED BY <1>0, <2>2, <2>7, <2>9, <2>10, CountsStay
<1>3. ASSUME NEW r \in Requests, LoseIncrReply(r)
      PROVE  CountsAreSent'
  <2>1. PICK k \in Keys : counters' = [counters EXCEPT ![k] = Incremented(k)] /\ calls' = calls
    BY <1>0, <1>3, LostReplyFacts
  <2>2. faults' = faults + 1
    BY <1>3 DEF LoseIncrReply, Fault
  <2> DEFINE c == Incremented(k)
  <2>3. /\ c.n \in Nat \ {0} /\ c.born \in Nat
        /\ Exists(k) => c.n = counters[k].n + 1 /\ c.born = counters[k].born
        /\ ~ Exists(k) => c.n = 1
    <3>1. c \in Counters
      BY <1>0, CountFacts
    <3> QED BY <1>0, <3>1, CountFacts DEF Counters
  <2>4. Exists(k) => counters[k].n <= Cardinality(Sent(calls, k, counters[k].born)) + faults
    BY DEF CountsAreSent
  <2>5. counters[k].n \in Nat
    BY NumbersAreTyped
  <2>6. /\ counters'[k] = c
        /\ \A j \in Keys : j # k => counters'[j] = counters[j]
    BY <1>0, <2>1
  <2> HIDE DEF c
  <2>7. \A j \in Keys, b \in Nat :
           /\ IsFiniteSet(Sent(calls', j, b))
           /\ Cardinality(Sent(calls, j, b)) \in Nat
           /\ Sent(calls', j, b) = Sent(calls, j, b)
    BY <2>1, NobodySends
  <2>8. c.n <= Cardinality(Sent(calls', k, c.born)) + faults'
    <3>1. Cardinality(Sent(calls', k, c.born)) = Cardinality(Sent(calls, k, c.born))
          /\ Cardinality(Sent(calls, k, c.born)) \in Nat
      BY <2>3, <2>7
    <3> QED BY <1>0, <2>2, <2>3, <2>4, <2>5, <3>1
  <2>9. \A j \in Keys :
           \/ counters'[j].n = counters[j].n /\ counters'[j].born = counters[j].born
           \/ counters'[j].n <= Cardinality(Sent(calls', j, counters'[j].born)) + faults'
    BY <2>6, <2>8
  <2>10. \A j \in Keys, b \in Nat :
            Cardinality(Sent(calls, j, b)) <= Cardinality(Sent(calls', j, b))
    BY <2>7
  <2>11. faults' \in Nat /\ faults <= faults'
    BY <1>0, <2>2
  <2> QED BY <2>1, <2>7, <2>9, <2>10, <2>11, CountsStay
<1>4. ASSUME NEW r \in Requests, ExpireNX(r)
      PROVE  CountsAreSent'
  <2>1. PICK k \in Keys : counters' = [counters EXCEPT ![k] = WithTTL(k)]
    BY <1>0, <1>4, ExpireFacts
  <2>2. WithTTL(k).n = counters[k].n /\ WithTTL(k).born = counters[k].born
    BY <1>0, WithTTLFacts
  <2>3. \A j \in Keys : counters'[j].n = counters[j].n /\ counters'[j].born = counters[j].born
    BY <1>0, <2>1, <2>2
  <2>4. \A s \in Requests : /\ calls'[s].n = calls[s].n
                            /\ calls'[s].born = calls[s].born
                            /\ calls'[s].key = calls[s].key
    BY <1>0, <1>4, ExpireKeepsNumbers
  <2>5. faults' = faults
    BY <1>4 DEF ExpireNX
  <2> QED BY <1>0, <2>3, <2>4, <2>5, NobodySends, CountsStay
<1>5. ASSUME NEW r \in Requests, MovesOn(r)
      PROVE  CountsAreSent'
  <2>1. \A s \in Requests : /\ calls'[s].n = calls[s].n
                            /\ calls'[s].born = calls[s].born
                            /\ calls'[s].key = calls[s].key
    BY <1>0, <1>5, MovesOnKeepsNumbers
  <2>2. UNCHANGED counters /\ faults' \in Nat /\ faults <= faults'
    BY <1>0, <1>5 DEF MovesOn, IncrFails, ExpireFails, AskTTL, TTLFails, Die, Fault
  <2> QED BY <2>1, <2>2, NobodySends, CountsStay
<1>6. CASE Tick \/ UNCHANGED redisVars
  <2>1. UNCHANGED <<calls, faults>>
    BY <1>6 DEF Tick, redisVars
  <2>2. \A k \in Keys : counters'[k] = counters[k] \/ counters'[k].n = 0
    BY <1>6 DEF Tick, redisVars, NoCounter
  <2> QED BY <1>0, <2>1, <2>2, NobodySends, CountsStay
<1> QED BY <1>1, <1>2, <1>3, <1>4, <1>5, <1>6, LimiterCases DEF LimiterAction

(* Nobody is refused for the requests of others or of an earlier window:   *)
(* a refused request has more than the limit beside it in its window, up   *)
(* to an INCR sent again for a lost reply.                                 *)
THEOREM RefusalsAreEarned == LimiterSpec => []RefusalIsEarned
<1>1. LimiterInit => CountsAreSent /\ RefusedAreOver
  <2> SUFFICES ASSUME LimiterInit PROVE CountsAreSent /\ RefusedAreOver
    OBVIOUS
  <2>1. /\ \A r \in Requests : calls[r].n = 0 /\ calls[r].pc = "new"
        /\ \A k \in Keys : counters[k].n = 0
    BY DEF LimiterInit, NewCall, NoCounter
  <2>2. \A k, b : Sent(calls, k, b) = {}
    BY <2>1 DEF Sent
  <2>3. \A k, b : IsFiniteSet(Sent(calls, k, b))
    BY <2>2, FS_EmptySet
  <2>4. /\ \A r \in Requests : ~ calls[r].n > 0
        /\ \A k \in Keys : ~ counters[k].n > 0
    BY <2>1
  <2>5. CountsAreSent
    BY <2>3, <2>4 DEF CountsAreSent, Exists
  <2> QED BY <2>1, <2>5 DEF RefusedAreOver
<1>2. LimiterInv /\ CountsAreSent /\ RefusedAreOver => RefusalIsEarned
  <2> SUFFICES ASSUME LimiterInv, CountsAreSent, RefusedAreOver,
                      NEW r \in Requests, At(r, "rejected")
               PROVE  Cardinality(Sent(calls, calls[r].key, calls[r].born)) + faults > Limit
    BY DEF RefusalIsEarned, Sent, Counted
  <2>1. calls[r].n > Limit /\ calls[r].n \in Nat /\ calls[r].born \in Nat
    BY NumbersAreTyped DEF RefusedAreOver, At
  <2>2. calls[r].n > 0
    BY <2>1, LimiterAssumption
  <2>3. calls[r].n <= Cardinality(Sent(calls, calls[r].key, calls[r].born)) + faults
    BY <2>2 DEF CountsAreSent
  <2>4. Cardinality(Sent(calls, calls[r].key, calls[r].born)) \in Nat
    BY <2>1, <2>2, NumbersAreTyped, FS_CardinalityType DEF CountsAreSent
  <2> QED BY <2>1, <2>3, <2>4, LimiterAssumption, NumbersAreTyped
<1> QED BY <1>1, <1>2, CountsInductive, RefusedAreOverInductive, LimiterInvariant, PTL
    DEF LimiterSpec
=============================================================================
