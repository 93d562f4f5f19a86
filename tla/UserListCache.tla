---------------------------- MODULE UserListCache ----------------------------
(***************************************************************************)
(* The cache of a user's subscription list in Redis: cache-aside reads     *)
(* (ListByUser) against every service method that writes Postgres and then *)
(* deletes the user's key (internal/services/subscription_service.go,      *)
(* internal/cache/keys.go).                                                *)
(*                                                                         *)
(* A write and its DEL are two steps of a caller: a request of the API or  *)
(* a sweep of the worker.  A read that misses takes three: GET, SELECT and *)
(* SET.  A DEL can be lost (Redis error, cancelled context, dead process); *)
(* a read can fail anywhere.  A read that hits changes nothing and is a    *)
(* stuttering step.  Publishing, which happens between the commit and the  *)
(* answer too, is not in this module.                                      *)
(***************************************************************************)
EXTENDS SubscriptionRepository

CONSTANTS
    Callers,     \* concurrent service calls that write
    Readers,     \* concurrent ListByUser calls
    MaxLostDels  \* bound on DELs that fail or never happen

VARIABLES
    cache,     \* Redis: user -> entry or NoEntry
    owed,      \* the DELs a caller has committed to and not done yet
    reads,     \* where a ListByUser call stands
    lostDels   \* DELs lost so far

cacheVars == <<cache, owed, reads, lostDels>>
vars == <<subs, transactions, now, cache, owed, reads, lostDels>>

(* SELECT ... FROM subscriptions WHERE user_id = u *)
OwnRows(u) == {p \in Intents : subs[p] # NoRow /\ subs[p].user = u}

MutantEveryonesRows(u) ==
    LET rows == {p \in Intents : subs[p] # NoRow}
    IN  [p \in rows |-> subs[p]]

ListOf(u) == [p \in OwnRows(u) |-> subs[p]]

NoEntry == [hit |-> FALSE]
Entry(list) == [hit |-> TRUE, list |-> list]

NoRead == [pc |-> "idle"]

CacheInit ==
    /\ RepoInit
    /\ cache = [u \in Users |-> NoEntry]
    /\ owed = [c \in Callers |-> {}]
    /\ reads = [r \in Readers |-> NoRead]
    /\ lostDels = 0

-----------------------------------------------------------------------------
(* A call that has committed owes Redis a DEL of each affected user's key. *)
Owe(c, users) ==
    /\ owed[c] = {}
    /\ owed' = [owed EXCEPT ![c] = users]
    /\ UNCHANGED <<cache, reads, lostDels>>

Subscribe(c, p, u, creator) ==
    /\ CreatePending(p, u, creator)
    /\ Owe(c, {u})

PaymentSucceeded(c, p, e, amount) ==
    /\ MarkPaymentSucceeded(p, e, amount)
    /\ Owe(c, {subs[p].user})

PaymentFailed(c, p) ==
    /\ MarkPaymentFailed(p)
    /\ Owe(c, {subs[p].user})

CancelForUser(c, p) ==
    /\ Cancel(p)
    /\ Owe(c, {subs[p].user})

RenewForUser(c, p) ==
    /\ Renew(p)
    /\ Owe(c, {subs[p].user})

(* The sweep returns one row per subscription; the users are deduplicated. *)
MutantSweepFirstUser(c) ==
    /\ ExpireOverdue
    /\ \E p \in Overdue : Owe(c, {subs[p].user})

Sweep(c) ==
    /\ ExpireOverdue
    /\ Owe(c, {subs[p].user : p \in Overdue})

InvalidateUserList(c, u) ==
    /\ u \in owed[c]
    /\ cache' = [cache EXCEPT ![u] = NoEntry]
    /\ owed' = [owed EXCEPT ![c] = @ \ {u}]
    /\ UNCHANGED <<repoVars, reads, lostDels>>

(* A DEL that fails is logged and forgotten. *)
LoseDel(c, u) ==
    /\ u \in owed[c]
    /\ lostDels < MaxLostDels
    /\ owed' = [owed EXCEPT ![c] = @ \ {u}]
    /\ lostDels' = lostDels + 1
    /\ UNCHANGED <<repoVars, cache, reads>>

-----------------------------------------------------------------------------
(* ListByUser: GET finds no usable entry, or fails. *)
MissCache(r, u) ==
    /\ reads[r] = NoRead
    /\ reads' = [reads EXCEPT ![r] = [pc |-> "select", user |-> u]]
    /\ UNCHANGED <<repoVars, cache, owed, lostDels>>

SelectList(r) ==
    /\ reads[r].pc = "select"
    /\ reads' = [reads EXCEPT ![r] = [pc |-> "set", user |-> reads[r].user,
                                      list |-> ListOf(reads[r].user)]]
    /\ UNCHANGED <<repoVars, cache, owed, lostDels>>

PopulateCache(r) ==
    /\ reads[r].pc = "set"
    /\ cache' = [cache EXCEPT ![reads[r].user] = Entry(reads[r].list)]
    /\ reads' = [reads EXCEPT ![r] = NoRead]
    /\ UNCHANGED <<repoVars, owed, lostDels>>

(* The SELECT or the SET fails, or the client is gone. *)
ReadFails(r) ==
    /\ reads[r] # NoRead
    /\ reads' = [reads EXCEPT ![r] = NoRead]
    /\ UNCHANGED <<repoVars, cache, owed, lostDels>>

(* listCacheTTL has passed since the SET. *)
MutantNoTTL(u) == FALSE

EntryExpires(u) ==
    /\ cache[u] # NoEntry
    /\ cache' = [cache EXCEPT ![u] = NoEntry]
    /\ UNCHANGED <<repoVars, owed, reads, lostDels>>

-----------------------------------------------------------------------------
Write(c) ==
    \/ \E p \in Intents :
         \/ \E u \in Users, creator \in Creators : Subscribe(c, p, u, creator)
         \/ \E e \in Events, amount \in Amounts : PaymentSucceeded(c, p, e, amount)
         \/ PaymentFailed(c, p)
         \/ CancelForUser(c, p)
         \/ RenewForUser(c, p)
    \/ Sweep(c)

Invalidate(c) == \E u \in Users : InvalidateUserList(c, u) \/ LoseDel(c, u)

Read(r) == SelectList(r) \/ PopulateCache(r) \/ ReadFails(r)

CacheNext ==
    \/ \E c \in Callers : Write(c) \/ Invalidate(c)
    \/ \E r \in Readers : (\E u \in Users : MissCache(r, u)) \/ Read(r)
    \/ \E u \in Users : EntryExpires(u)
    \/ Tick /\ UNCHANGED cacheVars

CacheSpec == CacheInit /\ [][CacheNext]_vars

(* Go schedules every goroutine that can run, a request does not hang      *)
(* (Redis and Postgres answer or fail), and Redis honours the TTL.         *)
CacheFairness ==
    /\ \A c \in Callers : WF_vars(Invalidate(c))
    /\ \A r \in Readers : WF_vars(Read(r))
    /\ \A u \in Users : WF_vars(EntryExpires(u))

FairCacheSpec == CacheSpec /\ CacheFairness

-----------------------------------------------------------------------------
(* The cache and the reads hold lists; a user's entry holds nobody else's  *)
(* rows.                                                                   *)
IsListOf(list, u) ==
    /\ DOMAIN list \subseteq Intents
    /\ \A p \in DOMAIN list : list[p] \in Rows /\ list[p].user = u

CacheTypeOK ==
    /\ RepoTypeOK
    /\ owed \in [Callers -> SUBSET Users]
    /\ lostDels \in Nat
    /\ \A u \in Users : cache[u] = NoEntry \/ IsListOf(cache[u].list, u)
    /\ \A r \in Readers : \/ reads[r] = NoRead
                          \/ reads[r].pc = "select" /\ reads[r].user \in Users
                          \/ reads[r].pc = "set" /\ IsListOf(reads[r].list, reads[r].user)

Stale(u) == cache[u] # NoEntry /\ cache[u].list # ListOf(u)

IsOwed(u) == \E c \in Callers : u \in owed[c]

(* A read that holds a list older than the table, and is about to SET it.  *)
Overtaken(r, u) == reads[r].pc = "set" /\ reads[r].user = u /\ reads[r].list # ListOf(u)

(* An entry goes stale in two ways only: by a write that owes the DEL of   *)
(* exactly this key, or by the SET of a read that a write overtook.  No    *)
(* write path forgets a user, and none deletes before it commits.          *)
StalenessIsOwed ==
    [][\A u \in Users :
          ~ Stale(u) /\ Stale(u)'
             => IsOwed(u)' \/ \E r \in Readers : Overtaken(r, u) /\ PopulateCache(r)]_vars

(* The TTL is the backstop: whatever DELs are lost and whatever reads are  *)
(* overtaken, once the writes stop every list is right and stays right.    *)
CacheConverges == \A u \in Users : <>[]~ Stale(u)

-----------------------------------------------------------------------------
(* subscription_service.go:54-57: "Active DEL on writes is what keeps the  *)
(* cache fresh; the TTL exists so that if a DEL is ever missed [...] the   *)
(* stale entry cannot outlive it by more than this window".                *)
StaleOnlyIfDelMissed ==
    lostDels = 0 => \A u \in Users : Stale(u) => IsOwed(u)
=============================================================================
