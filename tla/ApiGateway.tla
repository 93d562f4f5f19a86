----------------------------- MODULE ApiGateway -----------------------------
(***************************************************************************)
(* The middleware chains of the API (cmd/api/main.go): what a request goes *)
(* through before its handler runs.                                        *)
(*   POST /login             limiter by address, then the login handler    *)
(*   subscription routes     RequireAuth, limiter by user                  *)
(*   admin routes            RequireAuth, RequireAdmin, the same limiter   *)
(* RequireAuth and RequireAdmin look at the request alone; the limiter     *)
(* talks to Redis, the login handler to Postgres.  A request that          *)
(* RequireAuth or RequireAdmin refuses (401, 403) changes nothing and is a *)
(* stuttering step.                                                        *)
(***************************************************************************)
EXTENDS RateLimiter, AccessTokens

CONSTANTS
    Addresses,      \* client IP addresses
    UserRequests,   \* requests to the subscription routes
    AdminRequests   \* requests to the admin routes

Protected == UserRequests \cup AdminRequests

LoginKey(address) == <<"login", address>>
MutantKeyPerRoute(r, u) == <<IF r \in AdminRequests THEN "admin" ELSE "sub", u>>
UserKey(r, u) == <<"sub", u>>

ASSUME GatewayAssumption ==
    /\ Requests = Logins \cup Protected
    /\ Logins \cap Protected = {}
    /\ \A address \in Addresses : LoginKey(address) \in Keys
    /\ \A r \in Protected, u \in Users : UserKey(r, u) \in Keys

VARIABLE claims   \* what RequireAuth has put on the context of each request

gatewayVars == <<now, counters, calls, faults, role, lastAdmin, logins, tokens, claims>>

NoClaims == [role |-> "none"]

GatewayInit ==
    /\ LimiterInit
    /\ AuthInit
    /\ claims = [r \in Protected |-> NoClaims]

-----------------------------------------------------------------------------
(* POST /login. *)
EnterLogin(l, address) ==
    /\ Arrive(l, LoginKey(address))
    /\ UNCHANGED <<authVars, claims>>

Login(l) ==
    /\ At(l, "passed")
    /\ \/ \E u \in Users : ReadRole(l, u)
       \/ Sign(l)
    /\ UNCHANGED <<limiterVars, claims>>

(* RequireAuth and, on the admin routes, RequireAdmin. *)
Admits(r, token) ==
    /\ IsValid(token)
    /\ r \in AdminRequests => token.role = "admin"

MutantLimiterFirst(r, token) ==
    /\ At(r, "new")
    /\ Admits(r, token)
    /\ claims' = [claims EXCEPT ![r] = token]
    /\ calls' = [calls EXCEPT ![r].pc = "passed"]
    /\ UNCHANGED <<counters, faults, authVars>>

(* The limiter comes last and finds the user on the context. *)
Enter(r, token) ==
    /\ Admits(r, token)
    /\ claims' = [claims EXCEPT ![r] = token]
    /\ Arrive(r, UserKey(r, token.user))
    /\ UNCHANGED authVars

PassLimiter(r) ==
    /\ Handle(r)
    /\ UNCHANGED <<authVars, claims>>

ChangeRole ==
    /\ \E u \in Users, r \in Roles : r # role[u] /\ SetRole(u, r)
    /\ UNCHANGED <<limiterVars, claims>>

GatewayTick ==
    /\ Tick
    /\ KeepRoles
    /\ UNCHANGED claims

GatewayNext ==
    \/ /\ \/ \E l \in Logins : \/ \E address \in Addresses : EnterLogin(l, address)
                               \/ Login(l)
          \/ \E r \in Protected : \E token \in tokens : Enter(r, token)
          \/ \E r \in Requests : PassLimiter(r)
          \/ ChangeRole
       /\ UNCHANGED now
    \/ GatewayTick

GatewaySpec == GatewayInit /\ [][GatewayNext]_gatewayVars

-----------------------------------------------------------------------------
(* The gateway's variables have their types. *)
GatewayTypeOK ==
    /\ LimiterTypeOK
    /\ AuthTypeOK
    /\ claims \in [Protected -> Tokens \cup {NoClaims}]

(* Requests of a user that have reached their handlers: counted from time  *)
(* t on for the length of a window, or let through uncounted.              *)
Served(u, t) ==
    {r \in Protected : /\ At(r, "passed")
                       /\ claims[r] # NoClaims
                       /\ claims[r].user = u
                       /\ calls[r].n > 0 => (t <= calls[r].at /\ calls[r].at < t + Window)}

(* main.go:244-250 and 261-265: the per-user limit is in force on the      *)
(* subscription and the admin routes together, whatever tokens the user    *)
(* holds.  Only a failure of Redis lets a request past it.                 *)
UserBurstIsBounded ==
    \A u \in Users : \A t \in 0..now :
        Cardinality(Served(u, t)) < 2 * Limit + faults

(* jwt.go:43-47: a demotion takes effect when the tokens have expired.  A  *)
(* request enters an admin route only on behalf of a user who was an admin *)
(* no longer ago than a token lives, plus the time the login took between  *)
(* reading the role and signing it: a slow login stretches the promise.    *)
RoleLagIsBounded ==
    [][\A r \in AdminRequests :
          claims'[r] # claims[r]
             => LET token == claims'[r]
                    signed == token.expires - TokenTTL
                IN  /\ lastAdmin[token.user] # NeverAdmin
                    /\ now < lastAdmin[token.user] + TokenTTL + (signed - token.read)]_gatewayVars
=============================================================================
