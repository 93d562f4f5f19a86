-------------------------- MODULE ApiGatewayProofs --------------------------
(***************************************************************************)
(* Proofs about ApiGateway, for any number of users, tokens and requests:  *)
(* what runs below the middleware chains is the rate limiter, a demotion   *)
(* takes effect when the user's tokens have expired, and a user's requests *)
(* are limited whatever route they take.                                   *)
(***************************************************************************)
EXTENDS ApiGateway, RateLimiterProofs

(* What logins and tokens say of roles was true when it was read.          *)
AuthInv ==
    /\ now \in Nat
    /\ AuthTypeOK
    /\ \A u \in Users : /\ lastAdmin[u] <= now
                        /\ role[u] = "admin" => lastAdmin[u] = now
    /\ \A token \in tokens : MadeBy(token)
    /\ \A l \in Logins : logins[l].pc = "read" => MadeBy(logins[l])

(* The steps by what they do to users, logins and tokens.                  *)
AuthAction ==
    \/ UNCHANGED <<now, role, lastAdmin, logins, tokens>>
    \/ \E l \in Logins, u \in Users : ReadRole(l, u) /\ UNCHANGED now
    \/ \E l \in Logins : Sign(l) /\ UNCHANGED now
    \/ \E u \in Users, r \in Roles : SetRole(u, r) /\ UNCHANGED now
    \/ KeepRoles /\ now' = now + 1

LEMMA AuthCases == ASSUME [GatewayNext]_gatewayVars PROVE AuthAction
<1>1. CASE UNCHANGED gatewayVars
  BY <1>1 DEF gatewayVars, AuthAction
<1>2. ASSUME NEW l \in Logins, NEW address \in Addresses, EnterLogin(l, address), UNCHANGED now
      PROVE  AuthAction
  BY <1>2 DEF EnterLogin, authVars, AuthAction
<1>3. ASSUME NEW l \in Logins, Login(l), UNCHANGED now
      PROVE  AuthAction
  BY <1>3 DEF Login, AuthAction
<1>4. ASSUME NEW r \in Protected, NEW token \in tokens, Enter(r, token), UNCHANGED now
      PROVE  AuthAction
  BY <1>4 DEF Enter, authVars, AuthAction
<1>5. ASSUME NEW r \in Requests, PassLimiter(r), UNCHANGED now
      PROVE  AuthAction
  BY <1>5 DEF PassLimiter, authVars, AuthAction
<1>6. CASE ChangeRole /\ UNCHANGED now
  BY <1>6 DEF ChangeRole, AuthAction
<1>7. CASE GatewayTick
  BY <1>7 DEF GatewayTick, Tick, Advance, AuthAction
<1> QED BY <1>1, <1>2, <1>3, <1>4, <1>5, <1>6, <1>7 DEF GatewayNext

LEMMA AuthInitially == GatewayInit => AuthInv
<1> SUFFICES ASSUME GatewayInit PROVE AuthInv
  OBVIOUS
<1>1. /\ now = 0
      /\ role \in [Users -> Roles]
      /\ lastAdmin = [u \in Users |-> IF role[u] = "admin" THEN now ELSE NeverAdmin]
      /\ logins = [l \in Logins |-> NewLogin]
      /\ tokens = {}
  BY DEF GatewayInit, LimiterInit, ClockInit, AuthInit
<1>2. NewLogin \in LoginCalls /\ NewLogin.pc = "new"
  BY DEF NewLogin, LoginCalls
<1>3. AuthTypeOK
  BY <1>1, <1>2 DEF AuthTypeOK, NeverAdmin
<1>4. \A u \in Users : lastAdmin[u] <= now /\ (role[u] = "admin" => lastAdmin[u] = now)
  BY <1>1 DEF NeverAdmin
<1>5. \A l \in Logins : logins[l].pc # "read"
  BY <1>1, <1>2
<1> QED BY <1>1, <1>3, <1>4, <1>5 DEF AuthInv

(* MadeBy survives as long as nobody's lastAdmin decreases.                *)
LEMMA AuthInductive == AuthInv /\ [GatewayNext]_gatewayVars => AuthInv'
<1> SUFFICES ASSUME AuthInv, [GatewayNext]_gatewayVars PROVE AuthInv'
  OBVIOUS
<1>0. /\ now \in Nat
      /\ role \in [Users -> Roles]
      /\ lastAdmin \in [Users -> Nat \cup {NeverAdmin}]
      /\ logins \in [Logins -> LoginCalls]
      /\ tokens \subseteq Tokens
      /\ \A u \in Users : lastAdmin[u] <= now /\ (role[u] = "admin" => lastAdmin[u] = now)
      /\ \A token \in tokens : MadeBy(token)
      /\ \A l \in Logins : logins[l].pc = "read" => MadeBy(logins[l])
  BY DEF AuthInv, AuthTypeOK
<1>t. ASSUME NEW l \in Logins, logins[l].pc = "read"
      PROVE  logins[l] \in [pc : {"read", "done"}, user : Users, role : Roles, read : Nat]
  BY <1>0, <1>t DEF LoginCalls
<1>a. CASE UNCHANGED <<now, role, lastAdmin, logins, tokens>>
  BY <1>0, <1>a DEF AuthInv, AuthTypeOK, MadeBy
<1>b. ASSUME NEW l \in Logins, NEW u \in Users, ReadRole(l, u), UNCHANGED now
      PROVE  AuthInv'
  <2> DEFINE c == [pc |-> "read", user |-> u, role |-> role[u], read |-> now]
  <2>1. logins' = [logins EXCEPT ![l] = c] /\ UNCHANGED <<now, role, lastAdmin, tokens>>
    BY <1>b DEF ReadRole
  <2>2. c \in LoginCalls
    BY <1>0 DEF LoginCalls
  <2>3. c.role = "admin" => c.read <= lastAdmin[c.user]
    BY <1>0
  <2> HIDE DEF c
  <2>5. \A token \in tokens : MadeBy(token)'
    BY <1>0, <2>1 DEF MadeBy
  <2>7. \A i \in Logins : logins'[i].pc = "read" => MadeBy(logins[i])'
    <3> TAKE i \in Logins
    <3>1. CASE i = l
      <4>1. logins'[i] = c
        BY <1>0, <2>1, <3>1
      <4>2. c.role = "admin" => c.read <= lastAdmin'[c.user]
        BY <2>1, <2>3
      <4> QED BY <4>1, <4>2 DEF MadeBy
    <3>2. CASE i # l
      BY <1>0, <2>1, <3>2 DEF MadeBy
    <3> QED BY <3>1, <3>2
  <2> QED BY <1>0, <2>1, <2>2, <2>5, <2>7 DEF AuthInv, AuthTypeOK
<1>c. ASSUME NEW l \in Logins, Sign(l), UNCHANGED now
      PROVE  AuthInv'
  <2> DEFINE c == [logins[l] EXCEPT !.pc = "done"]
             t == TokenOf(logins[l])
  <2>1. /\ tokens' = tokens \cup {t}
        /\ logins' = [logins EXCEPT ![l] = c]
        /\ UNCHANGED <<now, role, lastAdmin>>
        /\ logins[l].pc = "read"
    BY <1>c DEF Sign
  <2>2. logins[l] \in [pc : {"read", "done"}, user : Users, role : Roles, read : Nat]
    BY <1>t, <2>1
  <2>3. c \in LoginCalls /\ c.pc = "done"
    BY <2>2 DEF LoginCalls
  <2>4. t \in Tokens
    BY <1>0, <2>2, TokenAssumption DEF TokenOf, Tokens
  <2>5. t.role = logins[l].role /\ t.read = logins[l].read /\ t.user = logins[l].user
    BY DEF TokenOf
  <2> HIDE DEF c, t
  <2>6. \A token \in tokens' : MadeBy(token)'
    BY <1>0, <2>1, <2>5 DEF MadeBy
  <2>7. \A i \in Logins : logins'[i].pc = "read" => MadeBy(logins[i])'
    BY <1>0, <2>1, <2>3 DEF MadeBy
  <2> QED BY <1>0, <2>1, <2>3, <2>4, <2>6, <2>7 DEF AuthInv, AuthTypeOK
<1>d. ASSUME role' \in [Users -> Roles],
             lastAdmin' \in [Users -> Nat \cup {NeverAdmin}],
             now' \in Nat,
             \A v \in Users : /\ lastAdmin[v] <= lastAdmin'[v]
                              /\ lastAdmin'[v] <= now'
                              /\ role'[v] = "admin" => lastAdmin'[v] = now',
             UNCHANGED <<logins, tokens>>
      PROVE  AuthInv'
  <2>1. ASSUME NEW claim, claim.user \in Users, claim.read \in Nat, MadeBy(claim)
        PROVE  claim.role = "admin" => claim.read <= lastAdmin'[claim.user]
    <3>1. lastAdmin[claim.user] \in Int /\ lastAdmin'[claim.user] \in Int
      BY <1>0, <1>d, <2>1 DEF NeverAdmin
    <3> QED BY <1>d, <2>1, <3>1 DEF MadeBy
  <2>2. \A token \in tokens' : MadeBy(token)'
    <3> SUFFICES ASSUME NEW token \in tokens
                 PROVE  token.role = "admin" => token.read <= lastAdmin'[token.user]
      BY <1>d DEF MadeBy
    <3>1. token.user \in Users /\ token.read \in Nat
      BY <1>0 DEF Tokens
    <3> QED BY <1>0, <2>1, <3>1
  <2>3. \A l \in Logins : logins'[l].pc = "read" => MadeBy(logins[l])'
    <3> SUFFICES ASSUME NEW l \in Logins, logins[l].pc = "read"
                 PROVE  logins[l].role = "admin" => logins[l].read <= lastAdmin'[logins[l].user]
      BY <1>d DEF MadeBy
    <3>1. logins[l].user \in Users /\ logins[l].read \in Nat
      BY <1>t
    <3> QED BY <1>0, <2>1, <3>1
  <2> QED BY <1>0, <1>d, <2>2, <2>3 DEF AuthInv, AuthTypeOK
<1>e. ASSUME NEW u \in Users, NEW r \in Roles, SetRole(u, r), UNCHANGED now
      PROVE  AuthInv'
  <2>1. /\ role' = [role EXCEPT ![u] = r]
        /\ lastAdmin' = [lastAdmin EXCEPT ![u] = IF r = "admin" THEN now ELSE @]
        /\ UNCHANGED <<logins, tokens, now>>
    BY <1>e DEF SetRole
  <2>2. role' \in [Users -> Roles] /\ lastAdmin' \in [Users -> Nat \cup {NeverAdmin}]
    BY <1>0, <2>1
  <2>3. ASSUME NEW v \in Users
        PROVE  /\ lastAdmin[v] <= lastAdmin'[v]
               /\ lastAdmin'[v] <= now'
               /\ role'[v] = "admin" => lastAdmin'[v] = now'
    <3>1. lastAdmin[v] \in Int
      BY <1>0 DEF NeverAdmin
    <3> QED BY <1>0, <2>1, <3>1
  <2> QED BY <1>0, <1>d, <2>1, <2>2, <2>3
<1>f. CASE KeepRoles /\ now' = now + 1
  <2>1. /\ lastAdmin' = [u \in Users |-> IF role[u] = "admin" THEN now' ELSE lastAdmin[u]]
        /\ UNCHANGED <<role, logins, tokens>>
    BY <1>f DEF KeepRoles
  <2>2. lastAdmin' \in [Users -> Nat \cup {NeverAdmin}] /\ now' \in Nat
    BY <1>0, <1>f, <2>1
  <2>3. ASSUME NEW v \in Users
        PROVE  /\ lastAdmin[v] <= lastAdmin'[v]
               /\ lastAdmin'[v] <= now'
               /\ role'[v] = "admin" => lastAdmin'[v] = now'
    <3>1. lastAdmin[v] \in Int /\ lastAdmin[v] <= now
      BY <1>0 DEF NeverAdmin
    <3> QED BY <1>0, <1>f, <2>1, <3>1
  <2> QED BY <1>0, <1>d, <2>1, <2>2, <2>3
<1> QED BY <1>a, <1>b, <1>c, <1>e, <1>f, AuthCases DEF AuthAction

LEMMA AuthInvariant == GatewaySpec => []AuthInv
<1> QED BY AuthInitially, AuthInductive, PTL DEF GatewaySpec

-----------------------------------------------------------------------------
(* Every step of the gateway is a step of the limiter, or none.            *)
LEMMA GatewayStepIsLimiterStep ==
    AuthInv /\ [GatewayNext]_gatewayVars => [LimiterNext]_redisVars
<1> SUFFICES ASSUME AuthInv, [GatewayNext]_gatewayVars PROVE [LimiterNext]_redisVars
  OBVIOUS
<1> USE GatewayAssumption
<1>1. CASE UNCHANGED gatewayVars
  BY <1>1 DEF gatewayVars, redisVars
<1>2. ASSUME NEW l \in Logins, NEW address \in Addresses, EnterLogin(l, address), UNCHANGED now
      PROVE  LimiterNext
  <2>1. l \in Requests /\ LoginKey(address) \in Keys
    OBVIOUS
  <2> QED BY <1>2, <2>1 DEF EnterLogin, LimiterNext
<1>3. ASSUME NEW l \in Logins, Login(l), UNCHANGED now
      PROVE  UNCHANGED redisVars
  BY <1>3 DEF Login, limiterVars, redisVars
<1>4. ASSUME NEW r \in Protected, NEW token \in tokens, Enter(r, token), UNCHANGED now
      PROVE  LimiterNext
  <2>1. token.user \in Users
    BY DEF AuthInv, AuthTypeOK, Tokens
  <2>2. r \in Requests /\ UserKey(r, token.user) \in Keys
    BY <2>1
  <2> QED BY <1>4, <2>2 DEF Enter, LimiterNext
<1>5. ASSUME NEW r \in Requests, PassLimiter(r), UNCHANGED now
      PROVE  LimiterNext
  BY <1>5 DEF PassLimiter, LimiterNext
<1>6. CASE ChangeRole /\ UNCHANGED now
  BY <1>6 DEF ChangeRole, limiterVars, redisVars
<1>7. CASE GatewayTick
  BY <1>7 DEF GatewayTick, LimiterNext
<1> QED BY <1>1, <1>2, <1>3, <1>4, <1>5, <1>6, <1>7 DEF GatewayNext

(* Below the middleware chains runs the rate limiter of RateLimiter:       *)
(* whatever it guarantees, it guarantees here.                             *)
LEMMA GatewayImplementsLimiter == GatewaySpec => LimiterSpec
<1>1. GatewayInit => LimiterInit
  BY DEF GatewayInit
<1> QED BY <1>1, GatewayStepIsLimiterStep, AuthInvariant, PTL DEF GatewaySpec, LimiterSpec

-----------------------------------------------------------------------------
(* Claims are tokens, and a protected request is counted for its user.     *)
ClaimsInv ==
    /\ claims \in [Protected -> Tokens \cup {NoClaims}]
    /\ \A r \in Protected :
          claims[r] # NoClaims => /\ claims[r] \in Tokens
                                  /\ calls[r].key = UserKey(r, claims[r].user)

(* No step of the limiter gives a request another key once it has one.     *)
LEMMA KeysStay ==
    ASSUME LimiterInv, NEW r \in Requests, Handle(r), NEW s \in Requests
    PROVE  calls'[s].key = calls[s].key
<1>1. calls \in [Requests -> Calls]
  BY DEF LimiterInv, LimiterTypeOK
<1>2. CASE Incr(r)
  BY <1>1, <1>2 DEF Incr, Calls
<1>3. CASE LoseIncrReply(r)
  BY <1>3 DEF LoseIncrReply
<1>4. CASE IncrFails(r)
  BY <1>1, <1>4 DEF IncrFails, Calls
<1>5. CASE ExpireNX(r)
  BY <1>1, <1>5 DEF ExpireNX, Calls
<1>6. CASE ExpireFails(r)
  BY <1>1, <1>6 DEF ExpireFails, Calls
<1>7. CASE AskTTL(r)
  BY <1>1, <1>7 DEF AskTTL, Calls
<1>8. CASE TTLFails(r)
  BY <1>1, <1>8 DEF TTLFails, Calls
<1>9. CASE Die(r)
  BY <1>1, <1>9 DEF Die, Calls
<1> QED BY <1>2, <1>3, <1>4, <1>5, <1>6, <1>7, <1>8, <1>9 DEF Handle

LEMMA ClaimsInductive ==
    AuthInv /\ LimiterInv /\ ClaimsInv /\ [GatewayNext]_gatewayVars => ClaimsInv'
<1> SUFFICES ASSUME AuthInv, LimiterInv, ClaimsInv, [GatewayNext]_gatewayVars
             PROVE  ClaimsInv'
  OBVIOUS
<1> USE GatewayAssumption
<1>0. /\ calls \in [Requests -> Calls]
      /\ claims \in [Protected -> Tokens \cup {NoClaims}]
      /\ tokens \subseteq Tokens
      /\ \A r \in Protected :
            claims[r] # NoClaims => /\ claims[r] \in Tokens
                                    /\ calls[r].key = UserKey(r, claims[r].user)
  BY DEF LimiterInv, LimiterTypeOK, ClaimsInv, AuthInv, AuthTypeOK
<1>1. ASSUME UNCHANGED claims, \A r \in Protected : calls'[r].key = calls[r].key
      PROVE  ClaimsInv'
  BY <1>0, <1>1 DEF ClaimsInv
<1>2. ASSUME NEW l \in Logins, NEW address \in Addresses, EnterLogin(l, address)
      PROVE  ClaimsInv'
  <2>1. calls' = [calls EXCEPT ![l].pc = "incr", ![l].key = LoginKey(address)]
        /\ UNCHANGED claims
    BY <1>2 DEF EnterLogin, Arrive
  <2>2. \A r \in Protected : r \in Requests /\ r # l
    OBVIOUS
  <2>3. \A r \in Protected : calls'[r].key = calls[r].key
    BY <1>0, <2>1, <2>2
  <2> QED BY <1>1, <2>1, <2>3
<1>3. ASSUME NEW l \in Logins, Login(l)
      PROVE  ClaimsInv'
  BY <1>1, <1>3 DEF Login, limiterVars
<1>4. ASSUME NEW r \in Protected, NEW token \in tokens, Enter(r, token)
      PROVE  ClaimsInv'
  <2>1. /\ calls' = [calls EXCEPT ![r].pc = "incr", ![r].key = UserKey(r, token.user)]
        /\ claims' = [claims EXCEPT ![r] = token]
    BY <1>4 DEF Enter, Arrive
  <2>2. r \in Requests /\ token \in Tokens
    BY <1>0
  <2>3. calls'[r].key = UserKey(r, token.user) /\ claims'[r] = token
    BY <1>0, <2>1, <2>2 DEF Calls
  <2>4. \A s \in Protected : s # r => claims'[s] = claims[s] /\ calls'[s].key = calls[s].key
    BY <1>0, <2>1
  <2>5. claims' \in [Protected -> Tokens \cup {NoClaims}]
    BY <1>0, <2>1, <2>2
  <2> QED BY <1>0, <2>2, <2>3, <2>4, <2>5 DEF ClaimsInv
<1>5. ASSUME NEW r \in Requests, PassLimiter(r)
      PROVE  ClaimsInv'
  <2>1. Handle(r) /\ UNCHANGED claims
    BY <1>5 DEF PassLimiter
  <2>2. \A s \in Protected : calls'[s].key = calls[s].key
    BY <2>1, KeysStay
  <2> QED BY <1>1, <2>1, <2>2
<1>6. CASE ChangeRole
  BY <1>1, <1>6 DEF ChangeRole, limiterVars
<1>7. CASE GatewayTick
  BY <1>1, <1>7 DEF GatewayTick, Tick
<1>8. CASE UNCHANGED gatewayVars
  BY <1>1, <1>8 DEF gatewayVars
<1> QED BY <1>2, <1>3, <1>4, <1>5, <1>6, <1>7, <1>8 DEF GatewayNext

LEMMA ClaimsInvariant == GatewaySpec => []ClaimsInv
<1>1. GatewayInit => ClaimsInv
  BY DEF GatewayInit, ClaimsInv
<1> QED BY <1>1, ClaimsInductive, AuthInvariant, GatewayImplementsLimiter, LimiterInvariant,
           PTL DEF GatewaySpec

(* The gateway's variables have their types.                               *)
THEOREM GatewayTypeCorrect == GatewaySpec => []GatewayTypeOK
<1>1. AuthInv /\ LimiterInv /\ ClaimsInv => GatewayTypeOK
  BY DEF AuthInv, LimiterInv, ClaimsInv, GatewayTypeOK
<1> QED BY <1>1, AuthInvariant, ClaimsInvariant, GatewayImplementsLimiter, LimiterInvariant, PTL

-----------------------------------------------------------------------------
(* A demotion takes effect when the tokens signed before it have expired,  *)
(* whatever logins are on their way.                                       *)
THEOREM RoleLagBounded == GatewaySpec => RoleLagIsBounded
<1> DEFINE Prompt ==
             \A r \in AdminRequests :
                claims'[r] # claims[r]
                   => LET token == claims'[r]
                          signed == token.expires - TokenTTL
                      IN  /\ lastAdmin[token.user] # NeverAdmin
                          /\ now < lastAdmin[token.user] + TokenTTL + (signed - token.read)
<1>1. AuthInv /\ ClaimsInv /\ [GatewayNext]_gatewayVars => [Prompt]_gatewayVars
  <2> SUFFICES ASSUME AuthInv, ClaimsInv, [GatewayNext]_gatewayVars,
                      NEW r \in AdminRequests, claims'[r] # claims[r]
               PROVE  /\ lastAdmin[claims'[r].user] # NeverAdmin
                      /\ now < lastAdmin[claims'[r].user] + TokenTTL
                                + ((claims'[r].expires - TokenTTL) - claims'[r].read)
    OBVIOUS
  <2>0. r \in Protected /\ claims \in [Protected -> Tokens \cup {NoClaims}]
    BY DEF Protected, ClaimsInv
  <2>1. \E s \in Protected, token \in tokens : Enter(s, token)
    BY DEF GatewayNext, gatewayVars, EnterLogin, Login, PassLimiter, ChangeRole, GatewayTick
  <2>2. PICK s \in Protected, token \in tokens : Enter(s, token)
    BY <2>1
  <2>3. s = r /\ claims'[r] = token /\ Admits(r, token)
    BY <2>0, <2>2 DEF Enter
  <2>4. now < token.expires /\ token.role = "admin"
    BY <2>3 DEF Admits, IsValid
  <2>5. /\ token \in Tokens /\ MadeBy(token) /\ now \in Nat
        /\ lastAdmin \in [Users -> Nat \cup {NeverAdmin}]
    BY DEF AuthInv, AuthTypeOK
  <2>6. token.read <= lastAdmin[token.user]
    BY <2>4, <2>5 DEF MadeBy
  <2>7. token.read \in Nat /\ token.expires \in Nat /\ token.user \in Users
    BY <2>5 DEF Tokens
  <2>8. lastAdmin[token.user] \in Nat
    BY <2>5, <2>6, <2>7 DEF NeverAdmin
  <2> QED BY <2>3, <2>4, <2>5, <2>6, <2>7, <2>8, TokenAssumption DEF NeverAdmin
<1> QED BY <1>1, AuthInvariant, ClaimsInvariant, PTL DEF GatewaySpec, RoleLagIsBounded

-----------------------------------------------------------------------------
(* A user's requests are limited together, whatever route they take and    *)
(* whatever tokens they show; only a failure of Redis lets one more pass.  *)
LEMMA UserBurstFollows ==
    LimiterInv /\ ClaimsInv /\ FailOpensAreFaults => UserBurstIsBounded
<1> SUFFICES ASSUME LimiterInv, ClaimsInv, FailOpensAreFaults, NEW u \in Users, NEW t \in 0..now
             PROVE  Cardinality(Served(u, t)) < 2 * Limit + faults
  BY DEF UserBurstIsBounded
<1> USE GatewayAssumption, LimiterAssumption
<1>0. faults \in Nat /\ calls \in [Requests -> Calls]
  BY DEF LimiterInv, LimiterTypeOK
<1> DEFINE S == Served(u, t)
           F == FailedOpen
           k == <<"sub", u>>
           L == LetThrough(k, t)
<1>1. CASE S = {}
  <2>1. Cardinality(S) = 0
    BY <1>1, FS_EmptySet
  <2> HIDE DEF S
  <2>2. Cardinality(S) < 2 * Limit + faults
    BY <1>0, <2>1
  <2> QED BY <2>2 DEF S
<1>2. CASE S # {}
  <2>1. k \in Keys
    BY <1>2 DEF Served, UserKey
  <2>2. S \in SUBSET (L \cup F)
    <3> SUFFICES ASSUME NEW r \in S, r \notin F
                 PROVE  r \in L
      OBVIOUS
    <3>1. r \in Requests /\ calls[r].key = k
      BY DEF Served, ClaimsInv, UserKey
    <3>2. calls[r].pc = "passed" /\ calls[r].n \in Nat /\ calls[r].n # 0
      BY <1>0, <3>1 DEF Served, At, FailedOpen, Calls
    <3>3. calls[r].n > 0
      BY <3>2
    <3> QED BY <3>1, <3>2, <3>3 DEF Served, LetThrough, Counted, At
  <2>3. IsFiniteSet(L) /\ Cardinality(L) < 2 * Limit
    BY <2>1, BurstFollows DEF BurstIsBounded
  <2>4. IsFiniteSet(F) /\ Cardinality(F) <= faults
    BY DEF FailOpensAreFaults
  <2> HIDE DEF S, F, k, L
  <2>5. Cardinality(L) \in Nat /\ Cardinality(F) \in Nat
    BY <2>3, <2>4, FS_CardinalityType
  <2>6. /\ IsFiniteSet(L \cup F)
        /\ Cardinality(L \cup F) = Cardinality(L) + Cardinality(F) - Cardinality(L \cap F)
    BY <2>3, <2>4, FS_Union
  <2>7. Cardinality(L \cap F) \in Nat
    <3>1. L \cap F \in SUBSET L
      OBVIOUS
    <3>2. IsFiniteSet(L \cap F)
      BY <2>3, <3>1, FS_Subset
    <3> QED BY <3>2, FS_CardinalityType
  <2>8. IsFiniteSet(S) /\ Cardinality(S) <= Cardinality(L \cup F)
    BY <2>2, <2>6, FS_Subset
  <2>9. Cardinality(S) \in Nat
    BY <2>8, FS_CardinalityType
  <2>10. Cardinality(S) < 2 * Limit + faults
    BY <1>0, <2>3, <2>4, <2>5, <2>6, <2>7, <2>8, <2>9
  <2> QED BY <2>10 DEF S
<1> QED BY <1>1, <1>2

(* The per-user limit is in force on all of a user's routes together.      *)
THEOREM UserBurstBounded == GatewaySpec => []UserBurstIsBounded
<1> QED BY UserBurstFollows, ClaimsInvariant, GatewayImplementsLimiter, LimiterInvariant,
           FailOpens, PTL
=============================================================================
