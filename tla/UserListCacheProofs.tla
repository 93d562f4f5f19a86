------------------------- MODULE UserListCacheProofs -------------------------
(***************************************************************************)
(* Proofs about UserListCache, for every number of users, rows, readers    *)
(* and writers: what the service writes are operations of the repository,  *)
(* the cache holds a user's own rows, and a list goes stale only while a   *)
(* DEL of its key is owed or by a read that a write overtook.              *)
(***************************************************************************)
EXTENDS UserListCache, RepositoryProofs

(* Every step of the service is an operation of the repository or leaves   *)
(* the tables alone.                                                       *)
LEMMA CacheStepIsRepoStep == [CacheNext]_vars => [RepoNext]_repoVars
<1> SUFFICES ASSUME [CacheNext]_vars
             PROVE  [RepoNext]_repoVars
  OBVIOUS
<1>1. ASSUME NEW c \in Callers, Write(c)
      PROVE  RepoNext
  BY <1>1 DEF Write, Subscribe, PaymentSucceeded, PaymentFailed, CancelForUser, RenewForUser,
              Sweep, RepoNext
<1>2. ASSUME NEW c \in Callers, Invalidate(c)
      PROVE  UNCHANGED repoVars
  BY <1>2 DEF Invalidate, InvalidateUserList, LoseDel
<1>3. ASSUME NEW r \in Readers, (\E u \in Users : MissCache(r, u)) \/ Read(r)
      PROVE  UNCHANGED repoVars
  BY <1>3 DEF MissCache, Read, SelectList, PopulateCache, ReadFails
<1>4. ASSUME NEW u \in Users, EntryExpires(u)
      PROVE  UNCHANGED repoVars
  BY <1>4 DEF EntryExpires
<1>5. CASE Tick /\ UNCHANGED cacheVars
  BY <1>5 DEF RepoNext
<1>6. CASE UNCHANGED vars
  BY <1>6 DEF vars, repoVars
<1> QED BY <1>1, <1>2, <1>3, <1>4, <1>5, <1>6 DEF CacheNext

(* The cache and its readers change nothing about what the tables promise. *)
THEOREM CacheKeepsRepository == CacheSpec => RepoSpec /\ []RepoInv
<1>1. CacheInit => RepoInit
  BY DEF CacheInit
<1> QED BY <1>1, CacheStepIsRepoStep, RepoInvariant, PTL DEF CacheSpec, RepoSpec

-----------------------------------------------------------------------------
(* A step that touches only rows of other users leaves a user's list as it *)
(* is.                                                                     *)
LEMMA OtherRowsKeepList ==
    ASSUME NEW u \in Users,
           \A p \in Intents : \/ subs'[p] = subs[p]
                              \/ /\ subs[p] = NoRow \/ subs[p].user # u
                                 /\ subs'[p] = NoRow \/ subs'[p].user # u
    PROVE  ListOf(u)' = ListOf(u)
<1>1. OwnRows(u)' = OwnRows(u)
  BY DEF OwnRows
<1>2. \A p \in OwnRows(u) : subs'[p] = subs[p]
  BY DEF OwnRows
<1> QED BY <1>1, <1>2 DEF ListOf

(* A write changes the list of a user only if it owes the DEL of the key.  *)
LEMMA WritesOwe ==
    ASSUME RepoTypeOK, NEW c \in Callers, Write(c), NEW u \in Users,
           owed \in [Callers -> SUBSET Users]
    PROVE  IsOwed(u)' \/ ListOf(u)' = ListOf(u)
<1>1. ASSUME u \in owed'[c]
      PROVE  IsOwed(u)'
  BY <1>1 DEF IsOwed
<1>2. ASSUME NEW p \in Intents, NEW v \in Users, NEW creator \in Creators,
             Subscribe(c, p, v, creator)
      PROVE  IsOwed(u)' \/ ListOf(u)' = ListOf(u)
  <2>1. CASE v = u
    BY <1>1, <1>2, <2>1 DEF Subscribe, Owe
  <2>2. CASE v # u
    <3>1. /\ subs[p] = NoRow /\ subs'[p].user # u
          /\ \A q \in Intents : q # p => subs'[q] = subs[q]
      BY <1>2, <2>2 DEF Subscribe, CreatePending, RepoTypeOK
    <3> QED BY <3>1, OtherRowsKeepList
  <2> QED BY <2>1, <2>2
<1>3. ASSUME NEW p \in Intents, owed'[c] = {subs[p].user},
             \A q \in Intents : q # p => subs'[q] = subs[q],
             subs'[p].user = subs[p].user
      PROVE  IsOwed(u)' \/ ListOf(u)' = ListOf(u)
  <2>1. CASE subs[p].user = u
    BY <1>1, <1>3, <2>1
  <2>2. CASE subs[p].user # u
    BY <1>3, <2>2, OtherRowsKeepList
  <2> QED BY <2>1, <2>2
<1>4. CASE Sweep(c)
  <2>1. owed'[c] = {subs[p].user : p \in Overdue}
    BY <1>4 DEF Sweep, Owe
  <2>2. CASE \E p \in Overdue : subs[p].user = u
    <3>1. u \in owed'[c]
      BY <2>1, <2>2
    <3> QED BY <1>1, <3>1
  <2>3. CASE ~ \E p \in Overdue : subs[p].user = u
    <3>1. \A p \in Intents : p \notin Overdue => subs'[p] = subs[p]
      BY <1>4 DEF Sweep, ExpireOverdue
    <3>2. ASSUME NEW p \in Overdue
          PROVE  subs'[p].user # u /\ subs[p].user # u
      <4>1. p \in Intents /\ subs[p] \in Rows
        BY DEF Overdue, RepoTypeOK, NoRow
      <4>2. subs'[p] = [subs[p] EXCEPT !.status = "expired"]
        BY <1>4, <4>1 DEF Sweep, ExpireOverdue
      <4> QED BY <2>3, <4>1, <4>2 DEF Rows
    <3>3. \A p \in Intents : \/ subs'[p] = subs[p]
                             \/ /\ subs[p] = NoRow \/ subs[p].user # u
                                /\ subs'[p] = NoRow \/ subs'[p].user # u
      BY <3>1, <3>2
    <3> QED BY <3>3, OtherRowsKeepList
  <2> QED BY <2>2, <2>3
<1>5. ASSUME NEW p \in Intents, NEW e \in Events, NEW amount \in Amounts,
             PaymentSucceeded(c, p, e, amount)
      PROVE  IsOwed(u)' \/ ListOf(u)' = ListOf(u)
  <2>1. /\ owed'[c] = {subs[p].user}
        /\ \A q \in Intents : q # p => subs'[q] = subs[q]
        /\ subs'[p].user = subs[p].user
    BY <1>5 DEF PaymentSucceeded, MarkPaymentSucceeded, Owe, RepoTypeOK, Rows, NoRow
  <2> QED BY <1>3, <2>1
<1>6. ASSUME NEW p \in Intents, PaymentFailed(c, p) \/ CancelForUser(c, p)
      PROVE  IsOwed(u)' \/ ListOf(u)' = ListOf(u)
  <2>1. /\ owed'[c] = {subs[p].user}
        /\ \A q \in Intents : q # p => subs'[q] = subs[q]
        /\ subs'[p].user = subs[p].user
    BY <1>6 DEF PaymentFailed, MarkPaymentFailed, CancelForUser, Cancel, Owe, RepoTypeOK, Rows, NoRow
  <2> QED BY <1>3, <2>1
<1>7. ASSUME NEW p \in Intents, RenewForUser(c, p)
      PROVE  IsOwed(u)' \/ ListOf(u)' = ListOf(u)
  <2>1. /\ owed'[c] = {subs[p].user}
        /\ \A q \in Intents : q # p => subs'[q] = subs[q]
        /\ subs'[p].user = subs[p].user
    BY <1>7 DEF RenewForUser, Renew, Owe, RepoTypeOK, Rows, NoRow
  <2> QED BY <1>3, <2>1
<1> QED BY <1>2, <1>4, <1>5, <1>6, <1>7 DEF Write

-----------------------------------------------------------------------------
(* The inductive invariant: the type invariant, and that cache and reads   *)
(* are functions on the users and the readers.                             *)
CacheInv ==
    /\ CacheTypeOK
    /\ cache = [u \in Users |-> cache[u]]
    /\ reads = [r \in Readers |-> reads[r]]

(* What SELECT returns for a user are rows of that user.                   *)
LEMMA ListOfType == ASSUME RepoTypeOK, NEW u \in Users PROVE IsListOf(ListOf(u), u)
BY DEF IsListOf, ListOf, OwnRows, RepoTypeOK

LEMMA CacheInvInit == CacheInit => CacheInv
<1>1. CacheInit => RepoTypeOK
  BY RepoInvInit DEF CacheInit, RepoInv
<1> QED BY <1>1 DEF CacheInit, CacheInv, CacheTypeOK

LEMMA CacheInvStep == CacheInv /\ [CacheNext]_vars => CacheInv'
<1> SUFFICES ASSUME CacheInv, [CacheNext]_vars
             PROVE  CacheInv'
  OBVIOUS
<1>1. RepoTypeOK'
  BY CacheStepIsRepoStep, RepoTypeStep DEF CacheInv, CacheTypeOK
<1>2. ASSUME NEW c \in Callers, Write(c)
      PROVE  CacheInv'
  <2>1. UNCHANGED <<cache, reads, lostDels>>
    BY <1>2 DEF Write, Subscribe, PaymentSucceeded, PaymentFailed, CancelForUser, RenewForUser,
                Sweep, Owe
  <2>2. owed' \in [Callers -> SUBSET Users]
    <3>1. ASSUME NEW p \in Intents, subs[p].status # "none"
          PROVE  subs[p].user \in Users
      BY <3>1 DEF CacheInv, CacheTypeOK, RepoTypeOK, Rows, NoRow
    <3>2. CASE Sweep(c)
      BY <3>1, <3>2 DEF Sweep, Owe, Overdue, CacheInv, CacheTypeOK
    <3>3. ASSUME NEW p \in Intents, NEW v \in Users, NEW creator \in Creators,
                 Subscribe(c, p, v, creator)
          PROVE  owed' \in [Callers -> SUBSET Users]
      BY <3>3 DEF Subscribe, Owe, CacheInv, CacheTypeOK
    <3>4. ASSUME NEW p \in Intents, NEW e \in Events, NEW amount \in Amounts,
                 PaymentSucceeded(c, p, e, amount)
          PROVE  owed' \in [Callers -> SUBSET Users]
      <4>1. subs[p].user \in Users
        BY <3>4 DEF PaymentSucceeded, MarkPaymentSucceeded, CacheInv, CacheTypeOK, RepoTypeOK, Rows
      <4> QED BY <3>4, <4>1 DEF PaymentSucceeded, Owe, CacheInv, CacheTypeOK
    <3>5. ASSUME NEW p \in Intents,
                 PaymentFailed(c, p) \/ CancelForUser(c, p) \/ RenewForUser(c, p)
          PROVE  owed' \in [Callers -> SUBSET Users]
      <4>1. subs[p].user \in Users
        BY <3>1, <3>5 DEF PaymentFailed, MarkPaymentFailed, CancelForUser, Cancel, RenewForUser, Renew
      <4> QED BY <3>5, <4>1 DEF PaymentFailed, CancelForUser, RenewForUser, Owe, CacheInv, CacheTypeOK
    <3> QED BY <1>2, <3>2, <3>3, <3>4, <3>5 DEF Write
  <2> QED BY <1>1, <2>1, <2>2 DEF CacheInv, CacheTypeOK, IsListOf
<1>3. ASSUME NEW c \in Callers, Invalidate(c)
      PROVE  CacheInv'
  BY <1>1, <1>3 DEF Invalidate, InvalidateUserList, LoseDel, CacheInv, CacheTypeOK, IsListOf
<1>4. ASSUME NEW r \in Readers, NEW u \in Users, MissCache(r, u)
      PROVE  CacheInv'
  BY <1>1, <1>4 DEF MissCache, CacheInv, CacheTypeOK, IsListOf
<1>5. ASSUME NEW r \in Readers, SelectList(r)
      PROVE  CacheInv'
  <2> DEFINE u == reads[r].user
  <2>1. u \in Users
    BY <1>5 DEF SelectList, CacheInv, CacheTypeOK, NoRead
  <2>2. IsListOf(ListOf(u), u)
    BY <2>1, ListOfType DEF CacheInv, CacheTypeOK
  <2>3. reads'[r] = [pc |-> "set", user |-> u, list |-> ListOf(u)]
    BY <1>5 DEF SelectList, CacheInv
  <2> QED BY <1>1, <1>5, <2>2, <2>3 DEF SelectList, CacheInv, CacheTypeOK, IsListOf
<1>6. ASSUME NEW r \in Readers, PopulateCache(r)
      PROVE  CacheInv'
  <2> DEFINE u == reads[r].user
  <2>1. IsListOf(reads[r].list, u)
    BY <1>6 DEF PopulateCache, CacheInv, CacheTypeOK, NoRead
  <2>2. cache' = [cache EXCEPT ![u] = Entry(reads[r].list)]
    BY <1>6 DEF PopulateCache
  <2>3. \A v \in Users : cache'[v] = NoEntry \/ IsListOf(cache'[v].list, v)
    <3>1. \A v \in Users : v # u => cache'[v] = cache[v]
      BY <2>2 DEF CacheInv
    <3>2. ASSUME u \in Users PROVE cache'[u].list = reads[r].list
      BY <2>2, <3>2 DEF CacheInv, Entry
    <3> QED BY <2>1, <3>1, <3>2 DEF CacheInv, CacheTypeOK
  <2>4. cache' = [v \in Users |-> cache'[v]]
    BY <2>2 DEF CacheInv
  <2>5. /\ reads' = [q \in Readers |-> reads'[q]]
        /\ \A q \in Readers : reads'[q] = NoRead \/ reads'[q] = reads[q]
    BY <1>6 DEF PopulateCache, CacheInv
  <2> QED BY <1>1, <1>6, <2>3, <2>4, <2>5 DEF PopulateCache, CacheInv, CacheTypeOK, IsListOf
<1>7. ASSUME NEW r \in Readers, ReadFails(r)
      PROVE  CacheInv'
  BY <1>1, <1>7 DEF ReadFails, CacheInv, CacheTypeOK, IsListOf
<1>8. ASSUME NEW u \in Users, EntryExpires(u)
      PROVE  CacheInv'
  BY <1>1, <1>8 DEF EntryExpires, CacheInv, CacheTypeOK, IsListOf
<1>9. CASE Tick /\ UNCHANGED cacheVars
  BY <1>1, <1>9 DEF cacheVars, CacheInv, CacheTypeOK, IsListOf
<1>10. CASE UNCHANGED vars
  BY <1>1, <1>10 DEF vars, CacheInv, CacheTypeOK, IsListOf
<1> QED BY <1>2, <1>3, <1>4, <1>5, <1>6, <1>7, <1>8, <1>9, <1>10 DEF CacheNext, Read

(* The cache keeps its types; the entry of a user's key and a list on its  *)
(* way there never hold a row of another user.                             *)
THEOREM CacheTypeCorrect == CacheSpec => []CacheTypeOK
<1>1. CacheInv => CacheTypeOK
  BY DEF CacheInv
<1> QED BY <1>1, CacheInvInit, CacheInvStep, PTL DEF CacheSpec

-----------------------------------------------------------------------------
(* A list goes stale only by a write that owes the DEL of its key, or by   *)
(* the SET of a read that a write overtook.                                *)
LEMMA StalenessStep ==
    ASSUME CacheInv, [CacheNext]_vars, NEW u \in Users, ~ Stale(u), Stale(u)'
    PROVE  IsOwed(u)' \/ \E r \in Readers : Overtaken(r, u) /\ PopulateCache(r)
<1>1. ASSUME cache'[u] = cache[u], ListOf(u)' = ListOf(u)
      PROVE  FALSE
  BY <1>1 DEF Stale
<1>2. ASSUME UNCHANGED repoVars
      PROVE  ListOf(u)' = ListOf(u)
  BY <1>2 DEF repoVars, ListOf, OwnRows
<1>3. cache'[u] # NoEntry
  BY DEF Stale
<1>4. ASSUME NEW c \in Callers, Write(c)
      PROVE  IsOwed(u)'
  <2>1. cache' = cache
    BY <1>4 DEF Write, Subscribe, PaymentSucceeded, PaymentFailed, CancelForUser, RenewForUser,
                Sweep, Owe
  <2>2. IsOwed(u)' \/ ListOf(u)' = ListOf(u)
    BY <1>4, WritesOwe DEF CacheInv, CacheTypeOK
  <2> QED BY <1>1, <2>1, <2>2
<1>5. ASSUME NEW c \in Callers, Invalidate(c)
      PROVE  FALSE
  <2>1. UNCHANGED repoVars /\ cache'[u] = cache[u]
    BY <1>3, <1>5 DEF Invalidate, InvalidateUserList, LoseDel, CacheInv
  <2> QED BY <1>1, <1>2, <2>1
<1>6. ASSUME NEW r \in Readers, PopulateCache(r)
      PROVE  Overtaken(r, u)
  <2>1. UNCHANGED repoVars /\ ListOf(u)' = ListOf(u)
    BY <1>2, <1>6 DEF PopulateCache
  <2>2. CASE reads[r].user # u
    <3>1. cache'[u] = cache[u]
      BY <1>6, <2>2 DEF PopulateCache, CacheInv
    <3> QED BY <1>1, <2>1, <3>1
  <2>3. CASE reads[r].user = u
    <3>1. cache'[u].list = reads[r].list
      BY <1>6, <2>3 DEF PopulateCache, CacheInv, Entry
    <3>2. cache'[u].list # ListOf(u)
      BY <2>1 DEF Stale
    <3> QED BY <1>6, <2>3, <3>1, <3>2 DEF PopulateCache, Overtaken
  <2> QED BY <2>2, <2>3
<1>7. ASSUME NEW r \in Readers,
             (\E v \in Users : MissCache(r, v)) \/ SelectList(r) \/ ReadFails(r)
      PROVE  FALSE
  <2>1. UNCHANGED <<repoVars, cache>>
    BY <1>7 DEF MissCache, SelectList, ReadFails
  <2> QED BY <1>1, <1>2, <2>1
<1>8. ASSUME NEW v \in Users, EntryExpires(v)
      PROVE  FALSE
  <2>1. UNCHANGED repoVars /\ cache'[u] = cache[u]
    BY <1>3, <1>8 DEF EntryExpires, CacheInv
  <2> QED BY <1>1, <1>2, <2>1
<1>9. CASE Tick /\ UNCHANGED cacheVars
  <2>1. cache' = cache /\ ListOf(u)' = ListOf(u)
    BY <1>9 DEF Tick, cacheVars, ListOf, OwnRows
  <2> QED BY <1>1, <2>1
<1>10. CASE UNCHANGED vars
  <2>1. cache' = cache /\ UNCHANGED repoVars
    BY <1>10 DEF vars, repoVars
  <2> QED BY <1>1, <1>2, <2>1
<1> QED BY <1>4, <1>5, <1>6, <1>7, <1>8, <1>9, <1>10 DEF CacheNext, Read

(* No write path of the service forgets a key it has to delete or deletes  *)
(* it before the commit, the sweep over many users included.               *)
THEOREM StaleOnlyByWriteOrRace == CacheSpec => StalenessIsOwed
<1>1. CacheInv /\ [CacheNext]_vars
        => [\A u \in Users :
              ~ Stale(u) /\ Stale(u)'
                 => IsOwed(u)' \/ \E r \in Readers : Overtaken(r, u) /\ PopulateCache(r)]_vars
  BY StalenessStep
<1> QED BY <1>1, CacheInvInit, CacheInvStep, PTL DEF CacheSpec, StalenessIsOwed
=============================================================================
