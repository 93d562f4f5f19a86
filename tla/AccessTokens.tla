---------------------------- MODULE AccessTokens ----------------------------
(***************************************************************************)
(* Roles and the tokens that carry them (internal/handlers/auth_handler.go *)
(* login, internal/auth/jwt.go, migration 003): a login reads the user's   *)
(* role from the database and signs it into a token.  The two are separate *)
(* steps, the token is never taken back, and the operator changes roles in *)
(* the database whenever they like.                                        *)
(***************************************************************************)
EXTENDS Clock

CONSTANTS
    Users,       \* users of the service
    Logins,      \* login requests, each sent once
    TokenTTL     \* how long a token is valid

ASSUME TokenAssumption == TokenTTL \in Nat \ {0}

VARIABLES
    role,        \* table users: the role of each user
    lastAdmin,   \* history: when the user was last an admin, NeverAdmin if never
    logins,      \* how far each login is
    tokens       \* tokens in the hands of clients

authVars == <<role, lastAdmin, logins, tokens>>

NeverAdmin == -1

Roles == {"user", "admin"}

(* read is history: when the database answered with the role. *)
LoginCalls == [pc : {"new"}]
              \cup [pc : {"read", "done"}, user : Users, role : Roles, read : Nat]
NewLogin == [pc |-> "new"]

Tokens == [user : Users, role : Roles, read : Nat, expires : Nat]

AuthInit ==
    /\ role \in [Users -> Roles]
    /\ lastAdmin = [u \in Users |-> IF role[u] = "admin" THEN now ELSE NeverAdmin]
    /\ logins = [l \in Logins |-> NewLogin]
    /\ tokens = {}

(* There is no endpoint for it: an UPDATE by hand. *)
SetRole(u, r) ==
    /\ role' = [role EXCEPT ![u] = r]
    /\ lastAdmin' = [lastAdmin EXCEPT ![u] = IF r = "admin" THEN now ELSE @]
    /\ UNCHANGED <<logins, tokens>>

(* SELECT role FROM users.  An unknown user and a failed query end the     *)
(* login and change nothing.                                               *)
ReadRole(l, u) ==
    /\ logins[l].pc = "new"
    /\ logins' = [logins EXCEPT ![l] = [pc |-> "read", user |-> u,
                                        role |-> role[u], read |-> now]]
    /\ UNCHANGED <<role, lastAdmin, tokens>>

(* Sign: the role that was read, for TokenTTL from now. *)
TokenOf(login) ==
    [user |-> login.user, role |-> login.role, read |-> login.read,
     expires |-> now + TokenTTL]

Sign(l) ==
    /\ logins[l].pc = "read"
    /\ tokens' = tokens \cup {TokenOf(logins[l])}
    /\ logins' = [logins EXCEPT ![l].pc = "done"]
    /\ UNCHANGED <<role, lastAdmin>>

MutantNoLeeway(token) == now <= token.expires

(* Parse: the signature is right and the token has not expired. *)
IsValid(token) == now < token.expires

(* What the passing of time does to the history. *)
KeepRoles ==
    /\ lastAdmin' = [u \in Users |-> IF role[u] = "admin" THEN now' ELSE lastAdmin[u]]
    /\ UNCHANGED <<role, logins, tokens>>

-----------------------------------------------------------------------------
(* Roles, logins and tokens have their types. *)
AuthTypeOK ==
    /\ role \in [Users -> Roles]
    /\ lastAdmin \in [Users -> Nat \cup {NeverAdmin}]
    /\ logins \in [Logins -> LoginCalls]
    /\ tokens \subseteq Tokens

(* The role a token carries was its user's role when it was read. *)
MadeBy(claim) ==
    claim.role = "admin" => claim.read <= lastAdmin[claim.user]
=============================================================================
