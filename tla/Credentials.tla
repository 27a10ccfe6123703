----------------------------- MODULE Credentials -----------------------------
(***************************************************************************)
(* Passwords, reset tokens and refresh tokens: AuthService's login,        *)
(* refresh, verifyResetOtp, resetPassword and changePassword.              *)
(*                                                                         *)
(* As in Otp every statement is its own transaction, and requests          *)
(* interleave between a read, the bcrypt calls and the write.  A login     *)
(* whose password does not match, or a reset whose token matches no row,   *)
(* changes nothing and is left out, and so are roles, audiences and the    *)
(* length and confirmation of a new password.  That an e-mail address was  *)
(* proved (OtpService, OAuth) is an input here.                            *)
(*                                                                         *)
(* A refresh token is a signed JWT.  The user's row holds a bcrypt hash of *)
(* the last one issued; bcrypt looks at 72 bytes, and the first 72 bytes   *)
(* of all refresh tokens of one user are the same, so any of them compares *)
(* equal to any hash that is there.                                        *)
(***************************************************************************)
EXTENDS Integers, FiniteSets

CONSTANTS
    Slot,        \* concurrent requests
    User,        \* verified users
    Password,    \* passwords
    NoPassword,  \* the password of a user who signs in with OAuth only
    ResetId,     \* identifiers of rows of auth_tokens
    Jwt,         \* refresh tokens
    Nobody       \* the owner of a row or token that is not there

\* A row of auth_tokens: whose it is, and whether usedAt is null or the token
\* has expired.
ResetRow == [user: User \cup {Nobody}, used: BOOLEAN, expired: BOOLEAN]

NoRow == [user |-> Nobody, used |-> FALSE, expired |-> FALSE]

ASSUME CredentialsAssumption ==
    /\ IsFiniteSet(Slot) /\ Slot # {}
    /\ IsFiniteSet(ResetId)
    /\ NoPassword \notin Password
    /\ Nobody \notin User \cup ResetId

VARIABLES
    exists,       \* the users whose account has not been deleted
    password,     \* password[u]: the password whose hash is stored, if any
    refresh,      \* the users with a stored refresh-token hash
    resets,       \* resets[id]: the auth_tokens row with that identifier
    owner,        \* owner[t]: the user of the issued, unexpired refresh token t
    pc,           \* pc[s]: what the request in slot s does next
    who,          \* who[s]: its user
    new,          \* new[s]: the password it wants to set
    matched,      \* matched[s]: the reset row its token matched
    given,        \* history: given[s], the current password it gave
    sets,         \* history: sets[id], passwords set with the token of row id
    interrupted,  \* history: rows whose request failed between set and mark,
                  \* for which sets no longer counts
    revoked,      \* history: refresh tokens older than a change of password
    stored,       \* history: stored[u], the passwords stored for u by the last
                  \* reset and since, none before the first
    late          \* history: late[u], how many of them were stored by a change
                  \* that gave none of them

dbVars == <<exists, password, refresh, resets>>
requestVars == <<pc, who, new, matched, given>>
historyVars == <<sets, interrupted, revoked, stored, late>>
vars == <<dbVars, owner, requestVars, historyVars>>

-----------------------------------------------------------------------------
RowsOf(u) == {id \in ResetId : resets[id].user = u}

\* Mutant: findMany does not filter on usedAt.
ValidOrUsed(id) == resets[id] # NoRow /\ ~resets[id].expired

\* Rows resetPassword's findMany returns.
Valid(id) == resets[id] # NoRow /\ ~resets[id].used /\ ~resets[id].expired

IdsInUse == {id \in ResetId : resets[id] # NoRow \/ \E s \in Slot : matched[s] = id}

TypeOK ==
    /\ exists \subseteq User
    /\ password \in [User -> Password \cup {NoPassword}]
    /\ refresh \subseteq User
    /\ resets \in [ResetId -> ResetRow]
    /\ owner \in [Jwt -> User \cup {Nobody}]
    /\ pc \in [Slot -> {"idle", "issue", "dropTokens", "createToken",
                        "setByReset", "markUsed", "cleanUp", "setByChange"}]
    /\ who \in [Slot -> User \cup {Nobody}]
    /\ \A s \in Slot : pc[s] = "idle" <=> who[s] = Nobody
    /\ new \in [Slot -> Password \cup {NoPassword}]
    /\ matched \in [Slot -> ResetId \cup {Nobody}]
    /\ given \in [Slot -> Password \cup {NoPassword}]
    /\ sets \in [ResetId -> Nat]
    /\ interrupted \subseteq ResetId
    /\ revoked \subseteq Jwt
    /\ stored \in [User -> SUBSET (Password \cup {NoPassword})]
    /\ late \in [User -> Nat]

Init ==
    /\ exists = User
    /\ password \in [User -> Password \cup {NoPassword}]
    /\ refresh = {}
    /\ resets = [id \in ResetId |-> NoRow]
    /\ owner = [t \in Jwt |-> Nobody]
    /\ pc = [s \in Slot |-> "idle"]
    /\ who = [s \in Slot |-> Nobody]
    /\ new = [s \in Slot |-> NoPassword]
    /\ matched = [s \in Slot |-> Nobody]
    /\ given = [s \in Slot |-> NoPassword]
    /\ sets = [id \in ResetId |-> 0]
    /\ interrupted = {}
    /\ revoked = {}
    /\ stored = [u \in User |-> {}]
    /\ late = [u \in User |-> 0]

-----------------------------------------------------------------------------
Goto(s, label) == pc' = [pc EXCEPT ![s] = label]

\* A request has come and has found the user: it wants to set w, if anything.
Start(s, label, u, w) ==
    /\ pc[s] = "idle"
    /\ u \in exists
    /\ Goto(s, label)
    /\ who' = [who EXCEPT ![s] = u]
    /\ new' = [new EXCEPT ![s] = w]
    /\ UNCHANGED <<dbVars, owner, historyVars>>

Finish(s) ==
    /\ Goto(s, "idle")
    /\ who' = [who EXCEPT ![s] = Nobody]
    /\ new' = [new EXCEPT ![s] = NoPassword]
    /\ matched' = [matched EXCEPT ![s] = Nobody]
    /\ given' = [given EXCEPT ![s] = NoPassword]

-----------------------------------------------------------------------------
(* Sessions. *)

\* userLogin: the password given matches the one stored.
Login(s, u, w) ==
    /\ password[u] = w
    /\ Start(s, "issue", u, NoPassword)
    /\ UNCHANGED <<matched, given>>

\* A sign-in that needs no password: verifySignupOtp, or OAuth.
SignIn(s, u) ==
    /\ Start(s, "issue", u, NoPassword)
    /\ UNCHANGED <<matched, given>>

\* The refresh token t is accepted: it is genuine, and a hash is stored.
Refreshable(t) == owner[t] \in exists /\ owner[t] \in refresh

RefreshToken(s, t) ==
    /\ Refreshable(t)
    /\ Start(s, "issue", owner[t], NoPassword)
    /\ UNCHANGED <<matched, given>>

\* getTokens and updateRefreshToken, and the new token is handed out.
IssueTokens(s, t) ==
    /\ pc[s] = "issue"
    /\ who[s] \in exists
    /\ owner[t] = Nobody
    /\ refresh' = refresh \cup {who[s]}
    /\ owner' = [owner EXCEPT ![t] = who[s]]
    /\ Finish(s)
    /\ UNCHANGED <<exists, password, resets, historyVars>>

-----------------------------------------------------------------------------
(* Reset tokens. *)

\* verifyResetOtp: OtpService has accepted the code.
ResetOtpVerified(s, u) ==
    /\ Start(s, "dropTokens", u, NoPassword)
    /\ UNCHANGED <<matched, given>>

\* Rows are deleted, and what the histories say of them is forgotten.
DeleteRows(gone) ==
    /\ resets' = [id \in ResetId |-> IF id \in gone THEN NoRow ELSE resets[id]]
    /\ sets' = [id \in ResetId |-> IF id \in gone THEN 0 ELSE sets[id]]
    /\ interrupted' = interrupted \ gone

\* Mutant: earlier tokens are left alone.
KeepTokens(s) ==
    /\ pc[s] = "dropTokens"
    /\ Goto(s, "createToken")
    /\ UNCHANGED <<dbVars, owner, who, new, matched, given, historyVars>>

\* Its deleteMany.
DropTokens(s) ==
    /\ pc[s] = "dropTokens"
    /\ DeleteRows(RowsOf(who[s]))
    /\ Goto(s, "createToken")
    /\ UNCHANGED <<exists, password, refresh, owner, who, new, matched, given,
                   revoked, stored, late>>

\* Its create, and the token is handed out.
CreateToken(s, id) ==
    /\ pc[s] = "createToken"
    /\ who[s] \in exists
    /\ id \notin IdsInUse
    /\ resets' = [resets EXCEPT ![id] = [NoRow EXCEPT !.user = who[s]]]
    /\ Finish(s)
    /\ UNCHANGED <<exists, password, refresh, owner, historyVars>>

\* resetPassword: the token given matches the hash of the valid row id.
ResetPassword(s, id, w) ==
    /\ Valid(id)
    /\ Start(s, "setByReset", resets[id].user, w)
    /\ matched' = [matched EXCEPT ![s] = id]
    /\ UNCHANGED given

\* users.update: a password is stored, by a request that knows nothing of what
\* happened to the user since.  refreshToken: undefined leaves that column as it
\* is.  The tokens issued so far are those that "have been invalidated".
StorePassword(s) ==
    /\ who[s] \in exists
    /\ password' = [password EXCEPT ![who[s]] = new[s]]
    /\ revoked' = revoked \cup {t \in Jwt : owner[t] = who[s]}
    /\ UNCHANGED <<exists, refresh, resets, owner>>

\* resetPassword stores the hash of the new password.
SetByReset(s) ==
    /\ pc[s] = "setByReset"
    /\ StorePassword(s)
    /\ sets' = IF resets[matched[s]] = NoRow \/ matched[s] \in interrupted THEN sets
               ELSE [sets EXCEPT ![matched[s]] = @ + 1]
    /\ stored' = [stored EXCEPT ![who[s]] = {new[s]}]
    /\ late' = [late EXCEPT ![who[s]] = 0]
    /\ Goto(s, "markUsed")
    /\ new' = [new EXCEPT ![s] = NoPassword]
    /\ UNCHANGED <<who, matched, given, interrupted>>

\* It marks the token's row, if that is still there.
MarkUsed(s) ==
    /\ pc[s] = "markUsed"
    /\ resets[matched[s]] # NoRow
    /\ resets' = [resets EXCEPT ![matched[s]].used = TRUE]
    /\ Goto(s, "cleanUp")
    /\ matched' = [matched EXCEPT ![s] = Nobody]
    /\ UNCHANGED <<exists, password, refresh, owner, who, new, given, historyVars>>

\* It deletes all reset tokens of the user, and is answered.
CleanUp(s) ==
    /\ pc[s] = "cleanUp"
    /\ DeleteRows(RowsOf(who[s]))
    /\ Finish(s)
    /\ UNCHANGED <<exists, password, refresh, owner, revoked, stored, late>>

-----------------------------------------------------------------------------
(* Changing the password. *)

\* Mutant: the current password is not compared.
ChangeAnyPassword(s, u, c, w) ==
    /\ password[u] \in Password \ {w}
    /\ Start(s, "setByChange", u, w)
    /\ given' = [given EXCEPT ![s] = c]
    /\ UNCHANGED matched

\* changePassword: the current password given, c, matches, and the new one
\* differs.
ChangePassword(s, u, c, w) ==
    /\ password[u] = c /\ w # c
    /\ Start(s, "setByChange", u, w)
    /\ given' = [given EXCEPT ![s] = c]
    /\ UNCHANGED matched

\* It has hashed the new password and stores it.
SetByChange(s) ==
    LET u == who[s] IN
    /\ pc[s] = "setByChange"
    /\ StorePassword(s)
    /\ stored' = IF stored[u] = {} THEN stored ELSE [stored EXCEPT ![u] = @ \cup {new[s]}]
    /\ late' = IF stored[u] = {} \/ given[s] \in stored[u] THEN late
               ELSE [late EXCEPT ![u] = @ + 1]
    /\ Finish(s)
    /\ UNCHANGED <<sets, interrupted>>

-----------------------------------------------------------------------------
(* Failures and the environment. *)

\* History of requests T that will not get to mark the rows they matched.
Interrupt(T) ==
    LET unmarked == {id \in ResetId :
            /\ resets[id] # NoRow
            /\ \E s \in T : pc[s] = "markUsed" /\ matched[s] = id} IN
    /\ interrupted' = interrupted \cup unmarked
    /\ sets' = [id \in ResetId |-> IF id \in unmarked THEN 0 ELSE sets[id]]

\* The database refuses a statement, for the record it names is gone or for any
\* other reason: the request rejects with what it has done so far done.
Reject(s) ==
    /\ pc[s] # "idle"
    /\ Interrupt({s})
    /\ Finish(s)
    /\ UNCHANGED <<dbVars, owner, revoked, stored, late>>

\* The process stops and restarts: every request in flight is lost.
Restart ==
    /\ \E s \in Slot : pc[s] # "idle"
    /\ Interrupt(Slot)
    /\ pc' = [s \in Slot |-> "idle"]
    /\ who' = [s \in Slot |-> Nobody]
    /\ new' = [s \in Slot |-> NoPassword]
    /\ matched' = [s \in Slot |-> Nobody]
    /\ given' = [s \in Slot |-> NoPassword]
    /\ UNCHANGED <<dbVars, owner, revoked, stored, late>>

\* RESET_TOKEN_EXPIRY_MINUTES have passed.
ExpireReset(id) ==
    /\ resets[id] # NoRow /\ ~resets[id].expired
    /\ resets' = [resets EXCEPT ![id].expired = TRUE]
    /\ UNCHANGED <<exists, password, refresh, owner, requestVars, historyVars>>

\* A refresh token has expired.
ExpireJwt(t) ==
    /\ owner[t] # Nobody
    /\ owner' = [owner EXCEPT ![t] = Nobody]
    /\ revoked' = revoked \ {t}
    /\ UNCHANGED <<dbVars, requestVars, sets, interrupted, stored, late>>

\* The user deletes the account: the rows go with it.
DeleteAccount(u) ==
    /\ u \in exists
    /\ exists' = exists \ {u}
    /\ refresh' = refresh \ {u}
    /\ DeleteRows(RowsOf(u))
    /\ UNCHANGED <<password, owner, requestVars, revoked, stored, late>>

RequestStep(s) ==
    \/ \E t \in Jwt : IssueTokens(s, t)
    \/ DropTokens(s)
    \/ \E id \in ResetId : CreateToken(s, id)
    \/ SetByReset(s)
    \/ MarkUsed(s)
    \/ CleanUp(s)
    \/ SetByChange(s)
    \/ Reject(s)

Arrival(s) ==
    \/ \E u \in User : SignIn(s, u) \/ ResetOtpVerified(s, u)
    \/ \E u \in User, w \in Password :
           Login(s, u, w) \/ \E c \in Password : ChangePassword(s, u, c, w)
    \/ \E t \in Jwt : RefreshToken(s, t)
    \/ \E id \in ResetId, w \in Password : ResetPassword(s, id, w)

Next ==
    \/ \E s \in Slot : RequestStep(s) \/ Arrival(s)
    \/ \E id \in ResetId : ExpireReset(id)
    \/ \E t \in Jwt : ExpireJwt(t)
    \/ \E u \in User : DeleteAccount(u)
    \/ Restart

Spec == Init /\ [][Next]_vars

-----------------------------------------------------------------------------
(* Properties. *)

\* resetPassword marks its token used only after it has set the password, so
\* concurrent requests may all set one with the same token; but each of them at
\* most once, unless one fails between the two statements and leaves the token
\* as good as new.
ResetUsesBounded ==
    \A id \in ResetId :
        resets[id] # NoRow /\ id \notin interrupted => sets[id] <= Cardinality(Slot)

\* verifyResetOtp deletes and creates in two statements: overlapping requests
\* leave several tokens, but never more than there are requests in flight.
ResetRowsBounded == \A u \in User : Cardinality(RowsOf(u)) <= Cardinality(Slot)

\* changePassword compares the current password, hashes the new one for a while
\* and then stores it, whatever has been stored meanwhile.  So a reset may be
\* overwritten by someone who gave a password from before it, but only by
\* requests in flight when the reset stored its own: one for each other slot.
OldPasswordsLockedOut == \A u \in User : late[u] <= Cardinality(Slot) - 1

-----------------------------------------------------------------------------
(* What the documentation says, and the code does not keep. *)

\* "All user sessions have been invalidated for security"
\* (user-auth.controller.ts): no refresh token issued before a change of the
\* password is accepted after it.
SessionsInvalidated == \A t \in revoked : ~Refreshable(t)
=============================================================================
