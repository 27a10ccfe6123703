--------------------------------- MODULE Otp ---------------------------------
(***************************************************************************)
(* One-time passcodes: OtpService (generateAndSendOtp, verifyOtp,          *)
(* resendOtp), the repository methods it calls in UsersService, and the    *)
(* requests that reach it: signup, resend and verify of the e-mail         *)
(* address, and forgot-password and verify of a reset.                     *)
(*                                                                         *)
(* Every repository method is a statement of its own, so requests          *)
(* interleave between a lookup, the bcrypt comparison and the update, and  *)
(* between the deleteMany and the create of createOtp.  A request that     *)
(* findByEmail refuses changes nothing and is left out; so is the mail,    *)
(* which is sent without being waited for and never looked at again.       *)
(* verifyOtp's callers go on to issue tokens: see Credentials.             *)
(***************************************************************************)
EXTENDS Integers, FiniteSets

CONSTANTS
    Slot,         \* concurrent requests: a slot serves one request at a time
    User,         \* user ids; each has one e-mail address
    Code,         \* six-digit codes
    MaxAttempts,  \* MaxAttempts[p]: OTP_MAX_ATTEMPTS_SIGNUP, .._PASSWORD_RESET
    OtpId,        \* identifiers of rows (UUIDs)
    NoOtp, NoRequest, NoCode   \* the absence of a row, a request, a guess

Purpose == {"signup", "reset"}

\* A row of otps.  The number of failed attempts is a counter of the row;
\* usedAt is null while uses = 0, and uses counts how often it was set.
OtpRow == [user: User, purpose: Purpose, code: Code,
           attempts: Nat, uses: Nat, expired: BOOLEAN]

Request == [user: User, purpose: Purpose, guess: Code \cup {NoCode}]

ASSUME OtpAssumption ==
    /\ IsFiniteSet(Slot) /\ Slot # {}
    /\ IsFiniteSet(OtpId)
    /\ MaxAttempts \in [Purpose -> Nat \ {0}]
    /\ NoOtp \notin OtpRow /\ NoOtp \notin OtpId
    /\ NoRequest \notin Request
    /\ NoCode \notin Code

VARIABLES
    account,  \* account[u]: "none", "unverified", "verified" or "deleted"
    otps,     \* otps[id]: the row with that identifier, or NoOtp
    pc,       \* pc[s]: what the request in slot s does next
    req,      \* req[s]: whom it is for and the code it submits
    seen      \* seen[s]: the OTP that findValidOtp returned to it

vars == <<account, otps, pc, req, seen>>

-----------------------------------------------------------------------------
(* The table. *)

Exists(u) == account[u] \in {"unverified", "verified"}

\* Identifiers some row or some request still holds: a new row has another one.
IdsInUse == {id \in OtpId : otps[id] # NoOtp \/ \E s \in Slot : seen[s] = id}

\* The rows of user u and purpose p.
RowsOf(u, p) ==
    {id \in OtpId : otps[id] # NoOtp /\ otps[id].user = u /\ otps[id].purpose = p}

\* Mutant: findValidOtp does not filter on the purpose.
ValidOfAnyPurpose(u, p) ==
    {id \in RowsOf(u, "signup") \cup RowsOf(u, "reset") :
        otps[id].uses = 0 /\ ~otps[id].expired}

\* findValidOtp returns any of these: its findFirst names no order.
Valid(u, p) == {id \in RowsOf(u, p) : otps[id].uses = 0 /\ ~otps[id].expired}

Locked(id) == otps[id].attempts >= MaxAttempts[otps[id].purpose]

-----------------------------------------------------------------------------
TypeOK ==
    /\ account \in [User -> {"none", "unverified", "verified", "deleted"}]
    /\ otps \in [OtpId -> OtpRow \cup {NoOtp}]
    /\ pc \in [Slot -> {"idle", "delete", "create", "find",
                        "increment", "mark", "verifyEmail"}]
    /\ req \in [Slot -> Request \cup {NoRequest}]
    /\ \A s \in Slot : pc[s] = "idle" <=> req[s] = NoRequest
    /\ seen \in [Slot -> OtpId \cup {NoOtp}]
    /\ \A s \in Slot : pc[s] \in {"increment", "mark"} => seen[s] \in OtpId

Init ==
    /\ account = [u \in User |-> "none"]
    /\ otps = [id \in OtpId |-> NoOtp]
    /\ pc = [s \in Slot |-> "idle"]
    /\ req = [s \in Slot |-> NoRequest]
    /\ seen = [s \in Slot |-> NoOtp]

-----------------------------------------------------------------------------
(* Requests arrive. *)

Goto(s, label) == pc' = [pc EXCEPT ![s] = label]

Start(s, label, u, p, g) ==
    /\ pc[s] = "idle"
    /\ Goto(s, label)
    /\ req' = [req EXCEPT ![s] = [user |-> u, purpose |-> p, guess |-> g]]
    /\ UNCHANGED <<otps, seen>>

Finish(s) ==
    /\ Goto(s, "idle")
    /\ req' = [req EXCEPT ![s] = NoRequest]
    /\ seen' = [seen EXCEPT ![s] = NoOtp]

\* userSignup has created the user (its e-mail is unique) and wants an OTP.
Signup(s, u) ==
    /\ account[u] = "none"
    /\ account' = [account EXCEPT ![u] = "unverified"]
    /\ Start(s, "delete", u, "signup", NoCode)

\* resendOtp has found an unverified user.
Resend(s, u) ==
    /\ account[u] = "unverified"
    /\ Start(s, "delete", u, "signup", NoCode)
    /\ UNCHANGED account

\* forgotPassword has found a user.
ForgotPassword(s, u) ==
    /\ Exists(u)
    /\ Start(s, "delete", u, "reset", NoCode)
    /\ UNCHANGED account

\* verifyOtp has found the user, unverified if it is for the signup.
Verify(s, u, p, g) ==
    /\ Exists(u)
    /\ p = "signup" => account[u] = "unverified"
    /\ Start(s, "find", u, p, g)
    /\ UNCHANGED account

-----------------------------------------------------------------------------
(* createOtp. *)

\* Mutant: the rows of the user and purpose are not cleaned up.
KeepOldRows(s) ==
    /\ pc[s] = "delete"
    /\ Goto(s, "create")
    /\ UNCHANGED <<account, otps, req, seen>>

\* Its deleteMany: the user's rows for this purpose go.
DeleteOld(s) ==
    LET gone == RowsOf(req[s].user, req[s].purpose) IN
    /\ pc[s] = "delete"
    /\ otps' = [id \in OtpId |-> IF id \in gone THEN NoOtp ELSE otps[id]]
    /\ Goto(s, "create")
    /\ UNCHANGED <<account, req, seen>>

\* Its create, and the request is answered.  The foreign key wants the user.
CreateOtp(s, c, id) ==
    LET u == req[s].user  p == req[s].purpose IN
    /\ pc[s] = "create"
    /\ Exists(u)
    /\ id \notin IdsInUse
    /\ otps' = [otps EXCEPT ![id] =
                   [user |-> u, purpose |-> p, code |-> c,
                    attempts |-> 0, uses |-> 0, expired |-> FALSE]]
    /\ Finish(s)
    /\ UNCHANGED account

-----------------------------------------------------------------------------
(* verifyOtp. *)

\* Mutant: the number of failed attempts is not looked at.
FindLocked(s, id) ==
    /\ pc[s] = "find"
    /\ id \in Valid(req[s].user, req[s].purpose)
    /\ seen' = [seen EXCEPT ![s] = id]
    /\ Goto(s, IF otps[id].code = req[s].guess THEN "mark" ELSE "increment")
    /\ UNCHANGED <<account, otps, req>>

\* findValidOtp returns row id, which is not locked; the comparison with its
\* hash then decides how to go on, whatever becomes of the row meanwhile.
Find(s, id) ==
    /\ pc[s] = "find"
    /\ id \in Valid(req[s].user, req[s].purpose)
    /\ ~Locked(id)
    /\ seen' = [seen EXCEPT ![s] = id]
    /\ Goto(s, IF otps[id].code = req[s].guess THEN "mark" ELSE "increment")
    /\ UNCHANGED <<account, otps, req>>

\* No valid OTP, or the one returned is locked: the request is refused.
Refuse(s) ==
    LET valid == Valid(req[s].user, req[s].purpose) IN
    /\ pc[s] = "find"
    /\ valid = {} \/ \E id \in valid : Locked(id)
    /\ Finish(s)
    /\ UNCHANGED <<account, otps>>

\* Wrong code: incrementOtpAttempts, and the request is refused.
CountAttempt(s) ==
    /\ pc[s] = "increment"
    /\ otps[seen[s]] # NoOtp
    /\ otps' = [otps EXCEPT ![seen[s]].attempts = @ + 1]
    /\ Finish(s)
    /\ UNCHANGED account

\* Mutant: a reset goes on to markEmailVerified, too.
AcceptResetAsSignup(s) ==
    /\ pc[s] = "mark" /\ req[s].purpose = "reset"
    /\ otps[seen[s]] # NoOtp
    /\ otps' = [otps EXCEPT ![seen[s]].uses = @ + 1]
    /\ Goto(s, "verifyEmail")
    /\ UNCHANGED <<account, req, seen>>

\* Right code for a reset: markOtpAsUsed, and the user is returned.
AcceptReset(s) ==
    /\ pc[s] = "mark" /\ req[s].purpose = "reset"
    /\ otps[seen[s]] # NoOtp
    /\ otps' = [otps EXCEPT ![seen[s]].uses = @ + 1]
    /\ Finish(s)
    /\ UNCHANGED account

\* Right code for the signup: the same, then markEmailVerified.
AcceptSignup(s) ==
    /\ pc[s] = "mark" /\ req[s].purpose = "signup"
    /\ otps[seen[s]] # NoOtp
    /\ otps' = [otps EXCEPT ![seen[s]].uses = @ + 1]
    /\ Goto(s, "verifyEmail")
    /\ UNCHANGED <<account, req, seen>>

MarkEmailVerified(s) ==
    /\ pc[s] = "verifyEmail"
    /\ Exists(req[s].user)
    /\ account' = [account EXCEPT ![req[s].user] = "verified"]
    /\ Finish(s)
    /\ UNCHANGED otps

\* The database refuses a statement, for the record it names is gone or for any
\* other reason: the request rejects with what it has done so far done.
Reject(s) ==
    /\ pc[s] # "idle"
    /\ Finish(s)
    /\ UNCHANGED <<account, otps>>

RequestStep(s) ==
    \/ DeleteOld(s)
    \/ \E c \in Code, id \in OtpId : CreateOtp(s, c, id)
    \/ \E id \in OtpId : Find(s, id)
    \/ Refuse(s)
    \/ CountAttempt(s)
    \/ AcceptReset(s)
    \/ AcceptSignup(s)
    \/ MarkEmailVerified(s)
    \/ Reject(s)

-----------------------------------------------------------------------------
(* The environment. *)

\* OTP_EXPIRY_MINUTES have passed since the row was created.
Expire(id) ==
    /\ otps[id] # NoOtp
    /\ ~otps[id].expired
    /\ otps' = [otps EXCEPT ![id].expired = TRUE]
    /\ UNCHANGED <<account, pc, req, seen>>

\* The user deletes the account: its rows go with it.
DeleteAccount(u) ==
    LET gone == RowsOf(u, "signup") \cup RowsOf(u, "reset") IN
    /\ Exists(u)
    /\ account' = [account EXCEPT ![u] = "deleted"]
    /\ otps' = [id \in OtpId |-> IF id \in gone THEN NoOtp ELSE otps[id]]
    /\ UNCHANGED <<pc, req, seen>>

\* The process stops and restarts: every request in flight is lost.
Restart ==
    /\ \E s \in Slot : pc[s] # "idle"
    /\ pc' = [s \in Slot |-> "idle"]
    /\ req' = [s \in Slot |-> NoRequest]
    /\ seen' = [s \in Slot |-> NoOtp]
    /\ UNCHANGED <<account, otps>>

Next ==
    \/ \E s \in Slot : RequestStep(s)
    \/ \E s \in Slot, u \in User : Signup(s, u) \/ Resend(s, u) \/ ForgotPassword(s, u)
    \/ \E s \in Slot, u \in User, p \in Purpose, g \in Code : Verify(s, u, p, g)
    \/ \E id \in OtpId : Expire(id)
    \/ \E u \in User : DeleteAccount(u)
    \/ Restart

Spec == Init /\ [][Next]_vars

-----------------------------------------------------------------------------
(* Properties. *)

\* verifyOtp checks "attempts >= maxAttempts" and "used" on a row it read before
\* the comparison, so concurrent guesses pass both checks together; still, the
\* guesses one OTP ever answers, wrong or right, pass maxAttempts by no more than
\* the other requests in flight, and it is used at most once by each of them.
GuessesBounded ==
    \A id \in OtpId :
        otps[id] # NoOtp =>
            /\ otps[id].attempts + otps[id].uses
                   <= MaxAttempts[otps[id].purpose] + Cardinality(Slot) - 1
            /\ otps[id].uses <= Cardinality(Slot)

\* createOtp deletes and creates in two statements, so overlapping resends leave
\* several live codes; never more of them than there are requests in flight, and
\* with no overlap exactly one.
RowsBounded ==
    \A u \in User, p \in Purpose : Cardinality(RowsOf(u, p)) <= Cardinality(Slot)

\* verifyOtp goes on by the id of the row it read, across the comparison and its
\* awaits: the row it then counts an attempt on or marks as used is still one of
\* the same user and purpose, and the one marked has the submitted code.  A reset
\* code never verifies an e-mail address.
RightRowUpdated ==
    \A s \in Slot :
        (pc[s] \in {"increment", "mark", "verifyEmail"} /\ otps[seen[s]] # NoOtp) =>
            /\ seen[s] \in RowsOf(req[s].user, req[s].purpose)
            /\ (pc[s] = "increment") <=> (otps[seen[s]].code # req[s].guess)

\* An account becomes verified only through a request that submitted the code of
\* a signup OTP of that user; none is unverified again, and one that is deleted
\* while its verification waits for the database does not come back.
VerifiedOnlyByProof ==
    [][\A u \in User :
           account'[u] # account[u] =>
               \/ account[u] = "none" /\ account'[u] = "unverified"
               \/ Exists(u) /\ account'[u] = "deleted"
               \/ /\ account[u] = "unverified" /\ account'[u] = "verified"
                  /\ \E s \in Slot :
                        /\ pc[s] = "verifyEmail"
                        /\ req[s].user = u /\ req[s].purpose = "signup"]_vars
=============================================================================
