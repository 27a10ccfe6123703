------------------------------- MODULE Accounts -------------------------------
(***************************************************************************)
(* Who has an account: sign-up with a password (UsersService.create) and   *)
(* sign-in with Google or LinkedIn (OAuthService.authenticate), which      *)
(* finds, links or creates the account of an identity.  Every statement is *)
(* a transaction of its own, and requests interleave between them.         *)
(*                                                                         *)
(* An e-mail address is spelled in lower case or as the provider has it:   *)
(* a sign-up stores the first, a sign-in the second, and findByEmail looks *)
(* for the first only.  All accounts are of regular users (a sign-in is    *)
(* refused to others and writes nothing).  A statement fails for what the  *)
(* rows say, and not because the database does.  How tokens are issued is  *)
(* in Credentials.                                                         *)
(***************************************************************************)
EXTENDS Integers, FiniteSets

CONSTANTS
    Slot,      \* concurrent requests
    User,      \* identifiers of users
    Identity,  \* identities of the providers
    Address,   \* e-mail addresses
    AddressOf, \* AddressOf[i]: the address the provider has for identity i
    Mixed,     \* the identities whose provider spells it with capitals
    None       \* no account, no identity, no user

Email == Address \X {"lower", "mixed"}

UserRow == [email : Email, identity : Identity \cup {None}, token : Identity \cup {None}]

\* What the composing module assumes.
AccountsAssumption ==
    /\ AddressOf \in [Identity -> Address]
    /\ Address \cap Identity = {}
    /\ None \notin User \cup Identity \cup Address \cup UserRow

VARIABLES
    row,       \* row[u]: the row of users, or None
    pc,        \* pc[s]: what the request in slot s does next
    who,       \* who[s]: the address that signs up or the identity that signs in
    user,      \* user[s]: the user it has found or made
    disturbed  \* history: the requests during which another one wrote a row

vars == <<row, pc, who, user, disturbed>>

-----------------------------------------------------------------------------
Rows == {u \in User : row[u] # None}

\* The state has the types of the columns and variables it stands for.
TypeOK ==
    /\ row \in [User -> UserRow \cup {None}]
    /\ pc \in [Slot -> {"idle", "check", "insert", "byProvider", "byEmail", "link",
                        "create", "metadata", "issue"}]
    /\ who \in [Slot -> Address \cup Identity \cup {None}]
    /\ user \in [Slot -> User \cup {None}]
    /\ disturbed \subseteq Slot

Init ==
    /\ row = [u \in User |-> None]
    /\ pc = [s \in Slot |-> "idle"]
    /\ who = [s \in Slot |-> None]
    /\ user = [s \in Slot |-> None]
    /\ disturbed = {}

-----------------------------------------------------------------------------
Goto(s, label) == pc' = [pc EXCEPT ![s] = label]

Start(s, label, w) ==
    /\ pc[s] = "idle"
    /\ Goto(s, label)
    /\ who' = [who EXCEPT ![s] = w]
    /\ UNCHANGED <<row, user, disturbed>>

Disturb(s) == disturbed' = disturbed \cup {t \in Slot \ {s} : pc[t] # "idle"}

End(s, others) ==
    /\ Goto(s, "idle")
    /\ who' = [who EXCEPT ![s] = None]
    /\ user' = [user EXCEPT ![s] = None]
    /\ disturbed' = (disturbed \cup others) \ {s}

\* A read: the request goes on with user u.
Found(s, u, label) ==
    /\ Goto(s, label)
    /\ user' = [user EXCEPT ![s] = u]
    /\ UNCHANGED <<row, who, disturbed>>

\* A write of user u, after which the request goes on.
Wrote(s, u, r, label) ==
    /\ row' = [row EXCEPT ![u] = r]
    /\ Goto(s, label)
    /\ user' = [user EXCEPT ![s] = u]
    /\ UNCHANGED who
    /\ Disturb(s)

\* It throws: a conflict, or its user is gone.
Throw(s) ==
    /\ End(s, {})
    /\ UNCHANGED row

-----------------------------------------------------------------------------
Spelled(i) == <<AddressOf[i], IF i \in Mixed THEN "mixed" ELSE "lower">>

HasEmail(e) == {u \in Rows : row[u].email = e}

\* Mutant: findByEmail compares the address as it is spelled.
ByEmailAsSpelled(i) == HasEmail(Spelled(i))

\* findByEmail of an identity's address, in lower case.
ByEmail(i) == HasEmail(<<AddressOf[i], "lower">>)

ByProvider(i) == {u \in Rows : row[u].identity = i}

Fresh == {u \in User \ Rows : \A s \in Slot : user[s] # u}

\* The unique indexes on the address and on the identity admit the row.
Insertable(e, i) == HasEmail(e) = {} /\ (i = None \/ ByProvider(i) = {})

-----------------------------------------------------------------------------
(* UsersService.create *)

Signup(s, a) == Start(s, "check", a)

EmailUnknown(s) ==
    /\ pc[s] = "check"
    /\ HasEmail(<<who[s], "lower">>) = {}
    /\ Found(s, None, "insert")

InsertUser(s, u) ==
    /\ pc[s] = "insert"
    /\ u \in Fresh
    /\ Insertable(<<who[s], "lower">>, None)
    /\ row' = [row EXCEPT ![u] = [email |-> <<who[s], "lower">>, identity |-> None, token |-> None]]
    /\ End(s, {t \in Slot : pc[t] # "idle"})

\* "User with this email already exists", from the lookup or the index.
SignupConflict(s) ==
    /\ pc[s] \in {"check", "insert"}
    /\ HasEmail(<<who[s], "lower">>) # {}
    /\ Throw(s)

(* OAuthService.authenticate *)

SignIn(s, i) == Start(s, "byProvider", i)

FindByProvider(s) ==
    /\ pc[s] = "byProvider"
    /\ IF ByProvider(who[s]) = {} THEN Found(s, None, "byEmail")
       ELSE \E u \in ByProvider(who[s]) : Found(s, u, "metadata")

\* Mutant: whatever account has the address is linked.
LinkAnyByEmail(s) ==
    /\ pc[s] = "byEmail"
    /\ \/ ByEmail(who[s]) = {} /\ Found(s, None, "create")
       \/ \E u \in ByEmail(who[s]) : Found(s, u, "link")

\* findByEmail: an account without an identity is linked, none is created.
FindByEmail(s) ==
    /\ pc[s] = "byEmail"
    /\ \/ ByEmail(who[s]) = {} /\ Found(s, None, "create")
       \/ \E u \in ByEmail(who[s]) : row[u].identity = None /\ Found(s, u, "link")

\* "An account with this email already exists using ... authentication"
OtherProvider(s) ==
    /\ pc[s] = "byEmail"
    /\ \E u \in ByEmail(who[s]) : row[u].identity # None
    /\ Throw(s)

LinkOAuthAccount(s) ==
    /\ pc[s] = "link"
    /\ user[s] \in Rows
    /\ ByProvider(who[s]) \subseteq {user[s]}
    /\ Wrote(s, user[s], [row[user[s]] EXCEPT !.identity = who[s], !.token = who[s]], "metadata")

CreateOAuthUser(s, u) ==
    /\ pc[s] = "create"
    /\ u \in Fresh
    /\ Insertable(Spelled(who[s]), who[s])
    /\ Wrote(s, u, [email |-> Spelled(who[s]), identity |-> who[s], token |-> None], "metadata")

\* updateOAuthMetadata
StoreMetadata(s) ==
    /\ pc[s] = "metadata"
    /\ user[s] \in Rows
    /\ Wrote(s, user[s], [row[user[s]] EXCEPT !.token = who[s]], "issue")

\* getTokens and updateRefreshToken
IssueTokens(s) ==
    /\ pc[s] = "issue"
    /\ user[s] \in Rows
    /\ End(s, {})
    /\ UNCHANGED row

\* A unique index refuses the write, or its row has gone.
SignInFails(s) ==
    /\ \/ pc[s] = "create" /\ ~Insertable(Spelled(who[s]), who[s])
       \/ pc[s] = "link" /\ (user[s] \notin Rows \/ ~(ByProvider(who[s]) \subseteq {user[s]}))
       \/ pc[s] \in {"metadata", "issue"} /\ user[s] \notin Rows
    /\ Throw(s)

DeleteAccount(u) ==
    /\ u \in Rows
    /\ row' = [row EXCEPT ![u] = None]
    /\ disturbed' = disturbed \cup {t \in Slot : pc[t] # "idle"}
    /\ UNCHANGED <<pc, who, user>>

Next ==
    \/ \E s \in Slot :
        \/ \E a \in Address : Signup(s, a)
        \/ \E i \in Identity : SignIn(s, i)
        \/ EmailUnknown(s) \/ SignupConflict(s)
        \/ FindByProvider(s) \/ FindByEmail(s) \/ OtherProvider(s)
        \/ LinkOAuthAccount(s) \/ StoreMetadata(s) \/ IssueTokens(s) \/ SignInFails(s)
        \/ \E u \in User : InsertUser(s, u) \/ CreateOAuthUser(s, u)
    \/ \E u \in User : DeleteAccount(u)

Spec == Init /\ [][Next]_vars

-----------------------------------------------------------------------------
\* The accounts whose address is that of identity i, however it is spelled.
AccountsAt(i) == {u \in Rows : row[u].email[1] = AddressOf[i]}

\* A sign-in during which no other request writes a row fails only if its
\* identity has no account and its address has one with another identity.  It
\* makes a new account only if its identity has none and no account is stored
\* with the address in lower case; an account of the address that is stored
\* with capitals does not keep it from making a second one.
AloneSignIn ==
    [][\A s \in Slot : who[s] \in Identity /\ s \notin disturbed =>
        /\ pc'[s] = "idle" /\ pc[s] # "issue" =>
               /\ ByProvider(who[s]) = {}
               /\ \E u \in AccountsAt(who[s]) : row[u].identity # None
        /\ pc[s] = "create" /\ row' # row =>
               /\ ByProvider(who[s]) = {}
               /\ HasEmail(<<AddressOf[who[s]], "lower">>) = {}]_vars

\* An account changes from one identity to another only by the link of a
\* sign-in that has overlapped the first link: it found none there.
IdentityKept ==
    [][\A u \in Rows : row[u].identity # None /\ row'[u] # None /\ row'[u].identity # row[u].identity
           => \E s \in disturbed : pc[s] = "link" /\ user[s] = u /\ who[s] = row'[u].identity]_vars

=============================================================================
