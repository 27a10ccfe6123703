---------------------------- MODULE ServicesProofs ----------------------------
(***************************************************************************)
(* Proofs about Services, for any number of requests, users, files, jobs   *)
(* and skills, and for all descriptions, texts and CVs of their types.     *)
(*                                                                         *)
(* Accounts, avatars and the trackers promise something to a request that  *)
(* runs alone, or to a row that no two requests have been about at once.   *)
(* Their invariants say what such a request has found and that it is still *)
(* so when it writes, because whoever else writes makes the history say    *)
(* that it was not alone.                                                  *)
(* The scores of Ats and BuiltInAi are arithmetic: rounding is monotone,   *)
(* and so is every sum of rounded shares.  What Grammar and ResumeText     *)
(* make of a text is taken apart into places in it, in their order.        *)
(***************************************************************************)
EXTENDS Services, FiniteSetTheorems, WellFoundedInduction, TLAPS

-----------------------------------------------------------------------------
(* A behaviour of the services together is one of each of them. *)

LEMMA AccountsSpec == ServicesSpec => Accounts!Spec
<1>1. ServicesInit => Accounts!Init
  BY DEF ServicesInit
<1>2. [ServicesNext]_serviceVars => [Accounts!Next]_(Accounts!vars)
  BY DEF ServicesNext, AccountsNext, AvatarsNext, TrackerNext, AtsNext, GrammarNext,
         BuiltInNext, ResumeNext, serviceVars, accountVars, Accounts!vars
<1> QED BY <1>1, <1>2, PTL DEF ServicesSpec, Accounts!Spec

LEMMA AvatarsSpec == ServicesSpec => Avatars!Spec
<1>1. ServicesInit => Avatars!Init
  BY DEF ServicesInit
<1>2. [ServicesNext]_serviceVars => [Avatars!Next]_(Avatars!vars)
  BY DEF ServicesNext, AccountsNext, AvatarsNext, TrackerNext, AtsNext, GrammarNext,
         BuiltInNext, ResumeNext, serviceVars, avatarVars, Avatars!vars, Avatars!requestVars
<1> QED BY <1>1, <1>2, PTL DEF ServicesSpec, Avatars!Spec

LEMMA TrackerSpec == ServicesSpec => Tracker!Spec
<1>1. ServicesInit => Tracker!Init
  BY DEF ServicesInit
<1>2. [ServicesNext]_serviceVars => [Tracker!Next]_(Tracker!vars)
  BY DEF ServicesNext, AccountsNext, AvatarsNext, TrackerNext, AtsNext, GrammarNext,
         BuiltInNext, ResumeNext, serviceVars, trackerVars, Tracker!vars, Tracker!requestVars
<1> QED BY <1>1, <1>2, PTL DEF ServicesSpec, Tracker!Spec

LEMMA AtsSpec == ServicesSpec => Ats!Spec
<1>1. ServicesInit => Ats!Init
  BY DEF ServicesInit
<1>2. [ServicesNext]_serviceVars => [Ats!Next]_(Ats!vars)
  BY DEF ServicesNext, AccountsNext, AvatarsNext, TrackerNext, AtsNext, GrammarNext,
         BuiltInNext, ResumeNext, serviceVars, atsVars, Ats!vars
<1> QED BY <1>1, <1>2, PTL DEF ServicesSpec, Ats!Spec

LEMMA GrammarSpec == ServicesSpec => Grammar!Spec
<1>1. ServicesInit => Grammar!Init
  BY DEF ServicesInit
<1>2. [ServicesNext]_serviceVars => [Grammar!Next]_(Grammar!vars)
  BY DEF ServicesNext, AccountsNext, AvatarsNext, TrackerNext, AtsNext, GrammarNext,
         BuiltInNext, ResumeNext, serviceVars, grammarVars, Grammar!vars
<1> QED BY <1>1, <1>2, PTL DEF ServicesSpec, Grammar!Spec

LEMMA BuiltInAiSpec == ServicesSpec => BuiltInAi!Spec
<1>1. ServicesInit => BuiltInAi!Init
  BY DEF ServicesInit
<1>2. [ServicesNext]_serviceVars => [BuiltInAi!Next]_(BuiltInAi!vars)
  BY DEF ServicesNext, AccountsNext, AvatarsNext, TrackerNext, AtsNext, GrammarNext,
         BuiltInNext, ResumeNext, serviceVars, builtInVars, BuiltInAi!vars
<1> QED BY <1>1, <1>2, PTL DEF ServicesSpec, BuiltInAi!Spec

LEMMA ResumeTextSpec == ServicesSpec => ResumeText!Spec
<1>1. ServicesInit => ResumeText!Init
  BY DEF ServicesInit
<1>2. [ServicesNext]_serviceVars => [ResumeText!Next]_(ResumeText!vars)
  BY DEF ServicesNext, AccountsNext, AvatarsNext, TrackerNext, AtsNext, GrammarNext,
         BuiltInNext, ResumeNext, serviceVars, resumeVars, ResumeText!vars
<1> QED BY <1>1, <1>2, PTL DEF ServicesSpec, ResumeText!Spec

\* The library's sets, seen through the instances.
LEMMA ServiceFiniteSets ==
    ASSUME NEW S
    PROVE  /\ Ats!Cardinality(S) = Cardinality(S)
           /\ Grammar!Cardinality(S) = Cardinality(S)
           /\ BuiltInAi!Cardinality(S) = Cardinality(S)
BY DEF Ats!Cardinality, Ats!IsFiniteSet, Grammar!Cardinality, Grammar!IsFiniteSet,
       BuiltInAi!Cardinality, BuiltInAi!IsFiniteSet, Cardinality, IsFiniteSet

LEMMA OrderSeen ==
    ASSUME NEW S
    PROVE  Ats!InOrder(S) = InOrder(S) /\ Grammar!InOrder(S) = InOrder(S)
BY Zenon DEF InOrder, Cardinality, IsFiniteSet,
             Ats!InOrder, Ats!Cardinality, Ats!IsFiniteSet,
             Grammar!InOrder, Grammar!Cardinality, Grammar!IsFiniteSet

LEMMA ResumeSeen ==
    ASSUME NEW S, NEW q
    PROVE  ResumeText!ItemsAt(q, S) = ItemsAt(q, S) /\ ResumeText!InOrder(S) = InOrder(S)
<1>1. ResumeText!InOrder(S) = InOrder(S)
  BY Zenon DEF InOrder, Cardinality, IsFiniteSet,
               ResumeText!InOrder, ResumeText!Cardinality, ResumeText!IsFiniteSet
<1> QED BY <1>1, Zenon DEF ResumeText!ItemsAt, ItemsAt

-----------------------------------------------------------------------------
(* Accounts. *)

\* Who a request is for, and that it has found a user when it writes to one.
AccountLocal(s) ==
    /\ accountPc[s] = "idle" <=> who[s] = None
    /\ accountPc[s] \in {"check", "insert"} <=> who[s] \in Address
    /\ accountPc[s] \in {"link", "metadata", "issue"} => user[s] \in User

\* What a sign-in during which no other request has written has found is so.
StillSo(s) ==
    /\ accountPc[s] \in {"byEmail", "link", "create"} => Accounts!ByProvider(who[s]) = {}
    /\ accountPc[s] = "create" => Accounts!ByEmail(who[s]) = {}
    /\ accountPc[s] \in {"link", "metadata"} => user[s] \in Accounts!Rows
    /\ accountPc[s] = "link" => account[user[s]].identity = None

AccountLocalTypes ==
    /\ accountPc \in [Slot -> {"idle", "check", "insert", "byProvider", "byEmail", "link",
                               "create", "metadata", "issue"}]
    /\ who \in [Slot -> Address \cup Identity \cup {None}]
    /\ user \in [Slot -> User \cup {None}]

SameRequest(t) == accountPc'[t] = accountPc[t] /\ who'[t] = who[t] /\ user'[t] = user[t]

\* Only a sign-in stores an address with capitals.
MixedLinked == \A u \in Accounts!Rows : account[u].email[2] = "mixed" => account[u].identity # None

AccountsInv ==
    /\ Accounts!TypeOK /\ MixedLinked
    /\ \A s \in Slot : AccountLocal(s) /\ (s \notin disturbed => StillSo(s))

-----------------------------------------------------------------------------
LEMMA AccountsInitInv == Accounts!AccountsAssumption /\ Accounts!Init => AccountsInv
<1> SUFFICES ASSUME Accounts!AccountsAssumption, Accounts!Init PROVE AccountsInv
  OBVIOUS
<1>1. Accounts!TypeOK /\ MixedLinked
  BY DEF Accounts!Init, Accounts!TypeOK, MixedLinked, Accounts!Rows
<1>2. \A s \in Slot : AccountLocal(s) /\ StillSo(s)
  BY DEF Accounts!Init, AccountLocal, StillSo, Accounts!AccountsAssumption
<1> QED BY <1>1, <1>2 DEF AccountsInv

\* A step of one request that writes no row.
LEMMA AccountsReadInv ==
    ASSUME AccountsInv, NEW s \in Slot, account' = account,
           AccountLocalTypes',
           disturbed' \in {disturbed, disturbed \ {s}},
           \A t \in Slot \ {s} : SameRequest(t),
           AccountLocal(s)', s \notin disturbed' => StillSo(s)'
    PROVE  AccountsInv'
<1>1. Accounts!TypeOK'
  BY DEF SameRequest, AccountLocalTypes, AccountsInv, Accounts!TypeOK
<1>2. /\ Accounts!Rows' = Accounts!Rows
      /\ \A i : /\ Accounts!ByProvider(i)' = Accounts!ByProvider(i)
                /\ Accounts!ByEmail(i)' = Accounts!ByEmail(i)
  BY DEF Accounts!Rows, Accounts!ByProvider, Accounts!ByEmail, Accounts!HasEmail
<1>3. MixedLinked'
  BY <1>2 DEF AccountsInv, MixedLinked
<1>4. ASSUME NEW t \in Slot, t # s
      PROVE  AccountLocal(t)' /\ (t \notin disturbed' => StillSo(t)')
  <2>1. AccountLocal(t) /\ (t \notin disturbed' => StillSo(t))
    BY <1>4 DEF AccountsInv
  <2>2. SameRequest(t)
    BY <1>4
  <2>3. AccountLocal(t)'
    BY <2>1, <2>2 DEF SameRequest, AccountLocalTypes, AccountLocal
  <2>4. t \notin disturbed' => StillSo(t)'
    BY <2>1, <2>2, <1>2 DEF SameRequest, AccountLocalTypes, StillSo
  <2> QED BY <2>3, <2>4
<1> QED BY <1>1, <1>3, <1>4 DEF AccountsInv

\* A step that writes a row disturbs every other request that is under way.
LEMMA AccountsWriteInv ==
    ASSUME AccountsInv, Accounts!AccountsAssumption, NEW u \in User,
           NEW r \in Accounts!UserRow \cup {None},
           account' = [account EXCEPT ![u] = r],
           r # None /\ r.email[2] = "mixed" => r.identity # None,
           AccountLocalTypes',
           disturbed' \subseteq Slot,
           \A t \in Slot : \/ AccountLocal(t)' /\ (t \notin disturbed' => StillSo(t)')
                           \/ /\ SameRequest(t)
                              /\ accountPc[t] # "idle" => t \in disturbed'
    PROVE  AccountsInv'
<1>1. Accounts!TypeOK'
  BY DEF SameRequest, AccountLocalTypes, AccountsInv, Accounts!TypeOK
<1>2. account'[u] = r /\ \A v \in User \ {u} : account'[v] = account[v]
  BY DEF AccountsInv, Accounts!TypeOK
<1>3. MixedLinked'
  BY <1>2 DEF AccountsInv, MixedLinked, Accounts!Rows
<1>4. ASSUME NEW t \in Slot PROVE AccountLocal(t)' /\ (t \notin disturbed' => StillSo(t)')
  <2>1. CASE /\ SameRequest(t)
             /\ accountPc[t] # "idle" => t \in disturbed'
    <3>1. AccountLocal(t)
      BY DEF AccountsInv
    <3>2. AccountLocal(t)'
      BY <3>1, <2>1 DEF SameRequest, AccountLocalTypes, AccountLocal
    <3>3. t \notin disturbed' => StillSo(t)'
      BY <2>1 DEF SameRequest, AccountLocalTypes, StillSo
    <3> QED BY <3>2, <3>3
  <2> QED BY <2>1
<1> QED BY <1>1, <1>3, <1>4 DEF AccountsInv

\* Requests that end or throw.
LEMMA AccountsThrowInv ==
    ASSUME AccountsInv, Accounts!AccountsAssumption, NEW s \in Slot, Accounts!Throw(s)
    PROVE  AccountsInv'
<1>1. /\ AccountLocalTypes'
      /\ account' = account /\ disturbed' = disturbed \ {s}
      /\ accountPc'[s] = "idle" /\ who'[s] = None
      /\ \A t \in Slot \ {s} : SameRequest(t)
  BY DEF SameRequest, AccountLocalTypes, AccountsInv, Accounts!TypeOK, Accounts!Throw,
         Accounts!End, Accounts!Goto
<1>2. AccountLocal(s)' /\ StillSo(s)'
  BY <1>1 DEF AccountLocal, StillSo, Accounts!AccountsAssumption
<1> QED BY <1>1, <1>2, AccountsReadInv

LEMMA AccountsStartInv ==
    ASSUME AccountsInv, Accounts!AccountsAssumption, NEW s \in Slot,
           NEW w \in Address \cup Identity,
           Accounts!Start(s, IF w \in Address THEN "check" ELSE "byProvider", w)
    PROVE  AccountsInv'
<1>1. /\ AccountLocalTypes'
      /\ UNCHANGED <<account, disturbed>>
      /\ accountPc'[s] = (IF w \in Address THEN "check" ELSE "byProvider") /\ who'[s] = w
      /\ \A t \in Slot \ {s} : SameRequest(t)
  BY DEF SameRequest, AccountLocalTypes, AccountsInv, Accounts!TypeOK, Accounts!Start,
         Accounts!Goto
<1>2. AccountLocal(s)' /\ StillSo(s)'
  BY <1>1 DEF AccountLocal, StillSo, Accounts!AccountsAssumption
<1> QED BY <1>1, <1>2, AccountsReadInv

\* A request reads, and goes on.
LEMMA AccountsFoundInv ==
    ASSUME AccountsInv, Accounts!AccountsAssumption, NEW s \in Slot, NEW u \in User \cup {None},
           NEW label \in {"insert", "byEmail", "link", "create", "metadata"},
           Accounts!Found(s, u, label), accountPc[s] # "idle",
           label = "insert" <=> who[s] \in Address,
           label \in {"link", "metadata"} => u \in Accounts!Rows,
           label \in {"byEmail", "link", "create"} /\ s \notin disturbed =>
               Accounts!ByProvider(who[s]) = {},
           label = "create" => Accounts!ByEmail(who[s]) = {},
           label = "link" => account[u].identity = None
    PROVE  AccountsInv'
<1>1. /\ AccountLocalTypes'
      /\ UNCHANGED <<account, who, disturbed>>
      /\ accountPc'[s] = label /\ user'[s] = u
      /\ \A t \in Slot \ {s} : SameRequest(t)
  BY DEF SameRequest, AccountLocalTypes, AccountsInv, Accounts!TypeOK, Accounts!Found,
         Accounts!Goto
<1>2. /\ Accounts!Rows' = Accounts!Rows
      /\ \A i : /\ Accounts!ByProvider(i)' = Accounts!ByProvider(i)
                /\ Accounts!ByEmail(i)' = Accounts!ByEmail(i)
  BY <1>1 DEF Accounts!Rows, Accounts!ByProvider, Accounts!ByEmail, Accounts!HasEmail
<1>3. AccountLocal(s)
  BY DEF AccountsInv
<1>4. AccountLocal(s)'
  BY <1>1, <1>3 DEF AccountLocal, Accounts!Rows
<1>5. s \notin disturbed' => StillSo(s)'
  BY <1>1, <1>2 DEF StillSo
<1> QED BY <1>1, <1>4, <1>5, AccountsReadInv

\* A sign-in writes the row of the user it has found or makes, and goes on.
LEMMA AccountsWroteInv ==
    ASSUME AccountsInv, Accounts!AccountsAssumption, NEW s \in Slot, NEW u \in User,
           NEW r \in Accounts!UserRow,
           NEW label \in {"metadata", "issue"},
           r.email[2] = "mixed" => r.identity # None,
           accountPc[s] # "idle", who[s] \in Identity, Accounts!Wrote(s, u, r, label)
    PROVE  AccountsInv'
<1>1. /\ AccountLocalTypes'
      /\ disturbed' \subseteq Slot
      /\ account' = [account EXCEPT ![u] = r] /\ who' = who
      /\ accountPc'[s] = label /\ user'[s] = u
      /\ \A t \in Slot \ {s} : /\ SameRequest(t)
                               /\ accountPc[t] # "idle" => t \in disturbed'
  BY DEF SameRequest, AccountLocalTypes, AccountsInv, Accounts!TypeOK, Accounts!Wrote,
         Accounts!Goto, Accounts!Disturb
<1>2. u \in Accounts!Rows'
  BY <1>1 DEF AccountsInv, Accounts!TypeOK, Accounts!Rows, Accounts!AccountsAssumption
<1>3. AccountLocal(s)
  BY DEF AccountsInv
<1>4. AccountLocal(s)' /\ StillSo(s)'
  BY <1>1, <1>2, <1>3 DEF AccountLocal, StillSo, Accounts!AccountsAssumption
<1> QED BY <1>1, <1>4, AccountsWriteInv

LEMMA SpelledType ==
    ASSUME Accounts!AccountsAssumption, NEW i \in Identity
    PROVE  Accounts!Spelled(i) \in Accounts!Email
BY DEF Accounts!AccountsAssumption, Accounts!Spelled, Accounts!Email

LEMMA AccountsNextInv ==
    Accounts!AccountsAssumption /\ AccountsInv /\ [Accounts!Next]_(Accounts!vars)
    => AccountsInv'
<1> SUFFICES ASSUME Accounts!AccountsAssumption, AccountsInv, [Accounts!Next]_(Accounts!vars)
 PROVE  AccountsInv'
  OBVIOUS
<1>t. Accounts!TypeOK /\ \A s \in Slot : AccountLocal(s) /\ (s \notin disturbed => StillSo(s))
  BY DEF AccountsInv
<1>l. ASSUME NEW s \in Slot
      PROVE  /\ accountPc[s] \in {"check", "insert"} => who[s] \in Address
             /\ accountPc[s] \in {"byProvider", "byEmail", "link", "create", "metadata", "issue"} =>
                    who[s] \in Identity /\ who[s] \notin Address
             /\ accountPc[s] \in {"link", "metadata", "issue"} => user[s] \in User
  BY <1>t DEF AccountLocal, Accounts!TypeOK
<1>1. ASSUME NEW s \in Slot, NEW a \in Address, Accounts!Signup(s, a) PROVE AccountsInv'
  BY <1>1, AccountsStartInv DEF Accounts!Signup
<1>2. ASSUME NEW s \in Slot, NEW i \in Identity, Accounts!SignIn(s, i) PROVE AccountsInv'
  <2>1. i \notin Address
    BY DEF Accounts!AccountsAssumption
  <2> QED BY <1>2, <2>1, AccountsStartInv DEF Accounts!SignIn
<1>3. ASSUME NEW s \in Slot, Accounts!EmailUnknown(s) PROVE AccountsInv'
  BY <1>3, <1>l, AccountsFoundInv DEF Accounts!EmailUnknown
<1>4. ASSUME NEW s \in Slot,
             Accounts!SignupConflict(s) \/ Accounts!OtherProvider(s) \/ Accounts!SignInFails(s)
      PROVE  AccountsInv'
  BY <1>4, AccountsThrowInv DEF Accounts!SignupConflict, Accounts!OtherProvider,
                                Accounts!SignInFails
<1>5. ASSUME NEW s \in Slot, Accounts!FindByProvider(s) PROVE AccountsInv'
  <2>1. CASE Accounts!ByProvider(who[s]) = {}
    BY <1>5, <1>l, <2>1, AccountsFoundInv DEF Accounts!FindByProvider
  <2>2. CASE Accounts!ByProvider(who[s]) # {}
    <3>1. PICK u \in Accounts!ByProvider(who[s]) : Accounts!Found(s, u, "metadata")
      BY <1>5, <2>2 DEF Accounts!FindByProvider
    <3>2. u \in Accounts!Rows /\ u \in User
      BY DEF Accounts!ByProvider, Accounts!Rows
    <3> QED BY <1>5, <1>l, <3>1, <3>2, AccountsFoundInv DEF Accounts!FindByProvider
  <2> QED BY <2>1, <2>2
<1>6. ASSUME NEW s \in Slot, Accounts!FindByEmail(s) PROVE AccountsInv'
  <2>0. accountPc[s] = "byEmail" /\ (s \notin disturbed => Accounts!ByProvider(who[s]) = {})
    BY <1>6, <1>t DEF Accounts!FindByEmail, StillSo
  <2>1. CASE Accounts!ByEmail(who[s]) = {} /\ Accounts!Found(s, None, "create")
    BY <1>l, <2>0, <2>1, AccountsFoundInv
  <2>2. CASE \E u \in Accounts!ByEmail(who[s]) :
               account[u].identity = None /\ Accounts!Found(s, u, "link")
    <3>1. PICK u \in Accounts!ByEmail(who[s]) :
                 account[u].identity = None /\ Accounts!Found(s, u, "link")
      BY <2>2
    <3>2. u \in Accounts!Rows /\ u \in User
      BY DEF Accounts!ByEmail, Accounts!HasEmail, Accounts!Rows
    <3> QED BY <1>l, <2>0, <3>1, <3>2, AccountsFoundInv
  <2> QED BY <1>6, <2>1, <2>2 DEF Accounts!FindByEmail
<1>7. ASSUME NEW s \in Slot, Accounts!LinkOAuthAccount(s) PROVE AccountsInv'
  <2> DEFINE r == [account[user[s]] EXCEPT !.identity = who[s], !.token = who[s]]
  <2>1. /\ account[user[s]] \in Accounts!UserRow /\ who[s] \in Identity /\ user[s] \in User
        /\ accountPc[s] = "link"
    BY <1>7, <1>l, <1>t DEF Accounts!LinkOAuthAccount, Accounts!Rows, Accounts!TypeOK
  <2>2. r \in Accounts!UserRow /\ r.identity = who[s] /\ who[s] # None
    BY <2>1 DEF Accounts!UserRow, Accounts!AccountsAssumption
  <2> HIDE DEF r
  <2>3. Accounts!Wrote(s, user[s], r, "metadata")
    BY <1>7 DEF Accounts!LinkOAuthAccount, r
  <2> QED BY <2>1, <2>2, <2>3, AccountsWroteInv
<1>8. ASSUME NEW s \in Slot, NEW u \in User, Accounts!CreateOAuthUser(s, u) PROVE AccountsInv'
  <2> DEFINE r == [email |-> Accounts!Spelled(who[s]), identity |-> who[s], token |-> None]
  <2>1. accountPc[s] = "create" /\ who[s] \in Identity
    BY <1>8, <1>l DEF Accounts!CreateOAuthUser
  <2>2. r \in Accounts!UserRow /\ r.identity = who[s] /\ who[s] # None
    BY <2>1, SpelledType DEF Accounts!UserRow, Accounts!AccountsAssumption
  <2> HIDE DEF r
  <2>3. Accounts!Wrote(s, u, r, "metadata")
    BY <1>8 DEF Accounts!CreateOAuthUser, r
  <2> QED BY <2>1, <2>2, <2>3, AccountsWroteInv
<1>9. ASSUME NEW s \in Slot, Accounts!StoreMetadata(s) PROVE AccountsInv'
  <2> DEFINE r == [account[user[s]] EXCEPT !.token = who[s]]
  <2>1. /\ account[user[s]] \in Accounts!UserRow /\ who[s] \in Identity /\ user[s] \in User
        /\ user[s] \in Accounts!Rows /\ accountPc[s] = "metadata"
    BY <1>9, <1>l, <1>t DEF Accounts!StoreMetadata, Accounts!Rows, Accounts!TypeOK
  <2>2. /\ r \in Accounts!UserRow /\ r.identity = account[user[s]].identity
        /\ r.email = account[user[s]].email
    BY <2>1 DEF Accounts!UserRow
  <2>3. r.email[2] = "mixed" => r.identity # None
    BY <2>1, <2>2 DEF AccountsInv, MixedLinked
  <2> HIDE DEF r
  <2>4. Accounts!Wrote(s, user[s], r, "issue")
    BY <1>9 DEF Accounts!StoreMetadata, r
  <2> QED BY <2>1, <2>2, <2>3, <2>4, AccountsWroteInv
<1>10. ASSUME NEW s \in Slot, Accounts!IssueTokens(s) PROVE AccountsInv'
  BY <1>10, AccountsThrowInv DEF Accounts!IssueTokens, Accounts!Throw
<1>11. ASSUME NEW s \in Slot, NEW u \in User, Accounts!InsertUser(s, u) PROVE AccountsInv'
  <2> DEFINE r == [email |-> <<who[s], "lower">>, identity |-> None, token |-> None]
  <2>1. accountPc[s] = "insert" /\ who[s] \in Address
    BY <1>11, <1>l DEF Accounts!InsertUser
  <2>2. r \in Accounts!UserRow /\ r.email[2] # "mixed"
    BY <2>1 DEF Accounts!UserRow, Accounts!Email
  <2> HIDE DEF r
  <2>3. /\ AccountLocalTypes'
        /\ disturbed' \subseteq Slot
        /\ account' = [account EXCEPT ![u] = r]
        /\ accountPc'[s] = "idle" /\ who'[s] = None
        /\ \A t \in Slot \ {s} : /\ SameRequest(t)
                                 /\ accountPc[t] # "idle" => t \in disturbed'
    BY <1>11, <1>t DEF SameRequest, AccountLocalTypes, Accounts!InsertUser, Accounts!End,
                       Accounts!Goto, Accounts!TypeOK, r
  <2>4. AccountLocal(s)' /\ StillSo(s)'
    BY <2>3 DEF AccountLocal, StillSo, Accounts!AccountsAssumption
  <2> QED BY <2>2, <2>3, <2>4, AccountsWriteInv
<1>12. ASSUME NEW u \in User, Accounts!DeleteAccount(u) PROVE AccountsInv'
  <2>1. /\ account' = [account EXCEPT ![u] = None] /\ UNCHANGED <<accountPc, who, user>>
        /\ disturbed' \subseteq Slot
        /\ \A t \in Slot : accountPc[t] # "idle" => t \in disturbed'
    BY <1>12, <1>t DEF Accounts!DeleteAccount, Accounts!TypeOK
  <2> QED BY <1>t, <2>1, AccountsWriteInv DEF SameRequest, AccountLocalTypes, Accounts!TypeOK
<1>13. CASE UNCHANGED Accounts!vars
  BY <1>13 DEF AccountsInv, Accounts!TypeOK, MixedLinked, AccountLocal, StillSo, Accounts!Rows,
               Accounts!ByProvider,
               Accounts!ByEmail, Accounts!HasEmail, Accounts!vars
<1> QED BY <1>1, <1>2, <1>3, <1>4, <1>5, <1>6, <1>7, <1>8, <1>9, <1>10, <1>11, <1>12, <1>13
        DEF Accounts!Next

LEMMA AccountsSafe == Accounts!AccountsAssumption => (Accounts!Spec => []AccountsInv)
<1> SUFFICES ASSUME Accounts!AccountsAssumption PROVE Accounts!Spec => []AccountsInv
  OBVIOUS
<1>1. Accounts!Init => AccountsInv
  BY AccountsInitInv
<1>2. AccountsInv /\ [Accounts!Next]_(Accounts!vars) => AccountsInv'
  BY AccountsNextInv
<1> QED BY <1>1, <1>2, PTL DEF Accounts!Spec

\* How a request comes to its end.
LEMMA AccountsEnds ==
    ASSUME Accounts!TypeOK, Accounts!Next, NEW s \in Slot, accountPc[s] # "idle",
           accountPc'[s] = "idle"
    PROVE  \/ Accounts!SignupConflict(s) \/ Accounts!OtherProvider(s)
           \/ Accounts!IssueTokens(s) \/ Accounts!SignInFails(s)
           \/ \E u \in User : Accounts!InsertUser(s, u)
<1>1. \A t \in Slot : \A label : label # "idle" /\ Accounts!Goto(t, label) => accountPc'[s] # "idle"
  BY DEF Accounts!Goto, Accounts!TypeOK
<1>2. ASSUME NEW t \in Slot, t # s, Accounts!Goto(t, "idle") PROVE FALSE
  BY <1>2 DEF Accounts!Goto, Accounts!TypeOK
<1>3. ASSUME NEW t \in Slot, NEW u \in User, Accounts!CreateOAuthUser(t, u) PROVE FALSE
  BY <1>1, <1>3 DEF Accounts!CreateOAuthUser, Accounts!Wrote
<1>4. ASSUME NEW t \in Slot, NEW u \in User, Accounts!InsertUser(t, u) PROVE t = s
  BY <1>2, <1>4 DEF Accounts!InsertUser, Accounts!End
<1>5. ASSUME NEW u \in User, Accounts!DeleteAccount(u) PROVE FALSE
  BY <1>5 DEF Accounts!DeleteAccount
<1>6. ASSUME NEW t \in Slot, \/ \E a \in Address : Accounts!Signup(t, a)
                             \/ \E i \in Identity : Accounts!SignIn(t, i)
                             \/ Accounts!EmailUnknown(t) \/ Accounts!FindByProvider(t)
                             \/ Accounts!FindByEmail(t)
                             \/ Accounts!LinkOAuthAccount(t) \/ Accounts!StoreMetadata(t)
      PROVE  FALSE
  BY <1>1, <1>6 DEF Accounts!Signup, Accounts!SignIn, Accounts!Start, Accounts!EmailUnknown,
                    Accounts!FindByProvider, Accounts!FindByEmail, Accounts!Found,
                    Accounts!LinkOAuthAccount, Accounts!StoreMetadata, Accounts!Wrote
<1>7. ASSUME NEW t \in Slot,
             \/ Accounts!SignupConflict(t) \/ Accounts!OtherProvider(t)
             \/ Accounts!IssueTokens(t) \/ Accounts!SignInFails(t)
      PROVE  t = s
  BY <1>2, <1>7 DEF Accounts!SignupConflict, Accounts!OtherProvider, Accounts!IssueTokens,
                    Accounts!SignInFails, Accounts!Throw, Accounts!End
<1> QED BY <1>3, <1>4, <1>5, <1>6, <1>7 DEF Accounts!Next

\* The sign-ins that nobody disturbs.
LEMMA AccountsAlone ==
    ASSUME Accounts!AccountsAssumption, AccountsInv, Accounts!Next, NEW s \in Slot,
           who[s] \in Identity,
           s \notin disturbed
    PROVE  /\ accountPc'[s] = "idle" /\ accountPc[s] # "issue" =>
                  /\ Accounts!ByProvider(who[s]) = {}
                  /\ \E u \in Accounts!AccountsAt(who[s]) : account[u].identity # None
           /\ accountPc[s] = "create" /\ account' # account =>
                  /\ Accounts!ByProvider(who[s]) = {}
                  /\ Accounts!HasEmail(<<AddressOf[who[s]], "lower">>) = {}
<1>1. Accounts!TypeOK /\ MixedLinked /\ AccountLocal(s) /\ StillSo(s)
  BY DEF AccountsInv
<1>2. accountPc[s] # "idle" /\ who[s] \notin Address
  BY <1>1 DEF AccountLocal, Accounts!AccountsAssumption
<1>3. ASSUME accountPc'[s] = "idle", accountPc[s] # "issue"
      PROVE  /\ Accounts!ByProvider(who[s]) = {}
             /\ \E u \in Accounts!AccountsAt(who[s]) : account[u].identity # None
  <2>1. Accounts!OtherProvider(s) \/ Accounts!SignInFails(s)
    BY <1>1, <1>2, <1>3, AccountsEnds
       DEF AccountLocal, Accounts!SignupConflict, Accounts!IssueTokens, Accounts!InsertUser
  <2>2. CASE Accounts!OtherProvider(s)
    <3>1. PICK u \in Accounts!ByEmail(who[s]) : account[u].identity # None
      BY <2>2 DEF Accounts!OtherProvider
    <3>2. u \in Accounts!AccountsAt(who[s])
      BY DEF Accounts!ByEmail, Accounts!HasEmail, Accounts!AccountsAt
    <3>3. Accounts!ByProvider(who[s]) = {}
      BY <1>1, <2>2 DEF Accounts!OtherProvider, StillSo
    <3> QED BY <3>1, <3>2, <3>3
  <2>3. CASE Accounts!SignInFails(s)
    <3>1. /\ accountPc[s] = "create" /\ Accounts!HasEmail(Accounts!Spelled(who[s])) # {}
          /\ Accounts!ByEmail(who[s]) = {} /\ Accounts!ByProvider(who[s]) = {}
      BY <1>1, <1>3, <2>3 DEF Accounts!SignInFails, StillSo, Accounts!Insertable
    <3>2. PICK u \in Accounts!Rows : account[u].email = Accounts!Spelled(who[s])
      BY <3>1 DEF Accounts!HasEmail
    <3>3. who[s] \in Mixed
      BY <3>1, <3>2 DEF Accounts!ByEmail, Accounts!HasEmail, Accounts!Spelled
    <3>4. account[u].email[1] = AddressOf[who[s]] /\ account[u].email[2] = "mixed"
      BY <3>2, <3>3 DEF Accounts!Spelled
    <3>5. u \in Accounts!AccountsAt(who[s]) /\ account[u].identity # None
      BY <1>1, <3>4 DEF Accounts!AccountsAt, MixedLinked
    <3> QED BY <3>1, <3>5
  <2> QED BY <2>1, <2>2, <2>3
<1>4. ASSUME accountPc[s] = "create"
      PROVE  /\ Accounts!ByProvider(who[s]) = {}
             /\ Accounts!HasEmail(<<AddressOf[who[s]], "lower">>) = {}
  BY <1>1, <1>4 DEF StillSo, Accounts!ByEmail
<1> QED BY <1>3, <1>4

\* An identity that replaces another one.
LEMMA AccountsRelinked ==
    ASSUME Accounts!AccountsAssumption, AccountsInv, Accounts!Next, NEW u \in Accounts!Rows,
           account[u].identity # None,
           account'[u] # None, account'[u].identity # account[u].identity
    PROVE  \E s \in disturbed : accountPc[s] = "link" /\ user[s] = u
                                /\ who[s] = account'[u].identity
<1>t. Accounts!TypeOK /\ u \in User /\ account[u] \in Accounts!UserRow
  BY DEF AccountsInv, Accounts!TypeOK, Accounts!Rows
<1>1. account' # account
  OBVIOUS
<1>2. ASSUME NEW v \in User, NEW r, account' = [account EXCEPT ![v] = r]
      PROVE  v = u /\ account'[u] = r
  BY <1>t, <1>2 DEF Accounts!TypeOK
<1>3. ASSUME NEW s \in Slot, Accounts!LinkOAuthAccount(s)
      PROVE  s \in disturbed /\ accountPc[s] = "link" /\ user[s] = u /\ who[s] = account'[u].identity
  <2> DEFINE r == [account[user[s]] EXCEPT !.identity = who[s], !.token = who[s]]
  <2>1. accountPc[s] = "link" /\ user[s] \in User /\ account' = [account EXCEPT ![user[s]] = r]
    BY <1>3 DEF Accounts!LinkOAuthAccount, Accounts!Wrote, Accounts!Rows
  <2>2. user[s] = u /\ account'[u] = r
    BY <1>2, <2>1
  <2>3. r.identity = who[s]
    BY <1>t, <2>2 DEF Accounts!UserRow
  <2>4. s \in disturbed
    BY <2>1, <2>2 DEF AccountsInv, StillSo
  <2> QED BY <2>1, <2>2, <2>3, <2>4
<1>4. ASSUME NEW s \in Slot, Accounts!StoreMetadata(s) PROVE FALSE
  <2> DEFINE r == [account[user[s]] EXCEPT !.token = who[s]]
  <2>1. user[s] \in User /\ account' = [account EXCEPT ![user[s]] = r]
    BY <1>4 DEF Accounts!StoreMetadata, Accounts!Wrote, Accounts!Rows
  <2>2. user[s] = u /\ account'[u] = r
    BY <1>2, <2>1
  <2> QED BY <1>t, <2>2 DEF Accounts!UserRow
<1>5. ASSUME NEW v \in User, NEW s \in Slot, Accounts!InsertUser(s,
             v) \/ Accounts!CreateOAuthUser(s, v)
      PROVE  FALSE
  BY <1>2, <1>5 DEF Accounts!InsertUser, Accounts!CreateOAuthUser, Accounts!Wrote,
                    Accounts!Fresh
<1>6. ASSUME NEW v \in User, Accounts!DeleteAccount(v) PROVE FALSE
  BY <1>2, <1>6 DEF Accounts!DeleteAccount
<1>7. ASSUME NEW s \in Slot, \/ \E a \in Address : Accounts!Signup(s, a)
                             \/ \E i \in Identity : Accounts!SignIn(s, i)
                             \/ Accounts!EmailUnknown(s) \/ Accounts!FindByProvider(s)
                             \/ Accounts!FindByEmail(s)
                             \/ Accounts!SignupConflict(s) \/ Accounts!OtherProvider(s)
                             \/ Accounts!IssueTokens(s)
                             \/ Accounts!SignInFails(s)
      PROVE  FALSE
  BY <1>1, <1>7 DEF Accounts!Signup, Accounts!SignIn, Accounts!Start, Accounts!EmailUnknown,
                    Accounts!FindByProvider, Accounts!FindByEmail, Accounts!Found,
                    Accounts!SignupConflict, Accounts!OtherProvider, Accounts!IssueTokens,
                    Accounts!SignInFails, Accounts!Throw
<1> QED BY <1>3, <1>4, <1>5, <1>6, <1>7 DEF Accounts!Next, AccountsInv, Accounts!TypeOK

LEMMA AccountsAloneSpec ==
    Accounts!AccountsAssumption => (Accounts!Spec => Accounts!AloneSignIn)
<1> SUFFICES ASSUME Accounts!AccountsAssumption PROVE Accounts!Spec => Accounts!AloneSignIn
  OBVIOUS
<1>1. AccountsInv /\ [Accounts!Next]_(Accounts!vars) =>
        [\A s \in Slot : who[s] \in Identity /\ s \notin disturbed =>
           /\ accountPc'[s] = "idle" /\ accountPc[s] # "issue" =>
                  /\ Accounts!ByProvider(who[s]) = {}
                  /\ \E u \in Accounts!AccountsAt(who[s]) : account[u].identity # None
           /\ accountPc[s] = "create" /\ account' # account =>
                  /\ Accounts!ByProvider(who[s]) = {}
                  /\ Accounts!HasEmail(<<AddressOf[who[s]], "lower">>) = {}]_(Accounts!vars)
  BY AccountsAlone
<1> QED BY <1>1, AccountsSafe, PTL DEF Accounts!Spec, Accounts!AloneSignIn

LEMMA AccountsKeptSpec ==
    Accounts!AccountsAssumption => (Accounts!Spec => Accounts!IdentityKept)
<1> SUFFICES ASSUME Accounts!AccountsAssumption PROVE Accounts!Spec => Accounts!IdentityKept
  OBVIOUS
<1>1. AccountsInv /\ [Accounts!Next]_(Accounts!vars) =>
        [\A u \in Accounts!Rows :
           account[u].identity # None /\ account'[u] # None
           /\ account'[u].identity # account[u].identity
           => \E s \in disturbed : accountPc[s] = "link" /\ user[s] = u
                                   /\ who[s] = account'[u].identity]_(Accounts!vars)
  BY AccountsRelinked
<1> QED BY <1>1, AccountsSafe, PTL DEF Accounts!Spec, Accounts!IdentityKept

-----------------------------------------------------------------------------
(* Avatars. *)

\* A request that has not run beside another one runs alone.
AloneIsAlone == \A s \in Avatars!Busy \ overlapped : Avatars!Busy = {s}

\* Only in the middle of unlink does a request delete files.
UnlinksThere == \A s \in Slot : avatarPc[s] # "unlink" => toUnlink[s] = {}

\* A request that runs alone has every file there was deleted, or an unlink for
\* it under way; the file it writes none of these unlinks is for.
AloneProgress ==
    \A s \in Avatars!Busy \ overlapped :
        /\ avatarPc[s] \in {"unlink", "deleteRow"} => files \subseteq toUnlink[s] \cup behind
        /\ avatarPc[s] = "store" => written[s] \subseteq files \ behind

\* What AvatarThere says, and that no unlink is on its way to the file.
AvatarSettled ==
    Avatars!Busy = {} /\ ~excused =>
        /\ url \in File => url \in files \ behind
        /\ url = Gone => files \subseteq behind

AvatarsInv == Avatars!TypeOK /\ AloneIsAlone /\ UnlinksThere /\ AloneProgress /\ AvatarSettled

-----------------------------------------------------------------------------
LEMMA AvatarsInitInv == Avatars!AvatarsAssumption /\ Avatars!Init => AvatarsInv
BY DEF Avatars!AvatarsAssumption, Avatars!Init, AvatarsInv, Avatars!TypeOK, AloneIsAlone,
       UnlinksThere, AloneProgress,
       AvatarSettled, Avatars!Busy

\* The beginning of a request.
LEMMA AvatarsStartInv ==
    ASSUME AvatarsInv, NEW s \in Slot, Avatars!Start(s),
           deletes' \in {deletes, deletes \cup {s}}
    PROVE  AvatarsInv'
<1> USE DEF AvatarsInv
<1>1. /\ avatarPc'[s] = "list" /\ avatarPc[s] = "idle"
      /\ \A t \in Slot \ {s} : avatarPc'[t] = avatarPc[t]
      /\ Avatars!Busy' = Avatars!Busy \cup {s} /\ s \notin Avatars!Busy
      /\ overlapped' = IF Avatars!Busy = {} THEN overlapped ELSE Avatars!Busy \cup {s}
      /\ UNCHANGED <<url, files, toUnlink, behind, written, excused>>
  BY DEF Avatars!Start, Avatars!Goto, Avatars!Busy, Avatars!TypeOK
<1>2. Avatars!TypeOK'
  <2>1. avatarPc' \in [Slot -> {"idle", "list", "unlink", "write", "store", "deleteRow"}]
    BY DEF Avatars!Start, Avatars!Goto, Avatars!TypeOK
  <2>2. deletes' \subseteq Avatars!Busy' /\ overlapped' \subseteq Avatars!Busy'
    BY <1>1 DEF Avatars!TypeOK, Avatars!Busy
  <2> QED BY <1>1, <2>1, <2>2 DEF Avatars!TypeOK, Avatars!Busy
<1>3. AloneIsAlone'
  <2>1. CASE Avatars!Busy = {}
    BY <1>1, <2>1 DEF AloneIsAlone
  <2>2. CASE Avatars!Busy # {}
    BY <1>1, <2>2 DEF AloneIsAlone
  <2> QED BY <2>1, <2>2
<1>4. UnlinksThere'
  BY <1>1 DEF UnlinksThere
<1>5. AloneProgress'
  <2>1. \A t \in Avatars!Busy' \ overlapped' : t = s
    BY <1>1, <1>3 DEF AloneIsAlone
  <2> QED BY <1>1, <2>1 DEF AloneProgress
<1>6. AvatarSettled'
  BY <1>1 DEF AvatarSettled
<1> QED BY <1>2, <1>3, <1>4, <1>5, <1>6

\* The end of a request: either it is excused, or what it has stored is there.
LEMMA AvatarsEndInv ==
    ASSUME AvatarsInv, NEW s \in Slot, avatarPc[s] # "idle", NEW well \in BOOLEAN,
           Avatars!End(s, well),
           UNCHANGED files, url' \in File \cup {Elsewhere, Gone},
           ~excused' => /\ url' \in File => url' \in files' \ behind'
                        /\ url' = Gone => files' \subseteq behind'
    PROVE  AvatarsInv'
<1> USE DEF AvatarsInv
<1>1. /\ avatarPc'[s] = "idle" /\ \A t \in Slot \ {s} : avatarPc'[t] = avatarPc[t]
      /\ toUnlink'[s] = {} /\ \A t \in Slot \ {s} : toUnlink'[t] = toUnlink[t]
      /\ \A t \in Slot \ {s} : written'[t] = written[t]
      /\ Avatars!Busy' = Avatars!Busy \ {s} /\ s \in Avatars!Busy
      /\ overlapped' = overlapped \ {s} /\ deletes' = deletes \ {s}
  BY DEF Avatars!End, Avatars!Goto, Avatars!Busy, Avatars!TypeOK
<1>2. Avatars!TypeOK'
  <2>1. /\ avatarPc' \in [Slot -> {"idle", "list", "unlink", "write", "store", "deleteRow"}]
        /\ toUnlink' \in [Slot -> SUBSET File] /\ written' \in [Slot -> SUBSET File]
        /\ behind' \subseteq File /\ excused' \in BOOLEAN /\ files' \subseteq File
    BY DEF Avatars!End, Avatars!Goto, Avatars!TypeOK
  <2>2. deletes' \subseteq Avatars!Busy' /\ overlapped' \subseteq Avatars!Busy'
    BY <1>1 DEF Avatars!TypeOK, Avatars!Busy
  <2> QED BY <2>1, <2>2 DEF Avatars!TypeOK, Avatars!Busy
<1>3. Avatars!Busy' \ overlapped' = {}
  BY <1>1 DEF AloneIsAlone
<1>4. AloneIsAlone' /\ AloneProgress'
  BY <1>3 DEF AloneIsAlone, AloneProgress
<1>5. UnlinksThere'
  BY <1>1 DEF UnlinksThere
<1>6. AvatarSettled'
  BY DEF AvatarSettled
<1> QED BY <1>2, <1>4, <1>5, <1>6

\* A step of a request that goes on.
LEMMA AvatarsGoesOn ==
    ASSUME AvatarsInv, NEW s \in Slot, avatarPc[s] # "idle",
           NEW label \in {"list", "unlink", "write", "store", "deleteRow"}, Avatars!Goto(s,
                 label),
           UNCHANGED <<url, deletes, overlapped, excused>>,
           files' \subseteq File, behind' \subseteq File,
           toUnlink' \in [Slot -> SUBSET File], written' \in [Slot -> SUBSET File],
           \A t \in Slot \ {s} : toUnlink'[t] = toUnlink[t] /\ written'[t] = written[t],
           label # "unlink" => toUnlink'[s] = {},
           s \notin overlapped =>
              /\ label \in {"unlink", "deleteRow"} => files' \subseteq toUnlink'[s] \cup behind'
              /\ label = "store" => written'[s] \subseteq files' \ behind'
    PROVE  AvatarsInv'
<1> USE DEF AvatarsInv
<1>1. /\ avatarPc'[s] = label /\ \A t \in Slot \ {s} : avatarPc'[t] = avatarPc[t]
      /\ Avatars!Busy' = Avatars!Busy /\ s \in Avatars!Busy
  BY DEF Avatars!Goto, Avatars!Busy, Avatars!TypeOK
<1>2. Avatars!TypeOK'
  BY <1>1 DEF Avatars!Goto, Avatars!TypeOK, Avatars!Busy
<1>3. AloneIsAlone'
  BY <1>1 DEF AloneIsAlone
<1>4. \A t \in Avatars!Busy \ overlapped : t = s /\ Avatars!Busy = {s}
  BY <1>1 DEF AloneIsAlone
<1>5. AloneProgress'
  BY <1>1, <1>4 DEF AloneProgress
<1>6. UnlinksThere'
  BY <1>1 DEF UnlinksThere
<1>7. AvatarSettled'
  BY <1>1 DEF AvatarSettled
<1> QED BY <1>2, <1>3, <1>5, <1>6, <1>7

LEMMA AvatarsNextInv ==
    Avatars!AvatarsAssumption /\ AvatarsInv /\ [Avatars!Next]_(Avatars!vars) => AvatarsInv'
<1> SUFFICES ASSUME Avatars!AvatarsAssumption, AvatarsInv, [Avatars!Next]_(Avatars!vars)
 PROVE  AvatarsInv'
  OBVIOUS
<1>t. Avatars!TypeOK /\ UnlinksThere
  BY DEF AvatarsInv
<1>p. ASSUME NEW s \in Slot, avatarPc[s] # "idle", s \notin overlapped
      PROVE  /\ avatarPc[s] \in {"unlink", "deleteRow"} => files \subseteq toUnlink[s] \cup behind
             /\ avatarPc[s] = "store" => written[s] \subseteq files \ behind
             /\ \A t \in Slot \ {s} : toUnlink[t] = {}
  BY <1>p DEF AvatarsInv, AloneProgress, AloneIsAlone, UnlinksThere, Avatars!Busy
<1>1. ASSUME NEW s \in Slot, Avatars!UploadAvatar(s) \/ Avatars!DeleteMe(s) PROVE AvatarsInv'
  BY <1>1, AvatarsStartInv DEF Avatars!UploadAvatar, Avatars!DeleteMe
<1>2. ASSUME NEW s \in Slot, Avatars!ListFiles(s) PROVE AvatarsInv'
  <2>1. toUnlink'[s] = files /\ \A t \in Slot \ {s} : toUnlink'[t] = toUnlink[t]
    BY <1>2, <1>t DEF Avatars!ListFiles, Avatars!TypeOK
  <2>2. toUnlink' \in [Slot -> SUBSET File]
    BY <1>2, <1>t DEF Avatars!ListFiles, Avatars!TypeOK
  <2> QED BY <1>2, <1>t, <2>1, <2>2, AvatarsGoesOn DEF Avatars!ListFiles, Avatars!TypeOK
<1>3. ASSUME NEW s \in Slot, NEW f \in File, Avatars!Unlink(s, f) PROVE AvatarsInv'
  <2>1. /\ avatarPc[s] = "unlink" /\ Avatars!Goto(s, "unlink")
        /\ toUnlink'[s] = toUnlink[s] \ {f} /\ files' = files \ {f}
        /\ \A t \in Slot \ {s} : toUnlink'[t] = toUnlink[t]
        /\ toUnlink' \in [Slot -> SUBSET File]
        /\ UNCHANGED <<url, deletes, behind, written, overlapped, excused>>
    BY <1>3, <1>t DEF Avatars!Unlink, Avatars!Goto, UnlinksThere, Avatars!TypeOK
  <2>2. s \notin overlapped => files' \subseteq toUnlink'[s] \cup behind'
    BY <1>p, <2>1
  <2> QED BY <1>t, <2>1, <2>2, AvatarsGoesOn DEF Avatars!TypeOK
<1>4. ASSUME NEW s \in Slot, NEW f \in File, Avatars!UnlinkNothing(s, f) PROVE AvatarsInv'
  <2>1. /\ avatarPc[s] = "unlink" /\ Avatars!Goto(s, "unlink")
        /\ toUnlink'[s] = {} /\ behind' = behind \cup (toUnlink[s] \ {f}) /\ f \notin files
        /\ \A t \in Slot \ {s} : toUnlink'[t] = toUnlink[t]
        /\ toUnlink' \in [Slot -> SUBSET File] /\ behind' \subseteq File
        /\ UNCHANGED <<url, files, deletes, written, overlapped, excused>>
    BY <1>4, <1>t DEF Avatars!UnlinkNothing, Avatars!Goto, UnlinksThere, Avatars!TypeOK
  <2>2. s \notin overlapped => files' \subseteq toUnlink'[s] \cup behind'
    BY <1>p, <2>1
  <2> QED BY <1>t, <2>1, <2>2, AvatarsGoesOn DEF Avatars!TypeOK
<1>5. ASSUME NEW f \in File, Avatars!UnlinkBehind(f) PROVE AvatarsInv'
  <2>1. /\ behind' = behind \ {f} /\ files' = files \ {f} /\ f \in behind
        /\ UNCHANGED <<url, avatarPc, deletes, toUnlink, written, overlapped, excused>>
    BY <1>5 DEF Avatars!UnlinkBehind, Avatars!requestVars
  <2>2. Avatars!Busy' = Avatars!Busy
    BY <2>1 DEF Avatars!Busy
  <2>3. Avatars!TypeOK'
    BY <1>t, <2>1 DEF Avatars!TypeOK
  <2>4. AloneIsAlone' /\ UnlinksThere'
    BY <2>1, <2>2 DEF AvatarsInv, AloneIsAlone, UnlinksThere
  <2>5. AloneProgress'
    BY <2>1, <2>2 DEF AvatarsInv, AloneProgress
  <2>6. AvatarSettled'
    BY <2>1, <2>2 DEF AvatarsInv, AvatarSettled
  <2> QED BY <2>3, <2>4, <2>5, <2>6 DEF AvatarsInv
<1>6. ASSUME NEW s \in Slot, Avatars!Unlinked(s) PROVE AvatarsInv'
  <2>1. PICK label \in {"deleteRow", "write"} : Avatars!Goto(s, label)
    BY <1>6 DEF Avatars!Unlinked
  <2>2. /\ avatarPc[s] = "unlink" /\ toUnlink[s] = {}
        /\ UNCHANGED <<url, files, deletes, toUnlink, behind, written, overlapped, excused>>
    BY <1>6 DEF Avatars!Unlinked
  <2>3. s \notin overlapped => files' \subseteq toUnlink'[s] \cup behind'
    BY <1>p, <2>2
  <2> QED BY <1>t, <2>1, <2>2, <2>3, AvatarsGoesOn DEF Avatars!TypeOK
<1>7. ASSUME NEW s \in Slot, NEW f \in File, Avatars!WriteFile(s, f) PROVE AvatarsInv'
  <2>1. /\ avatarPc[s] = "write" /\ Avatars!Goto(s, "store") /\ toUnlink[s] = {}
        /\ files' = files \cup {f} /\ written'[s] = {f} /\ f \notin behind
        /\ \A t \in Slot \ {s} : written'[t] = written[t]
        /\ written' \in [Slot -> SUBSET File]
        /\ UNCHANGED <<url, deletes, toUnlink, behind, overlapped, excused>>
    BY <1>7, <1>t DEF Avatars!WriteFile, Avatars!NewNames, UnlinksThere, Avatars!TypeOK
  <2> QED BY <1>t, <2>1, AvatarsGoesOn DEF Avatars!TypeOK
<1>8. ASSUME NEW s \in Slot, Avatars!StoreUrl(s) PROVE AvatarsInv'
  <2>1. /\ avatarPc[s] = "store" /\ Avatars!End(s, TRUE) /\ UNCHANGED files
        /\ url' \in written[s]
        /\ url' \in File /\ url' # Gone /\ toUnlink[s] = {}
    BY <1>8, <1>t DEF Avatars!StoreUrl, UnlinksThere, Avatars!TypeOK, Avatars!AvatarsAssumption
  <2>2. behind' = behind /\ (~excused' => s \notin overlapped)
    BY <2>1 DEF Avatars!End
  <2> QED BY <1>p, <2>1, <2>2, AvatarsEndInv
<1>9. ASSUME NEW s \in Slot, Avatars!DeleteRow(s) PROVE AvatarsInv'
  <2>1. /\ avatarPc[s] = "deleteRow" /\ Avatars!End(s, TRUE) /\ UNCHANGED files /\ url' = Gone
        /\ url' \notin File /\ toUnlink[s] = {}
    BY <1>9, <1>t DEF Avatars!DeleteRow, UnlinksThere, Avatars!AvatarsAssumption
  <2>2. behind' = behind /\ (~excused' => s \notin overlapped)
    BY <2>1 DEF Avatars!End
  <2> QED BY <1>p, <2>1, <2>2, AvatarsEndInv
<1>10. ASSUME NEW s \in Slot, Avatars!UserNotFound(s) \/ Avatars!Fail(s) PROVE AvatarsInv'
  <2>1. avatarPc[s] # "idle" /\ Avatars!End(s, FALSE) /\ UNCHANGED <<url, files>>
    BY <1>10 DEF Avatars!UserNotFound, Avatars!Fail
  <2>2. excused'
    BY <2>1 DEF Avatars!End
  <2> QED BY <1>t, <2>1, <2>2, AvatarsEndInv DEF Avatars!TypeOK
<1>11. ASSUME NEW u \in File \cup {Elsewhere}, Avatars!SetUrl(u) PROVE AvatarsInv'
  <2>1. /\ url' = u /\ u # Gone /\ excused' = (excused \/ u \in File)
        /\ UNCHANGED <<files, avatarPc, deletes, toUnlink, written, behind, overlapped>>
    BY <1>11 DEF Avatars!SetUrl, Avatars!requestVars, Avatars!AvatarsAssumption
  <2>2. Avatars!Busy' = Avatars!Busy
    BY <2>1 DEF Avatars!Busy
  <2>3. Avatars!TypeOK'
    BY <1>t, <2>1 DEF Avatars!TypeOK
  <2>4. AloneIsAlone' /\ UnlinksThere' /\ AloneProgress'
    BY <2>1, <2>2 DEF AvatarsInv, AloneIsAlone, UnlinksThere, AloneProgress
  <2>5. AvatarSettled'
    BY <2>1 DEF AvatarSettled
  <2> QED BY <2>3, <2>4, <2>5 DEF AvatarsInv
<1>12. CASE UNCHANGED Avatars!vars
  BY <1>12 DEF AvatarsInv, Avatars!TypeOK, AloneIsAlone, UnlinksThere, AloneProgress,
               AvatarSettled,
               Avatars!Busy, Avatars!vars, Avatars!requestVars
<1> QED BY <1>1, <1>2, <1>3, <1>4, <1>5, <1>6, <1>7, <1>8, <1>9, <1>10, <1>11,
           <1>12 DEF Avatars!Next

LEMMA AvatarsSafe == Avatars!AvatarsAssumption => (Avatars!Spec => []AvatarsInv)
<1> SUFFICES ASSUME Avatars!AvatarsAssumption PROVE Avatars!Spec => []AvatarsInv
  OBVIOUS
<1>1. Avatars!Init => AvatarsInv
  BY AvatarsInitInv
<1>2. AvatarsInv /\ [Avatars!Next]_(Avatars!vars) => AvatarsInv'
  BY AvatarsNextInv
<1> QED BY <1>1, <1>2, PTL DEF Avatars!Spec

-----------------------------------------------------------------------------
(* The trackers of jobs and skills. *)

\* What a request is about, and where it can be.
TrackerLocals ==
    \A s \in Slot :
        /\ trackerPc[s] = "idle" <=> item[s] = None
        /\ trackerPc[s] \in {"find", "write"} => dto[s] \in Tracker!Dto
        /\ trackerPc[s] = "create" => item[s] \in Skill /\ dto[s] \in Tracker!Dto
        /\ trackerPc[s] = "delete" => item[s] \in Job

\* A job or skill no two requests have been about is the business of one.
OneAbout ==
    \A s, t \in Slot : item[s] = item[t] /\ item[s] # None /\ item[s] \notin raced => s = t

\* A skill is never deleted.
NoRowNoDate == \A k \in Skill \ raced : tracked[k] = None => first[k] = None

\* A request about to write has a date if, and only if, it is to be the first.
DateDecided ==
    \A s \in Slot : item[s] \notin raced =>
        /\ trackerPc[s] = "write" /\ tracked[item[s]] # None =>
               (date[s] # None <=> dto[s].status \in Tracker!Dated /\ tracked[item[s]].date = None)
        /\ trackerPc[s] = "create" => (date[s] # None <=> dto[s].status \in Tracker!Dated)

TrackerInv ==
    Tracker!TypeOK /\ TrackerLocals /\ OneAbout /\ NoRowNoDate /\ DateDecided /\ Tracker!FirstDateKept

-----------------------------------------------------------------------------
LEMMA TrackerInitInv == Tracker!TrackerAssumption /\ Tracker!Init => TrackerInv
<1> SUFFICES ASSUME Tracker!TrackerAssumption, Tracker!Init PROVE TrackerInv
  OBVIOUS
<1>1. Tracker!TypeOK
  BY DEF Tracker!Init, Tracker!TypeOK, Tracker!NoDto, Tracker!Time, Tracker!TrackerAssumption
<1>2. TrackerLocals /\ OneAbout /\ NoRowNoDate /\ DateDecided /\ Tracker!FirstDateKept
  BY DEF Tracker!Init, TrackerLocals, OneAbout, NoRowNoDate, DateDecided,
         Tracker!FirstDateKept, Tracker!Item
<1> QED BY <1>1, <1>2 DEF TrackerInv

\* The beginning of a request.
LEMMA TrackerStartInv ==
    ASSUME Tracker!TrackerAssumption, TrackerInv, NEW s \in Slot, NEW x \in Tracker!Item,
           NEW label \in {"find", "delete"}, NEW d \in Tracker!Dto \cup {Tracker!NoDto},
           label = "find" => d \in Tracker!Dto, label = "delete" => x \in Job,
           Tracker!Start(s, label, x, d)
    PROVE  TrackerInv'
<1> USE DEF TrackerInv
<1>1. Tracker!TypeOK'
  BY DEF Tracker!Start, Tracker!TypeOK
<1>2. /\ trackerPc'[s] = label /\ item'[s] = x /\ dto'[s] = d /\ date'[s] = date[s]
      /\ \A t \in Slot \ {s} : trackerPc'[t] = trackerPc[t] /\ item'[t] = item[t] /\ dto'[t] = dto[t]
      /\ date' = date /\ tracked' = tracked /\ first' = first
      /\ raced' = IF Tracker!About(x) = {} THEN raced ELSE raced \cup {x}
      /\ x # None /\ raced \subseteq raced'
  BY DEF Tracker!Start, Tracker!TypeOK, Tracker!TrackerAssumption
<1>3. TrackerLocals'
  BY <1>2 DEF TrackerLocals
<1>4. OneAbout'
  BY <1>2 DEF OneAbout, Tracker!About
<1>5. NoRowNoDate' /\ Tracker!FirstDateKept'
  BY <1>2 DEF NoRowNoDate, Tracker!FirstDateKept
<1>6. DateDecided'
  BY <1>2 DEF DateDecided
<1> QED BY <1>1, <1>3, <1>4, <1>5, <1>6

\* The end of a request that has written nothing.
LEMMA TrackerThrowInv ==
    ASSUME Tracker!TrackerAssumption, TrackerInv, NEW s \in Slot, Tracker!Throw(s)
    PROVE  TrackerInv'
<1> USE DEF TrackerInv
<1>1. Tracker!TypeOK'
  BY DEF Tracker!Throw, Tracker!Finish, Tracker!TypeOK
<1>2. /\ trackerPc'[s] = "idle" /\ item'[s] = None
      /\ \A t \in Slot \ {s} : /\ trackerPc'[t] = trackerPc[t] /\ item'[t] = item[t] /\ dto'[t] = dto[t]
                               /\ date'[t] = date[t]
      /\ tracked' = tracked /\ first' = first /\ raced' = raced
  BY DEF Tracker!Throw, Tracker!Finish, Tracker!TypeOK
<1>3. TrackerLocals' /\ OneAbout' /\ NoRowNoDate' /\ Tracker!FirstDateKept' /\ DateDecided'
  BY <1>2 DEF TrackerLocals, OneAbout, NoRowNoDate, Tracker!FirstDateKept, DateDecided
<1> QED BY <1>1, <1>3

\* The end of a request that has written a row with its first date, or one
\* about a job or skill whose date is that of a race, or deleted a job.
LEMMA TrackerWriteInv ==
    ASSUME Tracker!TrackerAssumption, TrackerInv, NEW s \in Slot, Tracker!Finish(s),
           item[s] \in Tracker!Item,
           NEW r \in Tracker!Row \cup {None}, tracked' = [tracked EXCEPT ![item[s]] = r],
                 raced' = raced,
           NEW f \in Tracker!Time \cup {None}, first' = [first EXCEPT ![item[s]] = f],
           r = None => item[s] \in Job,
           r # None /\ item[s] \notin raced => r.date = f
    PROVE  TrackerInv'
<1> USE DEF TrackerInv
<1>1. Tracker!TypeOK'
  BY DEF Tracker!Finish, Tracker!TypeOK
<1>2. /\ trackerPc'[s] = "idle" /\ item'[s] = None
      /\ \A t \in Slot \ {s} : /\ trackerPc'[t] = trackerPc[t] /\ item'[t] = item[t] /\ dto'[t] = dto[t]
                               /\ date'[t] = date[t]
      /\ tracked'[item[s]] = r /\ first'[item[s]] = f
      /\ \A x \in Tracker!Item \ {item[s]} : tracked'[x] = tracked[x] /\ first'[x] = first[x]
      /\ item[s] # None
  BY DEF Tracker!Finish, Tracker!TypeOK, Tracker!TrackerAssumption
<1>3. TrackerLocals' /\ OneAbout'
  BY <1>2 DEF TrackerLocals, OneAbout
<1>4. NoRowNoDate'
  BY <1>2 DEF NoRowNoDate, Tracker!TrackerAssumption, Tracker!Item
<1>5. Tracker!FirstDateKept'
  BY <1>2 DEF Tracker!FirstDateKept
<1>6. DateDecided'
  <2> SUFFICES ASSUME NEW t \in Slot, item'[t] \notin raced', t # s,
                      trackerPc'[t] \in {"write", "create"}
               PROVE  /\ trackerPc'[t] = "write" /\ tracked'[item'[t]] # None =>
                         (date'[t] # None
                              <=> dto'[t].status \in Tracker!Dated /\ tracked'[item'[t]].date = None)
                      /\ trackerPc'[t] = "create" =>
                            (date'[t] # None <=> dto'[t].status \in Tracker!Dated)
    BY <1>2 DEF DateDecided
  <2>1. item[t] \in Tracker!Item /\ item[t] # item[s]
    BY <1>2 DEF OneAbout, TrackerLocals, Tracker!TypeOK
  <2> QED BY <1>2, <2>1 DEF DateDecided
<1> QED BY <1>1, <1>3, <1>4, <1>5, <1>6

LEMMA NoteFirst ==
    ASSUME Tracker!TypeOK, NEW x \in Tracker!Item, NEW st, NEW t \in Tracker!Time \cup {None},
           Tracker!Note(x, st, t)
    PROVE  \E f \in Tracker!Time \cup {None} :
               /\ first' = [first EXCEPT ![x] = f]
               /\ f = IF st \in Tracker!Dated /\ first[x] = None THEN t ELSE first[x]
<1>1. first = [first EXCEPT ![x] = first[x]] /\ first[x] \in Tracker!Time \cup {None}
  BY DEF Tracker!TypeOK
<1> QED BY <1>1 DEF Tracker!Note

LEMMA TrackerNextInv ==
    Tracker!TrackerAssumption /\ TrackerInv /\ [Tracker!Next]_(Tracker!vars) => TrackerInv'
<1> SUFFICES ASSUME Tracker!TrackerAssumption, TrackerInv, [Tracker!Next]_(Tracker!vars)
 PROVE  TrackerInv'
  OBVIOUS
<1>t. Tracker!TypeOK /\ TrackerLocals
  BY DEF TrackerInv
<1>1. ASSUME NEW j \in Job, NEW st \in Tracker!JobStatus, Tracker!CreateJob(j, st)
      PROVE  TrackerInv'
  <2> DEFINE r == [status |-> st, date |-> IF st = "APPLIED" THEN now ELSE None, level |-> 0]
  <2>1. /\ r \in Tracker!Row /\ j \in Tracker!Item /\ j \notin Skill /\ Tracker!About(j) = {}
        /\ r.date = first'[j]
        /\ tracked' = [tracked EXCEPT ![j] = r] /\ raced' = raced \ {j}
        /\ first' \in [Tracker!Item -> Tracker!Time \cup {None}]
        /\ \A x \in Tracker!Item \ {j} : first'[x] = first[x]
        /\ UNCHANGED <<now, trackerPc, item, dto, date>>
    BY <1>1, <1>t DEF Tracker!CreateJob, Tracker!requestVars, Tracker!Row, Tracker!TypeOK,
                      Tracker!Item, Tracker!TrackerAssumption
  <2>2. tracked'[j] = r /\ \A x \in Tracker!Item \ {j} : tracked'[x] = tracked[x]
    BY <2>1, <1>t DEF Tracker!TypeOK
  <2> HIDE DEF r
  <2>3. \A s \in Slot : item[s] # j
    BY <2>1 DEF Tracker!About
  <2>4. Tracker!TypeOK'
    BY <2>1, <1>t DEF Tracker!TypeOK
  <2>5. TrackerLocals' /\ OneAbout' /\ NoRowNoDate' /\ Tracker!FirstDateKept'
    BY <2>1, <2>2, <2>3 DEF TrackerInv, TrackerLocals, OneAbout, NoRowNoDate,
                            Tracker!FirstDateKept, Tracker!Item
  <2>6. DateDecided'
    BY <2>1, <2>2, <2>3, <1>t DEF TrackerInv, DateDecided, TrackerLocals, Tracker!TypeOK,
                                  Tracker!Item
  <2> QED BY <2>4, <2>5, <2>6 DEF TrackerInv
<1>2. ASSUME NEW s \in Slot, NEW j \in Job, NEW st \in Tracker!JobStatus, Tracker!UpdateJob(s,
             j, st)
      PROVE  TrackerInv'
  <2>1. [status |-> st, level |-> None] \in Tracker!Dto
    BY DEF Tracker!Dto
  <2> QED BY <1>2, <2>1, TrackerStartInv DEF Tracker!UpdateJob, Tracker!Item
<1>3. ASSUME NEW s \in Slot, NEW k \in Skill, NEW st \in Tracker!SkillStatus \cup {None},
             NEW level \in Levels \cup {None}, Tracker!UpdateProgress(s, k, st, level)
      PROVE  TrackerInv'
  <2>1. [status |-> st, level |-> level] \in Tracker!Dto
    BY DEF Tracker!Dto
  <2> QED BY <1>3, <2>1, TrackerStartInv DEF Tracker!UpdateProgress, Tracker!Item
<1>4. ASSUME NEW s \in Slot, NEW j \in Job, Tracker!RemoveJob(s, j) PROVE TrackerInv'
  BY <1>4, TrackerStartInv DEF Tracker!RemoveJob, Tracker!Item
<1>5. ASSUME NEW s \in Slot, Tracker!Find(s) PROVE TrackerInv'
  <2>1. trackerPc[s] = "find" /\ item[s] \in Tracker!Item /\ dto[s] \in Tracker!Dto
    BY <1>5, <1>t DEF Tracker!Find, TrackerLocals, Tracker!TypeOK
  <2>2. Tracker!NewDate(s) \in Tracker!Time \cup {None}
    BY <1>t DEF Tracker!NewDate, Tracker!TypeOK
  <2>3. /\ trackerPc'[s] = (IF tracked[item[s]] = None THEN "create" ELSE "write")
        /\ date'[s] = Tracker!NewDate(s)
        /\ \A t \in Slot \ {s} : trackerPc'[t] = trackerPc[t] /\ date'[t] = date[t]
        /\ tracked' = tracked /\ item' = item /\ dto' = dto /\ first' = first /\ raced' = raced
        /\ item[s] \in Tracker!Item /\ dto[s] \in Tracker!Dto
    BY <1>5, <1>t, <2>1 DEF Tracker!Find, Tracker!TypeOK
  <2>4. Tracker!TypeOK'
    BY <1>5, <1>t, <2>2 DEF Tracker!Find, Tracker!TypeOK
  <2>5. TrackerLocals'
    BY <1>5, <1>t, <2>1, <2>3 DEF Tracker!Find, TrackerLocals, Tracker!Item,
                                  Tracker!TrackerAssumption
  <2>6. OneAbout' /\ NoRowNoDate' /\ Tracker!FirstDateKept'
    BY <2>3 DEF TrackerInv, OneAbout, NoRowNoDate, Tracker!FirstDateKept
  <2>7. DateDecided'
    <3>1. Tracker!NewDate(s) # None <=> /\ dto[s].status \in Tracker!Dated
                                        /\ tracked[item[s]] = None \/ tracked[item[s]].date = None
      BY <1>t DEF Tracker!NewDate, Tracker!TypeOK, Tracker!TrackerAssumption, Tracker!Time
    <3> QED BY <2>3, <3>1 DEF TrackerInv, DateDecided
  <2> QED BY <2>4, <2>5, <2>6, <2>7 DEF TrackerInv
<1>6. ASSUME NEW s \in Slot, Tracker!NotFound(s) \/ Tracker!Conflict(s) PROVE TrackerInv'
  BY <1>6, TrackerThrowInv DEF Tracker!NotFound, Tracker!Conflict
<1>7. ASSUME NEW s \in Slot, Tracker!Write(s) PROVE TrackerInv'
  <2> DEFINE x == item[s]
             level == IF dto[s].status = "completed" THEN 100
                      ELSE Tracker!Given(dto[s].level, tracked[x].level)
             r == [status |-> Tracker!Given(dto[s].status, tracked[x].status),
                   date |-> Tracker!Given(date[s], tracked[x].date), level |-> level]
  <2>1. /\ trackerPc[s] = "write" /\ x \in Tracker!Item /\ dto[s] \in Tracker!Dto
        /\ tracked[x] \in Tracker!Row /\ tracked[x] # None
        /\ date[s] \in Tracker!Time \cup {None}
    BY <1>7, <1>t DEF Tracker!Write, TrackerLocals, Tracker!TypeOK
  <2>2. Tracker!Given(dto[s].status, tracked[x].status) \in Tracker!JobStatus \cup Tracker!SkillStatus
    BY <2>1 DEF Tracker!Given, Tracker!Dto, Tracker!Row
  <2>3. level \in Nat
    BY <2>1 DEF Tracker!Given, Tracker!Dto, Tracker!Row, Tracker!TrackerAssumption
  <2>4. Tracker!Given(date[s], tracked[x].date) \in Tracker!Time \cup {None}
    BY <2>1 DEF Tracker!Given, Tracker!Row
  <2>5. r \in Tracker!Row /\ r.date = Tracker!Given(date[s], tracked[x].date)
    BY <2>2, <2>3, <2>4 DEF Tracker!Row
  <2>6. Tracker!Given(date[s], now) \in Tracker!Time \cup {None}
    BY <2>1, <1>t DEF Tracker!Given, Tracker!TypeOK
  <2>7. /\ Tracker!Finish(s) /\ raced' = raced /\ tracked' = [tracked EXCEPT ![x] = r]
        /\ Tracker!Note(x, dto[s].status, Tracker!Given(date[s], now))
    BY <1>7 DEF Tracker!Write
  <2>8. PICK f \in Tracker!Time \cup {None} :
            /\ first' = [first EXCEPT ![x] = f]
            /\ f = IF dto[s].status \in Tracker!Dated /\ first[x] = None
                      THEN Tracker!Given(date[s], now)
                   ELSE first[x]
    BY <2>1, <2>6, <2>7, <1>t, NoteFirst
  <2>9. x \notin raced => r.date = f
    BY <2>1, <2>5, <2>8 DEF TrackerInv, DateDecided, Tracker!FirstDateKept, Tracker!Given
  <2>10. r # None
    BY <2>5 DEF Tracker!TrackerAssumption
  <2> HIDE DEF r
  <2> QED BY <2>1, <2>5, <2>7, <2>8, <2>9, <2>10, TrackerWriteInv
<1>8. ASSUME NEW s \in Slot, Tracker!CreateProgress(s) PROVE TrackerInv'
  <2> DEFINE x == item[s]
             r == [status |-> Tracker!Given(dto[s].status, "not_started"), date |-> date[s],
                   level |-> Tracker!Given(dto[s].level, 0)]
  <2>1. /\ trackerPc[s] = "create" /\ x \in Skill /\ x \in Tracker!Item
        /\ dto[s] \in Tracker!Dto /\ tracked[x] = None
        /\ date[s] \in Tracker!Time \cup {None}
    BY <1>8, <1>t DEF Tracker!CreateProgress, TrackerLocals, Tracker!TypeOK, Tracker!Item
  <2>2. Tracker!Given(dto[s].status, "not_started") \in Tracker!JobStatus \cup Tracker!SkillStatus
    BY <2>1 DEF Tracker!Given, Tracker!Dto, Tracker!SkillStatus
  <2>3. Tracker!Given(dto[s].level, 0) \in Nat
    BY <2>1 DEF Tracker!Given, Tracker!Dto, Tracker!TrackerAssumption
  <2>4. r \in Tracker!Row /\ r.date = date[s]
    BY <2>1, <2>2, <2>3 DEF Tracker!Row
  <2>5. /\ Tracker!Finish(s) /\ raced' = raced /\ tracked' = [tracked EXCEPT ![x] = r]
        /\ Tracker!Note(x, dto[s].status, date[s])
    BY <1>8 DEF Tracker!CreateProgress
  <2>6. PICK f \in Tracker!Time \cup {None} :
            /\ first' = [first EXCEPT ![x] = f]
            /\ f = IF dto[s].status \in Tracker!Dated /\ first[x] = None THEN date[s] ELSE first[x]
    BY <2>1, <2>5, <1>t, NoteFirst
  <2>7. x \notin raced => r.date = f
    BY <2>1, <2>4, <2>6 DEF TrackerInv, DateDecided, NoRowNoDate
  <2>8. r # None
    BY <2>4 DEF Tracker!TrackerAssumption
  <2> HIDE DEF r
  <2> QED BY <2>1, <2>4, <2>5, <2>6, <2>7, <2>8, TrackerWriteInv
<1>9. ASSUME NEW s \in Slot, Tracker!DeleteJob(s) PROVE TrackerInv'
  <2>1. item[s] \in Job /\ item[s] \in Tracker!Item
    BY <1>9, <1>t DEF Tracker!DeleteJob, TrackerLocals, Tracker!Item
  <2>2. /\ first' = [first EXCEPT ![item[s]] = first[item[s]]]
        /\ first[item[s]] \in Tracker!Time \cup {None}
    BY <1>9, <1>t, <2>1 DEF Tracker!DeleteJob, Tracker!TypeOK
  <2> QED BY <1>9, <2>1, <2>2, TrackerWriteInv DEF Tracker!DeleteJob
<1>10. ASSUME Tracker!Tick \/ UNCHANGED Tracker!vars PROVE TrackerInv'
  <2>1. UNCHANGED <<tracked, trackerPc, item, dto, date, first, raced>> /\ now' \in Tracker!Time
    BY <1>10, <1>t DEF Tracker!Tick, Tracker!vars, Tracker!requestVars, Tracker!TypeOK,
                       Tracker!Time, Tracker!TrackerAssumption
  <2>2. Tracker!TypeOK'
    BY <2>1, <1>t DEF Tracker!TypeOK
  <2>3. TrackerLocals' /\ OneAbout' /\ NoRowNoDate' /\ DateDecided' /\ Tracker!FirstDateKept'
    BY <2>1 DEF TrackerInv, TrackerLocals, OneAbout, NoRowNoDate, DateDecided,
                Tracker!FirstDateKept
  <2> QED BY <2>2, <2>3 DEF TrackerInv
<1> QED BY <1>1, <1>2, <1>3, <1>4, <1>5, <1>6, <1>7, <1>8, <1>9, <1>10 DEF Tracker!Next

LEMMA TrackerSafe == Tracker!TrackerAssumption => (Tracker!Spec => []TrackerInv)
<1> SUFFICES ASSUME Tracker!TrackerAssumption PROVE Tracker!Spec => []TrackerInv
  OBVIOUS
<1>1. Tracker!Init => TrackerInv
  BY TrackerInitInv
<1>2. TrackerInv /\ [Tracker!Next]_(Tracker!vars) => TrackerInv'
  BY TrackerNextInv
<1> QED BY <1>1, <1>2, PTL DEF Tracker!Spec

-----------------------------------------------------------------------------
(* ATS scores. *)

\* The inputs of an analysis are descriptions and texts.
AtsInv == jd \in Descriptions /\ mentioned \subseteq DOMAIN jd /\ measured \in Measures

-----------------------------------------------------------------------------
LEMMA DivMonotone ==
    ASSUME NEW a \in Nat, NEW b \in Nat, a <= b, NEW d \in Nat \ {0}
    PROVE  a \div d <= b \div d /\ a \div d \in Nat
<1> DEFINE q == a \div d
           p == b \div d
<1>1. /\ q \in Nat /\ p \in Nat
      /\ a = d * q + (a % d) /\ b = d * p + (b % d) /\ a % d \in 0 .. d - 1
      /\ b % d \in 0 .. d - 1
  OBVIOUS
<1> QED OBVIOUS

LEMMA RoundMonotone ==
    ASSUME NEW a \in Nat, NEW b \in Nat, a <= b, NEW d \in Nat \ {0}
    PROVE  Ats!Round(a, d) <= Ats!Round(b, d) /\ Ats!Round(a, d) \in Nat
<1>1. /\ 2 * a + d \in Nat /\ 2 * b + d \in Nat /\ 2 * a + d <= 2 * b + d
      /\ 2 * d \in Nat \ {0}
  OBVIOUS
<1>2. /\ (2 * a + d) \div (2 * d) <= (2 * b + d) \div (2 * d)
      /\ (2 * a + d) \div (2 * d) \in Nat
  BY <1>1, DivMonotone
<1> QED BY <1>2 DEF Ats!Round

LEMMA PercentMonotone ==
    ASSUME NEW all, IsFiniteSet(all), NEW part \in SUBSET all, NEW more \in SUBSET all,
           part \subseteq more, NEW points \in Nat
    PROVE  Ats!Percent(part, all, points) <= Ats!Percent(more, all, points)
           /\ Ats!Percent(part, all, points) \in Nat /\ Ats!Percent(more, all, points) \in Nat
<1>1. CASE all = {}
  BY <1>1 DEF Ats!Percent
<1>2. CASE all # {}
  <2>1. IsFiniteSet(part) /\ IsFiniteSet(more)
    BY FS_Subset
  <2>2. /\ Cardinality(part) \in Nat /\ Cardinality(more) \in Nat /\ Cardinality(all) \in Nat
        /\ Cardinality(part) <= Cardinality(more) /\ Cardinality(all) # 0
    BY <1>2, <2>1, FS_Subset, FS_CardinalityType, FS_EmptySet
  <2> DEFINE a == points * Cardinality(part)
             b == points * Cardinality(more)
  <2>3. a \in Nat /\ b \in Nat /\ a <= b
    BY <2>2
  <2> HIDE DEF a, b
  <2>4. /\ Ats!Round(a, Cardinality(all)) <= Ats!Round(b, Cardinality(all))
        /\ Ats!Round(a, Cardinality(all)) \in Nat /\ Ats!Round(b, Cardinality(all)) \in Nat
    BY <2>2, <2>3, RoundMonotone
  <2> QED BY <1>2, <2>4, ServiceFiniteSets DEF Ats!Percent, a, b
<1> QED BY <1>1, <1>2

LEMMA KeywordsFinite ==
    ASSUME NEW d \in Seq(Ats!WordFacts)
    PROVE  /\ IsFiniteSet(Ats!Keywords(d))
           /\ \A p : /\ Ats!OfImportance(d, p) \subseteq Ats!Keywords(d)
                     /\ IsFiniteSet(Ats!OfImportance(d, p))
<1>1. IsFiniteSet(DOMAIN d)
  BY FS_Interval
<1>2. Ats!Keywords(d) \subseteq DOMAIN d /\ IsFiniteSet(Ats!Keywords(d))
  BY <1>1, FS_Subset DEF Ats!Keywords
<1>3. \A p : Ats!OfImportance(d, p) \subseteq Ats!Keywords(d)
  BY DEF Ats!OfImportance
<1> QED BY <1>2, <1>3, FS_Subset

\* More words of a description found: no rate and no score falls.
LEMMA MatchRateMonotone ==
    ASSUME NEW d \in Seq(Ats!WordFacts), NEW found, NEW more, found \subseteq more
    PROVE  /\ Ats!MatchRate(d, found) <= Ats!MatchRate(d, more)
           /\ Ats!MatchRate(d, found) \in Nat /\ Ats!MatchRate(d, more) \in Nat
<1>1. /\ Ats!Keywords(d) \cap found \in SUBSET Ats!Keywords(d)
      /\ Ats!Keywords(d) \cap more \in SUBSET Ats!Keywords(d)
      /\ Ats!Keywords(d) \cap found \subseteq Ats!Keywords(d) \cap more
  OBVIOUS
<1> QED BY <1>1, KeywordsFinite, PercentMonotone DEF Ats!MatchRate

LEMMA SkillPointsMonotone ==
    ASSUME NEW d \in Seq(Ats!WordFacts), NEW found, NEW more, found \subseteq more
    PROVE  /\ Ats!SkillPoints(d, found) <= Ats!SkillPoints(d, more)
           /\ Ats!SkillPoints(d, found) \in Nat /\ Ats!SkillPoints(d, more) \in Nat
<1> DEFINE required == Ats!OfImportance(d, "required")
<1>1. ASSUME NEW all, IsFiniteSet(all)
      PROVE  /\ Ats!Percent(all \cap found, all, 80) <= Ats!Percent(all \cap more, all, 80)
             /\ Ats!Percent(all \cap found, all, 80) \in Nat
             /\ Ats!Percent(all \cap more, all, 80) \in Nat
  <2>1. /\ all \cap found \in SUBSET all /\ all \cap more \in SUBSET all
        /\ all \cap found \subseteq all \cap more
    OBVIOUS
  <2> QED BY <1>1, <2>1, PercentMonotone
<1>2. IsFiniteSet(required) /\ IsFiniteSet(Ats!Keywords(d))
  BY KeywordsFinite
<1> HIDE DEF required
<1>3. CASE required # {}
  BY <1>1, <1>2, <1>3 DEF Ats!SkillPoints, required
<1>4. CASE required = {}
  BY <1>1, <1>2, <1>4 DEF Ats!SkillPoints, required
<1> QED BY <1>3, <1>4

LEMMA ScoreTypes ==
    ASSUME NEW t \in Ats!TextMeasures
    PROVE  /\ Ats!ScoreContactInfo(t) \in Nat /\ Ats!ScoreExperience(t) \in Nat
           /\ Ats!Points(t.skills, 20) \in Nat /\ Ats!ScoreEducation(t) \in Nat
           /\ Ats!ScoreSummary(t) \in Nat /\ Ats!ScoreFormatting(t) \in Nat
           /\ Ats!ScoreImpactLanguage(t) \in Nat
<1>1. /\ Ats!ScoreContactInfo(t) \in Nat /\ Ats!ScoreExperience(t) \in Nat
      /\ Ats!ScoreEducation(t) \in Nat
  BY DEF Ats!ScoreContactInfo, Ats!ScoreExperience, Ats!ScoreEducation, Ats!Points
<1>2. Ats!Points(t.skills, 20) \in Nat /\ Ats!ScoreFormatting(t) \in Nat
  BY DEF Ats!Points, Ats!ScoreFormatting
<1>3. Ats!ScoreSummary(t) \in Nat
  <2>1. 60 * t.early \in Nat /\ t.looked \in Nat
    BY DEF Ats!TextMeasures
  <2>2. t.looked > 0 => Ats!Round(60 * t.early, t.looked) \in Nat
    BY <2>1, RoundMonotone
  <2> QED BY <2>1, <2>2 DEF Ats!ScoreSummary, Ats!Points
<1>4. Ats!ScoreImpactLanguage(t) \in Nat
  BY DEF Ats!ScoreImpactLanguage, Ats!Least, Ats!TextMeasures
<1> QED BY <1>1, <1>2, <1>3, <1>4

LEMMA ScoresMonotone ==
    ASSUME NEW d \in Seq(Ats!WordFacts), NEW found, NEW more, found \subseteq more,
           NEW t \in Ats!TextMeasures
    PROVE  /\ Ats!OverallScore(d, found, t) <= Ats!OverallScore(d, more, t)
           /\ Ats!ScoreSkills(d, found, t) <= Ats!ScoreSkills(d, more, t)
<1> DEFINE m == Ats!MatchRate(d, found)
           n == Ats!MatchRate(d, more)
           k == Ats!ScoreSkills(d, found, t)
           l == Ats!ScoreSkills(d, more, t)
           others == Ats!ScoreContactInfo(t) + Ats!ScoreExperience(t) + Ats!ScoreEducation(t)
                     + Ats!ScoreSummary(t)
           whole == 15 * Ats!ScoreFormatting(t) + 15 * Ats!ScoreImpactLanguage(t)
<1>1. m \in Nat /\ n \in Nat /\ m <= n
  BY MatchRateMonotone
<1>a. /\ Ats!ScoreContactInfo(t) \in Nat /\ Ats!ScoreExperience(t) \in Nat
      /\ Ats!ScoreEducation(t) \in Nat /\ Ats!ScoreSummary(t) \in Nat
  BY ScoreTypes, Zenon
<1>b. /\ Ats!Points(t.skills, 20) \in Nat
      /\ Ats!ScoreFormatting(t) \in Nat /\ Ats!ScoreImpactLanguage(t) \in Nat
  BY ScoreTypes, Zenon
<1>2. k \in Nat /\ l \in Nat /\ k <= l
  BY <1>b, SkillPointsMonotone DEF Ats!ScoreSkills
<1>3. others \in Nat /\ whole \in Nat
  BY <1>a, <1>b
<1>4. \A s \in {k, l} :
          Ats!ScoreContactInfo(t) + Ats!ScoreExperience(t) + s + Ats!ScoreEducation(t) + Ats!ScoreSummary(t)
              = others + s
  BY <1>2, <1>a
<1>5. /\ Ats!OverallScore(d, found, t) =
             Ats!Least(100, Ats!Round(40 * m + 6 * (Ats!ScoreContactInfo(t) + Ats!ScoreExperience(t) + k
                  + Ats!ScoreEducation(t) + Ats!ScoreSummary(t))
                  + 15 * Ats!ScoreFormatting(t) + 15 * Ats!ScoreImpactLanguage(t), 100))
      /\ Ats!OverallScore(d, more, t) =
             Ats!Least(100, Ats!Round(40 * n + 6 * (Ats!ScoreContactInfo(t) + Ats!ScoreExperience(t) + l
                  + Ats!ScoreEducation(t) + Ats!ScoreSummary(t))
                  + 15 * Ats!ScoreFormatting(t) + 15 * Ats!ScoreImpactLanguage(t), 100))
  BY DEF Ats!OverallScore, Ats!ScoreSections
<1> DEFINE a == 40 * m + 6 * (others + k) + whole
           b == 40 * n + 6 * (others + l) + whole
<1>6. /\ 40 * m + 6 * (others + k) + 15 * Ats!ScoreFormatting(t) + 15 * Ats!ScoreImpactLanguage(t) = a
      /\ 40 * n + 6 * (others + l) + 15 * Ats!ScoreFormatting(t) + 15 * Ats!ScoreImpactLanguage(t) = b
  <2> HIDE DEF m, n, k, l, others
  <2>2. 40 * m \in Nat /\ 40 * n \in Nat /\ 6 * (others + k) \in Nat /\ 6 * (others + l) \in Nat
    BY <1>1, <1>2, <1>3
  <2> QED BY <1>b, <2>2
<1>7. Ats!OverallScore(d, found, t) = Ats!Least(100, Ats!Round(a, 100))
      /\ Ats!OverallScore(d, more, t) = Ats!Least(100, Ats!Round(b, 100))
  BY <1>4, <1>5, <1>6
<1> HIDE DEF m, n, k, l, others, whole
<1>8. a \in Nat /\ b \in Nat /\ a <= b
  BY <1>1, <1>2, <1>3
<1> HIDE DEF a, b
<1>9. /\ Ats!Round(a, 100) <= Ats!Round(b, 100) /\ Ats!Round(a, 100) \in Nat
      /\ Ats!Round(b, 100) \in Nat
  BY <1>8 DEF Ats!Round
<1> QED BY <1>2, <1>7, <1>9 DEF Ats!Least, k, l

LEMMA AtsMonotone == Ats!AtsAssumption /\ AtsInv => Ats!MoreKeywordsNeverLower
<1> SUFFICES ASSUME Ats!AtsAssumption, AtsInv, NEW i \in DOMAIN jd \ mentioned
             PROVE  /\ Ats!OverallScore(jd, mentioned, measured)
                           <= Ats!OverallScore(jd, mentioned \cup {i}, measured)
                    /\ Ats!ScoreSkills(jd, mentioned, measured)
                           <= Ats!ScoreSkills(jd, mentioned \cup {i}, measured)
  BY DEF Ats!MoreKeywordsNeverLower
<1> QED BY ScoresMonotone DEF Ats!AtsAssumption, AtsInv

LEMMA AtsSafe == Ats!AtsAssumption => (Ats!Spec => []AtsInv)
<1> SUFFICES ASSUME Ats!AtsAssumption PROVE Ats!Spec => []AtsInv
  OBVIOUS
<1>1. Ats!Init => AtsInv
  BY DEF Ats!Init, AtsInv
<1>2. AtsInv /\ [Ats!Next]_(Ats!vars) => AtsInv'
  BY DEF AtsInv, Ats!Next, Ats!vars, Ats!Analyze, Ats!AddSuggestions, Ats!KeepSuggestions
<1> QED BY <1>1, <1>2, PTL DEF Ats!Spec

-----------------------------------------------------------------------------
(* Numbers in their order. *)

\* How many members of S are smaller than i.
Rank(S, i) == Cardinality({j \in S : j < i})

LEMMA LeastMember ==
    ASSUME NEW T, T \subseteq Nat, T # {}
    PROVE  \E x \in T : \A y \in T : x <= y
<1>1. PICK x \in T : \A y \in T : ~(<<y, x>> \in OpToRel(<, Nat))
  BY WFMin, NatLessThanWellFounded, Zenon
<1>2. ASSUME NEW y \in T PROVE x <= y
  <2>1. x \in Nat /\ y \in Nat
    OBVIOUS
  <2>2. ~(y < x)
    BY <1>1, <2>1, Zenon DEF OpToRel
  <2> QED BY <2>1, <2>2
<1> QED BY <1>2

LEMMA SmallerSubset ==
    ASSUME NEW S, IsFiniteSet(S), NEW T, T \subseteq S, T # S
    PROVE  /\ Cardinality(T) < Cardinality(S) /\ IsFiniteSet(T)
           /\ Cardinality(T) \in Nat /\ Cardinality(S) \in Nat
<1>1. /\ IsFiniteSet(T) /\ Cardinality(T) <= Cardinality(S)
      /\ Cardinality(S) = Cardinality(T) => S = T
  BY FS_Subset, Zenon
<1>2. Cardinality(T) \in Nat /\ Cardinality(S) \in Nat
  BY <1>1, FS_CardinalityType, Zenon
<1> QED BY <1>1, <1>2

LEMMA RankBounds ==
    ASSUME NEW S, IsFiniteSet(S), S \subseteq Nat, NEW i \in S
    PROVE  Rank(S, i) \in Nat /\ Rank(S, i) < Cardinality(S) /\ Cardinality(S) \in Nat
<1> DEFINE R == {j \in S : j < i}
<1>1. R \subseteq S /\ i \notin R /\ R # S
  OBVIOUS
<1> HIDE DEF R
<1>2. /\ Cardinality(R) < Cardinality(S)
      /\ Cardinality(R) \in Nat /\ Cardinality(S) \in Nat
  BY <1>1, SmallerSubset, Zenon
<1> QED BY <1>2 DEF Rank, R

LEMMA RankGrows ==
    ASSUME NEW S, IsFiniteSet(S), S \subseteq Nat, NEW i \in S, NEW j \in S, i < j
    PROVE  Rank(S, i) < Rank(S, j)
<1> DEFINE R == {m \in S : m < i}
           Q == {m \in S : m < j}
<1>1. R \subseteq Q /\ i \in Q /\ i \notin R /\ Q \subseteq S
  <2>1. i \in Nat /\ j \in Nat /\ \A m \in S : m \in Nat
    OBVIOUS
  <2>2. \A m \in S : m < i => m < j
    BY <2>1
  <2>3. ~(i < i)
    BY <2>1
  <2> QED BY <2>2, <2>3
<1> HIDE DEF R, Q
<1>2. IsFiniteSet(Q) /\ R # Q
  BY <1>1, FS_Subset, Zenon
<1>3. Cardinality(R) < Cardinality(Q)
  BY <1>1, <1>2, SmallerSubset, Zenon
<1> QED BY <1>3 DEF Rank, R, Q


\* The member of rank k - 1 is at place k.
LEMMA InOrderAt ==
    ASSUME NEW S, IsFiniteSet(S), S \subseteq Nat, NEW i \in S
    PROVE  /\ Rank(S, i) + 1 \in DOMAIN InOrder(S)
           /\ InOrder(S)[Rank(S, i) + 1] = i
<1>1. Rank(S, i) \in Nat /\ Rank(S, i) < Cardinality(S) /\ Cardinality(S) \in Nat
  BY RankBounds, Zenon
<1>2. ASSUME NEW j \in S, Rank(S, j) = Rank(S, i) PROVE j = i
  <2>1. i < j => Rank(S, i) < Rank(S, j)
    BY RankGrows, Zenon
  <2>2. j < i => Rank(S, j) < Rank(S, i)
    BY RankGrows, Zenon
  <2>3. i \in Nat /\ j \in Nat
    OBVIOUS
  <2> QED BY <1>1, <1>2, <2>1, <2>2, <2>3
<1>3. (CHOOSE m \in S : Rank(S, m) = Rank(S, i)) = i
  BY <1>2, Zenon
<1>4. \A k \in 1 .. Cardinality(S) : InOrder(S)[k] = CHOOSE m \in S : Rank(S, m) = k - 1
  BY DEF InOrder, Rank
<1>5. Rank(S, i) + 1 \in 1 .. Cardinality(S) /\ (Rank(S, i) + 1) - 1 = Rank(S, i)
  BY <1>1
<1>6. DOMAIN InOrder(S) = 1 .. Cardinality(S)
  BY DEF InOrder
<1>7. InOrder(S)[Rank(S, i) + 1] = CHOOSE m \in S : Rank(S, m) = (Rank(S, i) + 1) - 1
  BY <1>4, <1>5, Zenon
<1> QED BY <1>3, <1>5, <1>6, <1>7

LEMMA InOrderDomain ==
    ASSUME NEW S, IsFiniteSet(S)
    PROVE  /\ Cardinality(S) \in Nat /\ DOMAIN InOrder(S) = 1 .. Cardinality(S)
           /\ \E V : InOrder(S) \in Seq(V)
<1>1. Cardinality(S) \in Nat /\ DOMAIN InOrder(S) = 1 .. Cardinality(S)
  BY FS_CardinalityType DEF InOrder
<1>2. InOrder(S) \in [1 .. Cardinality(S) -> {InOrder(S)[k] : k \in 1 .. Cardinality(S)}]
  BY <1>1 DEF InOrder
<1>3. InOrder(S) \in Seq({InOrder(S)[k] : k \in 1 .. Cardinality(S)})
  <2> DEFINE V == {InOrder(S)[k] : k \in 1 .. Cardinality(S)}
  <2>1. InOrder(S) \in [1 .. Cardinality(S) -> V]
    BY <1>2
  <2> HIDE DEF V
  <2> QED BY <1>1, <2>1
<1> QED BY <1>1, <1>3

\* Every rank is some member's.
LEMMA RankOnto ==
    ASSUME NEW S, IsFiniteSet(S), S \subseteq Nat, NEW k \in 1 .. Cardinality(S)
    PROVE  \E i \in S : Rank(S, i) = k - 1
<1> DEFINE n == Cardinality(S)
           T == 0 .. n - 1
           f == [i \in S |-> Rank(S, i)]
<1>1. n \in Nat /\ n > 0
  BY FS_CardinalityType
<1>2. IsFiniteSet(T) /\ Cardinality(T) = n
  <2>1. 0 \in Int /\ n - 1 \in Int
    BY <1>1
  <2>2. IsFiniteSet(T) /\ Cardinality(T) = IF 0 > n - 1 THEN 0 ELSE (n - 1) - 0 + 1
    BY <2>1, FS_Interval, Zenon
  <2> QED BY <1>1, <2>2
<1>3. \A i \in S : Rank(S, i) \in T
  <2>1. \A i \in S : Rank(S, i) \in Nat /\ Rank(S, i) < n
    BY RankBounds, Zenon
  <2> QED BY <1>1, <2>1
<1>4. \A i, j \in S : Rank(S, i) = Rank(S, j) => i = j
  <2> SUFFICES ASSUME NEW i \in S, NEW j \in S, Rank(S, i) = Rank(S, j) PROVE i = j
    OBVIOUS
  <2>1. i < j => Rank(S, i) < Rank(S, j)
    BY RankGrows, Zenon
  <2>2. j < i => Rank(S, j) < Rank(S, i)
    BY RankGrows, Zenon
  <2>3. i \in Nat /\ j \in Nat /\ Rank(S, i) \in Nat
    BY RankBounds
  <2> QED BY <2>1, <2>2, <2>3
<1> HIDE DEF T
<1>5. f \in Injection(S, T)
  BY <1>3, <1>4 DEF Injection, IsInjective
<1>6. f \in Surjection(S, T)
  <2> HIDE DEF f
  <2> QED BY <1>2, <1>5, FS_Injection, Zenon
<1>7. k - 1 \in T
  BY <1>1 DEF T
<1> QED BY <1>6, <1>7 DEF Surjection

\* Without its least member, what is left is in the same order.
LEMMA RestInOrder ==
    ASSUME NEW S, IsFiniteSet(S), S \subseteq Nat, NEW m \in S, \A y \in S : m <= y
    PROVE  /\ Cardinality(S) \in Nat /\ Cardinality(S) >= 1
           /\ InOrder(S)[1] = m
           /\ Cardinality(S \ {m}) = Cardinality(S) - 1
           /\ \A k \in 1 .. Cardinality(S) - 1 : InOrder(S \ {m})[k] = InOrder(S)[k + 1]
<1> DEFINE R == S \ {m}
<1>1. /\ Cardinality(R) = Cardinality(S) - 1 /\ IsFiniteSet(R) /\ Cardinality(S) \in Nat
      /\ R \subseteq Nat /\ Cardinality(S) >= 1
  <2>1. Cardinality(R) = Cardinality(S) - 1 /\ IsFiniteSet(R)
    BY FS_RemoveElement
  <2>2. Cardinality(R) \in Nat /\ Cardinality(S) \in Nat
    BY <2>1, FS_CardinalityType
  <2> QED BY <2>1, <2>2
<1>2. InOrder(S)[1] = m
  <2>1. {j \in S : j < m} = {}
    <3>1. ASSUME NEW j \in S PROVE ~(j < m)
      <4>1. m \in Nat /\ j \in Nat /\ m <= j
        OBVIOUS
      <4> QED BY <4>1
    <3> QED BY <3>1
  <2>2. Rank(S, m) = 0
    BY <2>1, FS_EmptySet DEF Rank
  <2>3. InOrder(S)[Rank(S, m) + 1] = m
    BY InOrderAt, Zenon
  <2> QED BY <2>2, <2>3
<1>3. ASSUME NEW k \in 1 .. Cardinality(S) - 1
      PROVE  InOrder(R)[k] = InOrder(S)[k + 1]
  <2>1. PICK i \in R : Rank(R, i) = k - 1
    BY <1>1, <1>3, RankOnto
  <2>2. InOrder(R)[Rank(R, i) + 1] = i
    BY <1>1, InOrderAt, Zenon
  <2>3. Rank(S, i) = Rank(R, i) + 1
    <3> DEFINE P == {j \in S : j < i}
    <3>1. {j \in R : j < i} = P \ {m} /\ m \in P /\ P \subseteq S
      OBVIOUS
    <3>2. IsFiniteSet(P)
      BY <3>1, FS_Subset, Zenon
    <3> HIDE DEF P
    <3>3. Cardinality(P \ {m}) = Cardinality(P) - 1 /\ Cardinality(P) \in Nat
      BY <3>1, <3>2, FS_RemoveElement, FS_CardinalityType
    <3> QED BY <3>1, <3>3 DEF Rank, P
  <2>4. InOrder(S)[Rank(S, i) + 1] = i
    BY InOrderAt, Zenon
  <2>5. Rank(R, i) + 1 = k /\ Rank(S, i) + 1 = k + 1
    BY <2>1, <2>3
  <2> QED BY <2>2, <2>4, <2>5
<1> QED BY <1>1, <1>2, <1>3

LEMMA GreatestMember ==
    ASSUME NEW T, T \subseteq Nat, T # {}, NEW n \in Nat, \A x \in T : x <= n
    PROVE  \E x \in T : \A y \in T : x >= y
<1> DEFINE U == {n - x : x \in T}
<1>1. U \subseteq Nat /\ U # {}
  <2>1. ASSUME NEW x \in T PROVE n - x \in Nat
    <3>1. x \in Nat /\ x <= n
      OBVIOUS
    <3> QED BY <3>1
  <2> QED BY <2>1
<1>2. PICK u \in U : \A v \in U : u <= v
  BY <1>1, LeastMember, Zenon
<1>3. PICK x \in T : u = n - x
  BY <1>2
<1>4. ASSUME NEW y \in T PROVE x >= y
  <2>1. n - y \in U
    OBVIOUS
  <2>2. n - x <= n - y /\ x \in Nat /\ y \in Nat
    BY <1>2, <1>3, <2>1
  <2> QED BY <2>2
<1> QED BY <1>4

LEMMA TailIs ==
    ASSUME NEW V, NEW q \in Seq(V), Len(q) >= 1
    PROVE  Tail(q) = [n \in 1 .. Len(q) - 1 |-> q[n + 1]]
<1>1. Tail(q) \in Seq(V) /\ Len(Tail(q)) = Len(q) - 1 /\ Len(q) - 1 \in Nat
  OBVIOUS
<1>2. \A n \in 1 .. Len(q) - 1 : Tail(q)[n] = q[n + 1]
  OBVIOUS
<1> DEFINE r == Tail(q)
           l == Len(q) - 1
<1> HIDE DEF r, l
<1>3. r \in Seq(V) /\ Len(r) = l /\ l \in Nat
  BY <1>1 DEF r, l
<1>4. r \in [1 .. l -> V]
  BY <1>3
<1>5. r = [n \in 1 .. l |-> r[n]]
  BY <1>4
<1>6. r = [n \in 1 .. l |-> q[n + 1]]
  BY <1>2, <1>5 DEF r, l
<1> QED BY <1>6 DEF r, l

\* As many values as arguments, if no two have the same.
LEMMA AsManyValues ==
    ASSUME NEW S, IsFiniteSet(S), NEW V, NEW f \in [S -> V],
           \A x, y \in S : f[x] = f[y] => x = y
    PROVE  /\ IsFiniteSet({f[x] : x \in S}) /\ Cardinality({f[x] : x \in S}) = Cardinality(S)
<1> DEFINE T == {f[x] : x \in S}
<1>1. f \in Bijection(S, T)
  BY DEF Bijection, Injection, Surjection, IsInjective
<1>2. ExistsBijection(S, T)
  BY <1>1 DEF ExistsBijection
<1> HIDE DEF T
<1>3. IsFiniteSet(T) /\ Cardinality(T) = Cardinality(S)
  BY <1>2, FS_Bijection, Zenon
<1> QED BY <1>3 DEF T

\* Every item is greater than those before it.
Increasing(q) == \A a, b \in DOMAIN q : a < b => q[a] < q[b]

Items(q) == {q[n] : n \in DOMAIN q}

\* A function on 1 .. n is a sequence.
LEMMA SeqOf ==
    ASSUME NEW n \in Nat, NEW f, f = [k \in 1 .. n |-> f[k]],
           NEW V, \A k \in 1 .. n : f[k] \in V
    PROVE  f \in Seq(V) /\ Len(f) = n
<1>1. f \in [1 .. n -> V]
  <2>2. [k \in 1 .. n |-> f[k]] \in [1 .. n -> V]
    BY Zenon
  <2> QED BY <2>2, Zenon
<1> QED BY <1>1

\* All members, each once, in their order.
LEMMA InOrderIs ==
    ASSUME NEW S, IsFiniteSet(S), S \subseteq Nat
    PROVE  /\ Cardinality(S) \in Nat
           /\ InOrder(S) \in Seq(S) /\ Len(InOrder(S)) = Cardinality(S)
           /\ DOMAIN InOrder(S) = 1 .. Cardinality(S)
           /\ Increasing(InOrder(S))
           /\ Items(InOrder(S)) = S
<1>1. Cardinality(S) \in Nat /\ DOMAIN InOrder(S) = 1 .. Cardinality(S)
  BY InOrderDomain
<1>2. ASSUME NEW k \in 1 .. Cardinality(S)
      PROVE  InOrder(S)[k] \in S /\ Rank(S, InOrder(S)[k]) = k - 1
  <2>1. PICK i \in S : Rank(S, i) = k - 1
    BY RankOnto, Zenon
  <2>2. InOrder(S)[Rank(S, i) + 1] = i
    BY InOrderAt, Zenon
  <2>3. Rank(S, i) + 1 = k
    BY <2>1
  <2> QED BY <2>1, <2>2, <2>3
<1>3. InOrder(S) \in Seq(S) /\ Len(InOrder(S)) = Cardinality(S)
  <2>1. InOrder(S) = [k \in 1 .. Cardinality(S) |-> InOrder(S)[k]]
    <3> DEFINE q == InOrder(S)
    <3>1. PICK V : q \in Seq(V)
      BY InOrderDomain, Zenon
    <3> HIDE DEF q
    <3>2. q = [k \in DOMAIN q |-> q[k]]
      BY <3>1
    <3> QED BY <1>1, <3>2, Zenon DEF q
  <2> QED BY <1>1, <1>2, <2>1, SeqOf, Zenon
<1>4. Increasing(InOrder(S))
  <2> SUFFICES ASSUME NEW a \in 1 .. Cardinality(S), NEW b \in 1 .. Cardinality(S), a < b
               PROVE  InOrder(S)[a] < InOrder(S)[b]
    BY <1>1 DEF Increasing
  <2> DEFINE x == InOrder(S)[a]
             y == InOrder(S)[b]
  <2>1. x \in S /\ y \in S /\ Rank(S, x) = a - 1 /\ Rank(S, y) = b - 1
    BY <1>2
  <2> HIDE DEF x, y
  <2>2. y < x => Rank(S, y) < Rank(S, x)
    BY <2>1, RankGrows, Zenon
  <2>3. x \in Nat /\ y \in Nat
    BY <2>1
  <2>4. x < y
    BY <1>1, <2>1, <2>2, <2>3
  <2> QED BY <2>4 DEF x, y
<1>5. Items(InOrder(S)) = S
  <2>1. \A i \in S : Rank(S, i) + 1 \in DOMAIN InOrder(S) /\ InOrder(S)[Rank(S, i) + 1] = i
    BY InOrderAt, Zenon
  <2> QED BY <1>1, <1>2, <2>1 DEF Items
<1> QED BY <1>1, <1>3, <1>4, <1>5

LEMMA PlacesFinite ==
    ASSUME NEW V, NEW q \in Seq(V), NEW S, S \subseteq DOMAIN q
    PROVE  IsFiniteSet(S) /\ S \subseteq Nat
<1>1. Len(q) \in Int /\ 1 \in Int /\ DOMAIN q = 1 .. Len(q)
  OBVIOUS
<1>2. IsFiniteSet(1 .. Len(q))
  BY <1>1, FS_Interval, Zenon
<1>3. IsFiniteSet(S)
  BY <1>1, <1>2, FS_Subset, Zenon
<1> QED BY <1>1, <1>3

LEMMA ItemsAtIs ==
    ASSUME NEW V, NEW q \in Seq(V), NEW S, S \subseteq DOMAIN q
    PROVE  /\ ItemsAt(q, S) \in Seq(V) /\ Len(ItemsAt(q, S)) = Cardinality(S)
           /\ Cardinality(S) \in Nat /\ DOMAIN ItemsAt(q, S) = 1 .. Cardinality(S)
           /\ \A k \in 1 .. Cardinality(S) : ItemsAt(q, S)[k] = q[InOrder(S)[k]]
           /\ Items(ItemsAt(q, S)) = {q[n] : n \in S}
<1>1. IsFiniteSet(S) /\ S \subseteq Nat
  BY PlacesFinite, Zenon
<1>2. /\ Cardinality(S) \in Nat /\ DOMAIN InOrder(S) = 1 .. Cardinality(S)
      /\ Items(InOrder(S)) = S
  BY <1>1, InOrderIs, Zenon
<1>3. /\ DOMAIN ItemsAt(q, S) = 1 .. Cardinality(S)
      /\ \A k \in 1 .. Cardinality(S) : ItemsAt(q, S)[k] = q[InOrder(S)[k]]
  BY <1>2, Zenon DEF ItemsAt
<1>4. \A k \in 1 .. Cardinality(S) : InOrder(S)[k] \in S
  BY <1>2, Zenon DEF Items
<1>5. \A n \in DOMAIN q : q[n] \in V
  OBVIOUS
<1>6. ItemsAt(q, S) \in Seq(V) /\ Len(ItemsAt(q, S)) = Cardinality(S)
  <2>1. ItemsAt(q, S) = [k \in 1 .. Cardinality(S) |-> ItemsAt(q, S)[k]]
    BY <1>2 DEF ItemsAt
  <2>2. \A k \in 1 .. Cardinality(S) : ItemsAt(q, S)[k] \in V
    BY <1>3, <1>4, <1>5, Zenon
  <2> QED BY <1>2, <1>3, <2>1, <2>2, SeqOf, Zenon
<1>7. Items(ItemsAt(q, S)) = {q[n] : n \in S}
  <2>1. \A n \in S : \E k \in 1 .. Cardinality(S) : n = InOrder(S)[k]
    BY <1>2 DEF Items
  <2> QED BY <1>3, <1>4, <2>1 DEF Items
<1> QED BY <1>2, <1>3, <1>6, <1>7, Zenon

LEMMA ItemsAtIncreasing ==
    ASSUME NEW q \in Seq(Nat), Increasing(q), NEW S, S \subseteq DOMAIN q
    PROVE  Increasing(ItemsAt(q, S))
<1>1. IsFiniteSet(S) /\ S \subseteq Nat
  BY PlacesFinite, Zenon
<1>2. /\ DOMAIN InOrder(S) = 1 .. Cardinality(S) /\ Increasing(InOrder(S))
      /\ Items(InOrder(S)) = S
  BY <1>1, InOrderIs, Zenon
<1>3. /\ DOMAIN ItemsAt(q, S) = 1 .. Cardinality(S)
      /\ \A k \in 1 .. Cardinality(S) : ItemsAt(q, S)[k] = q[InOrder(S)[k]]
  BY <1>2 DEF ItemsAt
<1>4. \A k \in 1 .. Cardinality(S) : InOrder(S)[k] \in DOMAIN q
  BY <1>2 DEF Items
<1> QED BY <1>2, <1>3, <1>4 DEF Increasing

-----------------------------------------------------------------------------
(* The suggestions of Ats. *)

\* What is within the first n stays.
LEMMA FirstOnes ==
    ASSUME NEW V, NEW q \in Seq(V), NEW n \in Nat
    PROVE  /\ Ats!FirstOf(q, n) \in Seq(V) /\ Len(Ats!FirstOf(q, n)) <= n
           /\ \A k \in 1 .. Len(q) : k <= n => /\ k \in DOMAIN Ats!FirstOf(q, n)
                                               /\ Ats!FirstOf(q, n)[k] = q[k]
<1>1. Ats!Least(n, Len(q)) \in 0 .. Len(q) /\ Ats!Least(n, Len(q)) <= n
  BY DEF Ats!Least
<1>2. \A k \in 1 .. Len(q) : k <= n => k <= Ats!Least(n, Len(q))
  BY DEF Ats!Least
<1> DEFINE m == Ats!Least(n, Len(q))
<1> HIDE DEF m
<1>3. Ats!FirstOf(q, n) = SubSeq(q, 1, m) /\ m \in 0 .. Len(q) /\ m <= n
  BY <1>1 DEF Ats!FirstOf, m
<1>4. SubSeq(q, 1, m) \in Seq(V) /\ Len(SubSeq(q, 1, m)) = m
  BY <1>3
<1>5. \A k \in 1 .. m : SubSeq(q, 1, m)[k] = q[k]
  BY <1>3
<1>6. \A k \in 1 .. Len(q) : k <= n => k \in 1 .. m
  BY <1>2, <1>3 DEF m
<1> QED BY <1>3, <1>4, <1>5, <1>6

LEMMA Joined ==
    ASSUME NEW V, NEW q \in Seq(V), NEW W, NEW r \in Seq(W)
    PROVE  /\ q \o r \in Seq(V \cup W)
           /\ Len(q \o r) = Len(q) + Len(r)
           /\ \A k \in 1 .. Len(q) : (q \o r)[k] = q[k]
<1>1. q \in Seq(V \cup W) /\ r \in Seq(V \cup W)
  OBVIOUS
<1> QED BY <1>1

LEMMA MergeKeeps ==
    ASSUME NEW V, NEW mine \in Seq(V), Len(mine) <= 10, NEW W, NEW theirs \in Seq(W),
           NEW x \in Ats!ToSet(mine)
    PROVE  x \in Ats!ToSet(Ats!MergeSuggestions(mine, theirs))
<1> DEFINE all == mine \o theirs
           U == V \cup W
           N == {i \in DOMAIN all : \A j \in 1 .. i - 1 : all[j] # all[i]}
           P == {p \in 1 .. Len(mine) : mine[p] = x}
<1>1. /\ all \in Seq(U) /\ Len(all) = Len(mine) + Len(theirs)
      /\ \A k \in 1 .. Len(mine) : all[k] = mine[k]
      /\ Len(mine) \in Nat /\ Len(theirs) \in Nat
  BY Joined
<1> HIDE DEF all, U
<1>2. P \subseteq Nat /\ P # {}
  <2>1. PICK p \in DOMAIN mine : mine[p] = x
    BY DEF Ats!ToSet
  <2> QED BY <2>1
<1>3. PICK p \in P : \A y \in P : p <= y
  BY <1>2, LeastMember, Zenon
<1>4. p \in 1 .. Len(mine) /\ all[p] = x /\ p \in DOMAIN all /\ p <= 10
  BY <1>1, <1>3
<1>5. \A j \in 1 .. p - 1 : all[j] # x
  <2> SUFFICES ASSUME NEW j \in 1 .. p - 1, all[j] = x PROVE FALSE
    OBVIOUS
  <2>1. j \in 1 .. Len(mine) /\ j < p
    BY <1>4
  <2>2. j \in P
    BY <1>1, <2>1
  <2> QED BY <1>3, <2>1, <2>2
<1>6. p \in N /\ N \subseteq DOMAIN all /\ DOMAIN all = 1 .. Len(all)
  BY <1>1, <1>4, <1>5
<1> HIDE DEF P
<1> HIDE DEF N
<1>7. IsFiniteSet(N) /\ N \subseteq Nat
  <2>1. IsFiniteSet(1 .. Len(all))
    <3>1. 1 \in Int /\ Len(all) \in Int
      BY <1>1
    <3> QED BY <3>1, FS_Interval, Zenon
  <2>2. IsFiniteSet(N)
    BY <1>6, <2>1, FS_Subset, Zenon
  <2> QED BY <1>6, <2>2
<1>8. Rank(N, p) + 1 \in DOMAIN InOrder(N) /\ InOrder(N)[Rank(N, p) + 1] = p
  BY <1>6, <1>7, InOrderAt, Zenon
<1>9. Rank(N, p) \in Nat /\ Rank(N, p) <= p - 1
  <2> DEFINE R == {j \in N : j < p}
  <2>1. R \subseteq 1 .. p - 1
    BY <1>1, <1>4, <1>6
  <2>2. IsFiniteSet(1 .. p - 1) /\ Cardinality(1 .. p - 1) = p - 1
    <3>1. 1 \in Int /\ p - 1 \in Int /\ ~(1 > p - 1) => (p - 1) - 1 + 1 = p - 1
      BY <1>4
    <3>2. IsFiniteSet(1 .. p - 1)
          /\ Cardinality(1 .. p - 1) = IF 1 > p - 1 THEN 0 ELSE (p - 1) - 1 + 1
      <4>1. 1 \in Int /\ p - 1 \in Int
        BY <1>4
      <4> QED BY <4>1, FS_Interval, Zenon
    <3> QED BY <1>4, <3>2
  <2> HIDE DEF R
  <2>3. Cardinality(R) <= p - 1 /\ IsFiniteSet(R)
    BY <2>1, <2>2, FS_Subset
  <2>4. Cardinality(R) \in Nat
    BY <2>3, FS_CardinalityType
  <2> QED BY <2>3, <2>4 DEF R, Rank
<1> DEFINE k == Rank(N, p) + 1
           new == [m \in DOMAIN InOrder(N) |-> all[InOrder(N)[m]]]
<1>10. k \in Nat /\ k <= 10 /\ k \in DOMAIN new /\ new[k] = x
  BY <1>4, <1>8, <1>9
<1>11. Ats!MergeSuggestions(mine, theirs) = Ats!FirstOf(new, 10)
  BY OrderSeen DEF Ats!MergeSuggestions, Ats!ItemsAt, all, N
<1> HIDE DEF k
<1>12. PICK Z : new \in Seq(Z)
  <2>1. /\ Cardinality(N) \in Nat /\ DOMAIN InOrder(N) = 1 .. Cardinality(N)
    BY <1>7, InOrderDomain
  <2> DEFINE Z == {new[m] : m \in 1 .. Cardinality(N)}
  <2>2. new \in [1 .. Cardinality(N) -> Z]
    BY <2>1
  <2> HIDE DEF new, Z
  <2>3. new \in Seq(Z)
    BY <2>1, <2>2
  <2> QED BY <2>3
<1> HIDE DEF new
<1>13. k \in DOMAIN Ats!FirstOf(new, 10) /\ Ats!FirstOf(new, 10)[k] = x
  <2>1. /\ \A i \in 1 .. Len(new) : i <= 10 => /\ i \in DOMAIN Ats!FirstOf(new, 10)
                                               /\ Ats!FirstOf(new, 10)[i] = new[i]
    BY <1>12, FirstOnes
  <2>2. k \in 1 .. Len(new)
    BY <1>10, <1>12
  <2> QED BY <1>10, <2>1, <2>2
<1> QED BY <1>11, <1>13 DEF Ats!ToSet

LEMMA AboutSeq ==
    ASSUME NEW V, NEW q \in Seq(V), NEW kind
    PROVE  /\ \E W : Ats!About(kind, q) \in Seq(W)
           /\ Len(Ats!About(kind, q)) = Len(q)
           /\ \A k \in 1 .. Len(q) : Ats!About(kind, q)[k] = <<kind, q[k]>>
<1>1. Ats!About(kind, q) \in Seq({<<kind, v>> : v \in V})
  BY DEF Ats!About
<1>2. /\ Len(Ats!About(kind, q)) = Len(q)
      /\ \A k \in 1 .. Len(q) : Ats!About(kind, q)[k] = <<kind, q[k]>>
  BY DEF Ats!About
<1> QED BY <1>1, <1>2

\* The first five missing required keywords are suggested.
LEMMA RequiredGenerated ==
    ASSUME NEW d \in Seq(Ats!WordFacts), NEW found, NEW t
    PROVE  /\ \A i \in Ats!OfImportance(d, "required") \ found :
                \/ <<"add", i>> \in Ats!ToSet(Ats!GenerateSuggestions(d, found, t))
                \/ Rank(Ats!OfImportance(d, "required") \ found, i) >= 5
           /\ \E V : Ats!GenerateSuggestions(d, found, t) \in Seq(V)
           /\ Len(Ats!GenerateSuggestions(d, found, t)) <= 10
<1> DEFINE S == Ats!OfImportance(d, "required") \ found
           M == InOrder(S)
           F == Ats!FirstOf(M, 5)
           A == Ats!About("add", F)
           B == Ats!About("consider", Ats!FirstOf(Ats!Missing(d, found, "preferred"), 3))
           C == Ats!AboutText(d, found, t)
<1>1. /\ IsFiniteSet(DOMAIN d) /\ DOMAIN d \subseteq Nat
  <2>1. DOMAIN d = 1 .. Len(d) /\ 1 \in Int /\ Len(d) \in Int
    OBVIOUS
  <2>2. IsFiniteSet(1 .. Len(d))
    BY <2>1, FS_Interval, Zenon
  <2> QED BY <2>1, <2>2
<1>2. ASSUME NEW p
      PROVE  /\ IsFiniteSet(Ats!OfImportance(d, p) \ found) /\ Ats!OfImportance(d, p) \ found \subseteq Nat
             /\ \E V : Ats!Missing(d, found, p) \in Seq(V)
  <2>1. Ats!OfImportance(d, p) \ found \subseteq DOMAIN d
    BY DEF Ats!OfImportance, Ats!Keywords
  <2>2. IsFiniteSet(Ats!OfImportance(d, p) \ found)
    BY <1>1, <2>1, FS_Subset, Zenon
  <2>3. \E V : Ats!Missing(d, found, p) \in Seq(V)
    BY <2>2, InOrderDomain, OrderSeen, Zenon DEF Ats!Missing
  <2> QED BY <1>1, <2>1, <2>2, <2>3, Zenon
<1>3. IsFiniteSet(S) /\ S \subseteq Nat
  BY <1>2
<1>4. PICK VM : M \in Seq(VM)
  BY <1>3, InOrderDomain, Zenon
<1>5. /\ F \in Seq(VM)
      /\ \A k \in 1 .. Len(M) : k <= 5 => k \in DOMAIN F /\ F[k] = M[k]
  BY <1>4, FirstOnes
<1> HIDE DEF M, F
<1>6. /\ \E V : A \in Seq(V)
      /\ Len(A) = Len(F)
      /\ \A k \in 1 .. Len(F) : A[k] = <<"add", F[k]>>
  BY <1>5, AboutSeq
<1> PICK VA : A \in Seq(VA)
  BY <1>6
<1>7. PICK VB : B \in Seq(VB)
  <2>1. PICK V : Ats!Missing(d, found, "preferred") \in Seq(V)
    BY <1>2
  <2>2. Ats!FirstOf(Ats!Missing(d, found, "preferred"), 3) \in Seq(V)
    BY <2>1, FirstOnes
  <2> QED BY <2>2, AboutSeq
<1>8. PICK VC : C \in Seq(VC)
  <2> DEFINE scores == Ats!ScoreSections(d, found, t)
             L == {k \in DOMAIN scores : scores[k] < 50}
             f == IF Ats!ScoreFormatting(t) < 60 THEN <<<<"formatting", 0>>>> ELSE <<>>
             g == IF Ats!ScoreImpactLanguage(t) < 40 THEN <<<<"impact", 0>>>> ELSE <<>>
  <2>1. DOMAIN scores = 1 .. 5
    BY DEF Ats!ScoreSections
  <2>2. IsFiniteSet(L)
    <3>1. L \subseteq 1 .. 5
      BY <2>1
    <3>2. IsFiniteSet(1 .. 5)
      <4>1. 1 \in Int /\ 5 \in Int
        OBVIOUS
      <4> QED BY <4>1, FS_Interval, Zenon
    <3> QED BY <3>1, <3>2, FS_Subset, Zenon
  <2> HIDE DEF L
  <2>3. PICK V : InOrder(L) \in Seq(V)
    BY <2>2, InOrderDomain, Zenon
  <2>4. PICK X : Ats!About("section", InOrder(L)) \in Seq(X)
    BY <2>3, AboutSeq
  <2>5. f \in Seq({<<"formatting", 0>>}) /\ g \in Seq({<<"impact", 0>>})
    <3>1. ASSUME NEW x PROVE <<x>> \in Seq({x}) /\ <<>> \in Seq({x})
      OBVIOUS
    <3>2. /\ <<<<"formatting", 0>>>> \in Seq({<<"formatting", 0>>})
          /\ <<<<"impact", 0>>>> \in Seq({<<"impact", 0>>})
          /\ <<>> \in Seq({<<"formatting", 0>>}) /\ <<>> \in Seq({<<"impact", 0>>})
      BY <3>1, Zenon
    <3> QED BY <3>2, Zenon
  <2> HIDE DEF f, g
  <2>6. PICK W : Ats!About("section", InOrder(L)) \o f \in Seq(W)
    BY <2>4, <2>5, Joined
  <2>7. (Ats!About("section", InOrder(L)) \o f) \o g \in Seq(W \cup {<<"impact", 0>>})
    BY <2>5, <2>6, Joined
  <2>8. C = (Ats!About("section", InOrder(L)) \o f) \o g
    BY OrderSeen DEF Ats!AboutText, L, f, g
  <2> QED BY <2>7, <2>8
<1> HIDE DEF A, B, C
<1>9. /\ A \o B \in Seq(VA \cup VB)
      /\ Len(A \o B) = Len(A) + Len(B)
      /\ \A k \in 1 .. Len(A) : (A \o B)[k] = A[k]
  BY <1>7, Joined
<1> DEFINE Z == VA \cup VB \cup VC
<1>10. /\ (A \o B) \o C \in Seq(Z)
       /\ Len((A \o B) \o C) = Len(A \o B) + Len(C)
       /\ \A k \in 1 .. Len(A \o B) : ((A \o B) \o C)[k] = (A \o B)[k]
  BY <1>8, <1>9, Joined
<1> HIDE DEF Z
<1>11. Ats!GenerateSuggestions(d, found, t) = Ats!FirstOf((A \o B) \o C, 10)
  BY OrderSeen DEF Ats!GenerateSuggestions, Ats!AboutKeywords, Ats!Missing, A, B, C, M, F, S
<1>12. /\ Ats!FirstOf((A \o B) \o C, 10) \in Seq(Z) /\ Len(Ats!FirstOf((A \o B) \o C, 10)) <= 10
       /\ \A k \in 1 .. Len((A \o B) \o C) :
             k <= 10 => /\ k \in DOMAIN Ats!FirstOf((A \o B) \o C, 10)
                        /\ Ats!FirstOf((A \o B) \o C, 10)[k] = ((A \o B) \o C)[k]
  BY <1>10, FirstOnes
<1>13. ASSUME NEW i \in S, ~(Rank(S, i) >= 5)
       PROVE  <<"add", i>> \in Ats!ToSet(Ats!FirstOf((A \o B) \o C, 10))
  <2> DEFINE k == Rank(S, i) + 1
  <2>1. k \in DOMAIN M /\ M[k] = i
    BY <1>3, InOrderAt, Zenon DEF M
  <2>2. Rank(S, i) \in Nat
    BY <1>3, RankBounds, Zenon
  <2>3. k \in Nat /\ k <= 5 /\ 1 <= k
    BY <1>13, <2>2
  <2> HIDE DEF k
  <2>4. k \in 1 .. Len(M)
    BY <1>4, <2>1
  <2>5. k \in DOMAIN F /\ F[k] = i
    BY <1>5, <2>1, <2>3, <2>4
  <2>6. k \in 1 .. Len(F)
    BY <1>5, <2>5
  <2>7. k \in 1 .. Len(A) /\ A[k] = <<"add", i>>
    BY <1>6, <2>5, <2>6
  <2>8. Len(A) \in Nat /\ Len(B) \in Nat /\ Len(C) \in Nat
    BY <1>7, <1>8
  <2>9. k \in 1 .. Len(A \o B) /\ (A \o B)[k] = <<"add", i>>
    BY <1>9, <2>7, <2>8
  <2>10. k \in 1 .. Len((A \o B) \o C) /\ ((A \o B) \o C)[k] = <<"add", i>>
    BY <1>9, <1>10, <2>8, <2>9
  <2>11. /\ k \in DOMAIN Ats!FirstOf((A \o B) \o C, 10)
         /\ Ats!FirstOf((A \o B) \o C, 10)[k] = <<"add", i>>
    BY <1>12, <2>3, <2>10
  <2> QED BY <2>11 DEF Ats!ToSet
<1> QED BY <1>11, <1>12, <1>13

\* Once analyze has computed them, the suggestions are those of the rules.
RequiredInv ==
    /\ jd \in Descriptions
    /\ atsPc = "ask" => suggestions = Ats!GenerateSuggestions(jd, mentioned, measured)
    /\ Ats!RequiredSuggested

LEMMA RequiredSafe == Ats!AtsAssumption => (Ats!Spec => []RequiredInv)
<1> SUFFICES ASSUME Ats!AtsAssumption PROVE Ats!Spec => []RequiredInv
  OBVIOUS
<1>1. Ats!Init => RequiredInv
  BY DEF Ats!Init, RequiredInv, Ats!RequiredSuggested
<1>2. ASSUME RequiredInv, [Ats!Next]_(Ats!vars) PROVE RequiredInv'
  <2>1. jd \in Seq(Ats!WordFacts)
    BY <1>2 DEF RequiredInv, Ats!AtsAssumption
  <2>2. CASE Ats!Analyze
    <3>1. jd' \in Descriptions /\ (atsPc' = "ask" =>
              suggestions' = Ats!GenerateSuggestions(jd', mentioned', measured'))
      BY <1>2, <2>2 DEF RequiredInv, Ats!Analyze
    <3>2. ASSUME NEW i \in Ats!OfImportance(jd, "required") \ mentioned
          PROVE  \/ <<"add", i>> \in Ats!ToSet(suggestions')
                 \/ Rank(Ats!OfImportance(jd, "required") \ mentioned, i) >= 5
      BY <2>1, <2>2, RequiredGenerated DEF Ats!Analyze
    <3>3. Ats!RequiredSuggested'
      <4>1. jd' = jd /\ mentioned' = mentioned
        BY <2>2 DEF Ats!Analyze
      <4> QED BY <3>2, <4>1, ServiceFiniteSets DEF Ats!RequiredSuggested, Rank
    <3> QED BY <3>1, <3>3 DEF RequiredInv
  <2>3. ASSUME NEW given \in Answers, Ats!AddSuggestions(given) PROVE RequiredInv'
    <3>1. jd' \in Descriptions /\ (atsPc' = "ask" =>
              suggestions' = Ats!GenerateSuggestions(jd', mentioned', measured'))
      BY <1>2, <2>3 DEF RequiredInv, Ats!AddSuggestions
    <3>2. atsPc = "ask" /\ suggestions = Ats!GenerateSuggestions(jd, mentioned, measured)
      BY <1>2, <2>3 DEF RequiredInv, Ats!AddSuggestions
    <3>3. ASSUME NEW x \in Ats!ToSet(suggestions) PROVE x \in Ats!ToSet(suggestions')
      <4>1. given \in Seq(Ats!Suggestion)
        BY DEF Ats!AtsAssumption
      <4>2. suggestions' = Ats!MergeSuggestions(suggestions, given)
        BY <2>3 DEF Ats!AddSuggestions
      <4>3. PICK V : suggestions \in Seq(V)
        BY <2>1, <3>2, RequiredGenerated, Zenon
      <4>4. Len(suggestions) <= 10
        BY <2>1, <3>2, RequiredGenerated, Zenon
      <4> QED BY <3>3, <4>1, <4>2, <4>3, <4>4, MergeKeeps, Zenon
    <3>4. Ats!RequiredSuggested'
      <4>1. jd' = jd /\ mentioned' = mentioned /\ atsPc = "ask"
        BY <2>3 DEF Ats!AddSuggestions
      <4> QED BY <1>2, <3>3, <4>1 DEF Ats!RequiredSuggested, RequiredInv
    <3> QED BY <3>1, <3>4 DEF RequiredInv
  <2>4. CASE Ats!KeepSuggestions
    BY <1>2, <2>4 DEF Ats!KeepSuggestions, RequiredInv, Ats!RequiredSuggested
  <2>5. CASE UNCHANGED Ats!vars
    BY <1>2, <2>5 DEF Ats!vars, RequiredInv, Ats!RequiredSuggested
  <2> QED BY <1>2, <2>2, <2>3, <2>4, <2>5 DEF Ats!Next
<1> QED BY <1>1, <1>2, PTL DEF Ats!Spec

-----------------------------------------------------------------------------
(* The long sentences of Grammar. *)

\* A part begins at i and ends before the next full stop, or with the text.
EndsAt(t, i, e) ==
    /\ e \in i .. Len(t)
    /\ \A k \in i .. e : t[k] # "."
    /\ e = Len(t) \/ t[e + 1] = "."

LEMMA EndIsThere ==
    ASSUME NEW t \in Seq(Grammar!Symbols), NEW i \in DOMAIN t, t[i] # "."
    PROVE  EndsAt(t, i, Grammar!EndOf(t, i))
<1> DEFINE T == {j \in i .. Len(t) : \A k \in i .. j : t[k] # "."}
<1>1. Len(t) \in Nat /\ i \in 1 .. Len(t)
  OBVIOUS
<1>2. T \subseteq Nat /\ i \in T /\ \A x \in T : x <= Len(t)
  BY <1>1
<1>3. \E x \in T : \A y \in T : x >= y
  <2> HIDE DEF T
  <2> QED BY <1>1, <1>2, GreatestMember
<1>4. Grammar!EndOf(t, i) \in T /\ \A y \in T : Grammar!EndOf(t, i) >= y
  <2>1. Grammar!EndOf(t, i) = CHOOSE x \in T : \A y \in T : x >= y
    BY DEF Grammar!EndOf, Grammar!Max
  <2> HIDE DEF T
  <2> QED BY <1>3, <2>1, Zenon
<1> DEFINE e == Grammar!EndOf(t, i)
<1> HIDE DEF e
<1>5. e \in i .. Len(t) /\ \A k \in i .. e : t[k] # "."
  BY <1>4 DEF e
<1>6. e = Len(t) \/ t[e + 1] = "."
  <2> SUFFICES ASSUME e # Len(t), t[e + 1] # "." PROVE FALSE
    OBVIOUS
  <2>1. e + 1 \in i .. Len(t) /\ \A k \in i .. e + 1 : k \in i .. e \/ k = e + 1
    BY <1>1, <1>5
  <2>2. e + 1 \in T
    BY <1>5, <2>1
  <2>3. e >= e + 1
    BY <1>4, <2>2 DEF e
  <2> QED BY <1>1, <1>5, <2>3
<1> QED BY <1>5, <1>6 DEF EndsAt, e

LEMMA EndIsUnique ==
    ASSUME NEW t \in Seq(Grammar!Symbols), NEW i \in DOMAIN t, NEW d, NEW e, EndsAt(t, i, d), EndsAt(t, i, e)
    PROVE  d = e
<1>1. Len(t) \in Nat /\ i \in 1 .. Len(t) /\ d \in i .. Len(t) /\ e \in i .. Len(t)
  BY DEF EndsAt
<1>2. ~(d < e)
  <2> SUFFICES ASSUME d < e PROVE FALSE
    OBVIOUS
  <2>1. d + 1 \in i .. e /\ d # Len(t)
    BY <1>1
  <2> QED BY <2>1 DEF EndsAt
<1>3. ~(e < d)
  <2> SUFFICES ASSUME e < d PROVE FALSE
    OBVIOUS
  <2>1. e + 1 \in i .. d /\ e # Len(t)
    BY <1>1
  <2> QED BY <2>1 DEF EndsAt
<1> QED BY <1>1, <1>2, <1>3

\* The places where a part that is not blank begins.
Full(t) == {i \in Grammar!Starts(t) : ~Grammar!Blank(Grammar!Part(t, i))}

LEMMA PartIs ==
    ASSUME NEW t \in Seq(Grammar!Symbols), NEW i \in Grammar!Starts(t)
    PROVE  /\ i \in 1 .. Len(t) /\ Len(t) \in Nat /\ EndsAt(t, i, Grammar!EndOf(t, i))
           /\ Grammar!Part(t, i) \in Seq(Grammar!Symbols) /\ Len(Grammar!Part(t, i)) = Grammar!EndOf(t, i) - i + 1
           /\ \A k \in 1 .. Len(Grammar!Part(t, i)) : Grammar!Part(t, i)[k] = t[i + k - 1]
<1>1. i \in 1 .. Len(t) /\ Len(t) \in Nat /\ i \in DOMAIN t /\ t[i] # "."
  BY DEF Grammar!Starts
<1>2. EndsAt(t, i, Grammar!EndOf(t, i))
  BY <1>1, EndIsThere
<1> DEFINE e == Grammar!EndOf(t, i)
<1> HIDE DEF e
<1>3. e \in i .. Len(t)
  BY <1>2 DEF e, EndsAt
<1>4. /\ SubSeq(t, i, e) \in Seq(Grammar!Symbols) /\ Len(SubSeq(t, i, e)) = e - i + 1
      /\ \A k \in 1 .. Len(SubSeq(t, i, e)) : SubSeq(t, i, e)[k] = t[i + k - 1]
  BY <1>1, <1>3
<1> QED BY <1>1, <1>2, <1>4 DEF Grammar!Part, e

LEMMA FullFinite ==
    ASSUME NEW t \in Seq(Grammar!Symbols), NEW S, S \subseteq Full(t)
    PROVE  IsFiniteSet(S) /\ S \subseteq Nat
<1>1. S \subseteq 1 .. Len(t) /\ Len(t) \in Nat
  BY DEF Full, Grammar!Starts
<1>2. \A x \in S : x <= Len(t)
  BY <1>1
<1>3. S \subseteq Nat
  BY <1>1
<1> QED BY <1>1, <1>2, <1>3, FS_BoundedSetOfNaturals

\* No part has begun before a and goes on after it.
Between(t, a) == a \in 0 .. Len(t) /\ (a = 0 \/ a = Len(t) \/ t[a + 1] = ".")

\* Wherever a text without full stops is found, it is within a part.
LEMMA WithinPart ==
    ASSUME NEW t \in Seq(Grammar!Symbols), NEW b \in 1 .. Len(t), NEW c \in b .. Len(t),
           \A k \in b .. c : t[k] # "."
    PROVE  \E i \in Grammar!Starts(t) : /\ i \in 1 .. b /\ c <= Grammar!EndOf(t, i)
                                /\ \A k \in i .. c : t[k] # "."
<1> DEFINE U == {i \in 1 .. b : \A k \in i .. b : t[k] # "."}
<1>1. Len(t) \in Nat /\ DOMAIN t = 1 .. Len(t)
  OBVIOUS
<1>b. b \in Nat /\ c \in Nat /\ b <= c /\ c <= Len(t)
  BY <1>1
<1>2. U \subseteq Nat /\ b \in U
  BY <1>1
<1>3. PICK i \in U : \A y \in U : i <= y
  <2> HIDE DEF U
  <2> QED BY <1>2, LeastMember, Zenon
<1>4. i \in 1 .. b /\ \A k \in i .. b : t[k] # "."
  BY <1>3
<1>5. i = 1 \/ t[i - 1] = "."
  <2> SUFFICES ASSUME i # 1, t[i - 1] # "." PROVE FALSE
    OBVIOUS
  <2>1. i - 1 \in 1 .. b /\ \A k \in i - 1 .. b : k = i - 1 \/ k \in i .. b
    BY <1>4
  <2>2. i - 1 \in U
    BY <1>4, <2>1
  <2>3. i <= i - 1
    BY <1>3, <2>2
  <2> QED BY <1>4, <2>3
<1> HIDE DEF U
<1>6. i \in Grammar!Starts(t)
  BY <1>1, <1>4, <1>5 DEF Grammar!Starts
<1>7. \A k \in i .. c : t[k] # "."
  <2>1. \A k \in i .. c : k \in i .. b \/ k \in b .. c
    BY <1>4
  <2> QED BY <1>4, <2>1
<1>8. c <= Grammar!EndOf(t, i)
  <2>1. EndsAt(t, i, Grammar!EndOf(t, i))
    BY <1>6, PartIs
  <2> DEFINE e == Grammar!EndOf(t, i)
  <2> HIDE DEF e
  <2>2. e \in i .. Len(t) /\ (e = Len(t) \/ t[e + 1] = ".")
    BY <2>1 DEF EndsAt, e
  <2>3. ~(e < c)
    <3> SUFFICES ASSUME e < c PROVE FALSE
      OBVIOUS
    <3>1. e + 1 \in i .. c /\ e # Len(t)
      <4>1. /\ b \in Int /\ c \in Int /\ e \in Int /\ i \in Int /\ Len(t) \in Int
            /\ c <= Len(t) /\ i <= e
        <5>1. e \in Int /\ i <= e /\ i \in Int
          BY <1>4, <1>b, <2>2
        <5> QED BY <1>1, <1>b, <5>1
      <4> QED BY <4>1
    <3> QED BY <1>7, <2>2, <3>1
  <2> QED BY <1>4, <2>2, <2>3 DEF e
<1> QED BY <1>4, <1>6, <1>7, <1>8

\* The search for the next part finds it where it is.
LEMMA FoundThere ==
    ASSUME NEW t \in Seq(Grammar!Symbols), NEW a, Between(t, a), NEW m \in Full(t), a < m,
           \A i \in Full(t) : a < i => m <= i
    PROVE  Grammar!IndexOf(t, Grammar!Part(t, m), a) = m - 1
<1> DEFINE q == Grammar!Part(t, m)
           l == Len(q)
           e == Grammar!EndOf(t, m)
           P == {i \in a .. Len(t) - l : SubSeq(t, i + 1, i + l) = q}
<1>1. m \in Grammar!Starts(t) /\ ~Grammar!Blank(q)
  BY DEF Full
<1>2. /\ m \in 1 .. Len(t) /\ Len(t) \in Nat /\ EndsAt(t, m, e)
      /\ q \in Seq(Grammar!Symbols) /\ l = e - m + 1
      /\ \A k \in 1 .. l : q[k] = t[m + k - 1]
  BY <1>1, PartIs
<1>3. /\ e \in m .. Len(t) /\ \A k \in m .. e : t[k] # "."
  BY <1>2 DEF EndsAt
<1>4. q = SubSeq(t, m, e) /\ a \in 0 .. Len(t)
  BY DEF Grammar!Part, Between
<1> HIDE DEF q, e, l
<1>5. m - 1 \in P
  <2>1. (m - 1) + 1 = m /\ (m - 1) + l = e /\ m - 1 \in a .. Len(t) - l
    BY <1>2, <1>3, <1>4
  <2> QED BY <1>4, <2>1
<1>6. ASSUME NEW p \in P PROVE m - 1 <= p
  <2> SUFFICES ASSUME p < m - 1 PROVE FALSE
    BY <1>2, <1>3, <1>4
  <2>1. /\ p \in a .. Len(t) - l /\ l >= 1 /\ l \in Nat /\ p + 1 \in 1 .. Len(t)
        /\ p + l \in p + 1 .. Len(t)
    BY <1>2, <1>3, <1>4
  <2>2. ASSUME NEW k \in 1 .. l PROVE t[p + k] = q[k] /\ q[k] # "."
    <3>1. q[k] = SubSeq(t, p + 1, p + l)[k]
      OBVIOUS
    <3>2. SubSeq(t, p + 1, p + l)[k] = t[(p + 1) + k - 1] /\ (p + 1) + k - 1 = p + k
      BY <1>2, <2>1
    <3>3. q[k] = t[m + k - 1] /\ m + k - 1 \in m .. e
      BY <1>2, <1>3
    <3> QED BY <1>3, <3>1, <3>2, <3>3
  <2>3. \A k \in p + 1 .. p + l : t[k] # "."
    <3> SUFFICES ASSUME NEW k \in p + 1 .. p + l PROVE t[k] # "."
      OBVIOUS
    <3>1. k - p \in 1 .. l /\ p + (k - p) = k
      BY <2>1
    <3>2. t[p + (k - p)] # "."
      BY <2>2, <3>1
    <3> QED BY <3>1, <3>2
  <2> HIDE DEF P
  <2>4. PICK i \in Grammar!Starts(t) : /\ i \in 1 .. p + 1 /\ p + l <= Grammar!EndOf(t, i)
                               /\ \A k \in i .. p + l : t[k] # "."
    BY <2>1, <2>3, WithinPart
  <2>5. a < i
    <3> SUFFICES ASSUME ~(a < i) PROVE FALSE
      OBVIOUS
    <3>1. a # 0 /\ a # Len(t) /\ a + 1 \in i .. p + l
      <4>1. a \in Int /\ p \in Int /\ l \in Int /\ i \in Int /\ Len(t) \in Int
        BY <1>2, <1>4, <2>1, <2>4
      <4>2. 0 <= a /\ a <= p /\ p + 1 <= Len(t) /\ l >= 1 /\ 1 <= i /\ i <= a
        BY <1>2, <1>4, <2>1, <2>4, <4>1
      <4> QED BY <4>1, <4>2
    <3> QED BY <2>4, <3>1 DEF Between
  <2>6. ~Grammar!Blank(Grammar!Part(t, i))
    <3>1. PICK o \in 1 .. l : q[o] # " "
      <4>1. PICK o \in DOMAIN q : q[o] # " "
        BY <1>1 DEF Grammar!Blank
      <4>2. DOMAIN q = 1 .. l
        BY <1>2 DEF l
      <4> QED BY <4>1, <4>2
    <3> DEFINE k == p + o - i + 1
               r == Grammar!Part(t, i)
    <3>2. /\ r \in Seq(Grammar!Symbols) /\ Len(r) = Grammar!EndOf(t, i) - i + 1
          /\ \A n \in 1 .. Len(r) : r[n] = t[i + n - 1]
      BY PartIs
    <3> HIDE DEF r
    <3>3. Grammar!EndOf(t, i) \in i .. Len(t)
      BY PartIs DEF EndsAt
    <3>4. k \in 1 .. Len(r) /\ i + k - 1 = p + o
      BY <2>1, <2>4, <3>2, <3>3
    <3>5. r[k] = t[p + o] /\ t[p + o] # " "
      BY <2>2, <3>1, <3>2, <3>4
    <3> HIDE DEF k
    <3>6. k \in DOMAIN r
      BY <3>2, <3>4
    <3> QED BY <3>5, <3>6 DEF Grammar!Blank, r
  <2>7. m <= i
    BY <2>4, <2>5, <2>6 DEF Full
  <2> QED BY <1>2, <2>1, <2>4, <2>7
<1>7. Grammar!IndexOf(t, q, a) = CHOOSE x \in P : \A y \in P : x <= y
  BY DEF Grammar!IndexOf, Grammar!Min, l
<1>8. \A x \in P : (\A y \in P : x <= y) => x = m - 1
  <2> SUFFICES ASSUME NEW x \in P, \A y \in P : x <= y PROVE x = m - 1
    OBVIOUS
  <2>1. x <= m - 1 /\ m - 1 <= x /\ x \in Int
    <3>1. x \in Int
      BY <1>4
    <3>2. x <= m - 1 /\ m - 1 <= x
      BY <1>5, <1>6
    <3> QED BY <3>1, <3>2
  <2> QED BY <1>2, <2>1
<1> HIDE DEF P
<1> QED BY <1>5, <1>6, <1>7, <1>8 DEF q

LEMMA WordCountType ==
    ASSUME NEW q \in Seq(Grammar!Symbols)
    PROVE  Grammar!WordCount(q) \in Nat
<1> DEFINE Words == {i \in DOMAIN q : q[i] # " " /\ (i = 1 \/ q[i - 1] = " ")}
<1>1. Len(q) \in Nat /\ DOMAIN q = 1 .. Len(q)
  OBVIOUS
<1>2. Words \subseteq 1 .. Len(q)
  BY <1>1
<1> HIDE DEF Words
<1>3. IsFiniteSet(1 .. Len(q))
  <2>1. 1 \in Int /\ Len(q) \in Int
    BY <1>1
  <2> QED BY <2>1, FS_Interval, Zenon
<1>4. IsFiniteSet(Words)
  BY <1>2, <1>3, FS_Subset, Zenon
<1> QED BY <1>4, FS_CardinalityType, ServiceFiniteSets DEF Grammar!WordCount, Words

LEMMA LongIsNotBlank ==
    ASSUME Grammar!GrammarAssumption, NEW q \in Seq(Grammar!Symbols), Grammar!WordCount(q) > MaxWords
    PROVE  ~Grammar!Blank(q) /\ Len(q) >= 2
<1> DEFINE Words == {i \in DOMAIN q : q[i] # " " /\ (i = 1 \/ q[i - 1] = " ")}
<1>1. Len(q) \in Nat /\ DOMAIN q = 1 .. Len(q) /\ MaxWords \in Nat /\ MaxWords >= 1
  BY DEF Grammar!GrammarAssumption
<1>2. Words \subseteq 1 .. Len(q) /\ Cardinality(Words) > MaxWords
  BY <1>1, ServiceFiniteSets DEF Grammar!WordCount
<1>3. Grammar!Blank(q) => Words = {}
  BY DEF Grammar!Blank
<1> HIDE DEF Words
<1>4. ASSUME Words \subseteq {1} PROVE FALSE
  <2>1. IsFiniteSet({1}) /\ Cardinality({1}) = 1
    BY FS_Singleton, Zenon
  <2>2. IsFiniteSet(Words) /\ Cardinality(Words) <= Cardinality({1})
    BY <1>4, <2>1, FS_Subset, Zenon
  <2>3. Cardinality(Words) \in Nat
    BY <2>2, FS_CardinalityType, Zenon
  <2> QED BY <1>1, <1>2, <2>1, <2>2, <2>3
<1>5. Len(q) < 2 => Words \subseteq {1}
  BY <1>1, <1>2
<1> QED BY <1>1, <1>3, <1>4, <1>5

PartsAt(t, S) ==
    LET q == InOrder(S) IN [n \in DOMAIN q |-> Grammar!Part(t, q[n])]

\* The parts after a, and the issues of those before it.
After(t, a) == {i \in Full(t) : a < i}

Long(t) == {i \in Full(t) : Grammar!WordCount(Grammar!Part(t, i)) > MaxWords}

Longs(t, a) == {Grammar!Issue("warning", i - 1, Grammar!EndOf(t, i)) : i \in {j \in Long(t) : ~(a < j)}}

\* What the loop has found are the long parts up to currentIndex, and what
\* rest has are the parts after it.
GrammarInv ==
    /\ checked \in Seq(Grammar!Symbols)
    /\ grammarPc \in {"match", "sentences", "done"}
    /\ grammarPc = "match" => position = 0
    /\ grammarPc # "match" => /\ Between(checked, position)
                       /\ rest = PartsAt(checked, After(checked, position))
                       /\ issues = Grammar!Matches(checked) \cup Longs(checked, position)
    /\ grammarPc = "done" => rest = <<>>

LEMMA PartsAtAre ==
    ASSUME NEW t \in Seq(Grammar!Symbols), NEW S, S \subseteq Full(t)
    PROVE  /\ Cardinality(S) \in Nat /\ PartsAt(t, S) \in Seq({Grammar!Part(t, InOrder(S)[n]) : n \in DOMAIN InOrder(S)})
           /\ Len(PartsAt(t, S)) = Cardinality(S)
           /\ \A n \in 1 .. Cardinality(S) : PartsAt(t, S)[n] = Grammar!Part(t, InOrder(S)[n])
           /\ PartsAt(t, S) = <<>> <=> S = {}
<1>1. IsFiniteSet(S) /\ S \subseteq Nat
  BY FullFinite
<1>2. Cardinality(S) \in Nat /\ DOMAIN InOrder(S) = 1 .. Cardinality(S)
  BY <1>1, InOrderDomain
<1> DEFINE V == {Grammar!Part(t, InOrder(S)[n]) : n \in DOMAIN InOrder(S)}
<1>3. PartsAt(t, S) \in [1 .. Cardinality(S) -> V]
  BY <1>2 DEF PartsAt
<1>4. \A n \in 1 .. Cardinality(S) : PartsAt(t, S)[n] = Grammar!Part(t, InOrder(S)[n])
  BY <1>2 DEF PartsAt
<1> HIDE DEF V
<1>5. PartsAt(t, S) \in Seq(V) /\ Len(PartsAt(t, S)) = Cardinality(S)
  BY <1>2, <1>3
<1>6. Cardinality(S) = 0 <=> S = {}
  BY <1>1, FS_EmptySet
<1>7. PartsAt(t, S) = <<>> <=> Cardinality(S) = 0
  BY <1>2, <1>5
<1> QED BY <1>2, <1>4, <1>5, <1>6, <1>7 DEF V

LEMMA NextPart ==
    ASSUME NEW t \in Seq(Grammar!Symbols), NEW a, Between(t, a), PartsAt(t, After(t, a)) # <<>>
    PROVE  \E m \in Full(t) :
              /\ a < m /\ \A i \in Full(t) : a < i => m <= i
              /\ Head(PartsAt(t, After(t, a))) = Grammar!Part(t, m)
              /\ Between(t, Grammar!EndOf(t, m)) /\ a <= Grammar!EndOf(t, m)
              /\ Grammar!EndOf(t, m) = (m - 1) + Len(Grammar!Part(t, m))
              /\ After(t, Grammar!EndOf(t, m)) = After(t, a) \ {m}
              /\ Tail(PartsAt(t, After(t, a))) = PartsAt(t, After(t, Grammar!EndOf(t, m)))
<1> DEFINE S == After(t, a)
<1>1. S \subseteq Full(t) /\ S # {} /\ IsFiniteSet(S) /\ S \subseteq Nat
  <2>1. S \subseteq Full(t)
    BY DEF After
  <2> QED BY <2>1, FullFinite, PartsAtAre
<1>2. PICK m \in S : \A y \in S : m <= y
  BY <1>1, LeastMember, Zenon
<1>3. m \in Full(t) /\ a < m /\ \A i \in Full(t) : a < i => m <= i
  BY <1>2 DEF After
<1> DEFINE e == Grammar!EndOf(t, m)
<1>4. /\ m \in 1 .. Len(t) /\ Len(t) \in Nat /\ EndsAt(t, m, e)
      /\ Len(Grammar!Part(t, m)) = e - m + 1 /\ a \in 0 .. Len(t)
  BY <1>3, PartIs DEF Full, Between
<1> HIDE DEF e
<1>5. e \in m .. Len(t) /\ (\A k \in m .. e : t[k] # ".") /\ (e = Len(t) \/ t[e + 1] = ".")
  BY <1>4 DEF EndsAt
<1>6. Between(t, e) /\ a <= e /\ e = (m - 1) + Len(Grammar!Part(t, m))
  BY <1>3, <1>4, <1>5 DEF Between
<1>7. After(t, e) = S \ {m}
  <2>1. ASSUME NEW i \in Full(t), a < i, i # m PROVE e < i
    <3>1. i \in 1 .. Len(t) /\ (i = 1 \/ t[i - 1] = ".") /\ m < i
      <4>1. i \in 1 .. Len(t) /\ (i = 1 \/ t[i - 1] = ".")
        BY DEF Full, Grammar!Starts
      <4>2. m <= i
        BY <1>3, <2>1
      <4> QED BY <1>4, <2>1, <4>1, <4>2
    <3> SUFFICES ASSUME ~(e < i) PROVE FALSE
      OBVIOUS
    <3>2. i - 1 \in m .. e /\ i # 1
      BY <1>4, <1>5, <3>1
    <3> QED BY <1>5, <3>1, <3>2
  <2>2. ASSUME NEW i \in Full(t), e < i PROVE a < i /\ i # m
    <3>1. i \in Nat
      BY DEF Full, Grammar!Starts
    <3> QED BY <1>4, <1>5, <1>6, <2>2, <3>1
  <2> QED BY <2>1, <2>2 DEF After
<1> HIDE DEF S
<1> DEFINE c == Cardinality(S)
<1>8. /\ c \in Nat /\ c >= 1 /\ InOrder(S)[1] = m /\ Cardinality(S \ {m}) = c - 1
      /\ \A k \in 1 .. c - 1 : InOrder(S \ {m})[k] = InOrder(S)[k + 1]
  BY <1>1, <1>2, RestInOrder
<1>9. PICK V : PartsAt(t, S) \in Seq(V)
  BY <1>1, PartsAtAre
<1>10. /\ Len(PartsAt(t, S)) = c
       /\ \A n \in 1 .. c : PartsAt(t, S)[n] = Grammar!Part(t, InOrder(S)[n])
  BY <1>1, PartsAtAre
<1>11. PICK W : PartsAt(t, S \ {m}) \in Seq(W)
  BY <1>1, PartsAtAre
<1>12. /\ Len(PartsAt(t, S \ {m})) = c - 1
       /\ \A n \in 1 .. c - 1 : PartsAt(t, S \ {m})[n] = Grammar!Part(t, InOrder(S \ {m})[n])
  <2> DEFINE R == S \ {m}
  <2>1. R \subseteq Full(t) /\ Cardinality(R) = c - 1
    BY <1>1, <1>8
  <2> HIDE DEF R
  <2>2. /\ Len(PartsAt(t, R)) = Cardinality(R)
        /\ \A n \in 1 .. Cardinality(R) : PartsAt(t, R)[n] = Grammar!Part(t, InOrder(R)[n])
    BY <2>1, PartsAtAre
  <2> QED BY <2>1, <2>2 DEF R
<1> HIDE DEF c
<1> DEFINE p == PartsAt(t, S)
           r == PartsAt(t, S \ {m})
<1>13. \A n \in 1 .. c - 1 : r[n] = p[n + 1]
  <2>1. \A n \in 1 .. c - 1 : n + 1 \in 1 .. c
    BY <1>8
  <2> QED BY <1>8, <1>10, <1>12, <2>1
<1> HIDE DEF p, r
<1>14. Head(p) = p[1] /\ p[1] = Grammar!Part(t, m)
  BY <1>8, <1>9, <1>10 DEF p
<1>15. Tail(p) = r
  <2>1. p \in Seq(V) /\ Len(p) = c /\ r \in Seq(W) /\ Len(r) = c - 1
    BY <1>9, <1>10, <1>11, <1>12 DEF p, r
  <2>2. Tail(p) = [n \in 1 .. c - 1 |-> p[n + 1]]
    <3>1. Len(p) >= 1
      BY <1>8, <2>1
    <3>2. Tail(p) = [n \in 1 .. Len(p) - 1 |-> p[n + 1]]
      BY <2>1, <3>1, TailIs, Zenon
    <3> QED BY <2>1, <3>2
  <2>3. r = [n \in 1 .. c - 1 |-> r[n]]
    BY <1>8, <2>1
  <2> QED BY <1>13, <2>2, <2>3
<1> QED BY <1>3, <1>6, <1>7, <1>14, <1>15 DEF p, r, e, S

LEMMA GrammarSafe == Grammar!GrammarAssumption => (Grammar!Spec => []GrammarInv)
<1> SUFFICES ASSUME Grammar!GrammarAssumption PROVE Grammar!Spec => []GrammarInv
  OBVIOUS
<1>1. Grammar!Init => GrammarInv
  <2> SUFFICES ASSUME Grammar!Init PROVE GrammarInv
    OBVIOUS
  <2>1. PICK n \in 0 .. MaxLength : checked \in [1 .. n -> Grammar!Symbols]
    BY DEF Grammar!Init
  <2>2. checked \in Seq(Grammar!Symbols)
    BY <2>1 DEF Grammar!GrammarAssumption
  <2> QED BY <2>2 DEF Grammar!Init, GrammarInv
<1>2. ASSUME GrammarInv, [Grammar!Next]_(Grammar!vars) PROVE GrammarInv'
  <2>1. CASE Grammar!FindMatches
    <3>1. checked \in Seq(Grammar!Symbols) /\ position = 0
      BY <1>2, <2>1 DEF GrammarInv, Grammar!FindMatches
    <3>2. After(checked, 0) = Full(checked) /\ Longs(checked, 0) = {}
      <4>1. \A i \in Full(checked) : 0 < i
        BY <3>1 DEF Full, Grammar!Starts
      <4> QED BY <4>1 DEF After, Longs, Long
    <3>3. Grammar!Sentences(checked) = PartsAt(checked, Full(checked))
      BY OrderSeen DEF Grammar!Sentences, PartsAt, Full
    <3>4. Between(checked, 0)
      BY <3>1 DEF Between
    <3> QED BY <2>1, <3>1, <3>2, <3>3, <3>4 DEF GrammarInv, Grammar!FindMatches
  <2>2. CASE Grammar!NextSentence
    <3>1. /\ grammarPc = "sentences" /\ grammarPc' = grammarPc /\ checked' = checked /\ checked \in Seq(Grammar!Symbols)
          /\ Between(checked, position) /\ rest = PartsAt(checked, After(checked, position)) /\ rest # <<>>
          /\ issues = Grammar!Matches(checked) \cup Longs(checked, position) /\ rest' = Tail(rest)
      BY <1>2, <2>2 DEF GrammarInv, Grammar!NextSentence
    <3>2. PICK m \in Full(checked) :
              /\ position < m /\ \A i \in Full(checked) : position < i => m <= i
              /\ Head(rest) = Grammar!Part(checked, m)
              /\ Between(checked, Grammar!EndOf(checked, m)) /\ position <= Grammar!EndOf(checked, m)
              /\ Grammar!EndOf(checked, m) = (m - 1) + Len(Grammar!Part(checked, m))
              /\ After(checked, Grammar!EndOf(checked, m)) = After(checked, position) \ {m}
              /\ Tail(rest) = PartsAt(checked, After(checked, Grammar!EndOf(checked, m)))
      BY <3>1, NextPart
    <3>3. Grammar!IndexOf(checked, Head(rest), position) = m - 1
      BY <3>1, <3>2, FoundThere
    <3>4. position' = Grammar!EndOf(checked, m) /\ issues' = issues \cup Grammar!LongIssue(m - 1)
      BY <2>2, <3>2, <3>3 DEF Grammar!NextSentence, Grammar!SearchFrom
    <3>5. Longs(checked, Grammar!EndOf(checked, m)) = Longs(checked, position) \cup Grammar!LongIssue(m - 1)
      <4>1. \A i \in Full(checked) : ~(Grammar!EndOf(checked, m) < i) <=> ~(position < i) \/ i = m
        BY <3>2 DEF After
      <4>2. Grammar!LongIssue(m - 1) = {Grammar!Issue("warning", i - 1, Grammar!EndOf(checked, i)) :
                                    i \in {j \in Long(checked) : j = m}}
        <5>1. Grammar!LongIssue(m - 1) = IF Grammar!WordCount(Grammar!Part(checked, m)) <= MaxWords THEN {}
                                 ELSE {Grammar!Issue("warning", m - 1, Grammar!EndOf(checked, m))}
          BY <3>2 DEF Grammar!LongIssue
        <5>2. Grammar!WordCount(Grammar!Part(checked, m)) <= MaxWords <=> ~(Grammar!WordCount(Grammar!Part(checked, m)) > MaxWords)
          <6>1. Grammar!WordCount(Grammar!Part(checked, m)) \in Nat
            <7>1. Grammar!Part(checked, m) \in Seq(Grammar!Symbols)
              BY <3>1, PartIs DEF Full
            <7> QED BY <7>1, WordCountType
          <6> QED BY <6>1 DEF Grammar!GrammarAssumption
        <5> QED BY <5>1, <5>2 DEF Long
      <4> QED BY <4>1, <4>2 DEF Longs, Long
    <3> QED BY <3>1, <3>2, <3>4, <3>5 DEF GrammarInv
  <2>3. CASE Grammar!Done
    BY <1>2, <2>3 DEF GrammarInv, Grammar!Done
  <2>4. CASE UNCHANGED Grammar!vars
    BY <1>2, <2>4 DEF GrammarInv, Grammar!vars
  <2> QED BY <1>2, <2>1, <2>2, <2>3, <2>4 DEF Grammar!Next
<1> QED BY <1>1, <1>2, PTL DEF Grammar!Spec

\* A long part is a long stretch, and the other way around.
LEMMA StretchesAre ==
    ASSUME Grammar!GrammarAssumption, NEW t \in Seq(Grammar!Symbols), t = checked
    PROVE  Grammar!LongStretches = {<<i - 1, Grammar!EndOf(t, i)>> : i \in Long(t)}
<1>1. ASSUME NEW i \in Long(t)
      PROVE  <<i - 1, Grammar!EndOf(t, i)>> \in Grammar!LongStretches
  <2>1. i \in Grammar!Starts(t) /\ Grammar!WordCount(Grammar!Part(t, i)) > MaxWords
    BY DEF Long, Full
  <2>2. i \in 1 .. Len(t) /\ Len(t) \in Nat /\ EndsAt(t, i, Grammar!EndOf(t, i))
    BY <2>1, PartIs
  <2> DEFINE e == Grammar!EndOf(t, i)
             a == i - 1
  <2>3. Grammar!Part(t, i) = SubSeq(t, a + 1, e)
    <3>1. a + 1 = i
      BY <2>2
    <3> QED BY <3>1 DEF Grammar!Part
  <2> HIDE DEF e
  <2>4. /\ e \in i .. Len(t) /\ (\A k \in i .. e : t[k] # ".") /\ (e = Len(t) \/ t[e + 1] = ".")
    BY <2>2 DEF EndsAt, e
  <2>5. (i = 1 \/ t[i - 1] = ".")
    BY <2>1 DEF Grammar!Starts
  <2>6. a \in 0 .. Len(t) /\ e \in 0 .. Len(t) /\ a < e /\ a + 1 = i /\ (a = 0 <=> i = 1)
    BY <2>2, <2>4
  <2> HIDE DEF a
  <2>7. Grammar!LongStretch(a, e)
    BY <2>1, <2>3, <2>4, <2>5, <2>6 DEF Grammar!LongStretch, a
  <2>8. <<a, e>> \in Grammar!LongStretches
    BY <2>6, <2>7 DEF Grammar!LongStretches
  <2> QED BY <2>8 DEF a, e
<1>2. ASSUME NEW p \in Grammar!LongStretches
      PROVE  \E i \in Long(t) : p = <<i - 1, Grammar!EndOf(t, i)>>
  <2>1. PICK a \in 0 .. Len(t), b \in 0 .. Len(t) : p = <<a, b>> /\ a < b /\ Grammar!LongStretch(a, b)
    BY DEF Grammar!LongStretches
  <2> DEFINE i == a + 1
  <2>2. /\ Len(t) \in Nat /\ DOMAIN t = 1 .. Len(t) /\ i \in 1 .. Len(t) /\ b \in i .. Len(t)
        /\ i - 1 = a
    BY <2>1
  <2>3. /\ \A k \in i .. b : t[k] # "."
        /\ a = 0 \/ t[a] = "."
        /\ b = Len(t) \/ t[b + 1] = "."
        /\ Grammar!WordCount(SubSeq(t, i, b)) > MaxWords
    BY <2>1 DEF Grammar!LongStretch
  <2>4. EndsAt(t, i, b) /\ i \in Grammar!Starts(t)
    <3>1. i \in i .. b /\ (a = 0 => i = 1)
      BY <2>2
    <3> QED BY <2>2, <2>3, <3>1 DEF EndsAt, Grammar!Starts
  <2>5. b = Grammar!EndOf(t, i)
    BY <2>2, <2>4, PartIs, EndIsUnique
  <2> HIDE DEF i
  <2>6. Grammar!Part(t, i) \in Seq(Grammar!Symbols) /\ Grammar!WordCount(Grammar!Part(t, i)) > MaxWords
    BY <2>3, <2>4, <2>5, PartIs DEF Grammar!Part
  <2>7. i \in Long(t)
    BY <2>4, <2>6, LongIsNotBlank DEF Long, Full
  <2> QED BY <2>1, <2>2, <2>5, <2>7
<1> QED BY <1>1, <1>2

\* An issue of a long part is not one of a phrase.
LEMMA LongIssues ==
    ASSUME Grammar!GrammarAssumption, NEW t \in Seq(Grammar!Symbols), NEW i \in Long(t)
    PROVE  /\ i \in 1 .. Len(t) /\ Grammar!EndOf(t, i) \in Nat
           /\ Grammar!Issue("warning", i - 1, Grammar!EndOf(t, i)) \notin Grammar!Matches(t)
<1>1. i \in Grammar!Starts(t) /\ Grammar!WordCount(Grammar!Part(t, i)) > MaxWords
  BY DEF Long, Full
<1>2. i \in 1 .. Len(t) /\ Len(Grammar!Part(t, i)) = Grammar!EndOf(t, i) - i + 1 /\ Grammar!EndOf(t, i) \in i .. Len(t)
  BY <1>1, PartIs DEF EndsAt
<1>3. Len(Grammar!Part(t, i)) >= 2
  BY <1>1, PartIs, LongIsNotBlank
<1> DEFINE e == Grammar!EndOf(t, i)
<1> HIDE DEF e
<1>4. i \in Nat /\ e \in Nat /\ e # (i - 1) + 1
  BY <1>2, <1>3 DEF e
<1>5. ASSUME NEW n \in DOMAIN t
      PROVE  Grammar!Issue("warning", i - 1, e) # Grammar!Issue("warning", n - 1, n)
             /\ Grammar!Issue("warning", i - 1, e) # Grammar!Issue("info", n - 1, n)
  BY <1>4 DEF Grammar!Issue
<1> QED BY <1>2, <1>4, <1>5 DEF Grammar!Matches, e

LEMMA GrammarMarked == Grammar!GrammarAssumption /\ GrammarInv => Grammar!LongSentencesMarked
<1> SUFFICES ASSUME Grammar!GrammarAssumption, GrammarInv, grammarPc = "done" PROVE Grammar!LongSentencesMarked
  BY DEF Grammar!LongSentencesMarked
<1> DEFINE t == checked
           Found == Longs(t, position)
           passive == {i \in DOMAIN t : t[i] = "passive"}
           wordy == {i \in DOMAIN t : t[i] = "wordy"}
           M == {Grammar!Issue("warning", i - 1, i) : i \in passive}
           I == {Grammar!Issue("info", i - 1, i) : i \in wordy}
<1>1. t \in Seq(Grammar!Symbols) /\ issues = Grammar!Matches(t) \cup Longs(t, position) /\ After(t, position) = {}
  <2>1. /\ t \in Seq(Grammar!Symbols) /\ issues = Grammar!Matches(t) \cup Longs(t, position)
        /\ PartsAt(t, After(t, position)) = <<>>
    BY DEF GrammarInv
  <2>2. After(t, position) \subseteq Full(t)
    BY DEF After
  <2> QED BY <2>1, <2>2, PartsAtAre
<1> HIDE DEF t
<1>2. Found = {Grammar!Issue("warning", i - 1, Grammar!EndOf(t, i)) : i \in Long(t)}
  BY <1>1 DEF Longs, Long, After
<1>3. Grammar!LongStretches = {<<i - 1, Grammar!EndOf(t, i)>> : i \in Long(t)}
  BY <1>1, StretchesAre DEF t
<1>4. issues \ Grammar!Matches(t) = Found
  BY <1>1, <1>2, LongIssues
<1>5. Grammar!LongStretches = {<<i.startIndex, i.endIndex>> : i \in issues \ Grammar!Matches(t)}
  <2> DEFINE F == issues \ Grammar!Matches(t)
  <2>1. F = {Grammar!Issue("warning", i - 1, Grammar!EndOf(t, i)) : i \in Long(t)}
    BY <1>2, <1>4
  <2>2. \A i \in Long(t) : /\ Grammar!Issue("warning", i - 1, Grammar!EndOf(t, i)).startIndex = i - 1
                          /\ Grammar!Issue("warning", i - 1, Grammar!EndOf(t, i)).endIndex = Grammar!EndOf(t, i)
    BY DEF Grammar!Issue
  <2> HIDE DEF F, Found, passive, wordy, M, I
  <2>3. {<<x.startIndex, x.endIndex>> : x \in F} = {<<i - 1, Grammar!EndOf(t, i)>> : i \in Long(t)}
    BY <2>1, <2>2
  <2> QED BY <1>3, <2>3 DEF F
<1>6. IsFiniteSet(Long(t)) /\ IsFiniteSet(passive) /\ IsFiniteSet(wordy) /\ IsFiniteSet(DOMAIN t)
  <2>1. DOMAIN t = 1 .. Len(t) /\ 1 \in Int /\ Len(t) \in Int
    BY <1>1
  <2>2. IsFiniteSet(1 .. Len(t))
    BY <2>1, FS_Interval, Zenon
  <2>3. passive \subseteq 1 .. Len(t) /\ wordy \subseteq 1 .. Len(t)
    BY <2>1
  <2>4. Long(t) \subseteq Full(t)
    BY DEF Long
  <2> QED BY <1>1, <2>1, <2>2, <2>3, <2>4, FullFinite, FS_Subset, Zenon
<1>7. ASSUME NEW i \in Long(t) PROVE i \in Nat /\ i \in DOMAIN t
  BY <1>1, LongIssues
<1>8. ASSUME NEW i \in DOMAIN t PROVE i \in Nat
  BY <1>1
<1>9. IsFiniteSet(Found) /\ Cardinality(Found) = Cardinality(Long(t))
  <2> DEFINE f == [i \in Long(t) |-> Grammar!Issue("warning", i - 1, Grammar!EndOf(t, i))]
  <2>1. f \in [Long(t) -> Found]
    BY <1>2
  <2>2. \A x, y \in Long(t) : f[x] = f[y] => x = y
    BY <1>7 DEF Grammar!Issue
  <2>3. {f[x] : x \in Long(t)} = Found
    BY <1>2
  <2> HIDE DEF f, Found
  <2> QED BY <1>6, <2>1, <2>2, <2>3, AsManyValues
<1>10. Cardinality(Grammar!LongStretches) = Cardinality(Long(t))
  <2> DEFINE f == [i \in Long(t) |-> <<i - 1, Grammar!EndOf(t, i)>>]
  <2>1. f \in [Long(t) -> Grammar!LongStretches]
    BY <1>3
  <2>2. \A x, y \in Long(t) : f[x] = f[y] => x = y
    BY <1>7
  <2>3. {f[x] : x \in Long(t)} = Grammar!LongStretches
    BY <1>3
  <2> HIDE DEF f
  <2> QED BY <1>6, <2>1, <2>2, <2>3, AsManyValues
<1>11. IsFiniteSet(M) /\ Cardinality(M) = Cardinality(passive)
  <2> DEFINE f == [i \in passive |-> Grammar!Issue("warning", i - 1, i)]
  <2>1. f \in [passive -> M]
    OBVIOUS
  <2>2. \A x, y \in passive : f[x] = f[y] => x = y
    BY <1>8 DEF Grammar!Issue
  <2>3. {f[x] : x \in passive} = M
    OBVIOUS
  <2> HIDE DEF f, M, passive
  <2> QED BY <1>6, <2>1, <2>2, <2>3, AsManyValues
<1>12. IsFiniteSet(I) /\ Cardinality(I) = Cardinality(wordy)
  <2> DEFINE f == [i \in wordy |-> Grammar!Issue("info", i - 1, i)]
  <2>1. f \in [wordy -> I]
    OBVIOUS
  <2>2. \A x, y \in wordy : f[x] = f[y] => x = y
    BY <1>8 DEF Grammar!Issue
  <2>3. {f[x] : x \in wordy} = I
    OBVIOUS
  <2> HIDE DEF f, I, wordy
  <2> QED BY <1>6, <2>1, <2>2, <2>3, AsManyValues
<1>13. Grammar!Matches(t) = M \cup I
  BY DEF Grammar!Matches
<1>14. /\ {i \in issues : i.severity = "warning"} = Found \cup M
       /\ {i \in issues : i.severity = "info"} = I
  <2>1. issues = (M \cup I) \cup Found
    BY <1>1, <1>13
  <2>2. /\ \A i \in M : i.severity = "warning"
        /\ \A i \in I : i.severity = "info"
        /\ \A i \in Found : i.severity = "warning"
    BY <1>2 DEF Grammar!Issue
  <2> HIDE DEF M, I, Found
  <2> QED BY <2>1, <2>2
<1>15. Found \cap M = {}
  <2>1. Found \cap Grammar!Matches(t) = {}
    BY <1>4
  <2> HIDE DEF M, I, Found
  <2> QED BY <1>13, <2>1
<1> HIDE DEF M, I, Found, passive, wordy
<1>16. Cardinality(Found \cup M) = Cardinality(Grammar!LongStretches) + Cardinality(passive)
  <2>1. Cardinality(Found \cup M) = Cardinality(Found) + Cardinality(M) - Cardinality(Found \cap M)
    BY <1>9, <1>11, FS_Union, Zenon
  <2>2. Cardinality(Found \cap M) = 0
    BY <1>15, FS_EmptySet
  <2>3. Cardinality(Long(t)) \in Nat /\ Cardinality(passive) \in Nat
    BY <1>6, FS_CardinalityType
  <2> QED BY <1>9, <1>10, <1>11, <2>1, <2>2, <2>3
<1>17. Grammar!Score(issues) = Grammar!ScoreLess(5 * Cardinality(Grammar!LongStretches) + 5 * Cardinality(passive)
                                 + 2 * Cardinality(wordy))
  <2>1. Grammar!Score(issues) = Grammar!ScoreLess(5 * Cardinality(Found \cup M) + 2 * Cardinality(I))
    BY <1>14, ServiceFiniteSets DEF Grammar!Score
  <2>2. Cardinality(Grammar!LongStretches) \in Nat /\ Cardinality(passive) \in Nat
        /\ Cardinality(wordy) \in Nat
    BY <1>6, <1>10, FS_CardinalityType
  <2>3. 5 * Cardinality(Found \cup M) + 2 * Cardinality(I)
            = 5 * Cardinality(Grammar!LongStretches) + 5 * Cardinality(passive) + 2 * Cardinality(wordy)
    BY <1>12, <1>16, <2>2
  <2> QED BY <2>1, <2>3
<1> QED BY <1>5, <1>17, ServiceFiniteSets DEF Grammar!LongSentencesMarked, t, passive, wordy

-----------------------------------------------------------------------------
(* The rule-based provider. *)

\* What the answer to an optimization was computed from.
BuiltInInv ==
    /\ cv \in BuiltInAi!Cvs
    /\ BuiltInAi!Optimized => /\ jobWords \in Nat /\ lacking \in 0 .. BuiltInAi!Keywords(jobWords)
                              /\ answer[1] = BuiltInAi!MatchScore(jobWords, lacking)

-----------------------------------------------------------------------------
LEMMA KeywordsBound ==
    ASSUME BuiltInAi!BuiltInAiAssumption, NEW words \in Nat
    PROVE  BuiltInAi!Keywords(words) \in 0 .. 199 /\ (BuiltInAi!Keywords(words) = 0 <=> words = 0)
BY DEF BuiltInAi!BuiltInAiAssumption, BuiltInAi!Keywords, BuiltInAi!Least

\* The match is 100 percent only if nothing is missing.
LEMMA FullMatch ==
    ASSUME BuiltInAi!BuiltInAiAssumption, NEW words \in Nat,
           NEW missing \in 0 .. BuiltInAi!Keywords(words)
    PROVE  BuiltInAi!MatchScore(words, missing) = 100 <=> missing = 0 /\ words > 0
<1> DEFINE all == BuiltInAi!Keywords(words)
<1>1. all \in 0 .. 199 /\ (all = 0 <=> words = 0) /\ missing \in 0 .. all
  BY KeywordsBound
<1>2. BuiltInAi!MatchScore(words, missing) =
        IF all = 0 THEN 50 ELSE (200 * (all - missing) + all) \div (2 * all)
  BY DEF BuiltInAi!MatchScore
<1> HIDE DEF all
<1>3. CASE all = 0
  BY <1>1, <1>2, <1>3
<1>4. CASE all # 0
  <2> DEFINE a == 200 * (all - missing) + all
             d == 2 * all
  <2>1. a \in Nat /\ d \in Nat \ {0}
    BY <1>1, <1>4
  <2> HIDE DEF a, d
  <2>2. a \div d = 100 <=> d * 100 <= a /\ a < d * 101
    BY <2>1
  <2>3. d * 100 <= a /\ a < d * 101 <=> missing = 0
    BY <1>1, <1>4 DEF a, d
  <2> QED BY <1>1, <1>2, <1>4, <2>2, <2>3 DEF a, d
<1> QED BY <1>3, <1>4

LEMMA CountMonotone ==
    ASSUME NEW q \in Seq(BuiltInAi!ExperienceFacts), NEW e \in BuiltInAi!ExperienceFacts
    PROVE  LET long(s) == {i \in DOMAIN s : s[i].description = "long"}
               described(s) == {i \in DOMAIN s : s[i].description # "none"}
           IN  /\ Cardinality(long(q)) \in Nat /\ Cardinality(long(Append(q, e))) \in Nat
               /\ Cardinality(long(q)) <= Cardinality(long(Append(q, e)))
               /\ Cardinality(described(q)) \in Nat
               /\ Cardinality(described(Append(q, e))) \in Nat
               /\ e.description # "none" => Cardinality(described(Append(q, e))) > 0
               /\ e.description = "none" =>
                      Cardinality(described(Append(q, e))) = Cardinality(described(q))
<1> DEFINE long(s) == {i \in DOMAIN s : s[i].description = "long"}
           described(s) == {i \in DOMAIN s : s[i].description # "none"}
           r == Append(q, e)
<1>1. /\ r \in Seq(BuiltInAi!ExperienceFacts) /\ DOMAIN q = 1 .. Len(q)
      /\ DOMAIN r = 1 .. Len(q) + 1
      /\ \A i \in 1 .. Len(q) : r[i] = q[i]
      /\ r[Len(q) + 1] = e /\ Len(q) \in Nat
  OBVIOUS
<1> HIDE DEF r
<1>2. \A s \in Seq(BuiltInAi!ExperienceFacts) : IsFiniteSet(DOMAIN s)
  BY FS_Interval
<1>3. \A s \in Seq(BuiltInAi!ExperienceFacts) :
          /\ IsFiniteSet(long(s)) /\ Cardinality(long(s)) \in Nat
          /\ IsFiniteSet(described(s)) /\ Cardinality(described(s)) \in Nat
  BY <1>2, FS_Subset, FS_CardinalityType
<1>4. long(q) \subseteq long(r)
  BY <1>1
<1>5. Cardinality(long(q)) <= Cardinality(long(r))
  BY <1>1, <1>3, <1>4, FS_Subset
<1>6. e.description # "none" => Len(q) + 1 \in described(r)
  BY <1>1
<1>7. e.description # "none" => Cardinality(described(r)) > 0
  <2>1. IsFiniteSet(described(r)) /\ Cardinality(described(r)) \in Nat
    BY <1>1, <1>3
  <2> HIDE DEF described
  <2>2. described(r) # {} => Cardinality(described(r)) # 0
    BY <2>1, FS_EmptySet
  <2> QED BY <1>6, <2>1, <2>2
<1>8. e.description = "none" => described(r) = described(q)
  BY <1>1
<1> QED BY <1>1, <1>3, <1>5, <1>7, <1>8 DEF r

LEMMA PointsTypes ==
    ASSUME NEW b \in BOOLEAN, NEW n \in Nat
    PROVE  BuiltInAi!Points(b, n) \in 0 .. n
BY DEF BuiltInAi!Points

\* The first description of a CV without any text.
LEMMA FirstTextFair ==
    ASSUME BuiltInAi!BuiltInAiAssumption, NEW c \in BuiltInAi!Cvs, ~BuiltInAi!HasText(c),
           NEW style \in BuiltInAi!Style, NEW e \in BuiltInAi!ExperienceFacts
    PROVE  BuiltInAi!OverallScore(c) <=
               BuiltInAi!OverallScore([c EXCEPT !.experiences = Append(@, e), !.style = style])
<1> DEFINE d == [c EXCEPT !.experiences = Append(@, e), !.style = style]
           long(s) == {i \in DOMAIN s : s[i].description = "long"}
           described(s) == {i \in DOMAIN s : s[i].description # "none"}
           q == c.experiences
           r == Append(q, e)
<1>1. /\ d.experiences = r /\ d.style = style /\ d.summary = c.summary /\ d.email = c.email
      /\ d.fullName = c.fullName /\ d.skills = c.skills /\ d.education = c.education
      /\ q \in Seq(BuiltInAi!ExperienceFacts) /\ r # <<>> /\ c.skills \in Nat
  BY DEF BuiltInAi!Cvs, BuiltInAi!BuiltInAiAssumption
<1>2. /\ c.summary = "none" /\ ~(Cardinality(described(q)) > 0)
  BY ServiceFiniteSets DEF BuiltInAi!HasText, BuiltInAi!Count, BuiltInAi!Described
<1>3. BuiltInAi!HasText(d) <=> Cardinality(described(r)) > 0
  BY <1>1, <1>2, ServiceFiniteSets DEF BuiltInAi!HasText, BuiltInAi!Count, BuiltInAi!Described
<1> HIDE DEF d, r
<1>4. BuiltInAi!GrammarScore(c) = 75 /\ BuiltInAi!ReadabilityScore(c) = 50
  BY DEF BuiltInAi!GrammarScore, BuiltInAi!ReadabilityScore, BuiltInAi!Points
<1>5. BuiltInAi!GrammarScore(d) \in Nat /\ BuiltInAi!ReadabilityScore(d) \in Nat
      /\ 2 * BuiltInAi!GrammarScore(d) + 3 * BuiltInAi!ReadabilityScore(d) >= 300
  <2>1. CASE BuiltInAi!HasText(d)
    <3>1. BuiltInAi!GrammarScore(d) >= 65 /\ BuiltInAi!GrammarScore(d) \in Nat
      BY <2>1 DEF BuiltInAi!GrammarScore, BuiltInAi!Points
    <3>2. BuiltInAi!ReadabilityScore(d) >= 70 /\ BuiltInAi!ReadabilityScore(d) \in Nat
      BY <1>1, <2>1 DEF BuiltInAi!ReadabilityScore, BuiltInAi!Points
    <3> QED BY <3>1, <3>2
  <2>2. CASE ~BuiltInAi!HasText(d)
    BY <2>2 DEF BuiltInAi!GrammarScore, BuiltInAi!ReadabilityScore, BuiltInAi!Points
  <2> QED BY <2>1, <2>2
<1>6. /\ BuiltInAi!AtsScore(c) \in Nat /\ BuiltInAi!AtsScore(d) \in Nat
      /\ BuiltInAi!AtsScore(c) <= BuiltInAi!AtsScore(d)
  <2> DEFINE m == Cardinality(long(q))
             n == Cardinality(long(r))
             others == 60 + BuiltInAi!Points(c.email, 5) + BuiltInAi!Points(c.fullName, 5)
                          + BuiltInAi!Points(c.summary # "none", 10)
                          + BuiltInAi!Points(c.skills >= 5, 10)
                          + BuiltInAi!Points(c.skills >= 10, 5)
  <2>1. m \in Nat /\ n \in Nat /\ m <= n
    BY <1>1, CountMonotone DEF r
  <2>2. /\ BuiltInAi!AtsScore(c) = BuiltInAi!Least(100, others + BuiltInAi!Points(q # <<>>, 5)
                                                                 + BuiltInAi!Points(c.education, 5)
                                                                 + BuiltInAi!Least(10, 3 * m))
        /\ BuiltInAi!AtsScore(d) = BuiltInAi!Least(100, others + 5 + BuiltInAi!Points(c.education, 5)
                                                               + BuiltInAi!Least(10, 3 * n))
    BY <1>1, ServiceFiniteSets DEF BuiltInAi!AtsScore, BuiltInAi!Count, BuiltInAi!Points
  <2>3. /\ others \in Nat /\ BuiltInAi!Points(q # <<>>, 5) \in 0 .. 5
        /\ BuiltInAi!Points(c.education, 5) \in Nat
    BY DEF BuiltInAi!Points
  <2>4. /\ BuiltInAi!Least(10, 3 * m) \in Nat /\ BuiltInAi!Least(10, 3 * n) \in Nat
        /\ BuiltInAi!Least(10, 3 * m) <= BuiltInAi!Least(10, 3 * n)
    BY <2>1 DEF BuiltInAi!Least
  <2> DEFINE f == BuiltInAi!Points(q # <<>>, 5)
             g == BuiltInAi!Points(c.education, 5)
             h == BuiltInAi!Least(10, 3 * m)
             k == BuiltInAi!Least(10, 3 * n)
  <2>5. /\ others \in Nat /\ f \in 0 .. 5 /\ g \in Nat /\ h \in Nat /\ k \in Nat /\ h <= k
        /\ BuiltInAi!AtsScore(c) = BuiltInAi!Least(100, others + f + g + h)
        /\ BuiltInAi!AtsScore(d) = BuiltInAi!Least(100, others + 5 + g + k)
    BY <2>2, <2>3, <2>4
  <2> HIDE DEF m, n, others, f, g, h, k
  <2> QED BY <2>5 DEF BuiltInAi!Least
<1>7. (2 * BuiltInAi!GrammarScore(c) + 3 * BuiltInAi!ReadabilityScore(c)
       + 5 * BuiltInAi!AtsScore(c) + 5) \div 10
          <= (2 * BuiltInAi!GrammarScore(d) + 3 * BuiltInAi!ReadabilityScore(d)
              + 5 * BuiltInAi!AtsScore(d) + 5) \div 10
  BY <1>4, <1>5, <1>6
<1> QED BY <1>7 DEF BuiltInAi!OverallScore, d

LEMMA BuiltInFair == BuiltInAi!BuiltInAiAssumption /\ BuiltInInv => BuiltInAi!ScoresFair
<1> SUFFICES ASSUME BuiltInAi!BuiltInAiAssumption, BuiltInInv PROVE BuiltInAi!ScoresFair
  OBVIOUS
<1>1. BuiltInAi!Optimized => (answer[1] = 100 <=> lacking = 0 /\ jobWords > 0)
  BY FullMatch DEF BuiltInInv
<1>2. ASSUME ~BuiltInAi!HasText(cv), NEW style \in BuiltInAi!Style,
             NEW e \in BuiltInAi!ExperienceFacts
      PROVE  BuiltInAi!OverallScore(cv) <=
                 BuiltInAi!OverallScore([cv EXCEPT !.experiences = Append(@, e), !.style = style])
  BY <1>2, FirstTextFair DEF BuiltInInv
<1> QED BY <1>1, <1>2 DEF BuiltInAi!ScoresFair

LEMMA BuiltInNextInv ==
    BuiltInAi!BuiltInAiAssumption /\ BuiltInInv /\ [BuiltInAi!Next]_(BuiltInAi!vars)
    => BuiltInInv'
<1> SUFFICES ASSUME BuiltInAi!BuiltInAiAssumption, BuiltInInv, [BuiltInAi!Next]_(BuiltInAi!vars)
 PROVE  BuiltInInv'
  OBVIOUS
<1>1. ASSUME BuiltInAi!AnalyzeCv PROVE BuiltInInv'
  <2>1. Len(answer') = 3
    BY <1>1 DEF BuiltInAi!AnalyzeCv
  <2> QED BY <1>1, <2>1 DEF BuiltInInv, BuiltInAi!Optimized, BuiltInAi!AnalyzeCv
<1>2. ASSUME NEW words \in JobSizes, NEW missing \in {0, 1, BuiltInAi!Keywords(words)},
             NEW absent \in {0, 4}, BuiltInAi!OptimizeCvForJob(words, missing, absent)
      PROVE  BuiltInInv'
  <2>0. words \in Nat
    BY DEF BuiltInAi!BuiltInAiAssumption
  <2>1. words \in Nat /\ BuiltInAi!Keywords(words) \in Nat
    BY <2>0, KeywordsBound
  <2>2. missing \in 0 .. BuiltInAi!Keywords(words)
    BY <1>2, <2>1 DEF BuiltInAi!OptimizeCvForJob
  <2>3. /\ cv' = cv /\ jobWords' = words /\ lacking' = missing
        /\ answer'[1] = BuiltInAi!MatchScore(words, missing)
    BY <1>2 DEF BuiltInAi!OptimizeCvForJob
  <2> QED BY <2>1, <2>2, <2>3 DEF BuiltInInv
<1>3. CASE UNCHANGED BuiltInAi!vars
  BY <1>3 DEF BuiltInInv, BuiltInAi!Optimized, BuiltInAi!vars
<1> QED BY <1>1, <1>2, <1>3 DEF BuiltInAi!Next

LEMMA BuiltInSafe == BuiltInAi!BuiltInAiAssumption => (BuiltInAi!Spec => []BuiltInInv)
<1> SUFFICES ASSUME BuiltInAi!BuiltInAiAssumption PROVE BuiltInAi!Spec => []BuiltInInv
  OBVIOUS
<1>1. BuiltInAi!Init => BuiltInInv
  <2> SUFFICES ASSUME BuiltInAi!Init PROVE BuiltInInv
    OBVIOUS
  <2>1. Len(answer) = 0
    BY DEF BuiltInAi!Init
  <2> QED BY <2>1 DEF BuiltInAi!Init, BuiltInInv, BuiltInAi!Optimized
<1>2. BuiltInInv /\ [BuiltInAi!Next]_(BuiltInAi!vars) => BuiltInInv'
  BY BuiltInNextInv
<1> QED BY <1>1, <1>2, PTL DEF BuiltInAi!Spec

-----------------------------------------------------------------------------
(* The entries of ResumeText. *)

\* The blank lines that trim drops are all it drops.
LEMMA TrimIs ==
    ASSUME NEW b \in Seq(Nat), Increasing(b)
    PROVE  /\ ResumeText!Trim(b) \in Seq(Nat) /\ Increasing(ResumeText!Trim(b))
           /\ Items(ResumeText!Trim(b)) \subseteq Items(b)
           /\ \A i \in Items(b) : resume[i] # "blank" => i \in Items(ResumeText!Trim(b))
           /\ Len(ResumeText!Trim(b)) > 0 => resume[ResumeText!Trim(b)[1]] # "blank"
<1> DEFINE full == {n \in DOMAIN b : resume[b[n]] # "blank"}
           S == {n \in DOMAIN b : \E f, l \in full : f <= n /\ n <= l}
           q == ItemsAt(b, S)
<1>1. ResumeText!Trim(b) = q
  BY ResumeSeen, Zenon DEF ResumeText!Trim, ResumeText!IsBlank
<1>2. S \subseteq DOMAIN b /\ full \subseteq S /\ full \subseteq Nat
  <2>1. DOMAIN b \subseteq Nat
    OBVIOUS
  <2>2. \A n \in full : n \in DOMAIN b /\ n <= n
    BY <2>1
  <2> QED BY <2>1, <2>2
<1>3. \A n \in S : \E f \in full : f <= n
  OBVIOUS
<1> HIDE DEF S
<1>4. /\ q \in Seq(Nat) /\ Increasing(q) /\ Items(q) = {b[n] : n \in S}
      /\ Len(q) = Cardinality(S) /\ Cardinality(S) \in Nat
      /\ \A k \in 1 .. Cardinality(S) : q[k] = b[InOrder(S)[k]]
  BY <1>2, ItemsAtIs, ItemsAtIncreasing
<1>5. Items(q) \subseteq Items(b)
  BY <1>2, <1>4 DEF Items
<1>6. ASSUME NEW i \in Items(b), resume[i] # "blank" PROVE i \in Items(q)
  <2>1. PICK n \in DOMAIN b : b[n] = i
    BY DEF Items
  <2>2. n \in S
    BY <1>2, <1>6, <2>1, Zenon
  <2> QED BY <1>4, <2>1, <2>2
<1>7. ASSUME Len(q) > 0 PROVE resume[q[1]] # "blank"
  <2>1. IsFiniteSet(S) /\ S \subseteq Nat
    BY <1>2, PlacesFinite, Zenon
  <2>2. S # {}
    <3>1. Cardinality(S) # 0
      BY <1>4, <1>7
    <3> QED BY <3>1, FS_EmptySet, Zenon
  <2>3. PICK m \in S : \A y \in S : m <= y
    BY <2>1, <2>2, LeastMember, Zenon
  <2>4. PICK f \in full : f <= m
    BY <1>3, Zenon
  <2>5. m = f
    <3>1. m <= f /\ f <= m /\ m \in Nat /\ f \in Nat
      BY <1>2, <2>1, <2>3, <2>4
    <3> QED BY <3>1
  <2>6. InOrder(S)[1] = m
    BY <2>1, <2>3, RestInOrder, Zenon
  <2>7. 1 \in 1 .. Cardinality(S)
    BY <1>4, <1>7
  <2>8. q[1] = b[m]
    BY <1>4, <2>6, <2>7, Zenon
  <2> QED BY <2>4, <2>5, <2>8, Zenon
<1> HIDE DEF q
<1> QED BY <1>1, <1>4, <1>5, <1>6, <1>7, Zenon

\* Entries made of lines: none is empty, the lines and the entries are in the
\* order of the text.
EntriesOf(c, L) ==
    /\ c \in Seq(Seq(Nat))
    /\ \A n \in DOMAIN c : c[n] # <<>> /\ Increasing(c[n])
    /\ \A m, n \in DOMAIN c : m < n => \A i \in Items(c[m]), j \in Items(c[n]) : i < j
    /\ \A n \in DOMAIN c : Items(c[n]) \subseteq L
    /\ \A i \in L : \E n \in DOMAIN c : i \in Items(c[n])

\* Every line is in the chunk that begins last before it.
LEMMA CutAtIs ==
    ASSUME NEW q \in Seq(Nat), Increasing(q), Len(q) > 0 => resume[q[1]] # "blank",
           NEW cuts, \A n \in cuts : n \in DOMAIN q /\ resume[q[n]] # "blank"
    PROVE  EntriesOf(ResumeText!CutAt(q, cuts), {i \in Items(q) : resume[i] # "blank"})
<1> DEFINE B == {n \in DOMAIN q : n = 1 \/ n \in cuts}
           begins == InOrder(B)
           C == [k \in DOMAIN begins |->
                    {n \in DOMAIN q : /\ begins[k] <= n /\ resume[q[n]] # "blank"
                                      /\ k + 1 \in DOMAIN begins => n < begins[k + 1]}]
           c == [k \in DOMAIN begins |-> ItemsAt(q, C[k])]
           L == {i \in Items(q) : resume[i] # "blank"}
<1>1. ResumeText!CutAt(q, cuts) = c
  BY ResumeSeen DEF ResumeText!CutAt, ResumeText!IsBlank
<1>2. /\ B \subseteq DOMAIN q /\ DOMAIN q = 1 .. Len(q) /\ Len(q) \in Nat
      /\ \A n \in B : resume[q[n]] # "blank"
      /\ Len(q) > 0 => 1 \in B
  OBVIOUS
<1> HIDE DEF B
<1>3. IsFiniteSet(B) /\ B \subseteq Nat
  BY <1>2, PlacesFinite, Zenon
<1> DEFINE N == Cardinality(B)
<1>4. /\ N \in Nat /\ begins \in Seq(B) /\ DOMAIN begins = 1 .. N
      /\ Increasing(begins) /\ Items(begins) = B
  BY <1>3, InOrderIs, Zenon
<1> HIDE DEF begins, N
<1>5. \A k \in 1 .. N : begins[k] \in B /\ begins[k] \in Nat
  BY <1>3, <1>4 DEF Items
<1>6. /\ \A k \in 1 .. N, n \in DOMAIN q :
             begins[k] <= n /\ resume[q[n]] # "blank" /\ (k + 1 \in 1 .. N => n < begins[k + 1])
             => n \in C[k]
      /\ \A k \in 1 .. N : \A n \in C[k] :
             /\ n \in DOMAIN q /\ begins[k] <= n /\ resume[q[n]] # "blank"
             /\ k + 1 \in 1 .. N => n < begins[k + 1]
      /\ \A k \in 1 .. N : C[k] \subseteq DOMAIN q
  <2> SUFFICES ASSUME NEW k \in 1 .. N
               PROVE  /\ \A n \in DOMAIN q :
                             begins[k] <= n /\ resume[q[n]] # "blank"
                                 /\ (k + 1 \in 1 .. N => n < begins[k + 1])
                             => n \in C[k]
                      /\ \A n \in C[k] :
                             /\ n \in DOMAIN q /\ begins[k] <= n /\ resume[q[n]] # "blank"
                             /\ k + 1 \in 1 .. N => n < begins[k + 1]
    BY Zenon
  <2>1. C[k] = {n \in DOMAIN q : /\ begins[k] <= n /\ resume[q[n]] # "blank"
                                 /\ k + 1 \in 1 .. N => n < begins[k + 1]}
    BY <1>4, Zenon
  <2> HIDE DEF C
  <2> QED BY <2>1
<1>7. \A k \in 1 .. N : /\ c[k] = ItemsAt(q, C[k]) /\ c[k] \in Seq(Nat) /\ Increasing(c[k])
                        /\ Items(c[k]) = {q[n] : n \in C[k]}
  <2> SUFFICES ASSUME NEW k \in 1 .. N
               PROVE  /\ c[k] = ItemsAt(q, C[k]) /\ c[k] \in Seq(Nat) /\ Increasing(c[k])
                      /\ Items(c[k]) = {q[n] : n \in C[k]}
    BY Zenon
  <2>1. c[k] = ItemsAt(q, C[k]) /\ C[k] \subseteq DOMAIN q
    BY <1>4, <1>6, Zenon
  <2> HIDE DEF c, C
  <2> QED BY <2>1, ItemsAtIs, ItemsAtIncreasing
<1>8. c \in Seq(Seq(Nat)) /\ DOMAIN c = 1 .. N
  <2>1. DOMAIN c = 1 .. N /\ c = [k \in 1 .. N |-> c[k]]
    BY <1>4
  <2> HIDE DEF c
  <2> QED BY <1>4, <1>7, <2>1, SeqOf, Zenon
<1> HIDE DEF c, C
<1>9. ASSUME NEW k \in 1 .. N PROVE c[k] # <<>>
  <2>1. begins[k] \in DOMAIN q /\ resume[q[begins[k]]] # "blank" /\ begins[k] \in Nat
    BY <1>2, <1>5
  <2>2. k + 1 \in DOMAIN begins => begins[k] < begins[k + 1]
    BY <1>4 DEF Increasing
  <2>3. begins[k] \in C[k]
    BY <1>4, <1>6, <2>1, <2>2
  <2>4. q[begins[k]] \in Items(c[k])
    BY <1>7, <2>3
  <2> QED BY <2>4 DEF Items
<1>10. ASSUME NEW m \in 1 .. N, NEW n \in 1 .. N, m < n,
              NEW i \in Items(c[m]), NEW j \in Items(c[n])
       PROVE  i < j
  <2>1. PICK x \in C[m] : i = q[x]
    BY <1>7
  <2>2. PICK y \in C[n] : j = q[y]
    BY <1>7
  <2>3. m + 1 \in 1 .. N /\ (m + 1 < n \/ m + 1 = n)
    BY <1>4, <1>10
  <2>4. begins[m + 1] <= begins[n]
    <3>1. m + 1 < n => begins[m + 1] < begins[n]
      BY <1>4, <2>3 DEF Increasing
    <3>2. begins[m + 1] \in Nat /\ begins[n] \in Nat
      BY <1>5, <2>3
    <3> QED BY <2>3, <3>1, <3>2
  <2>6. x \in DOMAIN q /\ y \in DOMAIN q
    BY <1>6
  <2>5. x < begins[m + 1] /\ begins[n] <= y
    BY <1>6, <2>3, <2>6
  <2>7. x < y
    BY <1>2, <1>5, <2>3, <2>4, <2>5, <2>6
  <2> QED BY <2>1, <2>2, <2>6, <2>7 DEF Increasing
<1>11. ASSUME NEW k \in 1 .. N PROVE Items(c[k]) \subseteq L
  <2> SUFFICES ASSUME NEW i \in Items(c[k]) PROVE i \in Items(q) /\ resume[i] # "blank"
    OBVIOUS
  <2>1. PICK n \in C[k] : i = q[n]
    BY <1>7
  <2>2. n \in DOMAIN q /\ resume[q[n]] # "blank"
    BY <1>6
  <2> QED BY <2>1, <2>2 DEF Items
<1>12. ASSUME NEW i \in L PROVE \E k \in 1 .. N : i \in Items(c[k])
  <2>1. PICK x \in DOMAIN q : q[x] = i /\ resume[q[x]] # "blank"
    BY DEF Items
  <2> DEFINE T == {k \in 1 .. N : begins[k] <= x}
  <2>2. 1 \in B /\ x >= 1 /\ x \in Nat
    BY <1>2, <2>1
  <2>3. T # {} /\ T \subseteq Nat /\ \A k \in T : k <= N
    <3>1. PICK k \in 1 .. N : begins[k] = 1
      BY <1>4, <2>2 DEF Items
    <3>2. k \in T
      BY <2>2, <3>1
    <3> QED BY <1>4, <3>2
  <2>4. PICK k \in T : \A l \in T : k >= l
    BY <1>4, <2>3, GreatestMember, Zenon
  <2>5. k \in 1 .. N /\ begins[k] <= x
    OBVIOUS
  <2>6. k + 1 \in 1 .. N => x < begins[k + 1]
    <3> SUFFICES ASSUME k + 1 \in 1 .. N, ~(x < begins[k + 1]) PROVE FALSE
      OBVIOUS
    <3>1. k + 1 \in T
      BY <1>5, <2>2
    <3> QED BY <2>3, <2>4, <3>1
  <2>7. x \in C[k]
    BY <1>6, <2>1, <2>5, <2>6
  <2> QED BY <1>7, <2>1, <2>5, <2>7
<1> HIDE DEF L
<1>13. EntriesOf(c, L)
  BY <1>7, <1>8, <1>9, <1>10, <1>11, <1>12 DEF EntriesOf
<1> QED BY <1>1, <1>13 DEF L

\* Paragraphs and titles both begin with a line that is not blank.
LEMMA SplitIs ==
    ASSUME ResumeText!ResumeAssumption, NEW b \in Seq(Nat), Increasing(b)
    PROVE  EntriesOf(ResumeText!SplitSectionEntries(b), {i \in Items(b) : resume[i] # "blank"})
<1> DEFINE q == ResumeText!Trim(b)
           paragraphs == {n \in 2 .. Len(q) : resume[q[n - 1]] = "blank" /\ resume[q[n]] # "blank"}
           titles == {n \in DOMAIN q : resume[q[n]] \in Titles}
           cuts == IF paragraphs # {} THEN paragraphs ELSE titles
<1>1. /\ q \in Seq(Nat) /\ Increasing(q) /\ Items(q) \subseteq Items(b)
      /\ \A i \in Items(b) : resume[i] # "blank" => i \in Items(q)
      /\ Len(q) > 0 => resume[q[1]] # "blank"
  BY TrimIs, Zenon
<1>2. ResumeText!SplitSectionEntries(b) = ResumeText!CutAt(q, cuts)
  BY DEF ResumeText!SplitSectionEntries, ResumeText!IsBlank
<1> HIDE DEF q
<1>3. \A n \in cuts : n \in DOMAIN q /\ resume[q[n]] # "blank"
  <2>1. Len(q) \in Nat /\ DOMAIN q = 1 .. Len(q)
    BY <1>1
  <2>2. \A n \in paragraphs : n \in DOMAIN q /\ resume[q[n]] # "blank"
    BY <2>1
  <2>3. \A n \in titles : n \in DOMAIN q /\ resume[q[n]] # "blank"
    BY DEF ResumeText!ResumeAssumption
  <2> HIDE DEF paragraphs, titles
  <2> QED BY <2>2, <2>3
<1> HIDE DEF cuts
<1>4. EntriesOf(ResumeText!CutAt(q, cuts), {i \in Items(q) : resume[i] # "blank"})
  BY <1>1, <1>3, CutAtIs, Zenon
<1>5. {i \in Items(q) : resume[i] # "blank"} = {i \in Items(b) : resume[i] # "blank"}
  BY <1>1
<1> QED BY <1>2, <1>4, <1>5, Zenon

\* What slice leaves.
LEMMA FirstItems ==
    ASSUME NEW V, NEW q \in Seq(V), NEW n \in Nat
    PROVE  /\ ResumeText!FirstOf(q, n) \in Seq(V) /\ Len(ResumeText!FirstOf(q, n)) <= n
           /\ Len(ResumeText!FirstOf(q, n)) <= Len(q)
           /\ Len(ResumeText!FirstOf(q, n)) < n \/ Len(q) <= n => ResumeText!FirstOf(q, n) = q
           /\ \A k \in 1 .. Len(ResumeText!FirstOf(q, n)) : ResumeText!FirstOf(q, n)[k] = q[k]
           /\ \A k \in 1 .. Len(q) : k <= n => k <= Len(ResumeText!FirstOf(q, n))
<1> DEFINE m == IF Len(q) < n THEN Len(q) ELSE n
<1>1. /\ m \in 0 .. Len(q) /\ m <= n /\ \A k \in 1 .. Len(q) : k <= n => k <= m
      /\ m < n \/ Len(q) <= n => m = Len(q)
  OBVIOUS
<1>2. ResumeText!FirstOf(q, n) = SubSeq(q, 1, m)
  BY DEF ResumeText!FirstOf
<1> HIDE DEF m
<1>3. /\ SubSeq(q, 1, m) \in Seq(V) /\ Len(SubSeq(q, 1, m)) = m
      /\ \A k \in 1 .. m : SubSeq(q, 1, m)[k] = q[k]
      /\ m = Len(q) => SubSeq(q, 1, m) = q
  BY <1>1
<1> QED BY <1>1, <1>2, <1>3

\* The entries found in a section, L being its lines.
SectionKept(p, L) ==
    /\ p \in Seq(ResumeText!Entry) /\ Len(p) <= MaxEntries
    /\ ResumeText!InTextOrder(p)
    /\ \A n \in DOMAIN p : p[n].lines # <<>>
    /\ ResumeText!LinesOf(p) \subseteq L
    /\ \A i \in ResumeText!LinesOf(p), j \in L \ ResumeText!LinesOf(p) : i < j
    /\ Len(p) < MaxEntries => ResumeText!LinesOf(p) = L

\* If there are more entries than are kept, it is the last lines that go.
LEMMA ParsedIs ==
    ASSUME ResumeText!ResumeAssumption, NEW sec, NEW b \in Seq(Nat), Increasing(b)
    PROVE  SectionKept(ResumeText!ParseEntries(sec, b), {i \in Items(b) : resume[i] # "blank"})
<1> DEFINE c == ResumeText!SplitSectionEntries(b)
           e == ResumeText!FirstOf(c, MaxEntries)
           p == [k \in DOMAIN e |->
                    [lines |-> e[k], dated |-> ResumeText!HasDates(e[k]),
                     cut |-> [i \in DOMAIN e[k] |-> resume[e[k][i]]] \notin Whole[sec]]]
           L == {i \in Items(b) : resume[i] # "blank"}
<1>1. ResumeText!ParseEntries(sec, b) = p
  BY DEF ResumeText!ParseEntries
<1>2. EntriesOf(c, L)
  BY SplitIs, Zenon
<1>3. MaxEntries \in Nat /\ c \in Seq(Seq(Nat))
  BY <1>2 DEF ResumeText!ResumeAssumption, EntriesOf
<1> HIDE DEF c, L
<1>4. /\ e \in Seq(Seq(Nat)) /\ Len(e) <= MaxEntries /\ Len(e) <= Len(c)
      /\ Len(e) < MaxEntries => e = c
      /\ \A k \in 1 .. Len(e) : e[k] = c[k]
  BY <1>3, FirstItems, Zenon
<1> HIDE DEF e
<1> DEFINE N == Len(e)
<1>5. /\ N \in Nat /\ DOMAIN e = 1 .. N /\ DOMAIN c = 1 .. Len(c) /\ Len(c) \in Nat
      /\ \A k \in 1 .. N : k \in DOMAIN c /\ e[k] \in Seq(Nat)
  BY <1>3, <1>4
<1>6. DOMAIN p = 1 .. N /\ \A k \in 1 .. N : /\ p[k].lines = c[k] /\ p[k] \in ResumeText!Entry
  BY <1>4, <1>5 DEF ResumeText!Entry, ResumeText!HasDates
<1>7. p \in Seq(ResumeText!Entry) /\ Len(p) = N
  <2>1. p = [k \in 1 .. N |-> p[k]]
    BY <1>5
  <2> HIDE DEF p
  <2> QED BY <1>5, <1>6, <2>1, SeqOf, Zenon
<1> HIDE DEF p, N
<1>8. \A n \in DOMAIN c : c[n] # <<>> /\ Increasing(c[n]) /\ Items(c[n]) \subseteq L
  BY <1>2, Zenon DEF EntriesOf
<1>9. \A m, n \in DOMAIN c : m < n => \A i \in Items(c[m]), j \in Items(c[n]) : i < j
  BY <1>2, Zenon DEF EntriesOf
<1>10. ResumeText!InTextOrder(p)
  <2>1. \A n \in 1 .. N : n \in DOMAIN c /\ p[n].lines = c[n]
    BY <1>5, <1>6
  <2>2. \A n \in 1 .. N : \A x, y \in DOMAIN p[n].lines :
           x < y => p[n].lines[x] < p[n].lines[y]
    BY <1>8, <2>1 DEF Increasing
  <2>3. \A m, n \in 1 .. N : m < n =>
           \A i \in ResumeText!ToSet(p[m].lines), j \in ResumeText!ToSet(p[n].lines) : i < j
    BY <1>9, <2>1 DEF Items, ResumeText!ToSet
  <2> QED BY <1>6, <2>2, <2>3, Zenon DEF ResumeText!InTextOrder
<1>11. ResumeText!LinesOf(p) = UNION {Items(c[n]) : n \in 1 .. N}
  <2>1. \A n \in 1 .. N : ResumeText!ToSet(p[n].lines) = Items(c[n])
    BY <1>6 DEF Items, ResumeText!ToSet
  <2> QED BY <1>6, <2>1 DEF ResumeText!LinesOf
<1>12. ResumeText!LinesOf(p) \subseteq L /\ \A n \in DOMAIN p : p[n].lines # <<>>
  BY <1>5, <1>6, <1>8, <1>11
<1>13. ASSUME NEW i \in L PROVE \E n \in DOMAIN c : i \in Items(c[n])
  BY <1>2, Zenon DEF EntriesOf
<1>14. ASSUME NEW i \in ResumeText!LinesOf(p), NEW j \in L \ ResumeText!LinesOf(p)
       PROVE  i < j
  <2>1. PICK m \in 1 .. N : i \in Items(c[m])
    BY <1>11
  <2>2. PICK n \in DOMAIN c : j \in Items(c[n])
    BY <1>13
  <2>3. n \notin 1 .. N
    BY <1>11, <2>2
  <2>4. m \in DOMAIN c /\ m < n
    BY <1>5, <2>3
  <2> QED BY <1>9, <2>1, <2>2, <2>4, Zenon
<1>15. ASSUME Len(p) < MaxEntries PROVE ResumeText!LinesOf(p) = L
  <2>1. DOMAIN c = 1 .. N
    BY <1>4, <1>5, <1>7, <1>15 DEF N
  <2> QED BY <1>11, <1>12, <1>13, <2>1
<1>16. SectionKept(p, L)
  BY <1>4, <1>7, <1>10, <1>12, <1>14, <1>15 DEF SectionKept, N
<1> QED BY <1>1, <1>16 DEF L

\* No item is there twice.
NoRepeat(q) == \A m, n \in DOMAIN q : m < n => q[m] # q[n]

LEMMA PrefixIs ==
    ASSUME NEW V, NEW p \in Seq(V), NEW W, NEW q \in Seq(W), Len(p) <= Len(q),
           \A n \in 1 .. Len(p) : q[n] = p[n]
    PROVE  ResumeText!IsPrefix(p, q) /\ Items(p) \subseteq Items(q)
<1>1. SubSeq(p, 1, Len(p)) = SubSeq(q, 1, Len(p))
  <2> DEFINE a == SubSeq(p, 1, Len(p))
             b == SubSeq(q, 1, Len(p))
             l == Len(p)
  <2>1. /\ a \in Seq(V) /\ Len(a) = l /\ l \in Nat /\ \A n \in 1 .. l : a[n] = p[n]
        /\ b \in Seq(W) /\ Len(b) = l /\ \A n \in 1 .. l : b[n] = q[n]
    OBVIOUS
  <2>2. \A n \in 1 .. l : a[n] = b[n]
    BY <2>1
  <2> HIDE DEF a, b, l
  <2>3. a = [n \in 1 .. l |-> a[n]] /\ b = [n \in 1 .. l |-> b[n]]
    BY <2>1
  <2>4. a = b
    BY <2>2, <2>3
  <2> QED BY <2>4 DEF a, b
<1>2. Items(p) \subseteq Items(q)
  BY DEF Items
<1> QED BY <1>1, <1>2 DEF ResumeText!IsPrefix

LEMMA ItemsOfBoth ==
    ASSUME NEW V, NEW q \in Seq(V), NEW r \in Seq(V)
    PROVE  q \o r \in Seq(V) /\ Items(q \o r) = Items(q) \cup Items(r)
<1> DEFINE l == Len(q)
           m == Len(r)
           c == q \o r
<1>1. /\ c \in Seq(V) /\ l \in Nat /\ m \in Nat /\ DOMAIN q = 1 .. l /\ DOMAIN r = 1 .. m
      /\ DOMAIN c = 1 .. l + m
      /\ \A n \in 1 .. l : c[n] = q[n]
      /\ \A n \in 1 .. m : c[l + n] = r[n]
  OBVIOUS
<1> HIDE DEF l, m, c
<1>2. /\ \A n \in 1 .. l + m : n \in 1 .. l \/ \E k \in 1 .. m : n = l + k
      /\ \A n \in 1 .. l : n \in 1 .. l + m
      /\ \A k \in 1 .. m : l + k \in 1 .. l + m
  <2>1. \A n \in 1 .. l + m : n \notin 1 .. l => n - l \in 1 .. m /\ n = l + (n - l)
    BY <1>1
  <2> QED BY <1>1, <2>1
<1>3. Items(c) = Items(q) \cup Items(r)
  <2>1. ASSUME NEW v \in Items(c) PROVE v \in Items(q) \cup Items(r)
    <3>1. PICK n \in 1 .. l + m : v = c[n]
      BY <1>1 DEF Items
    <3>2. CASE n \in 1 .. l
      BY <1>1, <3>1, <3>2 DEF Items
    <3>3. CASE \E k \in 1 .. m : n = l + k
      BY <1>1, <3>1, <3>3 DEF Items
    <3> QED BY <1>2, <3>2, <3>3
  <2>2. Items(q) \subseteq Items(c) /\ Items(r) \subseteq Items(c)
    <3>1. \A n \in 1 .. l : n \in DOMAIN c /\ c[n] = q[n]
      BY <1>1, <1>2
    <3>2. \A n \in 1 .. m : l + n \in DOMAIN c /\ c[l + n] = r[n]
      BY <1>1, <1>2
    <3> QED BY <1>1, <3>1, <3>2, Zenon DEF Items
  <2> QED BY <2>1, <2>2
<1> QED BY <1>1, <1>3 DEF c

\* The places where an item occurs for the first time.
FirstPlaces(q) == {n \in DOMAIN q : \A m \in 1 .. n - 1 : q[m] # q[n]}

LEMMA DistinctIs ==
    ASSUME NEW V, NEW q \in Seq(V)
    PROVE  /\ ResumeText!Distinct(q) = ItemsAt(q, FirstPlaces(q))
           /\ ResumeText!Distinct(q) \in Seq(V)
           /\ NoRepeat(ResumeText!Distinct(q))
           /\ Items(ResumeText!Distinct(q)) = Items(q)
<1> DEFINE S == FirstPlaces(q)
           d == ItemsAt(q, S)
<1>1. ResumeText!Distinct(q) = d
  BY ResumeSeen DEF ResumeText!Distinct, FirstPlaces
<1>2. S \subseteq DOMAIN q /\ DOMAIN q \subseteq Nat
  BY DEF FirstPlaces
<1>3. /\ d \in Seq(V) /\ Items(d) = {q[n] : n \in S} /\ DOMAIN d = 1 .. Cardinality(S)
      /\ \A k \in 1 .. Cardinality(S) : d[k] = q[InOrder(S)[k]]
  BY <1>2, ItemsAtIs
<1>4. /\ DOMAIN InOrder(S) = 1 .. Cardinality(S) /\ Increasing(InOrder(S))
      /\ Items(InOrder(S)) = S
  <2>1. IsFiniteSet(S) /\ S \subseteq Nat
    BY <1>2, PlacesFinite, Zenon
  <2> QED BY <2>1, InOrderIs
<1> HIDE DEF d
<1>5. ASSUME NEW m \in DOMAIN d, NEW n \in DOMAIN d, m < n PROVE d[m] # d[n]
  <2> DEFINE x == InOrder(S)[m]
             y == InOrder(S)[n]
  <2>1. x \in S /\ y \in S /\ x < y
    BY <1>3, <1>4, <1>5 DEF Increasing, Items
  <2>2. d[m] = q[x] /\ d[n] = q[y]
    BY <1>3
  <2> HIDE DEF x, y
  <2>3. x \in 1 .. y - 1
    BY <1>2, <2>1
  <2>4. q[x] # q[y]
    BY <2>1, <2>3 DEF FirstPlaces
  <2> QED BY <2>2, <2>4
<1>6. ASSUME NEW n \in DOMAIN q PROVE \E m \in S : q[m] = q[n]
  <2> DEFINE P == {m \in DOMAIN q : q[m] = q[n]}
  <2>1. P \subseteq Nat /\ P # {}
    BY <1>2
  <2>2. PICK m \in P : \A y \in P : m <= y
    BY <2>1, LeastMember, Zenon
  <2>3. ASSUME NEW l \in 1 .. m - 1, q[l] = q[m] PROVE FALSE
    <3>1. l \in DOMAIN q /\ l < m /\ m \in Nat /\ l \in Nat
      BY <1>2
    <3>2. l \in P
      BY <2>3, <3>1
    <3>3. m <= l
      BY <2>2, <3>2
    <3> QED BY <3>1, <3>3
  <2>4. m \in S
    BY <2>3 DEF FirstPlaces
  <2> QED BY <2>4
<1>7. Items(d) = Items(q)
  BY <1>2, <1>3, <1>6 DEF Items
<1>8. NoRepeat(d)
  BY <1>5 DEF NoRepeat
<1> QED BY <1>1, <1>3, <1>7, <1>8 DEF d

\* What is different already stays as it is when more is added.
LEMMA DistinctKeeps ==
    ASSUME NEW V, NEW p \in Seq(V), NoRepeat(p), NEW r \in Seq(V)
    PROVE  /\ Len(p) <= Len(ResumeText!Distinct(p \o r))
           /\ \A n \in 1 .. Len(p) : ResumeText!Distinct(p \o r)[n] = p[n]
<1> DEFINE q == p \o r
           S == FirstPlaces(q)
           d == ResumeText!Distinct(q)
<1>1. /\ q \in Seq(V) /\ Len(p) \in Nat /\ 1 .. Len(p) \subseteq DOMAIN q
      /\ \A n \in 1 .. Len(p) : q[n] = p[n]
  OBVIOUS
<1> HIDE DEF q
<1>2. d = ItemsAt(q, S) /\ d \in Seq(V)
  BY <1>1, DistinctIs
<1>3. 1 .. Len(p) \subseteq S /\ S \subseteq DOMAIN q
  BY <1>1 DEF FirstPlaces, NoRepeat
<1>4. IsFiniteSet(S) /\ S \subseteq Nat
  BY <1>1, <1>3, PlacesFinite, Zenon
<1>5. \A k \in S : k \in Nat /\ k >= 1
  BY <1>1, <1>3
<1>6. /\ Cardinality(S) \in Nat /\ Len(d) = Cardinality(S)
      /\ \A k \in 1 .. Cardinality(S) : d[k] = q[InOrder(S)[k]]
      /\ DOMAIN InOrder(S) = 1 .. Cardinality(S)
  BY <1>1, <1>2, <1>3, <1>4, ItemsAtIs, InOrderIs
<1> HIDE DEF S, d
<1>7. ASSUME NEW n \in 1 .. Len(p)
      PROVE  n \in DOMAIN InOrder(S) /\ InOrder(S)[n] = n
  <2>1. n \in Nat /\ n \in S /\ n - 1 \in Int
    BY <1>1, <1>3
  <2>2. {j \in S : j < n} = 1 .. n - 1
    <3>1. \A j \in 1 .. n - 1 : j \in S /\ j < n
      BY <1>1, <1>3
    <3>2. \A j \in S : j < n => j \in 1 .. n - 1
      BY <1>5, <2>1
    <3> QED BY <3>1, <3>2
  <2>3. Cardinality(1 .. n - 1) = n - 1
    <3>1. 1 \in Int
      OBVIOUS
    <3>2. Cardinality(1 .. n - 1) = IF 1 > n - 1 THEN 0 ELSE (n - 1) - 1 + 1
      BY <2>1, <3>1, FS_Interval, Zenon
    <3> QED BY <2>1, <3>2
  <2>4. Rank(S, n) + 1 = n
    <3>1. Rank(S, n) = n - 1
      BY <2>2, <2>3, Zenon DEF Rank
    <3> QED BY <2>1, <3>1
  <2>5. Rank(S, n) + 1 \in DOMAIN InOrder(S) /\ InOrder(S)[Rank(S, n) + 1] = n
    BY <1>4, <2>1, InOrderAt, Zenon
  <2> QED BY <2>4, <2>5
<1>8. \A n \in 1 .. Len(p) : n \in 1 .. Len(d) /\ d[n] = p[n]
  BY <1>1, <1>6, <1>7
<1>9. Len(p) <= Len(d)
  <2>1. Len(p) = 0 \/ Len(p) \in 1 .. Len(p)
    BY <1>1
  <2> QED BY <1>1, <1>6, <1>8, <2>1
<1> QED BY <1>8, <1>9 DEF d, q

\* The skills kept, of those of fit length in W.
SkillsKept(p, W) ==
    /\ p \in Seq(SkillName) /\ Len(p) <= MaxSkills /\ NoRepeat(p)
    /\ Items(p) \subseteq W
    /\ Len(p) < MaxSkills => Items(p) = W

LEMMA SkillsAre ==
    ASSUME MaxSkills \in Nat, NEW b \in Seq(SkillName)
    PROVE  SkillsKept(ResumeText!ParseSkillEntries(b), Items(b) \ Odd)
<1> DEFINE S == {n \in DOMAIN b : b[n] \notin Odd}
           f == ItemsAt(b, S)
           d == ResumeText!Distinct(f)
           p == ResumeText!FirstOf(d, MaxSkills)
           W == Items(b) \ Odd
<1>1. ResumeText!ParseSkillEntries(b) = p
  BY ResumeSeen DEF ResumeText!ParseSkillEntries
<1>2. S \subseteq DOMAIN b /\ {b[n] : n \in S} = W
  BY DEF Items
<1> HIDE DEF S, W
<1>3. f \in Seq(SkillName) /\ Items(f) = W
  BY <1>2, ItemsAtIs
<1> HIDE DEF f
<1>4. d \in Seq(SkillName) /\ NoRepeat(d) /\ Items(d) = W
  BY <1>3, DistinctIs
<1> HIDE DEF d
<1>5. /\ p \in Seq(SkillName) /\ Len(p) <= MaxSkills /\ Len(p) <= Len(d)
      /\ Len(p) < MaxSkills => p = d
      /\ \A k \in 1 .. Len(p) : p[k] = d[k]
  BY <1>4, FirstItems, Zenon
<1> HIDE DEF p
<1>6. \A k \in DOMAIN p : k \in DOMAIN d /\ p[k] = d[k]
  <2>1. DOMAIN p = 1 .. Len(p) /\ DOMAIN d = 1 .. Len(d) /\ Len(d) \in Nat /\ Len(p) \in Nat
    BY <1>4, <1>5
  <2> QED BY <1>5, <2>1
<1>7. NoRepeat(p) /\ Items(p) \subseteq W
  BY <1>4, <1>6, Zenon DEF NoRepeat, Items
<1>8. SkillsKept(p, W)
  BY <1>4, <1>5, <1>7 DEF SkillsKept
<1> QED BY <1>1, <1>8 DEF W

\* The last heading up to line i is one of k.
Under(k, i) ==
    \E h \in 1 .. i : resume[h] = k /\ \A j \in h + 1 .. i : resume[j] \notin Headings

\* The lines up to a under a heading of k.
Body(k, a) == {i \in 1 .. a : resume[i] \notin Headings /\ Under(k, i)}

\* What the next line changes.
LEMMA OneMoreLine ==
    ASSUME ResumeText!ResumeAssumption, resume \in Seq(ResumeText!Lines),
           NEW a \in 0 .. Len(resume) - 1, NEW k \in ResumeText!SectionKey
    PROVE  /\ resume[a + 1] \in Headings =>
                  (Under(k, a + 1) <=> k = resume[a + 1]) /\ Body(k, a + 1) = Body(k, a)
           /\ resume[a + 1] \notin Headings =>
                  /\ Under(k, a + 1) <=> Under(k, a)
                  /\ Under(k, a) => Body(k, a + 1) = Body(k, a) \cup {a + 1}
                  /\ ~Under(k, a) => Body(k, a + 1) = Body(k, a)
<1>1. /\ a \in Nat /\ a + 1 \in 1 .. Len(resume) /\ resume[a + 1] \in ResumeText!Lines
      /\ 1 .. a + 1 = (1 .. a) \cup {a + 1} /\ a + 1 \notin 1 .. a
  OBVIOUS
<1>2. k \in ResumeText!Lines => k \in Headings
  BY DEF ResumeText!Lines, ResumeText!SectionKey, ResumeText!ResumeAssumption
<1>3. \A h \in 1 .. a : /\ h + 1 .. a + 1 = (h + 1 .. a) \cup {a + 1}
                        /\ a + 1 \in h + 1 .. a + 1
  BY <1>1
<1>4. (a + 1) + 1 .. a + 1 = {}
  BY <1>1
<1>5. ASSUME resume[a + 1] \in Headings
      PROVE  (Under(k, a + 1) <=> k = resume[a + 1]) /\ Body(k, a + 1) = Body(k, a)
  <2>1. Under(k, a + 1) => k = resume[a + 1]
    BY <1>1, <1>3, <1>5 DEF Under
  <2>2. k = resume[a + 1] => Under(k, a + 1)
    BY <1>1, <1>4 DEF Under
  <2>3. Body(k, a + 1) = Body(k, a)
    BY <1>1, <1>5 DEF Body
  <2> QED BY <2>1, <2>2, <2>3
<1>6. ASSUME resume[a + 1] \notin Headings
      PROVE  /\ Under(k, a + 1) <=> Under(k, a)
             /\ Under(k, a) => Body(k, a + 1) = Body(k, a) \cup {a + 1}
             /\ ~Under(k, a) => Body(k, a + 1) = Body(k, a)
  <2>1. resume[a + 1] # k
    BY <1>1, <1>2, <1>6
  <2>2. Under(k, a + 1) => Under(k, a)
    BY <1>1, <1>3, <2>1 DEF Under
  <2>3. Under(k, a) => Under(k, a + 1)
    BY <1>1, <1>3, <1>6 DEF Under
  <2>4. Under(k, a) => Body(k, a + 1) = Body(k, a) \cup {a + 1}
    BY <1>1, <1>6, <2>3 DEF Body
  <2>5. ~Under(k, a) => Body(k, a + 1) = Body(k, a)
    BY <1>1, <1>6, <2>2 DEF Body
  <2> QED BY <2>2, <2>3, <2>4, <2>5
<1> QED BY <1>5, <1>6

LEMMA AppendLine ==
    ASSUME NEW a \in Nat, NEW q \in Seq(1 .. a), Increasing(q)
    PROVE  /\ Append(q, a + 1) \in Seq(1 .. a + 1) /\ Increasing(Append(q, a + 1))
           /\ Items(Append(q, a + 1)) = Items(q) \cup {a + 1}
           /\ q \in Seq(1 .. a + 1) /\ q \in Seq(Nat)
<1> DEFINE r == Append(q, a + 1)
<1>1. q \in Seq(1 .. a + 1) /\ q \in Seq(Nat) /\ \A n \in 1 .. Len(q) : q[n] < a + 1
  OBVIOUS
<1>2. /\ r \in Seq(1 .. a + 1) /\ Len(r) = Len(q) + 1 /\ DOMAIN r = 1 .. Len(q) + 1
      /\ r[Len(q) + 1] = a + 1 /\ \A n \in 1 .. Len(q) : r[n] = q[n]
      /\ Len(q) \in Nat /\ DOMAIN q = 1 .. Len(q)
  BY <1>1
<1> HIDE DEF r
<1>3. Increasing(r)
  <2> SUFFICES ASSUME NEW m \in 1 .. Len(q) + 1, NEW n \in 1 .. Len(q) + 1, m < n
               PROVE  r[m] < r[n]
    BY <1>2 DEF Increasing
  <2>1. m \in 1 .. Len(q) /\ (n \in 1 .. Len(q) \/ n = Len(q) + 1)
    <3> DEFINE l == Len(q)
    <3>1. l \in Nat /\ m \in 1 .. l + 1 /\ n \in 1 .. l + 1
      BY <1>2
    <3> HIDE DEF l
    <3>2. m \in 1 .. l /\ (n \in 1 .. l \/ n = l + 1)
      BY <3>1
    <3> QED BY <3>2 DEF l
  <2> QED BY <1>1, <1>2, <2>1 DEF Increasing
<1>4. Items(r) = Items(q) \cup {a + 1}
  <2>1. 1 .. Len(q) + 1 = (1 .. Len(q)) \cup {Len(q) + 1}
    BY <1>2
  <2> QED BY <1>2, <2>1 DEF Items
<1> QED BY <1>1, <1>2, <1>3, <1>4 DEF r

\* At the end of the text the lines collected are those EveryLineInItsEntry
\* asks for.
LEMMA BodyIs ==
    ASSUME ResumeText!ResumeAssumption, resume \in Seq(ResumeText!Lines),
           NEW k \in ResumeText!SectionKey
    PROVE  {i \in Body(k, Len(resume)) : resume[i] # "blank"} = ResumeText!LinesUnder(k)
<1>1. \A i \in 1 .. Len(resume) : resume[i] \in ResumeText!Lines
  OBVIOUS
<1>2. k \in ResumeText!Lines => k \in Headings
  BY DEF ResumeText!Lines, ResumeText!SectionKey, ResumeText!ResumeAssumption
<1>3. ASSUME NEW i \in 1 .. Len(resume), resume[i] \notin Headings
      PROVE  Under(k, i) <=>
                 \E h \in 1 .. i - 1 : resume[h] = k /\ \A j \in h + 1 .. i : resume[j] \notin Headings
  <2>1. resume[i] # k
    BY <1>1, <1>2, <1>3
  <2>2. 1 .. i = (1 .. i - 1) \cup {i}
    OBVIOUS
  <2> QED BY <2>1, <2>2 DEF Under
<1>4. DOMAIN resume = 1 .. Len(resume)
  OBVIOUS
<1> QED BY <1>3, <1>4 DEF Body, ResumeText!LinesUnder

\* The skills in the lines of S, those of any length.
SkillsOf(S) == UNION {Items(ResumeText!SkillsIn(resume[i])) : i \in S}

\* What is collected up to line a: of a section the lines under its headings,
\* and the skills in those under theirs.
Collected(b, a) ==
    /\ b = [k \in ResumeText!SectionKey |-> b[k]]
    /\ \A k \in ResumeText!SectionKey \ {"skills"} :
          b[k] \in Seq(1 .. a) /\ Increasing(b[k]) /\ Items(b[k]) = Body(k, a)
    /\ b["skills"] \in Seq(SkillName)
    /\ Items(b["skills"]) = SkillsOf(Body("skills", a))

\* The entries made of what is collected are in order and lose only what is
\* beyond the limit.
ResumeInv ==
    /\ resume \in Seq(ResumeText!Lines)
    /\ resumePc = "collect" =>
          /\ at \in 0 .. Len(resume) /\ current \in Headings \cup {"none"}
          /\ \A k \in ResumeText!SectionKey : Under(k, at) <=> k = current
          /\ Collected(buckets, at)
    /\ resumePc = "merge" =>
          /\ \A k \in ResumeText!SectionKey \ {"skills"} :
                SectionKept(parsed[k], ResumeText!LinesUnder(k))
          /\ SkillsKept(parsed["skills"], ResumeText!SkillsUnder)
    /\ ResumeText!EveryLineInItsEntry

\* The skills of the next line are added after those so far.
LEMMA SkillsOfLine ==
    ASSUME ResumeText!ResumeAssumption, resume \in Seq(ResumeText!Lines),
           NEW i \in 1 .. Len(resume), resume[i] \notin Headings,
           NEW q \in Seq(SkillName), NEW S, Items(q) = SkillsOf(S)
    PROVE  /\ q \o ResumeText!SkillsIn(resume[i]) \in Seq(SkillName)
           /\ Items(q \o ResumeText!SkillsIn(resume[i])) = SkillsOf(S \cup {i})
<1> DEFINE r == ResumeText!SkillsIn(resume[i])
<1>1. r \in Seq(SkillName)
  <2>1. resume[i] = "blank" \/ resume[i] \in Line
    BY DEF ResumeText!Lines
  <2> QED BY <2>1 DEF ResumeText!SkillsIn, ResumeText!ResumeAssumption
<1>2. SkillsOf(S \cup {i}) = SkillsOf(S) \cup Items(r)
  BY DEF SkillsOf
<1> HIDE DEF r
<1>3. q \o r \in Seq(SkillName) /\ Items(q \o r) = Items(q) \cup Items(r)
  BY <1>1, ItemsOfBoth
<1> QED BY <1>2, <1>3 DEF r

LEMMA ResumeCollect ==
    ASSUME ResumeText!ResumeAssumption, ResumeInv,
           ResumeText!ReadHeading \/ ResumeText!ReadLine
    PROVE  ResumeInv'
<1>1. /\ resumePc = "collect" /\ resume' = resume /\ resumePc' = "collect" /\ at' = at + 1
      /\ at \in 0 .. Len(resume) - 1 /\ resume \in Seq(ResumeText!Lines) /\ at \in Nat
      /\ at + 1 \in 0 .. Len(resume)
  <2>1. ResumeText!Reading /\ resume' = resume /\ resumePc' = resumePc /\ at' = at + 1
    BY Zenon DEF ResumeText!ReadHeading, ResumeText!ReadLine
  <2> QED BY <2>1 DEF ResumeInv, ResumeText!Reading
<1>2. /\ \A k \in ResumeText!SectionKey : Under(k, at) <=> k = current
      /\ current \in Headings \cup {"none"}
      /\ Collected(buckets, at)
  BY <1>1 DEF ResumeInv
<1>3. /\ Headings \subseteq ResumeText!SectionKey /\ "none" \notin ResumeText!SectionKey
      /\ "skills" \in ResumeText!SectionKey
  BY DEF ResumeText!ResumeAssumption, ResumeText!SectionKey
<1>4. ASSUME NEW k \in ResumeText!SectionKey \ {"skills"}
      PROVE  /\ buckets[k] \in Seq(1 .. at + 1)
             /\ Append(buckets[k], at + 1) \in Seq(1 .. at + 1)
             /\ Increasing(buckets[k]) /\ Increasing(Append(buckets[k], at + 1))
             /\ Items(buckets[k]) = Body(k, at)
             /\ Items(Append(buckets[k], at + 1)) = Body(k, at) \cup {at + 1}
  BY <1>1, <1>2, AppendLine DEF Collected
<1>5. ASSUME ResumeText!ReadHeading
      PROVE  /\ current' \in Headings \cup {"none"}
             /\ \A k \in ResumeText!SectionKey : Under(k, at + 1) <=> k = current'
             /\ Collected(buckets', at + 1)
  <2>1. current' = resume[at + 1] /\ resume[at + 1] \in Headings /\ buckets' = buckets
    BY <1>5 DEF ResumeText!ReadHeading
  <2>2. \A k \in ResumeText!SectionKey :
           (Under(k, at + 1) <=> k = resume[at + 1]) /\ Body(k, at + 1) = Body(k, at)
    BY <1>1, <2>1, OneMoreLine
  <2>3. Collected(buckets, at + 1)
    BY <1>2, <1>3, <1>4, <2>2 DEF Collected
  <2> QED BY <2>1, <2>2, <2>3
<1>6. ASSUME ResumeText!ReadLine
      PROVE  /\ current' \in Headings \cup {"none"}
             /\ \A k \in ResumeText!SectionKey : Under(k, at + 1) <=> k = current'
             /\ Collected(buckets', at + 1)
  <2> DEFINE skills == buckets["skills"] \o ResumeText!SkillsIn(resume[at + 1])
  <2>1. /\ current' = current /\ resume[at + 1] \notin Headings
        /\ buckets' = CASE current = "none" -> buckets
                        [] current = "skills" -> [buckets EXCEPT !["skills"] = skills]
                        [] OTHER -> [buckets EXCEPT ![current] = Append(@, at + 1)]
    BY <1>6 DEF ResumeText!ReadLine
  <2>2. \A k \in ResumeText!SectionKey :
           /\ Under(k, at + 1) <=> Under(k, at)
           /\ Under(k, at) => Body(k, at + 1) = Body(k, at) \cup {at + 1}
           /\ ~Under(k, at) => Body(k, at + 1) = Body(k, at)
    BY <1>1, <2>1, OneMoreLine
  <2>3. /\ skills \in Seq(SkillName)
        /\ Items(skills) = SkillsOf(Body("skills", at) \cup {at + 1})
    <3>1. at + 1 \in 1 .. Len(resume)
      BY <1>1
    <3> QED BY <1>1, <1>2, <2>1, <3>1, SkillsOfLine DEF Collected
  <2> HIDE DEF skills
  <2>4. /\ buckets' = [k \in ResumeText!SectionKey |-> buckets'[k]]
        /\ \A k \in ResumeText!SectionKey \ {"skills"} :
              buckets'[k] = IF k = current THEN Append(buckets[k], at + 1) ELSE buckets[k]
        /\ buckets'["skills"] = IF current = "skills" THEN skills ELSE buckets["skills"]
    <3>1. buckets = [k \in ResumeText!SectionKey |-> buckets[k]]
      BY <1>2 DEF Collected
    <3>2. CASE current = "none"
      BY <1>3, <2>1, <3>1, <3>2
    <3>3. CASE current = "skills"
      BY <1>3, <2>1, <3>1, <3>3
    <3>4. CASE current \in ResumeText!SectionKey \ {"skills"}
      BY <1>3, <2>1, <3>1, <3>4
    <3> QED BY <1>2, <1>3, <3>2, <3>3, <3>4
  <2>5. ASSUME NEW k \in ResumeText!SectionKey \ {"skills"}
        PROVE  /\ buckets'[k] \in Seq(1 .. at + 1) /\ Increasing(buckets'[k])
               /\ Items(buckets'[k]) = Body(k, at + 1)
    <3>1. CASE k = current
      BY <1>2, <1>4, <2>2, <2>4, <3>1
    <3>2. CASE k # current
      BY <1>2, <1>4, <2>2, <2>4, <3>2
    <3> QED BY <3>1, <3>2
  <2>6. buckets'["skills"] \in Seq(SkillName)
        /\ Items(buckets'["skills"]) = SkillsOf(Body("skills", at + 1))
    <3>1. buckets["skills"] \in Seq(SkillName)
          /\ Items(buckets["skills"]) = SkillsOf(Body("skills", at))
      BY <1>2 DEF Collected
    <3> QED BY <1>2, <1>3, <2>2, <2>3, <2>4, <3>1
  <2>7. Collected(buckets', at + 1)
    BY <2>4, <2>5, <2>6 DEF Collected
  <2> QED BY <1>2, <2>1, <2>2, <2>7
<1>7. /\ current' \in Headings \cup {"none"}
      /\ \A k \in ResumeText!SectionKey : Under(k, at + 1) <=> k = current'
      /\ Collected(buckets', at + 1)
  BY <1>5, <1>6
<1>8. ResumeText!EveryLineInItsEntry'
  BY <1>1 DEF ResumeText!EveryLineInItsEntry
<1>9. Collected(buckets, at)'
  BY <1>1, <1>7 DEF Collected, SkillsOf, Body, Under
<1> QED BY <1>1, <1>7, <1>8, <1>9 DEF ResumeInv, Under

\* The skills in the lines collected are those EveryLineInItsEntry asks for.
LEMMA SkillsOfBody ==
    ASSUME ResumeText!ResumeAssumption, resume \in Seq(ResumeText!Lines)
    PROVE  SkillsOf(Body("skills", Len(resume))) \ Odd = ResumeText!SkillsUnder
<1> DEFINE B == Body("skills", Len(resume))
           L == ResumeText!LinesUnder("skills")
<1>1. {i \in B : resume[i] # "blank"} = L
  <2>1. "skills" \in ResumeText!SectionKey
    BY DEF ResumeText!SectionKey
  <2> QED BY <2>1, BodyIs, Zenon
<1> HIDE DEF B, L
<1>2. Items(<<>>) = {}
  BY DEF Items
<1>3. \A i \in B : resume[i] = "blank" => Items(ResumeText!SkillsIn(resume[i])) = {}
  BY <1>2 DEF ResumeText!SkillsIn
<1>4. \A i \in L : Items(ResumeText!SkillsIn(resume[i])) = ResumeText!ToSet(Pieces[resume[i]])
  BY <1>1 DEF ResumeText!SkillsIn, Items, ResumeText!ToSet
<1>5. SkillsOf(B) = UNION {ResumeText!ToSet(Pieces[resume[i]]) : i \in L}
  BY <1>1, <1>3, <1>4 DEF SkillsOf
<1> QED BY <1>5 DEF B, L, ResumeText!SkillsUnder

LEMMA ResumeParse ==
    ASSUME ResumeText!ResumeAssumption, ResumeInv, ResumeText!ParseSections
    PROVE  ResumeInv'
<1>1. /\ resumePc = "collect" /\ at = Len(resume) /\ resume' = resume /\ resumePc' = "merge"
      /\ resume \in Seq(ResumeText!Lines)
      /\ parsed' = [k \in ResumeText!SectionKey |->
                        IF k = "skills" THEN ResumeText!ParseSkillEntries(buckets[k])
                        ELSE ResumeText!ParseEntries(k, buckets[k])]
  BY DEF ResumeInv, ResumeText!ParseSections
<1>2. Collected(buckets, at)
  BY <1>1 DEF ResumeInv
<1>3. ASSUME NEW k \in ResumeText!SectionKey \ {"skills"}
      PROVE  SectionKept(parsed'[k], ResumeText!LinesUnder(k))
  <2>1. /\ buckets[k] \in Seq(1 .. at) /\ Increasing(buckets[k])
        /\ Items(buckets[k]) = Body(k, Len(resume))
    BY <1>1, <1>2 DEF Collected
  <2>2. buckets[k] \in Seq(Nat)
    BY <1>1, <2>1
  <2>3. {i \in Items(buckets[k]) : resume[i] # "blank"} = ResumeText!LinesUnder(k)
    BY <1>1, <2>1, BodyIs
  <2>4. SectionKept(ResumeText!ParseEntries(k, buckets[k]),
                    {i \in Items(buckets[k]) : resume[i] # "blank"})
    BY <2>1, <2>2, ParsedIs, Zenon
  <2>5. parsed'[k] = ResumeText!ParseEntries(k, buckets[k])
    BY <1>1
  <2> QED BY <2>3, <2>4, <2>5, Zenon
<1>4. SkillsKept(parsed'["skills"], ResumeText!SkillsUnder)
  <2>1. "skills" \in ResumeText!SectionKey /\ MaxSkills \in Nat
    BY DEF ResumeText!SectionKey, ResumeText!ResumeAssumption
  <2>2. parsed'["skills"] = ResumeText!ParseSkillEntries(buckets["skills"])
    BY <1>1, <2>1
  <2>3. buckets["skills"] \in Seq(SkillName)
        /\ Items(buckets["skills"]) \ Odd = ResumeText!SkillsUnder
    BY <1>1, <1>2, SkillsOfBody DEF Collected
  <2>4. SkillsKept(ResumeText!ParseSkillEntries(buckets["skills"]),
                   Items(buckets["skills"]) \ Odd)
    BY <2>1, <2>3, SkillsAre, Zenon
  <2> QED BY <2>2, <2>3, <2>4, Zenon
<1>5. /\ \A k : ResumeText!LinesUnder(k)' = ResumeText!LinesUnder(k)
      /\ ResumeText!SkillsUnder' = ResumeText!SkillsUnder
  BY <1>1 DEF ResumeText!LinesUnder, ResumeText!SkillsUnder
<1>6. ResumeText!EveryLineInItsEntry'
  <2>1. ASSUME NEW k \in ResumeText!SectionKey \ {"skills"}
        PROVE  /\ ResumeText!InTextOrder(parsed'[k])
               /\ \A n \in DOMAIN parsed'[k] : parsed'[k][n].lines # <<>>
               /\ ResumeText!LinesOf(parsed'[k]) \subseteq ResumeText!LinesUnder(k)'
               /\ \A i \in ResumeText!LinesOf(parsed'[k]),
                     j \in ResumeText!LinesUnder(k)' \ ResumeText!LinesOf(parsed'[k]) : i < j
               /\ Len(parsed'[k]) < MaxEntries =>
                     ResumeText!LinesOf(parsed'[k]) = ResumeText!LinesUnder(k)'
    <3>1. SectionKept(parsed'[k], ResumeText!LinesUnder(k))
      BY <1>3
    <3>2. ResumeText!LinesUnder(k)' = ResumeText!LinesUnder(k)
      BY <1>5
    <3> QED BY <3>1, <3>2, Zenon DEF SectionKept
  <2>2. /\ ResumeText!ToSet(parsed'["skills"]) \subseteq ResumeText!SkillsUnder'
        /\ Len(parsed'["skills"]) < MaxSkills =>
              ResumeText!ToSet(parsed'["skills"]) = ResumeText!SkillsUnder'
    BY <1>4, <1>5 DEF SkillsKept, Items, ResumeText!ToSet
  <2>3. resumePc' = "merge" /\ resumePc' # "done"
    BY <1>1
  <2> QED BY <2>1, <2>2, <2>3, Zenon DEF ResumeText!EveryLineInItsEntry
<1>7. /\ \A k \in ResumeText!SectionKey \ {"skills"} :
            SectionKept(parsed[k], ResumeText!LinesUnder(k))'
      /\ SkillsKept(parsed["skills"], ResumeText!SkillsUnder)'
  <2>1. \A k \in ResumeText!SectionKey \ {"skills"} :
           SectionKept(parsed'[k], ResumeText!LinesUnder(k)')
    BY <1>3, <1>5, Zenon
  <2>2. SkillsKept(parsed["skills"], ResumeText!SkillsUnder)'
    BY <1>4, <1>5 DEF SkillsKept
  <2>3. \A k \in ResumeText!SectionKey \ {"skills"} :
            SectionKept(parsed[k], ResumeText!LinesUnder(k))'
    BY <2>1 DEF SectionKept
  <2> QED BY <2>2, <2>3
<1> QED BY <1>1, <1>6, <1>7 DEF ResumeInv

\* A step that changes neither text nor entries keeps what is said of them.
LEMMA SameLines ==
    ASSUME ResumeText!EveryLineInItsEntry, resume' = resume, resumePc' = resumePc,
           parsed' = parsed, sections' = sections
    PROVE  ResumeText!EveryLineInItsEntry'
<1>1. /\ \A k : ResumeText!LinesUnder(k)' = ResumeText!LinesUnder(k)
      /\ ResumeText!SkillsUnder' = ResumeText!SkillsUnder
  BY DEF ResumeText!LinesUnder, ResumeText!SkillsUnder
<1> QED BY <1>1 DEF ResumeText!EveryLineInItsEntry

\* The end of an import, which has appended to what was found at most.
LEMMA ResumeEnd ==
    ASSUME ResumeInv, resumePc = "merge", resumePc' = "done",
           resume' = resume, parsed' = parsed,
           \A k \in ResumeText!SectionKey :
               /\ \E V, W : parsed[k] \in Seq(V) /\ sections'[k] \in Seq(W)
               /\ Len(parsed[k]) <= Len(sections'[k])
               /\ \A n \in 1 .. Len(parsed[k]) : sections'[k][n] = parsed[k][n]
    PROVE  ResumeInv'
<1>1. \A k \in ResumeText!SectionKey : ResumeText!IsPrefix(parsed'[k], sections'[k])
  BY PrefixIs
<1>2. ResumeText!EveryLineInItsEntry'
  BY <1>1, Zenon DEF ResumeText!EveryLineInItsEntry
<1> QED BY <1>2 DEF ResumeInv

LEMMA ResumeMerge ==
    ASSUME ResumeText!ResumeAssumption, ResumeInv, NEW reply \in Findings,
           ResumeText!MergeSections(reply)
    PROVE  ResumeInv'
<1>1. /\ resumePc = "merge" /\ resumePc' = "done" /\ resume' = resume /\ parsed' = parsed
      /\ sections' = [k \in ResumeText!SectionKey |->
             IF k = "skills"
             THEN ResumeText!FirstOf(ResumeText!Distinct(parsed[k] \o reply[k]), MaxSkills)
             ELSE IF parsed[k] # <<>> THEN parsed[k] ELSE ResumeText!FirstOf(reply[k], MaxEntries)]
  BY DEF ResumeText!MergeSections
<1>2. /\ "skills" \in ResumeText!SectionKey /\ MaxSkills \in Nat /\ MaxEntries \in Nat
      /\ reply["skills"] \in Seq(SkillName)
      /\ \A k \in ResumeText!SectionKey \ {"skills"} : reply[k] \in Seq(ResumeText!Entry)
  BY DEF ResumeText!ResumeAssumption, ResumeText!SectionKey
<1> DEFINE p == parsed["skills"]
           d == ResumeText!Distinct(p \o reply["skills"])
           s == ResumeText!FirstOf(d, MaxSkills)
<1>3. p \in Seq(SkillName) /\ Len(p) <= MaxSkills /\ NoRepeat(p)
  BY <1>1 DEF ResumeInv, SkillsKept
<1> HIDE DEF p
<1>4. /\ Len(p) <= Len(d) /\ \A n \in 1 .. Len(p) : d[n] = p[n]
  BY <1>2, <1>3, DistinctKeeps
<1>5. d \in Seq(SkillName)
  <2>1. p \o reply["skills"] \in Seq(SkillName)
    BY <1>2, <1>3
  <2> QED BY <2>1, DistinctIs, Zenon
<1> HIDE DEF d
<1>6. /\ s \in Seq(SkillName) /\ Len(s) <= MaxSkills
      /\ \A n \in 1 .. Len(s) : s[n] = d[n]
      /\ \A n \in 1 .. Len(d) : n <= MaxSkills => n <= Len(s)
  BY <1>2, <1>5, FirstItems, Zenon
<1> HIDE DEF s
<1>7. /\ Len(p) <= Len(s) /\ \A n \in 1 .. Len(p) : s[n] = p[n]
  <2>0. Len(p) \in Nat /\ Len(d) \in Nat /\ Len(s) \in Nat
    BY <1>3, <1>5, <1>6
  <2>1. \A n \in 1 .. Len(p) : n \in 1 .. Len(d) /\ n <= MaxSkills
    BY <1>2, <1>3, <1>4, <2>0
  <2>2. \A n \in 1 .. Len(p) : n \in 1 .. Len(s)
    BY <1>6, <2>0, <2>1
  <2>3. Len(p) = 0 \/ Len(p) \in 1 .. Len(p)
    BY <2>0
  <2>4. Len(p) <= Len(s)
    BY <2>0, <2>2, <2>3
  <2>5. \A n \in 1 .. Len(p) : s[n] = p[n]
    BY <1>4, <1>6, <2>2
  <2> QED BY <2>4, <2>5
<1>8. sections'["skills"] = s
  BY <1>1, <1>2 DEF s, d, p
<1>9. ASSUME NEW k \in ResumeText!SectionKey
      PROVE  /\ \E V, W : parsed[k] \in Seq(V) /\ sections'[k] \in Seq(W)
             /\ Len(parsed[k]) <= Len(sections'[k])
             /\ \A n \in 1 .. Len(parsed[k]) : sections'[k][n] = parsed[k][n]
  <2>1. CASE k = "skills"
    BY <1>3, <1>6, <1>7, <1>8, <2>1 DEF p
  <2>2. CASE k # "skills"
    <3> DEFINE q == parsed[k]
               r == sections'[k]
               f == ResumeText!FirstOf(reply[k], MaxEntries)
    <3>1. q \in Seq(ResumeText!Entry)
      BY <1>1, <2>2 DEF ResumeInv, SectionKept
    <3>2. f \in Seq(ResumeText!Entry)
      BY <1>2, <2>2, FirstItems
    <3>3. r = IF q # <<>> THEN q ELSE f
      BY <1>1, <2>2
    <3> HIDE DEF q, r, f
    <3>4. r \in Seq(ResumeText!Entry) /\ Len(q) <= Len(r) /\ \A n \in 1 .. Len(q) : r[n] = q[n]
      BY <3>1, <3>2, <3>3
    <3> QED BY <3>1, <3>4 DEF q, r
  <2> QED BY <2>1, <2>2
<1> QED BY <1>1, <1>9, ResumeEnd

LEMMA ResumeKeep ==
    ASSUME ResumeText!ResumeAssumption, ResumeInv, ResumeText!KeepParsed PROVE ResumeInv'
<1>1. /\ resumePc = "merge" /\ resumePc' = "done" /\ resume' = resume /\ parsed' = parsed
      /\ sections' = parsed
  BY DEF ResumeText!KeepParsed
<1>2. \A k \in ResumeText!SectionKey : \E V : parsed[k] \in Seq(V)
  BY <1>1 DEF ResumeInv, SectionKept, SkillsKept
<1>3. ASSUME NEW k \in ResumeText!SectionKey
      PROVE  /\ \E V, W : parsed[k] \in Seq(V) /\ sections'[k] \in Seq(W)
             /\ Len(parsed[k]) <= Len(sections'[k])
             /\ \A n \in 1 .. Len(parsed[k]) : sections'[k][n] = parsed[k][n]
  <2>1. PICK V : parsed[k] \in Seq(V)
    BY <1>2
  <2>2. Len(parsed[k]) \in Nat
    BY <2>1
  <2> QED BY <1>1, <2>1, <2>2
<1> QED BY <1>1, <1>3, ResumeEnd

LEMMA ResumeSafe == ResumeText!ResumeAssumption => (ResumeText!Spec => []ResumeInv)
<1> SUFFICES ASSUME ResumeText!ResumeAssumption PROVE ResumeText!Spec => []ResumeInv
  OBVIOUS
<1>1. ResumeText!Init => ResumeInv
  <2> SUFFICES ASSUME ResumeText!Init PROVE ResumeInv
    OBVIOUS
  <2>1. resumePc = "collect" /\ at = 0 /\ current = "none" /\ MaxLines \in Nat
        /\ buckets = [k \in ResumeText!SectionKey |-> <<>>]
    BY DEF ResumeText!Init, ResumeText!ResumeAssumption
  <2>2. resume \in Seq(ResumeText!Lines)
    <3>1. PICK n \in 1 .. MaxLines : resume \in [1 .. n -> ResumeText!Lines]
      BY DEF ResumeText!Init
    <3> QED BY <2>1, <3>1
  <2>3. /\ 0 \in 0 .. Len(resume) /\ 1 .. 0 = {}
    BY <2>2
  <2>4. \A k \in ResumeText!SectionKey : ~Under(k, 0) /\ k # "none" /\ Body(k, 0) = {}
    BY <2>3 DEF Under, Body, ResumeText!SectionKey
  <2>5. Collected(buckets, 0)
    <3>1. \A k \in ResumeText!SectionKey :
             buckets[k] \in Seq(1 .. 0) /\ Increasing(buckets[k]) /\ Items(buckets[k]) = {}
      BY <2>1 DEF Increasing, Items
    <3>2. "skills" \in ResumeText!SectionKey /\ buckets["skills"] \in Seq(SkillName)
      BY <2>1 DEF ResumeText!SectionKey
    <3>3. SkillsOf(Body("skills", 0)) = {}
      BY <2>4, <3>2 DEF SkillsOf
    <3>4. buckets = [k \in ResumeText!SectionKey |-> buckets[k]]
      BY <2>1
    <3> QED BY <2>4, <3>1, <3>2, <3>3, <3>4 DEF Collected
  <2>6. ResumeText!EveryLineInItsEntry
    BY <2>1 DEF ResumeText!EveryLineInItsEntry
  <2> QED BY <2>1, <2>2, <2>3, <2>4, <2>5, <2>6 DEF ResumeInv
<1>2. ResumeInv /\ [ResumeText!Next]_(ResumeText!vars) => ResumeInv'
  <2> SUFFICES ASSUME ResumeInv, [ResumeText!Next]_(ResumeText!vars) PROVE ResumeInv'
    OBVIOUS
  <2>1. CASE UNCHANGED ResumeText!vars
    <3>1. /\ resume' = resume /\ resumePc' = resumePc /\ at' = at /\ current' = current
          /\ buckets' = buckets /\ parsed' = parsed /\ sections' = sections
      BY <2>1 DEF ResumeText!vars
    <3>2. /\ \A k : ResumeText!LinesUnder(k)' = ResumeText!LinesUnder(k)
          /\ ResumeText!SkillsUnder' = ResumeText!SkillsUnder
      BY <3>1 DEF ResumeText!LinesUnder, ResumeText!SkillsUnder
    <3>3. ResumeText!EveryLineInItsEntry'
      BY <3>1, <3>2, SameLines DEF ResumeInv
    <3>4. resumePc = "collect" => Collected(buckets, at)'
      BY <3>1 DEF ResumeInv, Collected, SkillsOf, Body, Under
    <3>5. resumePc = "merge" =>
              /\ \A k \in ResumeText!SectionKey \ {"skills"} :
                    SectionKept(parsed[k], ResumeText!LinesUnder(k))'
              /\ SkillsKept(parsed["skills"], ResumeText!SkillsUnder)'
      BY <3>1, <3>2 DEF ResumeInv, SectionKept, SkillsKept
    <3> QED BY <3>1, <3>3, <3>4, <3>5 DEF ResumeInv, Under
  <2> QED BY <2>1, ResumeCollect, ResumeParse, ResumeMerge, ResumeKeep DEF ResumeText!Next
<1> QED BY <1>1, <1>2, PTL DEF ResumeText!Spec

-----------------------------------------------------------------------------
(* The services. *)

LEMMA Assumptions ==
    /\ Accounts!AccountsAssumption /\ Avatars!AvatarsAssumption
    /\ Tracker!TrackerAssumption /\ Ats!AtsAssumption /\ Grammar!GrammarAssumption
    /\ BuiltInAi!BuiltInAiAssumption /\ ResumeText!ResumeAssumption
BY ServicesAssumption

\* Accounts, avatars, jobs and skills have the types of their columns, whatever
\* requests interleave.
THEOREM ServicesTypeCorrect == ServicesSpec => []ServicesTypeOK
<1>1. AccountsInv /\ AvatarsInv /\ TrackerInv => ServicesTypeOK
  BY DEF AccountsInv, AvatarsInv, TrackerInv, ServicesTypeOK
<1> QED BY <1>1, Assumptions, AccountsSpec, AvatarsSpec, TrackerSpec, AccountsSafe, AvatarsSafe,
           TrackerSafe, PTL

\* OAuthService.authenticate, alone: it is refused only for another identity,
\* and creates an account only for an identity that has none and an address
\* that is not stored in lower case (stored with capitals it is not found, and
\* gets a second account).
THEOREM SignInsAlone == ServicesSpec => AloneSignIn
BY Assumptions, AccountsSpec, AccountsAloneSpec, PTL DEF AloneSignIn

\* OAuthService.authenticate: the identity of an account is only replaced by
\* a sign-in that began before the account had one.
THEOREM IdentitiesKept == ServicesSpec => IdentityKept
BY Assumptions, AccountsSpec, AccountsKeptSpec, PTL DEF IdentityKept

\* AvatarStorageService: after a request that ran alone the file of the URL is
\* there, and no unlink that goes on behind it deletes it.
THEOREM AvatarsThere == ServicesSpec => []AvatarThere
<1>1. AvatarsInv => AvatarThere
  BY DEF AvatarsInv, AvatarSettled, AvatarThere, Avatars!AvatarThere
<1> QED BY <1>1, Assumptions, AvatarsSpec, AvatarsSafe, PTL

\* JobsService and SkillsService: a date once set stays, unless two requests
\* were about its row at once.
THEOREM FirstDatesKept == ServicesSpec => []FirstDateKept
<1>1. TrackerInv => FirstDateKept
  BY DEF TrackerInv, FirstDateKept
<1> QED BY <1>1, Assumptions, TrackerSpec, TrackerSafe, PTL

\* AtsService: no rounding and no weight makes a CV worse for a keyword more.
THEOREM KeywordsNeverLower == ServicesSpec => []MoreKeywordsNeverLower
<1>1. AtsInv => MoreKeywordsNeverLower
  BY Assumptions, AtsMonotone DEF MoreKeywordsNeverLower
<1> QED BY <1>1, Assumptions, AtsSpec, AtsSafe, PTL

\* Of the required keywords that are missing the first five are suggested,
\* however many suggestions the rules and the language model have.
THEOREM RequiredAreSuggested == ServicesSpec => []RequiredSuggested
<1>1. RequiredInv => RequiredSuggested
  BY DEF RequiredInv, RequiredSuggested
<1> QED BY <1>1, Assumptions, AtsSpec, RequiredSafe, PTL

\* GrammarService.detectLongSentences: whatever repeats in a text, the search
\* for a sentence ends where it is, and the score counts each issue once.
THEOREM LongSentencesAreMarked == ServicesSpec => []LongSentencesMarked
<1>1. GrammarInv => LongSentencesMarked
  BY Assumptions, GrammarMarked DEF LongSentencesMarked
<1> QED BY <1>1, Assumptions, GrammarSpec, GrammarSafe, PTL

\* BuiltInAiProvider: the first text never costs more than it brings, and a
\* full match lacks nothing.
THEOREM BuiltInScoresFair == ServicesSpec => []ScoresFair
<1>1. BuiltInInv => ScoresFair
  BY Assumptions, BuiltInFair DEF ScoresFair
<1> QED BY <1>1, Assumptions, BuiltInAiSpec, BuiltInSafe, PTL

\* CvFileImportService: whatever lines a resume has, those of a section are
\* divided among its entries, each once and in order; the skills are those of
\* fit length, each once; and what was found without a language model is kept
\* when one adds to it.
THEOREM EveryLineIsInItsEntry == ServicesSpec => []EveryLineInItsEntry
<1>1. ResumeInv => EveryLineInItsEntry
  BY DEF ResumeInv, EveryLineInItsEntry
<1> QED BY <1>1, Assumptions, ResumeTextSpec, ResumeSafe, PTL

=============================================================================
