-------------------------- MODULE CredentialsProofs --------------------------
(***************************************************************************)
(* Proofs about Credentials, for any number of requests, users, passwords, *)
(* reset rows and refresh tokens.                                          *)
(*                                                                         *)
(* A reset token is marked used after it was used, so what bounds its uses *)
(* is a count of what is still to come: while it is not marked, each use   *)
(* is a request about to mark it; once it is, only the requests that had   *)
(* matched it before can still use it.  Rows are bounded in the same way   *)
(* by the creates whose deleteMany is over, and changes of a password that *)
(* are late for a reset by the changes in flight when it was stored.       *)
(***************************************************************************)
EXTENDS Credentials, FiniteSetTheorems, TLAPS

\* Requests that have matched the row id and will set a password by it.
Setting(id) == {s \in Slot : pc[s] = "setByReset" /\ matched[s] = id}

\* Requests that have set a password by the row id and will mark it.
Marking(id) == {s \in Slot : pc[s] = "markUsed" /\ matched[s] = id}

\* Requests that have deleted the rows of u and will create one.
Creating(u) == {s \in Slot : pc[s] = "createToken" /\ who[s] = u}

\* Requests that will change the password of u and have given one from before the
\* last reset.
Overtaken(u) == {s \in Slot : /\ pc[s] = "setByChange" /\ who[s] = u
                              /\ stored[u] # {} /\ given[s] \notin stored[u]}

\* A request acts on a row of its own user, or on one that is gone.
MatchedInv ==
    \A s \in Slot :
        /\ pc[s] \in {"setByReset", "markUsed"} => matched[s] \in ResetId
        /\ pc[s] = "setByReset" => resets[matched[s]].user \in {who[s], Nobody}

Inv == TypeOK /\ MatchedInv

UsesInvOf(id) ==
    /\ resets[id] = NoRow => sets[id] = 0
    /\ resets[id] # NoRow /\ id \notin interrupted =>
          IF resets[id].used
              THEN sets[id] + Cardinality(Setting(id)) <= Cardinality(Slot)
              ELSE sets[id] <= Cardinality(Marking(id))

UsesInv == \A id \in ResetId : UsesInvOf(id)

RowsInv == \A u \in User : Cardinality(RowsOf(u)) + Cardinality(Creating(u)) <= Cardinality(Slot)

LateBound(u) == late[u] + Cardinality(Overtaken(u)) <= Cardinality(Slot) - 1

LateInv ==
    \A u \in User :
        /\ stored[u] # {} => password[u] \in stored[u]
        /\ LateBound(u)

\* A step that changes no row but to remove or expire it.
RowsKept ==
    \A id \in ResetId :
        \/ /\ resets'[id] # NoRow /\ resets[id] # NoRow
           /\ resets'[id].user = resets[id].user
           /\ resets'[id].used = resets[id].used
           /\ id \notin interrupted' => id \notin interrupted /\ sets'[id] = sets[id]
        \/ resets'[id] = NoRow /\ sets'[id] \in {0, sets[id]}
           /\ (resets[id] # NoRow => sets'[id] = 0)

\* A step that matches no row, and one that gives up no mark.
NoneMatches ==
    \A s \in Slot :
        pc'[s] = "setByReset" =>
            pc[s] = "setByReset" /\ matched'[s] = matched[s] /\ who'[s] = who[s]

MarksKept ==
    \A s \in Slot :
        pc[s] = "markUsed" /\ matched[s] \in ResetId \ interrupted'
        /\ resets'[matched[s]] # NoRow => pc'[s] = "markUsed" /\ matched'[s] = matched[s]

\* A step that is not a deleteMany for a new token.
NoneDrops ==
    \A s \in Slot : pc'[s] = "createToken" => pc[s] = "createToken" /\ who'[s] = who[s]

-----------------------------------------------------------------------------
(* Finite sets. *)

\* Cardinalities of sets of slots.
LEMMA SubsetsOfSlot ==
    ASSUME NEW A \in SUBSET Slot
    PROVE  /\ Cardinality(A) \in Nat /\ Cardinality(Slot) \in Nat
           /\ Cardinality(A) <= Cardinality(Slot)
           /\ \A B \in SUBSET A :
                 /\ Cardinality(B) \in Nat /\ Cardinality(B) <= Cardinality(A)
                 /\ B # A => Cardinality(B) + 1 <= Cardinality(A)
           /\ \A B \in SUBSET Slot :
                 A \cap B = {} => /\ Cardinality(B) \in Nat
                                  /\ Cardinality(A) + Cardinality(B) <= Cardinality(Slot)
<1>1. IsFiniteSet(Slot) /\ IsFiniteSet(A)
  BY CredentialsAssumption, FS_Subset
<1>2. Cardinality(A) \in Nat /\ Cardinality(Slot) \in Nat /\ Cardinality(A) <= Cardinality(Slot)
  BY <1>1, FS_Subset, FS_CardinalityType
<1>3. ASSUME NEW B \in SUBSET A
      PROVE  /\ Cardinality(B) \in Nat /\ Cardinality(B) <= Cardinality(A)
             /\ B # A => Cardinality(B) + 1 <= Cardinality(A)
  <2>1. Cardinality(B) \in Nat /\ Cardinality(B) <= Cardinality(A)
        /\ (Cardinality(B) = Cardinality(A) => B = A)
    BY <1>1, FS_Subset, FS_CardinalityType
  <2> QED BY <1>2, <2>1
<1>4. ASSUME NEW B \in SUBSET Slot, A \cap B = {}
      PROVE  /\ Cardinality(B) \in Nat
             /\ Cardinality(A) + Cardinality(B) <= Cardinality(Slot)
  <2>1. IsFiniteSet(B) /\ Cardinality(B) \in Nat
    BY <1>1, FS_Subset, FS_CardinalityType
  <2>2. /\ IsFiniteSet(A \cup B) /\ Cardinality(A \cap B) = 0
        /\ Cardinality(A \cup B) = Cardinality(A) + Cardinality(B) - Cardinality(A \cap B)
    BY <1>1, <1>4, <2>1, FS_Union, FS_EmptySet
  <2>3. A \cup B \in SUBSET Slot
    OBVIOUS
  <2>4. Cardinality(A \cup B) \in Nat /\ Cardinality(A \cup B) <= Cardinality(Slot)
    BY <1>1, <2>3, FS_Subset, FS_CardinalityType
  <2> QED BY <1>2, <2>1, <2>2, <2>4
<1> QED BY <1>2, <1>3, <1>4

\* Cardinalities of sets of rows.
LEMMA SubsetsOfResetId ==
    ASSUME NEW T \in SUBSET ResetId
    PROVE  /\ Cardinality(T) \in Nat
           /\ T = {} => Cardinality(T) = 0
           /\ \A U \in SUBSET T : Cardinality(U) \in Nat /\ Cardinality(U) <= Cardinality(T)
           /\ \A id \in ResetId, U \in SUBSET ResetId :
                  U \subseteq T \cup {id} =>
                      Cardinality(U) \in Nat /\ Cardinality(U) <= Cardinality(T) + 1
<1>1. IsFiniteSet(ResetId) /\ IsFiniteSet(T)
  BY CredentialsAssumption, FS_Subset
<1>2. Cardinality(T) \in Nat /\ (T = {} => Cardinality(T) = 0)
  BY <1>1, FS_CardinalityType, FS_EmptySet
<1>3. \A U \in SUBSET T : Cardinality(U) \in Nat /\ Cardinality(U) <= Cardinality(T)
  BY <1>1, FS_Subset, FS_CardinalityType
<1>4. ASSUME NEW id \in ResetId, NEW U \in SUBSET ResetId, U \subseteq T \cup {id}
      PROVE  Cardinality(U) \in Nat /\ Cardinality(U) <= Cardinality(T) + 1
  <2>1. /\ IsFiniteSet(T \cup {id})
        /\ Cardinality(T \cup {id}) = IF id \in T THEN Cardinality(T) ELSE Cardinality(T) + 1
    BY <1>1, FS_AddElement
  <2>2. /\ Cardinality(U) \in Nat /\ Cardinality(T \cup {id}) \in Nat
        /\ Cardinality(U) <= Cardinality(T \cup {id})
    BY <1>4, <2>1, FS_Subset, FS_CardinalityType
  <2> QED BY <1>2, <2>1, <2>2
<1> QED BY <1>2, <1>3, <1>4

-----------------------------------------------------------------------------
(* Type correctness, and whose rows requests act on. *)

LEMMA Constants == Nobody \notin User /\ Nobody \notin ResetId /\ NoPassword \notin Password
BY CredentialsAssumption

\* The rows of one user, and rewriting one of them.
LEMMA RowType ==
    ASSUME TypeOK, NEW id \in ResetId
    PROVE  /\ resets[id] \in ResetRow /\ NoRow \in ResetRow
           /\ NoRow.user = Nobody /\ ~NoRow.used
           /\ resets[id].user \in User \cup {Nobody}
           /\ resets[id].used \in BOOLEAN
           /\ [resets[id] EXCEPT !.used = TRUE] \in ResetRow \ {NoRow}
           /\ [resets[id] EXCEPT !.used = TRUE].user = resets[id].user
           /\ [resets[id] EXCEPT !.used = TRUE].used
           /\ [resets[id] EXCEPT !.expired = TRUE] \in ResetRow \ {NoRow}
           /\ [resets[id] EXCEPT !.expired = TRUE].user = resets[id].user
           /\ [resets[id] EXCEPT !.expired = TRUE].used = resets[id].used
           /\ \A u \in User : /\ [NoRow EXCEPT !.user = u] \in ResetRow \ {NoRow}
                              /\ [NoRow EXCEPT !.user = u].user = u
                              /\ ~[NoRow EXCEPT !.user = u].used
<1>1. PICK r \in ResetRow : r = resets[id]
  BY DEF TypeOK
<1>2. /\ r.user \in User \cup {Nobody} /\ r.used \in BOOLEAN
      /\ [r EXCEPT !.used = TRUE] \in ResetRow \ {NoRow}
      /\ [r EXCEPT !.used = TRUE].user = r.user
      /\ [r EXCEPT !.used = TRUE].used
      /\ [r EXCEPT !.expired = TRUE] \in ResetRow \ {NoRow}
      /\ [r EXCEPT !.expired = TRUE].user = r.user
      /\ [r EXCEPT !.expired = TRUE].used = r.used
  BY DEF ResetRow, NoRow
<1>3. NoRow \in ResetRow /\ NoRow.user = Nobody /\ ~NoRow.used
  BY DEF ResetRow, NoRow
<1>4. \A u \in User : /\ [NoRow EXCEPT !.user = u] \in ResetRow \ {NoRow}
                      /\ [NoRow EXCEPT !.user = u].user = u
                      /\ ~[NoRow EXCEPT !.user = u].used
  BY Constants DEF ResetRow, NoRow
<1> QED BY <1>1, <1>2, <1>3, <1>4

LEMMA InitInv == Init => Inv
<1>1. NoRow \in ResetRow
  BY DEF ResetRow, NoRow
<1> QED BY <1>1 DEF Init, Inv, TypeOK, MatchedInv

\* The arrival of a request that matches no row.
LEMMA StartInv ==
    ASSUME Inv, NEW s \in Slot, NEW u, NEW w \in Password \cup {NoPassword},
           NEW label \in {"issue", "dropTokens", "setByChange"},
           Start(s, label, u, w), UNCHANGED matched,
           given' \in [Slot -> Password \cup {NoPassword}]
    PROVE  Inv'
<1>1. TypeOK'
  BY Constants DEF Inv, TypeOK, Start, Goto, dbVars, historyVars
<1>2. MatchedInv'
  BY DEF Inv, TypeOK, MatchedInv, Start, Goto, dbVars
<1> QED BY <1>1, <1>2 DEF Inv

LEMMA ResetPasswordInv ==
    ASSUME Inv, NEW s \in Slot, NEW id \in ResetId, NEW w \in Password,
           ResetPassword(s, id, w)
    PROVE  Inv'
<1>1. TypeOK'
  BY Constants DEF Inv, TypeOK, ResetPassword, Start, Goto, dbVars, historyVars
<1>2. MatchedInv'
  BY DEF Inv, TypeOK, MatchedInv, ResetPassword, Start, Goto, dbVars
<1> QED BY <1>1, <1>2 DEF Inv

\* Deleting rows.
LEMMA DeleteRowsEffect ==
    ASSUME TypeOK, NEW gone \in SUBSET ResetId, DeleteRows(gone)
    PROVE  /\ resets' \in [ResetId -> ResetRow]
           /\ sets' \in [ResetId -> Nat]
           /\ interrupted' \subseteq ResetId
           /\ \A id \in ResetId : resets'[id] = IF id \in gone THEN NoRow ELSE resets[id]
           /\ \A id \in ResetId : sets'[id] = IF id \in gone THEN 0 ELSE sets[id]
           /\ interrupted' = interrupted \ gone
<1>1. NoRow \in ResetRow
  BY DEF ResetRow, NoRow
<1> QED BY <1>1 DEF TypeOK, DeleteRows

LEMMA RowsOfType == \A u : RowsOf(u) \in SUBSET ResetId
BY DEF RowsOf

\* The end of a request.
LEMMA FinishInv ==
    ASSUME Inv, NEW s \in Slot, Finish(s),
           exists' \subseteq User, refresh' \subseteq User,
           password' \in [User -> Password \cup {NoPassword}],
           owner' \in [Jwt -> User \cup {Nobody}], revoked' \subseteq Jwt,
           stored' \in [User -> SUBSET (Password \cup {NoPassword})], late' \in [User -> Nat],
           resets' \in [ResetId -> ResetRow], sets' \in [ResetId -> Nat],
           interrupted' \subseteq ResetId,
           \A t \in Slot \ {s} :
               pc[t] = "setByReset" => resets'[matched[t]].user \in {who[t], Nobody}
    PROVE  Inv'
<1>1. TypeOK'
  BY DEF Inv, TypeOK, Finish, Goto
<1>2. MatchedInv'
  BY DEF Inv, TypeOK, MatchedInv, Finish, Goto
<1> QED BY <1>1, <1>2 DEF Inv

\* Rows that are deleted or kept stay those of the requests that matched them.
LEMMA DeletedStillMatched ==
    ASSUME Inv, NEW gone \in SUBSET ResetId, DeleteRows(gone)
    PROVE  \A t \in Slot : pc[t] = "setByReset" => resets'[matched[t]].user \in {who[t], Nobody}
<1>1. NoRow.user = Nobody
  BY DEF NoRow
<1> QED BY <1>1, DeleteRowsEffect DEF Inv, MatchedInv

LEMMA InterruptType ==
    ASSUME TypeOK, NEW T \in SUBSET Slot, Interrupt(T)
    PROVE  sets' \in [ResetId -> Nat] /\ interrupted' \subseteq ResetId
BY DEF TypeOK, Interrupt

LEMMA StorePasswordType ==
    ASSUME TypeOK, NEW s \in Slot, StorePassword(s)
    PROVE  /\ password' \in [User -> Password \cup {NoPassword}]
           /\ revoked' \subseteq Jwt
           /\ UNCHANGED <<exists, refresh, resets, owner>>
BY DEF TypeOK, StorePassword

LEMMA NextInv == Inv /\ [Next]_vars => Inv'
<1> SUFFICES ASSUME Inv, [Next]_vars PROVE Inv'
  OBVIOUS
<1>0. TypeOK /\ MatchedInv
  BY DEF Inv
<1>1. ASSUME NEW s \in Slot, NEW u \in User, SignIn(s, u) \/ ResetOtpVerified(s, u)
      PROVE  Inv'
  BY <1>0, <1>1, StartInv DEF TypeOK, SignIn, ResetOtpVerified
<1>2. ASSUME NEW s \in Slot, NEW u \in User, NEW w \in Password, NEW c \in Password,
             Login(s, u, w) \/ ChangePassword(s, u, c, w)
      PROVE  Inv'
  <2>1. given' \in [Slot -> Password \cup {NoPassword}]
    BY <1>0, <1>2 DEF TypeOK, Login, ChangePassword
  <2> QED BY <1>2, <2>1, StartInv DEF Login, ChangePassword
<1>3. ASSUME NEW s \in Slot, NEW t \in Jwt, RefreshToken(s, t) PROVE Inv'
  BY <1>0, <1>3, StartInv DEF TypeOK, RefreshToken
<1>4. ASSUME NEW s \in Slot, NEW t \in Jwt, IssueTokens(s, t) PROVE Inv'
  <2>1. /\ who[s] \in User /\ exists' \subseteq User /\ refresh' \subseteq User
        /\ owner' \in [Jwt -> User \cup {Nobody}] /\ Finish(s)
        /\ UNCHANGED <<password, resets, sets, interrupted, revoked, stored, late>>
    BY <1>0, <1>4 DEF TypeOK, IssueTokens, historyVars
  <2> QED BY <1>0, <2>1, FinishInv DEF TypeOK, MatchedInv
<1>5. ASSUME NEW s \in Slot, DropTokens(s) PROVE Inv'
  <2>1. DeleteRows(RowsOf(who[s]))
    BY <1>5 DEF DropTokens
  <2>2. TypeOK'
    BY <1>0, <1>5, <2>1, DeleteRowsEffect, RowsOfType DEF TypeOK, DropTokens, Goto
  <2>3. \A t \in Slot : pc[t] = "setByReset" => resets'[matched[t]].user \in {who[t], Nobody}
    BY <2>1, DeletedStillMatched, RowsOfType
  <2>4. /\ pc'[s] = "createToken" /\ UNCHANGED <<who, matched>>
        /\ \A t \in Slot : t # s => pc'[t] = pc[t]
    BY <1>0, <1>5 DEF TypeOK, DropTokens, Goto
  <2>5. MatchedInv'
    BY <1>0, <2>3, <2>4 DEF MatchedInv
  <2> QED BY <2>2, <2>5 DEF Inv
<1>6. ASSUME NEW s \in Slot, NEW id \in ResetId, CreateToken(s, id) PROVE Inv'
  <2>1. who[s] \in User
    BY <1>0, <1>6 DEF TypeOK, CreateToken
  <2>2. resets' \in [ResetId -> ResetRow]
    BY <1>0, <1>6, <2>1, RowType DEF TypeOK, CreateToken
  <2>3. \A t \in Slot : matched[t] # id
    BY <1>6 DEF CreateToken, IdsInUse
  <2>4. \A t \in Slot :
           pc[t] = "setByReset" => resets'[matched[t]].user \in {who[t], Nobody}
    BY <1>0, <1>6, <2>3 DEF MatchedInv, TypeOK, CreateToken
  <2> QED BY <1>0, <1>6, <2>2, <2>4, FinishInv DEF TypeOK, CreateToken, historyVars
<1>7. ASSUME NEW s \in Slot, SetByReset(s) PROVE Inv'
  <2>1. /\ password' \in [User -> Password \cup {NoPassword}] /\ revoked' \subseteq Jwt
        /\ UNCHANGED <<exists, refresh, resets, owner>>
    BY <1>0, <1>7, StorePasswordType DEF SetByReset
  <2>2. matched[s] \in ResetId
    BY <1>0, <1>7 DEF SetByReset, MatchedInv
  <2>3. sets' \in [ResetId -> Nat]
    BY <1>0, <1>7, <2>2 DEF TypeOK, SetByReset
  <2>4. TypeOK'
    <3>1. /\ stored' \in [User -> SUBSET (Password \cup {NoPassword})]
          /\ late' \in [User -> Nat]
      BY <1>0, <1>7 DEF TypeOK, SetByReset
    <3> QED BY <1>0, <1>7, <2>1, <2>3, <3>1 DEF TypeOK, SetByReset, Goto
  <2>5. MatchedInv'
    BY <1>0, <1>7, <2>1 DEF TypeOK, MatchedInv, SetByReset, Goto
  <2> QED BY <2>4, <2>5 DEF Inv
<1>8. ASSUME NEW s \in Slot, MarkUsed(s) PROVE Inv'
  <2>1. matched[s] \in ResetId
    BY <1>0, <1>8 DEF MarkUsed, MatchedInv
  <2>2. /\ resets'[matched[s]] = [resets[matched[s]] EXCEPT !.used = TRUE]
        /\ \A id \in ResetId : id # matched[s] => resets'[id] = resets[id]
    BY <1>0, <1>8, <2>1 DEF TypeOK, MarkUsed
  <2>3. resets' \in [ResetId -> ResetRow]
    BY <1>0, <1>8, <2>1, RowType DEF TypeOK, MarkUsed
  <2>4. TypeOK'
    BY <1>0, <1>8, <2>3 DEF TypeOK, MarkUsed, Goto, historyVars
  <2>5. \A t \in Slot : t # s => UNCHANGED <<pc[t], matched[t], who[t]>>
    BY <1>0, <1>8 DEF TypeOK, MarkUsed, Goto
  <2>6. \A id \in ResetId : resets'[id].user = resets[id].user
    <3>1. [resets[matched[s]] EXCEPT !.used = TRUE].user = resets[matched[s]].user
      BY <1>0, <2>1, RowType
    <3> QED BY <2>2, <3>1
  <2>7. pc'[s] = "cleanUp"
    BY <1>0, <1>8 DEF TypeOK, MarkUsed, Goto
  <2>8. MatchedInv'
    BY <1>0, <2>5, <2>6, <2>7 DEF MatchedInv
  <2> QED BY <2>4, <2>8 DEF Inv
<1>9. ASSUME NEW s \in Slot, CleanUp(s) PROVE Inv'
  <2>1. DeleteRows(RowsOf(who[s])) /\ Finish(s)
        /\ UNCHANGED <<exists, password, refresh, owner, revoked, stored, late>>
    BY <1>9 DEF CleanUp
  <2>2. /\ resets' \in [ResetId -> ResetRow] /\ sets' \in [ResetId -> Nat]
        /\ interrupted' \subseteq ResetId
    BY <1>0, <2>1, DeleteRowsEffect, RowsOfType
  <2>3. \A t \in Slot : pc[t] = "setByReset" => resets'[matched[t]].user \in {who[t], Nobody}
    BY <2>1, DeletedStillMatched, RowsOfType
  <2> QED BY <1>0, <2>1, <2>2, <2>3, FinishInv DEF TypeOK
<1>10. ASSUME NEW s \in Slot, SetByChange(s) PROVE Inv'
  <2>1. /\ password' \in [User -> Password \cup {NoPassword}] /\ revoked' \subseteq Jwt
        /\ UNCHANGED <<exists, refresh, resets, owner, sets, interrupted>> /\ Finish(s)
    BY <1>0, <1>10, StorePasswordType DEF SetByChange
  <2>2. /\ stored' \in [User -> SUBSET (Password \cup {NoPassword})]
        /\ late' \in [User -> Nat]
    BY <1>0, <1>10 DEF TypeOK, SetByChange
  <2> QED BY <1>0, <2>1, <2>2, FinishInv DEF TypeOK, MatchedInv
<1>11. ASSUME NEW s \in Slot, Reject(s) PROVE Inv'
  <2>1. /\ Finish(s)
        /\ UNCHANGED <<exists, password, refresh, resets, owner, revoked, stored, late>>
        /\ sets' \in [ResetId -> Nat] /\ interrupted' \subseteq ResetId
    BY <1>0, <1>11, InterruptType DEF Reject, dbVars
  <2> QED BY <1>0, <2>1, FinishInv DEF TypeOK, MatchedInv
<1>12. CASE Restart
  <2>1. sets' \in [ResetId -> Nat] /\ interrupted' \subseteq ResetId
    BY <1>0, <1>12, InterruptType DEF Restart
  <2>2. TypeOK'
    BY <1>0, <1>12, <2>1 DEF TypeOK, Restart, dbVars
  <2>3. MatchedInv'
    BY <1>12 DEF MatchedInv, Restart
  <2> QED BY <2>2, <2>3 DEF Inv
<1>13. ASSUME NEW id \in ResetId, ExpireReset(id) PROVE Inv'
  <2>1. resets' \in [ResetId -> ResetRow]
    BY <1>0, <1>13, RowType DEF TypeOK, ExpireReset
  <2>2. \A x \in ResetId : resets'[x].user = resets[x].user
    BY <1>0, <1>13, RowType DEF TypeOK, ExpireReset
  <2>3. TypeOK'
    BY <1>0, <1>13, <2>1 DEF TypeOK, ExpireReset, requestVars, historyVars
  <2>4. MatchedInv'
    BY <1>0, <1>13, <2>2 DEF MatchedInv, ExpireReset, requestVars
  <2> QED BY <2>3, <2>4 DEF Inv
<1>14. ASSUME NEW t \in Jwt, ExpireJwt(t) PROVE Inv'
  <2>1. TypeOK'
    BY <1>0, <1>14 DEF TypeOK, ExpireJwt, requestVars, dbVars
  <2>2. MatchedInv'
    BY <1>0, <1>14 DEF MatchedInv, ExpireJwt, requestVars, dbVars
  <2> QED BY <2>1, <2>2 DEF Inv
<1>15. ASSUME NEW u \in User, DeleteAccount(u) PROVE Inv'
  <2>1. DeleteRows(RowsOf(u))
    BY <1>15 DEF DeleteAccount
  <2>2. TypeOK'
    BY <1>0, <1>15, <2>1, DeleteRowsEffect, RowsOfType DEF TypeOK, DeleteAccount, requestVars
  <2>3. MatchedInv'
    BY <1>0, <1>15, <2>1, DeletedStillMatched, RowsOfType
       DEF MatchedInv, DeleteAccount, requestVars
  <2> QED BY <2>2, <2>3 DEF Inv
<1>16. ASSUME NEW s \in Slot, NEW id \in ResetId, NEW w \in Password, ResetPassword(s, id, w)
       PROVE  Inv'
  BY <1>16, ResetPasswordInv
<1>17. CASE UNCHANGED vars
  BY <1>0, <1>17 DEF Inv, TypeOK, MatchedInv, vars, dbVars, requestVars, historyVars
<1> QED
  BY <1>1, <1>2, <1>3, <1>4, <1>5, <1>6, <1>7, <1>8, <1>9, <1>10, <1>11, <1>12, <1>13,
     <1>14, <1>15, <1>16, <1>17 DEF Next, RequestStep, Arrival

\* Every state of the reset and session protocol has its types.
THEOREM TypeCorrect == Spec => []TypeOK
<1>1. Inv => TypeOK
  BY DEF Inv
<1> QED BY InitInv, NextInv, <1>1, PTL DEF Spec

-----------------------------------------------------------------------------
(* Changes that are late for a reset. *)

\* A step that stores no password and starts no change of one.
NoneChanges ==
    /\ UNCHANGED <<password, stored, late>>
    /\ \A s \in Slot : pc'[s] = "setByChange" =>
                         pc[s] = pc'[s] /\ who'[s] = who[s] /\ given'[s] = given[s]

LEMMA MostStepsChangeNone ==
    ASSUME Inv, [Next]_vars
    PROVE  \/ NoneChanges
           \/ \E s \in Slot :
                 \/ SetByReset(s) \/ SetByChange(s)
                 \/ \E u \in User, c \in Password, w \in Password : ChangePassword(s, u, c, w)
<1>0. TypeOK
  BY DEF Inv
<1> USE DEF NoneChanges
<1>1. ASSUME NEW s \in Slot, NEW u, NEW w,
             NEW label \in {"issue", "dropTokens", "setByReset"}, Start(s, label, u, w),
             UNCHANGED given
      PROVE  NoneChanges
  BY <1>0, <1>1 DEF Start, Goto, TypeOK, dbVars, historyVars
<1>2. ASSUME NEW s \in Slot, Finish(s), UNCHANGED <<password, stored, late>>
      PROVE  NoneChanges
  BY <1>0, <1>2 DEF Finish, Goto, TypeOK
<1>3. ASSUME NEW s \in Slot, NEW label \in {"createToken", "cleanUp"}, Goto(s, label),
             UNCHANGED <<password, stored, late, who, given>>
      PROVE  NoneChanges
  BY <1>0, <1>3 DEF Goto, TypeOK
<1>4. ASSUME NEW s \in Slot, Arrival(s),
             ~\E u \in User, c \in Password, w \in Password : ChangePassword(s, u, c, w)
      PROVE  NoneChanges
  BY <1>1, <1>4 DEF Arrival, SignIn, ResetOtpVerified, Login, RefreshToken, ResetPassword
<1>5. ASSUME NEW s \in Slot, RequestStep(s), ~SetByReset(s), ~SetByChange(s)
      PROVE  NoneChanges
  <2>1. ASSUME NEW t \in Jwt, IssueTokens(s, t) PROVE NoneChanges
    BY <1>2, <2>1 DEF IssueTokens, historyVars
  <2>2. ASSUME NEW id \in ResetId, CreateToken(s, id) PROVE NoneChanges
    BY <1>2, <2>2 DEF CreateToken, historyVars
  <2>3. CASE DropTokens(s) \/ MarkUsed(s)
    BY <1>3, <2>3 DEF DropTokens, MarkUsed, historyVars, dbVars
  <2>4. CASE CleanUp(s) \/ Reject(s)
    BY <1>2, <2>4 DEF CleanUp, Reject, dbVars
  <2> QED BY <1>5, <2>1, <2>2, <2>3, <2>4 DEF RequestStep
<1>6. CASE Restart
  BY <1>6 DEF Restart, dbVars
<1>7. ASSUME NEW id \in ResetId, ExpireReset(id) PROVE NoneChanges
  BY <1>7 DEF ExpireReset, requestVars, historyVars
<1>8. ASSUME NEW t \in Jwt, ExpireJwt(t) PROVE NoneChanges
  BY <1>8 DEF ExpireJwt, requestVars, dbVars
<1>9. ASSUME NEW u \in User, DeleteAccount(u) PROVE NoneChanges
  BY <1>9 DEF DeleteAccount, requestVars
<1>10. CASE UNCHANGED vars
  BY <1>10 DEF vars, dbVars, requestVars, historyVars
<1> QED
  BY <1>4, <1>5, <1>6, <1>7, <1>8, <1>9, <1>10 DEF Next

\* A step after which as few changes are late for a reset of u as before.
LEMMA LateKept ==
    ASSUME NEW u \in User, TypeOK, late'[u] = late[u], Overtaken(u)' \in SUBSET Overtaken(u),
           LateBound(u)
    PROVE  LateBound(u)'
<1>1. Overtaken(u) \in SUBSET Slot
  BY DEF Overtaken
<1>2. /\ Cardinality(Overtaken(u)) \in Nat /\ Cardinality(Overtaken(u)') \in Nat
      /\ Cardinality(Overtaken(u)') <= Cardinality(Overtaken(u)) /\ Cardinality(Slot) \in Nat
  BY <1>1, SubsetsOfSlot
<1>3. late[u] \in Nat
  BY DEF TypeOK
<1> QED BY <1>2, <1>3 DEF LateBound

LEMMA InitLateInv == Init => LateInv
<1> SUFFICES ASSUME Init, NEW u \in User
             PROVE  /\ stored[u] # {} => password[u] \in stored[u]
                    /\ LateBound(u)
  BY DEF LateInv
<1>1. stored[u] = {} /\ late[u] = 0 /\ Overtaken(u) = {}
  BY DEF Init, Overtaken
<1>2. Cardinality(Overtaken(u)) = 0
  BY <1>1, FS_EmptySet
<1>3. Cardinality(Slot) \in Nat /\ Cardinality(Slot) >= 1
  <2>1. Cardinality({}) = 0 /\ {} \in SUBSET Slot /\ {} # Slot
    BY CredentialsAssumption, FS_EmptySet
  <2> QED BY <2>1, SubsetsOfSlot
<1> QED BY <1>1, <1>2, <1>3 DEF LateBound

LEMMA NextLateInv == Inv /\ LateInv /\ [Next]_vars => LateInv'
<1> SUFFICES ASSUME Inv, LateInv, [Next]_vars, NEW u \in User
             PROVE  /\ stored'[u] # {} => password'[u] \in stored'[u]
                    /\ LateBound(u)'
  BY DEF LateInv
<1>0. /\ TypeOK /\ LateBound(u)
      /\ stored[u] # {} => password[u] \in stored[u]
  BY DEF Inv, LateInv
<1>1. CASE NoneChanges
  <2>1. Overtaken(u)' \in SUBSET Overtaken(u)
    BY <1>1 DEF NoneChanges, Overtaken
  <2> QED BY <1>0, <1>1, <2>1, LateKept DEF NoneChanges
<1>2. ASSUME NEW s \in Slot, NEW v \in User, NEW c \in Password, NEW w \in Password,
             ChangePassword(s, v, c, w)
      PROVE  /\ stored'[u] # {} => password'[u] \in stored'[u]
             /\ LateBound(u)'
  <2>1. /\ UNCHANGED <<password, stored, late>> /\ password[v] = c
        /\ who'[s] = v /\ given'[s] = c
        /\ \A t \in Slot : t # s => pc'[t] = pc[t] /\ who'[t] = who[t] /\ given'[t] = given[t]
    BY <1>0, <1>2 DEF TypeOK, ChangePassword, Start, Goto, dbVars, historyVars
  <2>2. Overtaken(u)' \in SUBSET Overtaken(u)
    BY <1>0, <2>1 DEF Overtaken
  <2> QED BY <1>0, <2>1, <2>2, LateKept
<1>3. ASSUME NEW s \in Slot, SetByReset(s)
      PROVE  /\ stored'[u] # {} => password'[u] \in stored'[u]
             /\ LateBound(u)'
  <2>1. /\ password' = [password EXCEPT ![who[s]] = new[s]]
        /\ stored' = [stored EXCEPT ![who[s]] = {new[s]}]
        /\ late' = [late EXCEPT ![who[s]] = 0]
        /\ pc' = [pc EXCEPT ![s] = "markUsed"] /\ UNCHANGED <<who, given>>
    BY <1>3 DEF SetByReset, StorePassword, Goto
  <2>2. stored'[u] # {} => password'[u] \in stored'[u]
    BY <1>0, <2>1 DEF TypeOK
  <2>3. CASE who[s] # u
    <3>1. Overtaken(u)' \in SUBSET Overtaken(u) /\ late'[u] = late[u]
      BY <1>0, <2>1, <2>3 DEF Overtaken, TypeOK
    <3> QED BY <1>0, <2>2, <3>1, LateKept
  <2>4. CASE who[s] = u
    <3>1. late'[u] = 0 /\ Overtaken(u)' \in SUBSET Slot /\ Overtaken(u)' # Slot
      BY <1>0, <2>1, <2>4 DEF Overtaken, TypeOK
    <3>2. /\ Cardinality(Overtaken(u)') \in Nat /\ Cardinality(Slot) \in Nat
          /\ Cardinality(Overtaken(u)') + 1 <= Cardinality(Slot)
      BY <3>1, SubsetsOfSlot
    <3> QED BY <2>2, <3>1, <3>2 DEF LateBound
  <2> QED BY <2>3, <2>4
<1>4. ASSUME NEW s \in Slot, SetByChange(s)
      PROVE  /\ stored'[u] # {} => password'[u] \in stored'[u]
             /\ LateBound(u)'
  <2>1. /\ password' = [password EXCEPT ![who[s]] = new[s]] /\ pc[s] = "setByChange"
        /\ pc'[s] = "idle"
        /\ \A t \in Slot : t # s => pc'[t] = pc[t] /\ who'[t] = who[t] /\ given'[t] = given[t]
    BY <1>0, <1>4 DEF SetByChange, StorePassword, Finish, Goto, TypeOK
  <2>2. CASE who[s] # u \/ stored[u] = {}
    <3>1. /\ stored'[u] = stored[u] /\ late'[u] = late[u]
          /\ stored[u] # {} => password'[u] = password[u]
      BY <1>0, <1>4, <2>1, <2>2 DEF SetByChange, TypeOK
    <3>2. Overtaken(u)' \in SUBSET Overtaken(u)
      BY <2>1, <3>1 DEF Overtaken
    <3> QED BY <1>0, <3>1, <3>2, LateKept
  <2>3. CASE who[s] = u /\ stored[u] # {}
    <3>1. /\ stored'[u] = stored[u] \cup {new[s]} /\ password'[u] = new[s]
          /\ late'[u] = IF given[s] \in stored[u] THEN late[u] ELSE late[u] + 1
      BY <1>0, <1>4, <2>1, <2>3 DEF SetByChange, TypeOK
    <3>2. Overtaken(u)' \in SUBSET (Overtaken(u) \ {s})
      BY <2>1, <2>3, <3>1 DEF Overtaken
    <3>3. CASE given[s] \in stored[u]
      <4>1. Overtaken(u)' \in SUBSET Overtaken(u)
        BY <3>2
      <4> QED BY <1>0, <3>1, <3>3, <4>1, LateKept
    <3>4. CASE given[s] \notin stored[u]
      <4>1. /\ Overtaken(u) \in SUBSET Slot /\ Overtaken(u)' \in SUBSET Overtaken(u)
            /\ Overtaken(u)' # Overtaken(u)
        BY <2>1, <2>3, <3>2, <3>4 DEF Overtaken
      <4>2. /\ Cardinality(Overtaken(u)) \in Nat /\ Cardinality(Overtaken(u)') \in Nat
            /\ Cardinality(Overtaken(u)') + 1 <= Cardinality(Overtaken(u))
            /\ Cardinality(Slot) \in Nat /\ late[u] \in Nat
        BY <1>0, <4>1, SubsetsOfSlot DEF TypeOK
      <4>3. LateBound(u)'
        BY <1>0, <3>1, <3>4, <4>2 DEF LateBound
      <4> QED BY <3>1, <4>3
    <3> QED BY <3>3, <3>4
  <2> QED BY <2>2, <2>3
<1> QED BY <1>1, <1>2, <1>3, <1>4, MostStepsChangeNone

\* AuthService.changePassword and resetPassword: after a reset, passwords are
\* changed by a password from before it only by requests that had compared it
\* when the reset was stored, so at most once for each other request in flight.
THEOREM OldPasswordsAreLockedOut == Spec => []OldPasswordsLockedOut
<1>1. Inv /\ LateInv => OldPasswordsLockedOut
  <2> SUFFICES ASSUME Inv, LateInv, NEW u \in User PROVE late[u] <= Cardinality(Slot) - 1
    BY DEF OldPasswordsLockedOut
  <2>1. Overtaken(u) \in SUBSET Slot
    BY DEF Overtaken
  <2>2. /\ Cardinality(Overtaken(u)) \in Nat /\ Cardinality(Slot) \in Nat /\ late[u] \in Nat
    BY <2>1, SubsetsOfSlot DEF Inv, TypeOK
  <2>3. LateBound(u)
    BY DEF LateInv
  <2> QED BY <2>2, <2>3 DEF LateBound
<1> QED BY InitInv, NextInv, InitLateInv, NextLateInv, <1>1, PTL DEF Spec

-----------------------------------------------------------------------------
(* Calm steps. *)

\* All steps are calm but a match, what follows it, and the deleteMany and the
\* create of a new token.
LEMMA MostStepsAreCalm ==
    ASSUME Inv, [Next]_vars
    PROVE  \/ RowsKept /\ NoneMatches /\ MarksKept /\ NoneDrops
           \/ \E s \in Slot :
                 \/ DropTokens(s)
                 \/ \E id \in ResetId : CreateToken(s, id)
                 \/ \E id \in ResetId, w \in Password : ResetPassword(s, id, w)
                 \/ SetByReset(s)
                 \/ MarkUsed(s)
<1> DEFINE Calm == RowsKept /\ NoneMatches /\ MarksKept /\ NoneDrops
<1>0. TypeOK /\ MatchedInv
  BY DEF Inv
<1> USE DEF RowsKept, NoneMatches, MarksKept, NoneDrops
<1>1. ASSUME NEW s \in Slot, NEW u, NEW w, NEW label \in {"issue", "dropTokens", "setByChange"},
             Start(s, label, u, w), UNCHANGED matched
      PROVE  Calm
  BY <1>0, <1>1 DEF Start, Goto, TypeOK, dbVars, historyVars
<1>2. ASSUME NEW s \in Slot, Finish(s), pc[s] # "markUsed",
             UNCHANGED <<resets, sets, interrupted>>
      PROVE  Calm
  BY <1>0, <1>2 DEF Finish, Goto, TypeOK
<1>3. ASSUME NEW s \in Slot, NEW u \in User,
             SignIn(s, u) \/ ResetOtpVerified(s, u)
             \/ \E w \in Password :
                   Login(s, u, w) \/ \E c \in Password : ChangePassword(s, u, c, w)
      PROVE  Calm
  BY <1>1, <1>3 DEF SignIn, ResetOtpVerified, Login, ChangePassword
<1>4. ASSUME NEW s \in Slot, NEW t \in Jwt, RefreshToken(s, t) PROVE Calm
  BY <1>1, <1>4 DEF RefreshToken
<1>5. ASSUME NEW s \in Slot, NEW t \in Jwt, IssueTokens(s, t) PROVE Calm
  BY <1>2, <1>5 DEF IssueTokens, historyVars
<1>6. ASSUME NEW s \in Slot, SetByChange(s) PROVE Calm
  BY <1>2, <1>6 DEF SetByChange, StorePassword
<1>7. ASSUME NEW s \in Slot, CleanUp(s) PROVE Calm
  <2>1. DeleteRows(RowsOf(who[s])) /\ pc[s] = "cleanUp" /\ Finish(s)
    BY <1>7 DEF CleanUp
  <2>2. RowsKept
    BY <1>0, <2>1, DeleteRowsEffect, RowsOfType
  <2>3. NoneMatches /\ MarksKept /\ NoneDrops
    BY <1>0, <2>1 DEF Finish, Goto, TypeOK
  <2> QED BY <2>2, <2>3
<1>8. ASSUME NEW T \in SUBSET Slot, Interrupt(T), UNCHANGED resets PROVE RowsKept
  BY <1>0, <1>8 DEF Interrupt, TypeOK
<1>9. ASSUME NEW s \in Slot, Reject(s) PROVE Calm
  <2>1. RowsKept
    BY <1>8, <1>9 DEF Reject, dbVars
  <2>2. NoneMatches /\ NoneDrops
    BY <1>0, <1>9 DEF Reject, Finish, Goto, TypeOK
  <2>3. MarksKept
    BY <1>0, <1>9 DEF Reject, Interrupt, Finish, Goto, TypeOK, dbVars
  <2> QED BY <2>1, <2>2, <2>3
<1>10. CASE Restart
  <2>1. RowsKept
    BY <1>8, <1>10 DEF Restart, dbVars
  <2>2. NoneMatches /\ NoneDrops
    BY <1>10 DEF Restart
  <2>3. MarksKept
    BY <1>10 DEF Restart, Interrupt, dbVars
  <2> QED BY <2>1, <2>2, <2>3
<1>11. ASSUME NEW id \in ResetId, ExpireReset(id) PROVE Calm
  <2>1. /\ resets[id] # NoRow
        /\ resets'[id] = [resets[id] EXCEPT !.expired = TRUE]
        /\ \A x \in ResetId : x # id => resets'[x] = resets[x]
        /\ UNCHANGED <<pc, who, matched, sets, interrupted>>
    BY <1>0, <1>11 DEF TypeOK, ExpireReset, requestVars, historyVars
  <2>2. RowsKept
    <3>1. /\ resets'[id] # NoRow /\ resets'[id].user = resets[id].user
          /\ resets'[id].used = resets[id].used
      BY <1>0, <2>1, RowType
    <3> QED BY <2>1, <3>1
  <2> QED BY <2>1, <2>2
<1>12. ASSUME NEW t \in Jwt, ExpireJwt(t) PROVE Calm
  BY <1>12 DEF ExpireJwt, requestVars, dbVars
<1>13. ASSUME NEW u \in User, DeleteAccount(u) PROVE Calm
  <2>1. DeleteRows(RowsOf(u)) /\ UNCHANGED <<pc, who, matched>>
    BY <1>13 DEF DeleteAccount, requestVars
  <2>2. RowsKept
    BY <1>0, <2>1, DeleteRowsEffect, RowsOfType
  <2> QED BY <2>1, <2>2
<1>14. CASE UNCHANGED vars
  BY <1>14 DEF vars, dbVars, requestVars, historyVars
<1> QED
  BY <1>3, <1>4, <1>5, <1>6, <1>7, <1>9, <1>10, <1>11, <1>12, <1>13, <1>14
     DEF Next, RequestStep, Arrival

\* What the five others do.
LEMMA DropTokensEffect ==
    ASSUME Inv, NEW s \in Slot, DropTokens(s)
    PROVE  /\ RowsKept /\ NoneMatches /\ MarksKept
           /\ who[s] \in User /\ RowsOf(who[s])' = {}
           /\ \A t \in Slot : pc'[t] = "createToken" => t = s \/ pc[t] = "createToken"
           /\ UNCHANGED who
<1>1. DeleteRows(RowsOf(who[s])) /\ UNCHANGED <<who, matched>> /\ pc[s] = "dropTokens"
      /\ pc' = [pc EXCEPT ![s] = "createToken"]
  BY DEF DropTokens, Goto
<1>2. who[s] \in User
  BY <1>1 DEF Inv, TypeOK
<1>3. \A id \in ResetId : resets'[id] = IF id \in RowsOf(who[s]) THEN NoRow ELSE resets[id]
  BY <1>1, DeleteRowsEffect, RowsOfType DEF Inv
<1>4. RowsKept
  BY <1>1, DeleteRowsEffect, RowsOfType DEF Inv, RowsKept
<1>5. NoneMatches /\ MarksKept
      /\ \A t \in Slot : pc'[t] = "createToken" => t = s \/ pc[t] = "createToken"
  BY <1>1 DEF Inv, TypeOK, NoneMatches, MarksKept
<1>6. NoRow.user # who[s]
  BY <1>2, Constants DEF NoRow
<1>7. RowsOf(who[s])' = {}
  BY <1>1, <1>3, <1>6 DEF RowsOf
<1> QED BY <1>1, <1>2, <1>4, <1>5, <1>7

LEMMA CreateTokenEffect ==
    ASSUME Inv, NEW s \in Slot, NEW id \in ResetId, CreateToken(s, id)
    PROVE  /\ who[s] \in User /\ resets[id] = NoRow /\ resets'[id] # NoRow
           /\ resets'[id].user = who[s] /\ ~resets'[id].used
           /\ \A x \in ResetId : x # id => resets'[x] = resets[x]
           /\ UNCHANGED <<sets, interrupted>>
           /\ pc[s] = "createToken" /\ pc'[s] = "idle"
           /\ \A t \in Slot : t # s => pc'[t] = pc[t] /\ matched'[t] = matched[t] /\ who'[t] = who[t]
<1>1. who[s] \in User
  BY DEF Inv, TypeOK, CreateToken
<1>2. resets[id] = NoRow
  BY DEF CreateToken, IdsInUse
<1>3. resets'[id] = [NoRow EXCEPT !.user = who[s]]
  BY DEF Inv, TypeOK, CreateToken
<1>4. resets'[id] # NoRow /\ resets'[id].user = who[s] /\ ~resets'[id].used
  BY <1>1, <1>3, RowType DEF Inv
<1> QED BY <1>1, <1>2, <1>4 DEF Inv, TypeOK, CreateToken, Finish, Goto, historyVars

LEMMA SetByResetEffect ==
    ASSUME Inv, NEW s \in Slot, SetByReset(s)
    PROVE  /\ matched[s] \in ResetId
           /\ UNCHANGED <<resets, interrupted, who, matched>>
           /\ pc[s] = "setByReset" /\ pc'[s] = "markUsed"
           /\ \A t \in Slot : t # s => pc'[t] = pc[t]
           /\ \A id \in ResetId : id # matched[s] => sets'[id] = sets[id]
           /\ IF resets[matched[s]] = NoRow \/ matched[s] \in interrupted
                  THEN sets'[matched[s]] = sets[matched[s]]
                  ELSE sets'[matched[s]] = sets[matched[s]] + 1
BY DEF Inv, TypeOK, MatchedInv, SetByReset, StorePassword, Goto

LEMMA MarkUsedEffect ==
    ASSUME Inv, NEW s \in Slot, MarkUsed(s)
    PROVE  /\ matched[s] \in ResetId
           /\ resets[matched[s]] # NoRow /\ resets'[matched[s]] # NoRow
           /\ resets'[matched[s]].user = resets[matched[s]].user
           /\ resets'[matched[s]].used
           /\ \A id \in ResetId : id # matched[s] => resets'[id] = resets[id]
           /\ UNCHANGED <<sets, interrupted, who>>
           /\ pc[s] = "markUsed" /\ pc'[s] = "cleanUp"
           /\ \A t \in Slot : t # s => pc'[t] = pc[t] /\ matched'[t] = matched[t]
<1>1. matched[s] \in ResetId
  BY DEF Inv, MatchedInv, MarkUsed
<1>2. resets'[matched[s]] = [resets[matched[s]] EXCEPT !.used = TRUE]
  BY <1>1 DEF Inv, TypeOK, MarkUsed
<1>3. /\ resets'[matched[s]] # NoRow /\ resets'[matched[s]].used
      /\ resets'[matched[s]].user = resets[matched[s]].user
  BY <1>1, <1>2, RowType DEF Inv
<1> QED BY <1>1, <1>3 DEF Inv, TypeOK, MarkUsed, Goto, historyVars

-----------------------------------------------------------------------------
(* Rows. *)

LEMMA RowsShrink == RowsKept => \A u \in User : RowsOf(u)' \in SUBSET RowsOf(u)
BY Constants DEF RowsKept, RowsOf, NoRow

\* A step that leaves a user no more rows, and no more creates, than before.
LEMMA RowsInvShrink ==
    ASSUME NEW u \in User,
           Cardinality(RowsOf(u)) + Cardinality(Creating(u)) <= Cardinality(Slot),
           RowsOf(u)' \in SUBSET RowsOf(u), Creating(u)' \in SUBSET Creating(u)
    PROVE  Cardinality(RowsOf(u)') + Cardinality(Creating(u)') <= Cardinality(Slot)
<1>1. /\ Cardinality(RowsOf(u)) \in Nat /\ Cardinality(RowsOf(u)') \in Nat
      /\ Cardinality(RowsOf(u)') <= Cardinality(RowsOf(u))
  BY RowsOfType, SubsetsOfResetId
<1>2. Creating(u) \in SUBSET Slot
  BY DEF Creating
<1>3. /\ Cardinality(Creating(u)) \in Nat /\ Cardinality(Creating(u)') \in Nat
      /\ Cardinality(Creating(u)') <= Cardinality(Creating(u)) /\ Cardinality(Slot) \in Nat
  BY <1>2, SubsetsOfSlot
<1> QED BY <1>1, <1>3

LEMMA InitRowsInv == Init => RowsInv
<1> SUFFICES ASSUME Init, NEW u \in User
             PROVE  Cardinality(RowsOf(u)) + Cardinality(Creating(u)) <= Cardinality(Slot)
  BY DEF RowsInv
<1>1. RowsOf(u) = {} /\ Creating(u) = {}
  BY Constants DEF Init, RowsOf, Creating, NoRow
<1>2. Cardinality(RowsOf(u)) = 0 /\ Cardinality(Creating(u)) = 0
  BY <1>1, FS_EmptySet
<1>3. Cardinality(Slot) \in Nat
  BY SubsetsOfSlot
<1> QED BY <1>2, <1>3

LEMMA NextRowsInv == Inv /\ RowsInv /\ [Next]_vars => RowsInv'
<1> SUFFICES ASSUME Inv, RowsInv, [Next]_vars, NEW u \in User
             PROVE  Cardinality(RowsOf(u)') + Cardinality(Creating(u)') <= Cardinality(Slot)
  BY DEF RowsInv
<1>0. Cardinality(RowsOf(u)) + Cardinality(Creating(u)) <= Cardinality(Slot)
  BY DEF RowsInv
<1>1. CASE RowsKept /\ NoneMatches /\ MarksKept /\ NoneDrops
  <2>1. Creating(u)' \in SUBSET Creating(u)
    BY <1>1 DEF NoneDrops, Creating
  <2> QED BY <1>0, <1>1, <2>1, RowsShrink, RowsInvShrink
<1>2. ASSUME NEW s \in Slot, DropTokens(s)
      PROVE  Cardinality(RowsOf(u)') + Cardinality(Creating(u)') <= Cardinality(Slot)
  <2>1. CASE who[s] = u
    <3>1. RowsOf(u)' = {} /\ Creating(u)' \in SUBSET Slot
      BY <1>2, <2>1, DropTokensEffect DEF Creating, RowsOf
    <3>2. Cardinality(RowsOf(u)') = 0
      BY <3>1, FS_EmptySet
    <3>3. Cardinality(Creating(u)') \in Nat /\ Cardinality(Creating(u)') <= Cardinality(Slot)
      BY <3>1, SubsetsOfSlot
    <3> QED BY <3>2, <3>3
  <2>2. CASE who[s] # u
    <3>1. Creating(u)' \in SUBSET Creating(u)
      BY <1>2, <2>2, DropTokensEffect DEF Creating
    <3> QED BY <1>0, <1>2, <3>1, DropTokensEffect, RowsShrink, RowsInvShrink
  <2> QED BY <2>1, <2>2
<1>3. ASSUME NEW s \in Slot, NEW id \in ResetId, CreateToken(s, id)
      PROVE  Cardinality(RowsOf(u)') + Cardinality(Creating(u)') <= Cardinality(Slot)
  <2>1. CASE who[s] = u
    <3>1. RowsOf(u)' \subseteq RowsOf(u) \cup {id}
      BY <1>3, CreateTokenEffect DEF RowsOf
    <3>2. /\ Creating(u)' \in SUBSET Creating(u) /\ Creating(u) \in SUBSET Slot
          /\ Creating(u)' # Creating(u)
      BY <1>3, <2>1, CreateTokenEffect DEF Creating
    <3>3. /\ Cardinality(RowsOf(u)') \in Nat /\ Cardinality(RowsOf(u)) \in Nat
          /\ Cardinality(RowsOf(u)') <= Cardinality(RowsOf(u)) + 1
      <4>1. RowsOf(u)' \in SUBSET ResetId /\ RowsOf(u) \in SUBSET ResetId
        BY DEF RowsOf
      <4> QED BY <3>1, <4>1, SubsetsOfResetId
    <3>4. /\ Cardinality(Creating(u)') \in Nat /\ Cardinality(Creating(u)) \in Nat
          /\ Cardinality(Creating(u)') + 1 <= Cardinality(Creating(u))
          /\ Cardinality(Slot) \in Nat
      BY <3>2, SubsetsOfSlot
    <3> QED BY <1>0, <3>3, <3>4
  <2>2. CASE who[s] # u
    <3>1. RowsOf(u)' \in SUBSET RowsOf(u) /\ Creating(u)' \in SUBSET Creating(u)
      BY <1>3, <2>2, CreateTokenEffect DEF RowsOf, Creating
    <3> QED BY <1>0, <3>1, RowsInvShrink
  <2> QED BY <2>1, <2>2
<1>4. ASSUME NEW s \in Slot, NEW id \in ResetId, NEW w \in Password, ResetPassword(s, id, w)
      PROVE  Cardinality(RowsOf(u)') + Cardinality(Creating(u)') <= Cardinality(Slot)
  <2>1. RowsOf(u)' \in SUBSET RowsOf(u)
    BY <1>4 DEF RowsOf, ResetPassword, Start, dbVars
  <2>2. Creating(u)' \in SUBSET Creating(u)
    BY <1>4 DEF Inv, TypeOK, Creating, ResetPassword, Start, Goto
  <2> QED BY <1>0, <2>1, <2>2, RowsInvShrink
<1>5. ASSUME NEW s \in Slot, SetByReset(s)
      PROVE  Cardinality(RowsOf(u)') + Cardinality(Creating(u)') <= Cardinality(Slot)
  <2>1. RowsOf(u)' \in SUBSET RowsOf(u) /\ Creating(u)' \in SUBSET Creating(u)
    BY <1>5, SetByResetEffect DEF RowsOf, Creating
  <2> QED BY <1>0, <2>1, RowsInvShrink
<1>6. ASSUME NEW s \in Slot, MarkUsed(s)
      PROVE  Cardinality(RowsOf(u)') + Cardinality(Creating(u)') <= Cardinality(Slot)
  <2>1. RowsOf(u)' \in SUBSET RowsOf(u) /\ Creating(u)' \in SUBSET Creating(u)
    BY <1>6, MarkUsedEffect DEF RowsOf, Creating
  <2> QED BY <1>0, <2>1, RowsInvShrink
<1> QED BY <1>1, <1>2, <1>3, <1>4, <1>5, <1>6, MostStepsAreCalm

\* AuthService.verifyResetOtp: overlapping requests may leave several reset
\* tokens of a user, but never more of them than requests in flight.
THEOREM ResetRowsAreBounded == Spec => []ResetRowsBounded
<1>1. RowsInv => ResetRowsBounded
  <2> SUFFICES ASSUME RowsInv, NEW u \in User PROVE Cardinality(RowsOf(u)) <= Cardinality(Slot)
    BY DEF ResetRowsBounded
  <2>1. Creating(u) \in SUBSET Slot
    BY DEF Creating
  <2>2. /\ Cardinality(RowsOf(u)) \in Nat /\ Cardinality(Creating(u)) \in Nat
        /\ Cardinality(Slot) \in Nat
    BY <2>1, RowsOfType, SubsetsOfResetId, SubsetsOfSlot
  <2> QED BY <2>2 DEF RowsInv
<1> QED BY InitInv, NextInv, InitRowsInv, NextRowsInv, <1>1, PTL DEF Spec

-----------------------------------------------------------------------------
(* Uses of a reset token. *)

LEMMA SettingType ==
    \A id : Setting(id) \in SUBSET Slot /\ Marking(id) \in SUBSET Slot
BY DEF Setting, Marking

\* A step by which a row loses setters, or gains markers, at most.
LEMMA UsesKept ==
    ASSUME TypeOK, NEW id \in ResetId, UsesInvOf(id), sets'[id] \in Nat,
           \/ resets'[id] = NoRow /\ sets'[id] = 0
           \/ /\ resets'[id] # NoRow /\ resets[id] # NoRow
              /\ resets'[id].used = resets[id].used
              /\ id \notin interrupted' =>
                    /\ id \notin interrupted /\ sets'[id] = sets[id]
                    /\ resets[id].used => Setting(id)' \in SUBSET Setting(id)
                    /\ ~resets[id].used => Marking(id) \in SUBSET Marking(id)'
    PROVE  UsesInvOf(id)'
<1>1. CASE resets'[id] = NoRow
  BY <1>1 DEF UsesInvOf
<1> SUFFICES ASSUME resets'[id] # NoRow, id \notin interrupted' PROVE UsesInvOf(id)'
  BY <1>1 DEF UsesInvOf
<1>2. /\ Setting(id) \in SUBSET Slot /\ Marking(id) \in SUBSET Slot
      /\ Setting(id)' \in SUBSET Slot /\ Marking(id)' \in SUBSET Slot
  BY DEF Setting, Marking
<1>3. /\ Cardinality(Setting(id)) \in Nat /\ Cardinality(Setting(id)') \in Nat
      /\ Cardinality(Marking(id)) \in Nat /\ Cardinality(Marking(id)') \in Nat
      /\ Cardinality(Slot) \in Nat /\ sets[id] \in Nat
  BY <1>2, SubsetsOfSlot DEF TypeOK
<1>4. CASE resets[id].used
  <2>1. Cardinality(Setting(id)') <= Cardinality(Setting(id))
    BY <1>2, <1>4, SubsetsOfSlot
  <2>2. sets[id] + Cardinality(Setting(id)) <= Cardinality(Slot)
    BY <1>4 DEF UsesInvOf
  <2>3. sets[id] + Cardinality(Setting(id)') <= Cardinality(Slot)
    BY <1>3, <2>1, <2>2
  <2>4. (sets[id] + Cardinality(Setting(id)) <= Cardinality(Slot))'
    BY <2>3
  <2> QED BY <1>4, <2>4 DEF UsesInvOf
<1>5. CASE ~resets[id].used
  <2>1. Cardinality(Marking(id)) <= Cardinality(Marking(id)')
    BY <1>2, <1>5, SubsetsOfSlot
  <2>2. sets'[id] <= Cardinality(Marking(id)')
    BY <1>3, <1>5, <2>1 DEF UsesInvOf
  <2> QED BY <1>5, <2>2 DEF UsesInvOf
<1> QED BY <1>4, <1>5

\* A step that keeps a row and all who act on it.
LEMMA UsesUntouched ==
    ASSUME TypeOK, NEW id \in ResetId, UsesInvOf(id),
           resets'[id] = resets[id], sets'[id] = sets[id], UNCHANGED interrupted,
           resets[id] # NoRow => /\ Setting(id)' \in SUBSET Setting(id)
                                 /\ Marking(id) \in SUBSET Marking(id)'
    PROVE  UsesInvOf(id)'
<1>1. sets[id] \in Nat
  BY DEF TypeOK
<1>2. CASE resets[id] = NoRow
  BY <1>2 DEF UsesInvOf
<1>3. CASE resets[id] # NoRow
  BY <1>1, <1>3, UsesKept
<1> QED BY <1>2, <1>3

LEMMA InitUsesInv == Init => UsesInv
BY DEF Init, UsesInv, UsesInvOf

LEMMA UsesInvCalm ==
    ASSUME TypeOK, NEW id \in ResetId, UsesInvOf(id), RowsKept, NoneMatches, MarksKept
    PROVE  UsesInvOf(id)'
<1>1. sets[id] \in Nat
  BY DEF TypeOK
<1>2. CASE resets'[id] = NoRow
  <2>1. sets'[id] = 0
    BY <1>2 DEF RowsKept, UsesInvOf
  <2> QED BY <1>2, <2>1 DEF UsesInvOf
<1>3. CASE resets'[id] # NoRow /\ id \in interrupted'
  BY <1>3 DEF UsesInvOf
<1>4. CASE resets'[id] # NoRow /\ id \notin interrupted'
  <2>1. /\ resets[id] # NoRow /\ resets'[id].used = resets[id].used
        /\ id \notin interrupted /\ sets'[id] = sets[id]
    BY <1>4 DEF RowsKept
  <2>2. Setting(id)' \in SUBSET Setting(id) /\ Marking(id) \in SUBSET Marking(id)'
    BY <1>4, <2>1 DEF NoneMatches, MarksKept, Setting, Marking
  <2> QED BY <1>1, <1>4, <2>1, <2>2, UsesKept
<1> QED BY <1>2, <1>3, <1>4

LEMMA UsesInvSet ==
    ASSUME Inv, NEW id \in ResetId, UsesInvOf(id), NEW s \in Slot, SetByReset(s)
    PROVE  UsesInvOf(id)'
<1>0. TypeOK
  BY DEF Inv
<1>1. /\ UNCHANGED <<resets, interrupted>>
      /\ Setting(id)' = Setting(id) \ {s}
      /\ Marking(id)' = IF matched[s] = id THEN Marking(id) \cup {s} ELSE Marking(id)
  BY SetByResetEffect DEF Setting, Marking
<1>2. CASE matched[s] # id \/ resets[id] = NoRow \/ id \in interrupted
  <2>1. sets'[id] = sets[id]
    BY <1>2, SetByResetEffect
  <2> QED BY <1>0, <1>1, <2>1, UsesUntouched
<1>3. CASE matched[s] = id /\ resets[id] # NoRow /\ id \notin interrupted
  <2>1. /\ sets'[id] = sets[id] + 1 /\ sets[id] \in Nat
        /\ s \in Setting(id) /\ s \notin Marking(id) /\ s \in Slot
    BY <1>0, <1>3, SetByResetEffect DEF TypeOK, Setting, Marking
  <2>2. /\ Setting(id) \in SUBSET Slot /\ Marking(id) \in SUBSET Slot
        /\ Setting(id)' \in SUBSET Setting(id) /\ Setting(id)' # Setting(id)
        /\ Marking(id)' \in SUBSET Slot
        /\ Marking(id) \in SUBSET Marking(id)' /\ Marking(id) # Marking(id)'
    BY <1>1, <1>3, <2>1, SettingType
  <2>3. /\ Cardinality(Setting(id)) \in Nat /\ Cardinality(Setting(id)') \in Nat
        /\ Cardinality(Setting(id)') + 1 <= Cardinality(Setting(id))
        /\ Cardinality(Slot) \in Nat
    BY <2>2, SubsetsOfSlot
  <2>4. /\ Cardinality(Marking(id)) \in Nat /\ Cardinality(Marking(id)') \in Nat
        /\ Cardinality(Marking(id)) + 1 <= Cardinality(Marking(id)')
    BY <2>2, SubsetsOfSlot
  <2>5. CASE resets[id].used
    <3>1. sets[id] + Cardinality(Setting(id)) <= Cardinality(Slot)
      BY <1>3, <2>5 DEF UsesInvOf
    <3>2. sets'[id] + Cardinality(Setting(id)') <= Cardinality(Slot)
      BY <2>1, <2>3, <3>1
    <3> QED BY <1>1, <1>3, <2>5, <3>2 DEF UsesInvOf
  <2>6. CASE ~resets[id].used
    <3>1. sets[id] <= Cardinality(Marking(id))
      BY <1>3, <2>6 DEF UsesInvOf
    <3>2. sets'[id] <= Cardinality(Marking(id)')
      BY <2>1, <2>4, <3>1
    <3> QED BY <1>1, <1>3, <2>6, <3>2 DEF UsesInvOf
  <2> QED BY <2>5, <2>6
<1> QED BY <1>2, <1>3

LEMMA UsesInvMark ==
    ASSUME Inv, NEW id \in ResetId, UsesInvOf(id), NEW s \in Slot, MarkUsed(s)
    PROVE  UsesInvOf(id)'
<1>0. TypeOK
  BY DEF Inv
<1>1. Setting(id)' \in SUBSET Setting(id)
      /\ (matched[s] # id => Marking(id) \in SUBSET Marking(id)')
  BY MarkUsedEffect DEF Setting, Marking
<1>2. CASE matched[s] # id
  BY <1>0, <1>1, <1>2, MarkUsedEffect, UsesUntouched
<1>3. CASE matched[s] = id
  <2>1. /\ resets[id] # NoRow /\ resets'[id] # NoRow /\ resets'[id].used
        /\ UNCHANGED <<sets, interrupted>> /\ sets[id] \in Nat
    BY <1>0, <1>3, MarkUsedEffect DEF TypeOK
  <2>2. CASE id \in interrupted
    BY <2>1, <2>2 DEF UsesInvOf
  <2>3. CASE id \notin interrupted
    <3>1. /\ Setting(id) \in SUBSET Slot /\ Marking(id) \in SUBSET Slot
          /\ Marking(id) \cap Setting(id) = {}
      BY DEF Setting, Marking
    <3>2. /\ Cardinality(Setting(id)) \in Nat /\ Cardinality(Setting(id)') \in Nat
          /\ Cardinality(Setting(id)') <= Cardinality(Setting(id))
          /\ Cardinality(Slot) \in Nat
      BY <1>1, <3>1, SubsetsOfSlot
    <3>3. /\ Cardinality(Marking(id)) \in Nat
          /\ Cardinality(Marking(id)) + Cardinality(Setting(id)) <= Cardinality(Slot)
      BY <3>1, SubsetsOfSlot
    <3>4. \/ sets[id] + Cardinality(Setting(id)) <= Cardinality(Slot)
          \/ sets[id] <= Cardinality(Marking(id))
      BY <2>1, <2>3 DEF UsesInvOf
    <3>5. sets'[id] + Cardinality(Setting(id)') <= Cardinality(Slot)
      BY <2>1, <3>2, <3>3, <3>4
    <3> QED BY <2>1, <2>3, <3>5 DEF UsesInvOf
  <2> QED BY <2>2, <2>3
<1> QED BY <1>2, <1>3

LEMMA UsesInvMatch ==
    ASSUME Inv, NEW id \in ResetId, UsesInvOf(id),
           NEW s \in Slot, NEW x \in ResetId, NEW w \in Password, ResetPassword(s, x, w)
    PROVE  UsesInvOf(id)'
<1>0. TypeOK
  BY DEF Inv
<1>1. /\ UNCHANGED <<resets, sets, interrupted>> /\ pc[s] = "idle" /\ Valid(x)
      /\ Marking(id) \in SUBSET Marking(id)'
      /\ x # id => Setting(id)' \in SUBSET Setting(id)
  BY <1>0 DEF ResetPassword, Start, Goto, TypeOK, Setting, Marking, dbVars, historyVars
<1>2. sets[id] \in Nat
  BY <1>0 DEF TypeOK
<1>3. CASE x # id
  BY <1>0, <1>1, <1>3, UsesUntouched
<1>4. CASE x = id
  <2>1. resets[id] # NoRow /\ ~resets[id].used
    BY <1>1, <1>4 DEF Valid
  <2> QED BY <1>0, <1>1, <1>2, <2>1, UsesKept
<1> QED BY <1>3, <1>4

LEMMA UsesInvCreate ==
    ASSUME Inv, NEW id \in ResetId, UsesInvOf(id),
           NEW s \in Slot, NEW x \in ResetId, CreateToken(s, x)
    PROVE  UsesInvOf(id)'
<1>0. TypeOK
  BY DEF Inv
<1>1. /\ Setting(id)' \in SUBSET Setting(id) /\ Marking(id) \in SUBSET Marking(id)'
      /\ Marking(id)' \in SUBSET Slot
  BY CreateTokenEffect DEF Setting, Marking
<1>2. CASE x # id
  BY <1>0, <1>1, <1>2, CreateTokenEffect, UsesUntouched
<1>3. CASE x = id
  <2>1. resets[id] = NoRow /\ sets'[id] = 0 /\ resets'[id] # NoRow /\ ~resets'[id].used
    BY <1>3, CreateTokenEffect DEF UsesInvOf
  <2>2. Cardinality(Marking(id)') \in Nat
    BY <1>1, SubsetsOfSlot
  <2>3. sets'[id] <= Cardinality(Marking(id)')
    BY <2>1, <2>2
  <2> QED BY <2>1, <2>3 DEF UsesInvOf
<1> QED BY <1>2, <1>3

LEMMA NextUsesInv == Inv /\ UsesInv /\ [Next]_vars => UsesInv'
<1> SUFFICES ASSUME Inv, UsesInv, [Next]_vars, NEW id \in ResetId PROVE UsesInvOf(id)'
  BY DEF UsesInv
<1>1. TypeOK /\ UsesInvOf(id)
  BY DEF Inv, UsesInv
<1>2. CASE RowsKept /\ NoneMatches /\ MarksKept
  BY <1>1, <1>2, UsesInvCalm
<1>3. ASSUME NEW s \in Slot, DropTokens(s) PROVE UsesInvOf(id)'
  BY <1>1, <1>3, DropTokensEffect, UsesInvCalm
<1>4. ASSUME NEW s \in Slot, NEW x \in ResetId, CreateToken(s, x) PROVE UsesInvOf(id)'
  BY <1>1, <1>4, UsesInvCreate
<1>5. ASSUME NEW s \in Slot, NEW x \in ResetId, NEW w \in Password, ResetPassword(s, x, w)
      PROVE  UsesInvOf(id)'
  BY <1>1, <1>5, UsesInvMatch
<1>6. ASSUME NEW s \in Slot, SetByReset(s) PROVE UsesInvOf(id)'
  BY <1>1, <1>6, UsesInvSet
<1>7. ASSUME NEW s \in Slot, MarkUsed(s) PROVE UsesInvOf(id)'
  BY <1>1, <1>7, UsesInvMark
<1> QED BY <1>2, <1>3, <1>4, <1>5, <1>6, <1>7, MostStepsAreCalm

\* AuthService.resetPassword: concurrent requests may all use one reset token,
\* but each of them at most once, unless one fails before it marks the token.
THEOREM ResetUsesAreBounded == Spec => []ResetUsesBounded
<1>1. Inv /\ UsesInv => ResetUsesBounded
  <2> SUFFICES ASSUME Inv, UsesInv, NEW id \in ResetId,
                      resets[id] # NoRow, id \notin interrupted
               PROVE  sets[id] <= Cardinality(Slot)
    BY DEF ResetUsesBounded
  <2>1. /\ Cardinality(Setting(id)) \in Nat
        /\ Cardinality(Marking(id)) \in Nat /\ Cardinality(Slot) \in Nat
        /\ Cardinality(Marking(id)) <= Cardinality(Slot)
    BY SettingType, SubsetsOfSlot
  <2>2. sets[id] \in Nat
    BY DEF Inv, TypeOK
  <2>3. \/ sets[id] + Cardinality(Setting(id)) <= Cardinality(Slot)
        \/ sets[id] <= Cardinality(Marking(id))
    BY DEF UsesInv, UsesInvOf
  <2> QED BY <2>1, <2>2, <2>3
<1> QED BY InitInv, NextInv, InitUsesInv, NextUsesInv, <1>1, PTL DEF Spec

=============================================================================
