------------------------------ MODULE OtpProofs ------------------------------
(***************************************************************************)
(* Proofs about Otp, for any number of requests, users, codes and rows.    *)
(*                                                                         *)
(* A request acts on a row by its id, after awaits in which anything may   *)
(* have happened to it.  So the invariants count what is still to come:    *)
(* the guesses that have been let through and not yet recorded, and the    *)
(* creates whose deleteMany is over.  Most steps neither let a guess       *)
(* through nor change a row but to remove or expire it: the lemmas about   *)
(* calm steps deal with all of those at once.                              *)
(***************************************************************************)
EXTENDS Otp, FiniteSetTheorems, TLAPS

\* Guesses of the OTP id that have been let through and are not yet recorded.
Pending(id) == {s \in Slot : pc[s] \in {"increment", "mark"} /\ seen[s] = id}

\* Those of them that are right.
Marking(id) == {s \in Slot : pc[s] = "mark" /\ seen[s] = id}

\* Requests that have deleted the rows of u and p and will create one.
Creating(u, p) ==
    {s \in Slot : pc[s] = "create" /\ req[s].user = u /\ req[s].purpose = p}

GuessInv ==
    \A id \in OtpId :
        otps[id] # NoOtp =>
            /\ otps[id].attempts + otps[id].uses + Cardinality(Pending(id))
                   <= MaxAttempts[otps[id].purpose] + Cardinality(Slot) - 1
            /\ \/ otps[id].uses = 0
               \/ otps[id].uses + Cardinality(Marking(id)) <= Cardinality(Slot)

RowsInv ==
    \A u \in User, p \in Purpose :
        Cardinality(RowsOf(u, p)) + Cardinality(Creating(u, p)) <= Cardinality(Slot)

\* An address is about to be verified: for a signup, and by a row.
SignupOnly ==
    \A s \in Slot :
        pc[s] = "verifyEmail" => req[s].purpose = "signup" /\ seen[s] \in OtpId

\* A step that changes no row but to remove or expire it.
RowsKept ==
    \A id \in OtpId :
        otps'[id] # NoOtp =>
            /\ otps[id] # NoOtp
            /\ otps'[id].user = otps[id].user
            /\ otps'[id].purpose = otps[id].purpose
            /\ otps'[id].code = otps[id].code
            /\ otps'[id].attempts = otps[id].attempts
            /\ otps'[id].uses = otps[id].uses

\* A step that lets no guess through.
NoneFinds ==
    \A s \in Slot :
        pc'[s] \in {"increment", "mark", "verifyEmail"} =>
            pc'[s] = pc[s] /\ seen'[s] = seen[s] /\ req'[s] = req[s]

\* A step that is not a deleteMany.
NoneDeletes == \A s \in Slot : pc'[s] = "create" => pc[s] = "create" /\ req'[s] = req[s]

-----------------------------------------------------------------------------
(* Finite sets. *)

\* Cardinalities of sets of slots.
LEMMA SubsetsOfSlot ==
    ASSUME NEW T \in SUBSET Slot
    PROVE  /\ Cardinality(T) \in Nat /\ Cardinality(Slot) \in Nat
           /\ Cardinality(T) <= Cardinality(Slot)
           /\ \A s \in Slot : s \notin T => Cardinality(T) <= Cardinality(Slot) - 1
           /\ T = {} => Cardinality(T) = 0
           /\ \A U \in SUBSET T : Cardinality(U) \in Nat /\ Cardinality(U) <= Cardinality(T)
           /\ \A U \in SUBSET T : \A s \in T \ U : Cardinality(U) <= Cardinality(T) - 1
<1>1. IsFiniteSet(Slot) /\ IsFiniteSet(T)
  BY OtpAssumption, FS_Subset
<1>2. Cardinality(T) \in Nat /\ Cardinality(Slot) \in Nat /\ Cardinality(T) <= Cardinality(Slot)
  BY <1>1, FS_Subset, FS_CardinalityType
<1>3. ASSUME NEW A \in SUBSET Slot, NEW U \in SUBSET A
      PROVE  Cardinality(U) \in Nat /\ Cardinality(A) \in Nat /\ Cardinality(U) <= Cardinality(A)
  <2>1. IsFiniteSet(A)
    BY <1>1, FS_Subset
  <2> QED BY <2>1, FS_Subset, FS_CardinalityType
<1>4. ASSUME NEW A \in SUBSET Slot, NEW U \in SUBSET A, NEW s \in A \ U
      PROVE  Cardinality(U) <= Cardinality(A) - 1
  <2>1. IsFiniteSet(A)
    BY <1>1, FS_Subset
  <2>2. IsFiniteSet(A \ {s}) /\ Cardinality(A \ {s}) = Cardinality(A) - 1
    BY <2>1, FS_RemoveElement
  <2>3. U \in SUBSET (A \ {s})
    OBVIOUS
  <2> QED BY <2>2, <2>3, FS_Subset
<1>5. T = {} => Cardinality(T) = 0
  BY FS_EmptySet
<1>6. \A s \in Slot : s \notin T => Cardinality(T) <= Cardinality(Slot) - 1
  BY <1>4
<1>7. \A U \in SUBSET T : Cardinality(U) \in Nat /\ Cardinality(U) <= Cardinality(T)
  BY <1>3
<1>8. \A U \in SUBSET T : \A s \in T \ U : Cardinality(U) <= Cardinality(T) - 1
  BY <1>4
<1> QED BY <1>2, <1>5, <1>6, <1>7, <1>8

\* Cardinalities of sets of rows.
LEMMA SubsetsOfOtpId ==
    ASSUME NEW T \in SUBSET OtpId
    PROVE  /\ Cardinality(T) \in Nat
           /\ T = {} => Cardinality(T) = 0
           /\ \A U \in SUBSET T : Cardinality(U) \in Nat /\ Cardinality(U) <= Cardinality(T)
           /\ \A id \in OtpId, U \in SUBSET OtpId :
                  U \subseteq T \cup {id} =>
                      Cardinality(U) \in Nat /\ Cardinality(U) <= Cardinality(T) + 1
<1>1. IsFiniteSet(OtpId) /\ IsFiniteSet(T)
  BY OtpAssumption, FS_Subset
<1>2. Cardinality(T) \in Nat /\ (T = {} => Cardinality(T) = 0)
  BY <1>1, FS_CardinalityType, FS_EmptySet
<1>3. \A U \in SUBSET T : Cardinality(U) \in Nat /\ Cardinality(U) <= Cardinality(T)
  BY <1>1, FS_Subset, FS_CardinalityType
<1>4. ASSUME NEW id \in OtpId, NEW U \in SUBSET OtpId, U \subseteq T \cup {id}
      PROVE  Cardinality(U) \in Nat /\ Cardinality(U) <= Cardinality(T) + 1
  <2>1. /\ IsFiniteSet(T \cup {id})
        /\ Cardinality(T \cup {id}) = IF id \in T THEN Cardinality(T) ELSE Cardinality(T) + 1
    BY <1>1, FS_AddElement
  <2>2. /\ Cardinality(U) \in Nat /\ Cardinality(T \cup {id}) \in Nat
        /\ Cardinality(U) <= Cardinality(T \cup {id})
    BY <1>4, <2>1, FS_Subset, FS_CardinalityType
  <2> QED BY <1>2, <2>1, <2>2
<1> QED BY <1>2, <1>3, <1>4

-----------------------------------------------------------------------------
(* Type correctness. *)

LEMMA Constants ==
    /\ NoOtp \notin OtpRow /\ NoOtp \notin OtpId
    /\ NoRequest \notin Request /\ NoCode \notin Code
    /\ \A p \in Purpose : MaxAttempts[p] \in Nat /\ MaxAttempts[p] >= 1
    /\ "signup" \in Purpose /\ "reset" \in Purpose
<1>1. \A p \in Purpose : MaxAttempts[p] \in Nat /\ MaxAttempts[p] >= 1
  BY OtpAssumption
<1> QED BY <1>1, OtpAssumption DEF Purpose

LEMMA InitTypeOK == Init => TypeOK
BY DEF Init, TypeOK

\* A request is pending in every slot that is not idle.
LEMMA RequestType ==
    ASSUME TypeOK, NEW s \in Slot, pc[s] # "idle"
    PROVE  /\ req[s] \in Request /\ req[s] # NoRequest
           /\ req[s].user \in User /\ req[s].purpose \in Purpose
BY DEF TypeOK, Request

\* Rewriting one row.
LEMMA RowType ==
    ASSUME TypeOK, NEW id \in OtpId, otps[id] # NoOtp
    PROVE  /\ otps[id] \in OtpRow
           /\ otps[id].user \in User /\ otps[id].purpose \in Purpose
           /\ otps[id].code \in Code
           /\ otps[id].attempts \in Nat /\ otps[id].uses \in Nat
           /\ [otps[id] EXCEPT !.attempts = @ + 1] \in OtpRow
           /\ [otps[id] EXCEPT !.uses = @ + 1] \in OtpRow
           /\ [otps[id] EXCEPT !.expired = TRUE] \in OtpRow
<1>1. PICK r \in OtpRow : r = otps[id]
  BY DEF TypeOK
<1>2. /\ r.user \in User /\ r.purpose \in Purpose /\ r.code \in Code
      /\ r.attempts \in Nat /\ r.uses \in Nat
  BY DEF OtpRow
<1>3. [r EXCEPT !.attempts = @ + 1] \in OtpRow
  BY <1>2 DEF OtpRow
<1>4. [r EXCEPT !.uses = @ + 1] \in OtpRow
  BY <1>2 DEF OtpRow
<1>5. [r EXCEPT !.expired = TRUE] \in OtpRow
  BY DEF OtpRow
<1> QED BY <1>1, <1>2, <1>3, <1>4, <1>5

LEMMA StartTypeOK ==
    ASSUME TypeOK, NEW s \in Slot, NEW label \in {"delete", "find"}, NEW u \in User,
           NEW p \in Purpose, NEW g \in Code \cup {NoCode}, Start(s, label, u, p, g),
           account' \in [User -> {"none", "unverified", "verified", "deleted"}]
    PROVE  TypeOK'
<1>1. [user |-> u, purpose |-> p, guess |-> g] \in Request
  BY DEF Request
<1>2. [user |-> u, purpose |-> p, guess |-> g] # NoRequest
  BY <1>1, Constants
<1> QED BY <1>1, <1>2 DEF TypeOK, Start, Goto

LEMMA FinishTypeOK ==
    ASSUME TypeOK, NEW s \in Slot, Finish(s),
           account' \in [User -> {"none", "unverified", "verified", "deleted"}],
           otps' \in [OtpId -> OtpRow \cup {NoOtp}]
    PROVE  TypeOK'
BY DEF TypeOK, Finish, Goto

LEMMA NextTypeOK == TypeOK /\ [Next]_vars => TypeOK'
<1> SUFFICES ASSUME TypeOK, [Next]_vars PROVE TypeOK'
  OBVIOUS
<1> USE Constants
<1>1. ASSUME NEW s \in Slot, NEW u \in User, Signup(s, u) PROVE TypeOK'
  <2>1. account' \in [User -> {"none", "unverified", "verified", "deleted"}]
    BY <1>1 DEF TypeOK, Signup
  <2> QED BY <1>1, <2>1, StartTypeOK DEF Signup
<1>2. ASSUME NEW s \in Slot, NEW u \in User, Resend(s, u) PROVE TypeOK'
  <2>1. account' \in [User -> {"none", "unverified", "verified", "deleted"}]
    BY <1>2 DEF TypeOK, Resend
  <2> QED BY <1>2, <2>1, StartTypeOK DEF Resend
<1>3. ASSUME NEW s \in Slot, NEW u \in User, ForgotPassword(s, u) PROVE TypeOK'
  <2>1. account' \in [User -> {"none", "unverified", "verified", "deleted"}]
    BY <1>3 DEF TypeOK, ForgotPassword
  <2> QED BY <1>3, <2>1, StartTypeOK DEF ForgotPassword
<1>4. ASSUME NEW s \in Slot, NEW u \in User, NEW p \in Purpose, NEW g \in Code,
             Verify(s, u, p, g)
      PROVE  TypeOK'
  <2>1. account' \in [User -> {"none", "unverified", "verified", "deleted"}]
    BY <1>4 DEF TypeOK, Verify
  <2> QED BY <1>4, <2>1, StartTypeOK DEF Verify
<1>5. ASSUME NEW s \in Slot, DeleteOld(s) PROVE TypeOK'
  BY <1>5 DEF TypeOK, DeleteOld, Goto
<1>6. ASSUME NEW s \in Slot, NEW c \in Code, NEW id \in OtpId, CreateOtp(s, c, id)
      PROVE  TypeOK'
  <2>1. req[s].user \in User /\ req[s].purpose \in Purpose
    BY <1>6, RequestType DEF CreateOtp
  <2>2. [user |-> req[s].user, purpose |-> req[s].purpose, code |-> c,
         attempts |-> 0, uses |-> 0, expired |-> FALSE] \in OtpRow
    BY <2>1 DEF OtpRow
  <2>3. otps' \in [OtpId -> OtpRow \cup {NoOtp}]
    BY <1>6, <2>2 DEF TypeOK, CreateOtp
  <2>4. account' \in [User -> {"none", "unverified", "verified", "deleted"}]
    BY <1>6 DEF TypeOK, CreateOtp
  <2> QED BY <1>6, <2>3, <2>4, FinishTypeOK DEF CreateOtp
<1>7. ASSUME NEW s \in Slot, NEW id \in OtpId, Find(s, id) PROVE TypeOK'
  BY <1>7 DEF TypeOK, Find, Goto
<1>8. ASSUME NEW s \in Slot, Refuse(s) PROVE TypeOK'
  <2>1. /\ account' \in [User -> {"none", "unverified", "verified", "deleted"}]
        /\ otps' \in [OtpId -> OtpRow \cup {NoOtp}] /\ Finish(s)
    BY <1>8 DEF TypeOK, Refuse
  <2> QED BY <2>1, FinishTypeOK
<1>9. ASSUME NEW s \in Slot, CountAttempt(s) PROVE TypeOK'
  <2>1. seen[s] \in OtpId
    BY <1>9 DEF TypeOK, CountAttempt
  <2>2. [otps[seen[s]] EXCEPT !.attempts = @ + 1] \in OtpRow
    BY <1>9, <2>1, RowType DEF CountAttempt
  <2>3. /\ account' \in [User -> {"none", "unverified", "verified", "deleted"}]
        /\ otps' \in [OtpId -> OtpRow \cup {NoOtp}] /\ Finish(s)
    BY <1>9, <2>2 DEF TypeOK, CountAttempt
  <2> QED BY <2>3, FinishTypeOK
<1>10. ASSUME NEW s \in Slot, AcceptReset(s) PROVE TypeOK'
  <2>1. seen[s] \in OtpId
    BY <1>10 DEF TypeOK, AcceptReset
  <2>2. [otps[seen[s]] EXCEPT !.uses = @ + 1] \in OtpRow
    BY <1>10, <2>1, RowType DEF AcceptReset
  <2>3. /\ account' \in [User -> {"none", "unverified", "verified", "deleted"}]
        /\ otps' \in [OtpId -> OtpRow \cup {NoOtp}] /\ Finish(s)
    BY <1>10, <2>2 DEF TypeOK, AcceptReset
  <2> QED BY <2>3, FinishTypeOK
<1>11. ASSUME NEW s \in Slot, AcceptSignup(s) PROVE TypeOK'
  <2>1. seen[s] \in OtpId
    BY <1>11 DEF TypeOK, AcceptSignup
  <2>2. [otps[seen[s]] EXCEPT !.uses = @ + 1] \in OtpRow
    BY <1>11, <2>1, RowType DEF AcceptSignup
  <2>3. otps' \in [OtpId -> OtpRow \cup {NoOtp}]
    BY <1>11, <2>2 DEF TypeOK, AcceptSignup
  <2> QED BY <1>11, <2>3 DEF TypeOK, AcceptSignup, Goto
<1>12. ASSUME NEW s \in Slot, MarkEmailVerified(s) PROVE TypeOK'
  <2>1. /\ account' \in [User -> {"none", "unverified", "verified", "deleted"}]
        /\ otps' \in [OtpId -> OtpRow \cup {NoOtp}] /\ Finish(s)
    BY <1>12 DEF TypeOK, MarkEmailVerified
  <2> QED BY <2>1, FinishTypeOK
<1>13. ASSUME NEW s \in Slot, Reject(s) PROVE TypeOK'
  <2>1. /\ account' \in [User -> {"none", "unverified", "verified", "deleted"}]
        /\ otps' \in [OtpId -> OtpRow \cup {NoOtp}] /\ Finish(s)
    BY <1>13 DEF TypeOK, Reject
  <2> QED BY <2>1, FinishTypeOK
<1>14. ASSUME NEW id \in OtpId, Expire(id) PROVE TypeOK'
  <2>1. [otps[id] EXCEPT !.expired = TRUE] \in OtpRow
    BY <1>14, RowType DEF Expire
  <2>2. otps' \in [OtpId -> OtpRow \cup {NoOtp}]
    BY <1>14, <2>1 DEF TypeOK, Expire
  <2> QED BY <1>14, <2>2 DEF TypeOK, Expire
<1>15. ASSUME NEW u \in User, DeleteAccount(u) PROVE TypeOK'
  BY <1>15 DEF TypeOK, DeleteAccount
<1>16. CASE Restart
  BY <1>16 DEF TypeOK, Restart
<1>17. CASE UNCHANGED vars
  BY <1>17 DEF TypeOK, vars
<1> QED
  BY <1>1, <1>2, <1>3, <1>4, <1>5, <1>6, <1>7, <1>8, <1>9, <1>10, <1>11, <1>12,
     <1>13, <1>14, <1>15, <1>16, <1>17 DEF Next, RequestStep

\* Every state of the OTP protocol has its types.
THEOREM TypeCorrect == Spec => []TypeOK
<1>1. Init => TypeOK
  BY InitTypeOK
<1>2. TypeOK /\ [Next]_vars => TypeOK'
  BY NextTypeOK
<1> QED BY <1>1, <1>2, PTL DEF Spec

-----------------------------------------------------------------------------
(* Calm steps. *)

\* All steps are calm but a deleteMany, a create, and those that let a guess
\* through or record it.
LEMMA MostStepsAreCalm ==
    ASSUME TypeOK, [Next]_vars
    PROVE  \/ RowsKept /\ NoneFinds /\ NoneDeletes
           \/ \E s \in Slot :
                 \/ DeleteOld(s)
                 \/ \E c \in Code, id \in OtpId : CreateOtp(s, c, id)
                 \/ \E id \in OtpId : Find(s, id)
                 \/ CountAttempt(s)
                 \/ AcceptReset(s)
                 \/ AcceptSignup(s)
<1> DEFINE Calm == RowsKept /\ NoneFinds /\ NoneDeletes
<1> USE DEF RowsKept, NoneFinds, NoneDeletes, TypeOK
<1>1. ASSUME NEW s \in Slot, NEW u \in User,
             Signup(s, u) \/ Resend(s, u) \/ ForgotPassword(s, u)
      PROVE  Calm
  BY <1>1 DEF Signup, Resend, ForgotPassword, Start, Goto
<1>2. ASSUME NEW s \in Slot, NEW u \in User, NEW p \in Purpose, NEW g \in Code,
             Verify(s, u, p, g)
      PROVE  Calm
  BY <1>2 DEF Verify, Start, Goto
<1>3. ASSUME NEW s \in Slot, Refuse(s) \/ MarkEmailVerified(s) \/ Reject(s)
      PROVE  Calm
  BY <1>3 DEF Refuse, MarkEmailVerified, Reject, Finish, Goto
<1>4. ASSUME NEW id \in OtpId, Expire(id) PROVE Calm
  <2>1. otps'[id] = [otps[id] EXCEPT !.expired = TRUE] /\ otps[id] \in OtpRow
    BY <1>4, RowType DEF Expire
  <2>2. \A x \in OtpId : x # id => otps'[x] = otps[x]
    BY <1>4 DEF Expire
  <2>3. RowsKept
    BY <1>4, <2>1, <2>2 DEF Expire, OtpRow
  <2> QED BY <1>4, <2>3 DEF Expire
<1>5. ASSUME NEW u \in User, DeleteAccount(u) PROVE Calm
  BY <1>5, Constants DEF DeleteAccount
<1>6. CASE Restart
  BY <1>6 DEF Restart
<1>7. CASE UNCHANGED vars
  BY <1>7 DEF vars
<1> QED
  BY <1>1, <1>2, <1>3, <1>4, <1>5, <1>6, <1>7 DEF Next, RequestStep

\* What a deleteMany and a create do to the rows and the requests.
LEMMA DeleteOldEffect ==
    ASSUME TypeOK, NEW s \in Slot, DeleteOld(s)
    PROVE  /\ RowsKept /\ NoneFinds
           /\ \A id \in RowsOf(req[s].user, req[s].purpose) : otps'[id] = NoOtp
           /\ pc[s] = "delete" /\ req' = req
           /\ \A t \in Slot : t # s => pc'[t] = pc[t]
BY Constants DEF TypeOK, RowsKept, NoneFinds, DeleteOld, Goto, RowsOf

LEMMA CreateOtpEffect ==
    ASSUME TypeOK, NEW s \in Slot, NEW c \in Code, NEW id \in OtpId, CreateOtp(s, c, id)
    PROVE  /\ NoneFinds /\ NoneDeletes
           /\ pc[s] = "create" /\ pc'[s] = "idle"
           /\ otps[id] = NoOtp /\ \A t \in Slot : seen[t] # id /\ seen'[t] # id
           /\ otps'[id].user = req[s].user /\ otps'[id].purpose = req[s].purpose
           /\ otps'[id].attempts = 0 /\ otps'[id].uses = 0
           /\ \A x \in OtpId : x # id => otps'[x] = otps[x]
BY Constants DEF TypeOK, NoneFinds, NoneDeletes, CreateOtp, IdsInUse, Finish, Goto

\* What recording a guess does to its row.
LEMMA RecordEffect ==
    ASSUME TypeOK, NEW s \in Slot, CountAttempt(s) \/ AcceptReset(s) \/ AcceptSignup(s)
    PROVE  /\ seen[s] \in OtpId /\ otps[seen[s]] # NoOtp /\ otps'[seen[s]] # NoOtp
           /\ otps'[seen[s]].user = otps[seen[s]].user
           /\ otps'[seen[s]].purpose = otps[seen[s]].purpose
           /\ otps'[seen[s]].code = otps[seen[s]].code
           /\ \/ /\ pc[s] = "increment"
                 /\ otps'[seen[s]].attempts = otps[seen[s]].attempts + 1
                 /\ otps'[seen[s]].uses = otps[seen[s]].uses
              \/ /\ pc[s] = "mark"
                 /\ otps'[seen[s]].attempts = otps[seen[s]].attempts
                 /\ otps'[seen[s]].uses = otps[seen[s]].uses + 1
           /\ \A x \in OtpId : x # seen[s] => otps'[x] = otps[x]
           /\ pc'[s] \in {"idle", "verifyEmail"}
           /\ NoneDeletes
           /\ \A t \in Slot : t # s =>
                 pc'[t] = pc[t] /\ seen'[t] = seen[t] /\ req'[t] = req[t]
<1>1. seen[s] \in OtpId /\ otps[seen[s]] # NoOtp
  BY DEF TypeOK, CountAttempt, AcceptReset, AcceptSignup
<1>2. PICK r \in OtpRow : r = otps[seen[s]]
  BY <1>1, RowType
<1>3. /\ [r EXCEPT !.attempts = @ + 1] # NoOtp /\ [r EXCEPT !.uses = @ + 1] # NoOtp
  BY <1>1, <1>2, RowType, Constants
<1>4. CASE CountAttempt(s)
  <2>1. otps' = [otps EXCEPT ![seen[s]] = [r EXCEPT !.attempts = @ + 1]]
    BY <1>2, <1>4 DEF CountAttempt
  <2> QED BY <1>1, <1>2, <1>3, <1>4, <2>1
          DEF TypeOK, OtpRow, CountAttempt, Finish, Goto, NoneDeletes
<1>5. CASE AcceptReset(s)
  <2>1. otps' = [otps EXCEPT ![seen[s]] = [r EXCEPT !.uses = @ + 1]]
    BY <1>2, <1>5 DEF AcceptReset
  <2> QED BY <1>1, <1>2, <1>3, <1>5, <2>1
          DEF TypeOK, OtpRow, AcceptReset, Finish, Goto, NoneDeletes
<1>6. CASE AcceptSignup(s)
  <2>1. otps' = [otps EXCEPT ![seen[s]] = [r EXCEPT !.uses = @ + 1]]
    BY <1>2, <1>6 DEF AcceptSignup
  <2> QED BY <1>1, <1>2, <1>3, <1>6, <2>1
          DEF TypeOK, OtpRow, AcceptSignup, Goto, NoneDeletes
<1> QED BY <1>4, <1>5, <1>6

-----------------------------------------------------------------------------
(* Guesses. *)

LEMMA InitGuessInv == Init => GuessInv
BY DEF Init, GuessInv

LEMMA GuessInvCalm ==
    ASSUME TypeOK, GuessInv, RowsKept, NoneFinds
    PROVE  GuessInv'
<1> SUFFICES ASSUME NEW id \in OtpId, otps'[id] # NoOtp
             PROVE  /\ otps'[id].attempts + otps'[id].uses + Cardinality(Pending(id)')
                           <= MaxAttempts[otps'[id].purpose] + Cardinality(Slot) - 1
                    /\ \/ otps'[id].uses = 0
                       \/ otps'[id].uses + Cardinality(Marking(id)') <= Cardinality(Slot)
  BY DEF GuessInv
<1>1. Pending(id) \in SUBSET Slot /\ Pending(id)' \in SUBSET Pending(id)
  BY DEF Pending, NoneFinds
<1>2. Marking(id) \in SUBSET Slot /\ Marking(id)' \in SUBSET Marking(id)
  BY DEF Marking, NoneFinds
<1>3. /\ Cardinality(Pending(id)') <= Cardinality(Pending(id))
      /\ Cardinality(Marking(id)') <= Cardinality(Marking(id))
      /\ Cardinality(Pending(id)') \in Nat /\ Cardinality(Pending(id)) \in Nat
      /\ Cardinality(Marking(id)') \in Nat /\ Cardinality(Marking(id)) \in Nat
      /\ Cardinality(Slot) \in Nat
  BY <1>1, <1>2, SubsetsOfSlot
<1>4. /\ otps[id] # NoOtp
      /\ otps'[id].purpose = otps[id].purpose
      /\ otps'[id].attempts = otps[id].attempts /\ otps'[id].uses = otps[id].uses
  BY DEF RowsKept
<1>5. /\ otps[id].attempts \in Nat /\ otps[id].uses \in Nat
      /\ MaxAttempts[otps[id].purpose] \in Nat
  BY <1>4, RowType, Constants
<1> QED BY <1>3, <1>4, <1>5 DEF GuessInv

LEMMA NextGuessInv == TypeOK /\ GuessInv /\ [Next]_vars => GuessInv'
<1> SUFFICES ASSUME TypeOK, GuessInv, [Next]_vars PROVE GuessInv'
  OBVIOUS
<1>1. CASE RowsKept /\ NoneFinds
  BY <1>1, GuessInvCalm
<1>2. ASSUME NEW s \in Slot, NEW c \in Code, NEW new \in OtpId, CreateOtp(s, c, new),
             NEW id \in OtpId, otps'[id] # NoOtp
      PROVE  /\ otps'[id].attempts + otps'[id].uses + Cardinality(Pending(id)')
                    <= MaxAttempts[otps'[id].purpose] + Cardinality(Slot) - 1
             /\ \/ otps'[id].uses = 0
                \/ otps'[id].uses + Cardinality(Marking(id)') <= Cardinality(Slot)
  <2>1. /\ NoneFinds
        /\ otps'[new].purpose = req[s].purpose /\ req[s].purpose \in Purpose
        /\ otps'[new].attempts = 0 /\ otps'[new].uses = 0
        /\ \A t \in Slot : seen'[t] # new
        /\ \A x \in OtpId : x # new => otps'[x] = otps[x]
    <3>1. pc[s] # "idle"
      BY <1>2 DEF CreateOtp
    <3> QED BY <1>2, <3>1, CreateOtpEffect, RequestType
  <2>2. Pending(id) \in SUBSET Slot /\ Pending(id)' \in SUBSET Pending(id)
    BY <2>1 DEF Pending, NoneFinds
  <2>3. Marking(id) \in SUBSET Slot /\ Marking(id)' \in SUBSET Marking(id)
    BY <2>1 DEF Marking, NoneFinds
  <2>4. /\ Cardinality(Pending(id)') <= Cardinality(Pending(id))
        /\ Cardinality(Marking(id)') <= Cardinality(Marking(id))
        /\ Cardinality(Pending(id)') \in Nat /\ Cardinality(Pending(id)) \in Nat
        /\ Cardinality(Marking(id)') \in Nat /\ Cardinality(Marking(id)) \in Nat
        /\ Cardinality(Slot) \in Nat
    BY <2>2, <2>3, SubsetsOfSlot
  <2>5. CASE id = new
    <3>1. Pending(id)' = {}
      BY <2>1, <2>5 DEF Pending
    <3>2. Cardinality(Pending(id)') = 0
      BY <3>1, FS_EmptySet
    <3>3. MaxAttempts[req[s].purpose] \in Nat /\ MaxAttempts[req[s].purpose] >= 1
      BY <2>1, Constants
    <3> QED BY <2>1, <2>4, <2>5, <3>2, <3>3
  <2>6. CASE id # new
    <3>1. otps[id] # NoOtp /\ otps'[id] = otps[id]
      BY <1>2, <2>1, <2>6
    <3>2. /\ otps[id].attempts \in Nat /\ otps[id].uses \in Nat
          /\ MaxAttempts[otps[id].purpose] \in Nat
      BY <3>1, RowType, Constants
    <3> QED BY <2>4, <3>1, <3>2 DEF GuessInv
  <2> QED BY <2>5, <2>6
<1>3. ASSUME NEW s \in Slot, NEW got \in OtpId, Find(s, got),
             NEW id \in OtpId, otps'[id] # NoOtp
      PROVE  /\ otps'[id].attempts + otps'[id].uses + Cardinality(Pending(id)')
                    <= MaxAttempts[otps'[id].purpose] + Cardinality(Slot) - 1
             /\ \/ otps'[id].uses = 0
                \/ otps'[id].uses + Cardinality(Marking(id)') <= Cardinality(Slot)
  <2>1. /\ otps' = otps /\ got \in RowsOf(req[s].user, req[s].purpose)
        /\ otps[got].uses = 0 /\ ~(otps[got].attempts >= MaxAttempts[otps[got].purpose])
        /\ seen' = [seen EXCEPT ![s] = got]
        /\ \A t \in Slot : t # s => pc'[t] = pc[t]
    BY <1>3 DEF TypeOK, Find, Valid, Locked, Goto
  <2>2. /\ otps[id].attempts \in Nat /\ otps[id].uses \in Nat
        /\ MaxAttempts[otps[id].purpose] \in Nat
    BY <1>3, <2>1, RowType, Constants
  <2>3. CASE id = got
    <3>1. Pending(id)' \in SUBSET Slot
      BY DEF Pending
    <3>2. Cardinality(Pending(id)') \in Nat /\ Cardinality(Slot) \in Nat
          /\ Cardinality(Pending(id)') <= Cardinality(Slot)
      BY <3>1, SubsetsOfSlot
    <3> QED BY <2>1, <2>2, <2>3, <3>2
  <2>4. CASE id # got
    <3>1. seen'[s] # id /\ \A t \in Slot : t # s => seen'[t] = seen[t]
      BY <2>1, <2>4 DEF TypeOK
    <3>2. Pending(id) \in SUBSET Slot /\ Pending(id)' \in SUBSET Pending(id)
      BY <2>1, <3>1 DEF Pending
    <3>3. Marking(id) \in SUBSET Slot /\ Marking(id)' \in SUBSET Marking(id)
      BY <2>1, <3>1 DEF Marking
    <3>4. /\ Cardinality(Pending(id)') <= Cardinality(Pending(id))
          /\ Cardinality(Marking(id)') <= Cardinality(Marking(id))
          /\ Cardinality(Pending(id)') \in Nat /\ Cardinality(Pending(id)) \in Nat
          /\ Cardinality(Marking(id)') \in Nat /\ Cardinality(Marking(id)) \in Nat
          /\ Cardinality(Slot) \in Nat
      BY <3>2, <3>3, SubsetsOfSlot
    <3> QED BY <1>3, <2>1, <2>2, <3>4 DEF GuessInv
  <2> QED BY <2>3, <2>4
<1>4. ASSUME NEW s \in Slot, CountAttempt(s) \/ AcceptReset(s) \/ AcceptSignup(s),
             NEW id \in OtpId, otps'[id] # NoOtp
      PROVE  /\ otps'[id].attempts + otps'[id].uses + Cardinality(Pending(id)')
                    <= MaxAttempts[otps'[id].purpose] + Cardinality(Slot) - 1
             /\ \/ otps'[id].uses = 0
                \/ otps'[id].uses + Cardinality(Marking(id)') <= Cardinality(Slot)
  <2>1. /\ seen[s] \in OtpId /\ otps[seen[s]] # NoOtp
        /\ otps'[seen[s]].purpose = otps[seen[s]].purpose
        /\ \/ /\ pc[s] = "increment"
              /\ otps'[seen[s]].attempts = otps[seen[s]].attempts + 1
              /\ otps'[seen[s]].uses = otps[seen[s]].uses
           \/ /\ pc[s] = "mark"
              /\ otps'[seen[s]].attempts = otps[seen[s]].attempts
              /\ otps'[seen[s]].uses = otps[seen[s]].uses + 1
        /\ \A x \in OtpId : x # seen[s] => otps'[x] = otps[x]
        /\ pc'[s] \in {"idle", "verifyEmail"}
        /\ \A t \in Slot : t # s => pc'[t] = pc[t] /\ seen'[t] = seen[t]
    BY <1>4, RecordEffect
  <2>2. Pending(id) \in SUBSET Slot /\ Pending(id)' \in SUBSET Pending(id)
    BY <2>1 DEF Pending
  <2>3. Marking(id) \in SUBSET Slot /\ Marking(id)' \in SUBSET Marking(id)
    BY <2>1 DEF Marking
  <2>4. /\ Cardinality(Pending(id)') <= Cardinality(Pending(id))
        /\ Cardinality(Marking(id)') <= Cardinality(Marking(id))
        /\ Cardinality(Pending(id)') \in Nat /\ Cardinality(Pending(id)) \in Nat
        /\ Cardinality(Marking(id)') \in Nat /\ Cardinality(Marking(id)) \in Nat
        /\ Cardinality(Slot) \in Nat
    BY <2>2, <2>3, SubsetsOfSlot
  <2>5. /\ otps[id] # NoOtp
        /\ otps[id].attempts \in Nat /\ otps[id].uses \in Nat
        /\ MaxAttempts[otps[id].purpose] \in Nat
    <3>1. otps[id] # NoOtp
      BY <1>4, <2>1
    <3> QED BY <3>1, RowType, Constants
  <2>6. CASE id # seen[s]
    BY <2>1, <2>4, <2>5, <2>6 DEF GuessInv
  <2>7. CASE id = seen[s]
    <3>1. s \in Pending(id) \ Pending(id)'
      BY <2>1, <2>7 DEF Pending
    <3>2. Cardinality(Pending(id)') <= Cardinality(Pending(id)) - 1
      BY <2>2, <3>1, SubsetsOfSlot
    <3>3. CASE pc[s] = "increment"
      BY <2>1, <2>4, <2>5, <2>7, <3>2, <3>3 DEF GuessInv
    <3>4. CASE pc[s] = "mark"
      <4>1. s \in Marking(id) \ Marking(id)'
        BY <2>1, <2>7, <3>4 DEF Marking
      <4>2. /\ Cardinality(Marking(id)') <= Cardinality(Marking(id)) - 1
            /\ Cardinality(Marking(id)) <= Cardinality(Slot)
        BY <2>3, <4>1, SubsetsOfSlot
      <4> QED BY <2>1, <2>4, <2>5, <2>7, <3>2, <3>4, <4>2 DEF GuessInv
    <3> QED BY <2>1, <3>3, <3>4
  <2> QED BY <2>6, <2>7
<1>5. ASSUME NEW s \in Slot, DeleteOld(s) PROVE GuessInv'
  BY <1>5, DeleteOldEffect, GuessInvCalm
<1>6. ASSUME NEW s \in Slot, NEW c \in Code, NEW new \in OtpId, CreateOtp(s, c, new)
      PROVE  GuessInv'
  BY <1>2, <1>6 DEF GuessInv
<1>7. ASSUME NEW s \in Slot, NEW got \in OtpId, Find(s, got) PROVE GuessInv'
  BY <1>3, <1>7 DEF GuessInv
<1>8. ASSUME NEW s \in Slot, CountAttempt(s) \/ AcceptReset(s) \/ AcceptSignup(s)
      PROVE  GuessInv'
  BY <1>4, <1>8 DEF GuessInv
<1> QED BY <1>1, <1>5, <1>6, <1>7, <1>8, MostStepsAreCalm

\* verifyOtp: concurrent guesses pass maxAttempts by at most the other requests
\* in flight, however they interleave.
THEOREM GuessesAreBounded == Spec => []GuessesBounded
<1>1. Init => TypeOK /\ GuessInv
  BY InitTypeOK, InitGuessInv
<1>2. TypeOK /\ GuessInv /\ [Next]_vars => TypeOK' /\ GuessInv'
  BY NextTypeOK, NextGuessInv
<1>3. TypeOK /\ GuessInv => GuessesBounded
  <2> SUFFICES ASSUME TypeOK, GuessInv, NEW id \in OtpId, otps[id] # NoOtp
               PROVE  /\ otps[id].attempts + otps[id].uses
                             <= MaxAttempts[otps[id].purpose] + Cardinality(Slot) - 1
                      /\ otps[id].uses <= Cardinality(Slot)
    BY DEF GuessesBounded
  <2>1. Pending(id) \in SUBSET Slot /\ Marking(id) \in SUBSET Slot
    BY DEF Pending, Marking
  <2>2. /\ Cardinality(Pending(id)) \in Nat /\ Cardinality(Marking(id)) \in Nat
        /\ Cardinality(Slot) \in Nat
    BY <2>1, SubsetsOfSlot
  <2>3. /\ otps[id].attempts \in Nat /\ otps[id].uses \in Nat
        /\ MaxAttempts[otps[id].purpose] \in Nat
    BY RowType, Constants
  <2> QED BY <2>2, <2>3 DEF GuessInv
<1> QED BY <1>1, <1>2, <1>3, PTL DEF Spec

-----------------------------------------------------------------------------
(* Live codes. *)

LEMMA InitRowsInv == Init => RowsInv
<1> SUFFICES ASSUME Init, NEW u \in User, NEW p \in Purpose
             PROVE  Cardinality(RowsOf(u, p)) + Cardinality(Creating(u, p))
                        <= Cardinality(Slot)
  BY DEF RowsInv
<1>1. RowsOf(u, p) = {} /\ Creating(u, p) = {}
  BY DEF Init, RowsOf, Creating
<1>2. Cardinality(RowsOf(u, p)) = 0 /\ Cardinality(Creating(u, p)) = 0
  BY <1>1, FS_EmptySet
<1>3. Slot \in SUBSET Slot
  OBVIOUS
<1> QED BY <1>2, <1>3, SubsetsOfSlot

\* A step that adds no row and is no deleteMany.
LEMMA RowsInvShrinks ==
    ASSUME RowsInv, NEW u \in User, NEW p \in Purpose,
           RowsOf(u, p)' \in SUBSET RowsOf(u, p),
           Creating(u, p)' \in SUBSET Creating(u, p)
    PROVE  Cardinality(RowsOf(u, p)') + Cardinality(Creating(u, p)')
               <= Cardinality(Slot)
<1>1. RowsOf(u, p) \in SUBSET OtpId /\ Creating(u, p) \in SUBSET Slot
  BY DEF RowsOf, Creating
<1>2. /\ Cardinality(RowsOf(u, p)) \in Nat /\ Cardinality(RowsOf(u, p)') \in Nat
      /\ Cardinality(RowsOf(u, p)') <= Cardinality(RowsOf(u, p))
  BY <1>1, SubsetsOfOtpId
<1>3. /\ Cardinality(Creating(u, p)) \in Nat /\ Cardinality(Creating(u, p)') \in Nat
      /\ Cardinality(Creating(u, p)') <= Cardinality(Creating(u, p))
      /\ Cardinality(Slot) \in Nat
  BY <1>1, SubsetsOfSlot
<1> QED BY <1>2, <1>3 DEF RowsInv

LEMMA NextRowsInv == TypeOK /\ RowsInv /\ [Next]_vars => RowsInv'
<1> SUFFICES ASSUME TypeOK, RowsInv, [Next]_vars, NEW u \in User, NEW p \in Purpose
             PROVE  Cardinality(RowsOf(u, p)') + Cardinality(Creating(u, p)')
                        <= Cardinality(Slot)
  BY DEF RowsInv
<1>1. RowsOf(u, p) \in SUBSET OtpId /\ Creating(u, p) \in SUBSET Slot
      /\ RowsOf(u, p)' \in SUBSET OtpId /\ Creating(u, p)' \in SUBSET Slot
  BY DEF RowsOf, Creating
<1>2. RowsKept => RowsOf(u, p)' \in SUBSET RowsOf(u, p)
  BY DEF RowsKept, RowsOf
<1>3. NoneDeletes => Creating(u, p)' \in SUBSET Creating(u, p)
  BY DEF NoneDeletes, Creating
<1>4. CASE RowsKept /\ NoneDeletes
  BY <1>2, <1>3, <1>4, RowsInvShrinks
<1>5. ASSUME NEW s \in Slot, DeleteOld(s)
      PROVE  Cardinality(RowsOf(u, p)') + Cardinality(Creating(u, p)')
                 <= Cardinality(Slot)
  <2>1. /\ RowsKept /\ req' = req
        /\ \A id \in RowsOf(req[s].user, req[s].purpose) : otps'[id] = NoOtp
        /\ \A t \in Slot : t # s => pc'[t] = pc[t]
    BY <1>5, DeleteOldEffect
  <2>2. CASE u = req[s].user /\ p = req[s].purpose
    <3>1. RowsOf(u, p)' = {}
      BY <1>2, <2>1, <2>2 DEF RowsOf
    <3>2. Cardinality(RowsOf(u, p)') = 0
      BY <3>1, FS_EmptySet
    <3>3. /\ Cardinality(Creating(u, p)') \in Nat
          /\ Cardinality(Creating(u, p)') <= Cardinality(Slot) /\ Cardinality(Slot) \in Nat
      BY <1>1, SubsetsOfSlot
    <3> QED BY <3>2, <3>3
  <2>3. CASE ~(u = req[s].user /\ p = req[s].purpose)
    <3>1. Creating(u, p)' \in SUBSET Creating(u, p)
      BY <2>1, <2>3 DEF Creating
    <3> QED BY <1>2, <2>1, <3>1, RowsInvShrinks
  <2> QED BY <2>2, <2>3
<1>6. ASSUME NEW s \in Slot, NEW c \in Code, NEW id \in OtpId, CreateOtp(s, c, id)
      PROVE  Cardinality(RowsOf(u, p)') + Cardinality(Creating(u, p)')
                 <= Cardinality(Slot)
  <2>1. /\ NoneDeletes /\ pc[s] = "create" /\ pc'[s] = "idle"
        /\ otps'[id].user = req[s].user /\ otps'[id].purpose = req[s].purpose
        /\ \A x \in OtpId : x # id => otps'[x] = otps[x]
    BY <1>6, CreateOtpEffect
  <2>2. Creating(u, p)' \in SUBSET Creating(u, p)
    BY <1>3, <2>1
  <2>3. CASE u = req[s].user /\ p = req[s].purpose
    <3>1. RowsOf(u, p)' \subseteq RowsOf(u, p) \cup {id}
      BY <2>1 DEF RowsOf
    <3>2. /\ Cardinality(RowsOf(u, p)') <= Cardinality(RowsOf(u, p)) + 1
          /\ Cardinality(RowsOf(u, p)') \in Nat /\ Cardinality(RowsOf(u, p)) \in Nat
      BY <1>1, <3>1, SubsetsOfOtpId
    <3>3. s \in Creating(u, p) \ Creating(u, p)'
      BY <2>1, <2>3 DEF Creating
    <3>4. /\ Cardinality(Creating(u, p)') <= Cardinality(Creating(u, p)) - 1
          /\ Cardinality(Creating(u, p)') \in Nat /\ Cardinality(Creating(u, p)) \in Nat
          /\ Cardinality(Slot) \in Nat
      BY <1>1, <2>2, <3>3, SubsetsOfSlot
    <3> QED BY <3>2, <3>4 DEF RowsInv
  <2>4. CASE ~(u = req[s].user /\ p = req[s].purpose)
    <3>1. RowsOf(u, p)' \in SUBSET RowsOf(u, p)
      BY <2>1, <2>4 DEF RowsOf
    <3> QED BY <2>2, <3>1, RowsInvShrinks
  <2> QED BY <2>3, <2>4
<1>7. ASSUME NEW s \in Slot, NEW id \in OtpId, Find(s, id)
      PROVE  Cardinality(RowsOf(u, p)') + Cardinality(Creating(u, p)')
                 <= Cardinality(Slot)
  <2>1. RowsOf(u, p)' \in SUBSET RowsOf(u, p)
    BY <1>7 DEF Find, RowsOf
  <2>2. NoneDeletes
    BY <1>7 DEF TypeOK, Find, Goto, NoneDeletes
  <2> QED BY <1>3, <2>1, <2>2, RowsInvShrinks
<1>8. ASSUME NEW s \in Slot, CountAttempt(s) \/ AcceptReset(s) \/ AcceptSignup(s)
      PROVE  Cardinality(RowsOf(u, p)') + Cardinality(Creating(u, p)')
                 <= Cardinality(Slot)
  <2>1. /\ otps[seen[s]] # NoOtp /\ NoneDeletes
        /\ otps'[seen[s]].user = otps[seen[s]].user
        /\ otps'[seen[s]].purpose = otps[seen[s]].purpose
        /\ \A x \in OtpId : x # seen[s] => otps'[x] = otps[x]
    BY <1>8, RecordEffect
  <2>2. RowsOf(u, p)' \in SUBSET RowsOf(u, p)
    BY <2>1 DEF RowsOf
  <2> QED BY <1>3, <2>1, <2>2, RowsInvShrinks
<1> QED BY <1>4, <1>5, <1>6, <1>7, <1>8, MostStepsAreCalm

\* createOtp: however its deleteMany and create interleave, a user has at most
\* as many codes for one purpose as there can be requests in flight.
THEOREM RowsAreBounded == Spec => []RowsBounded
<1>1. Init => TypeOK /\ RowsInv
  BY InitTypeOK, InitRowsInv
<1>2. TypeOK /\ RowsInv /\ [Next]_vars => TypeOK' /\ RowsInv'
  BY NextTypeOK, NextRowsInv
<1>3. RowsInv => RowsBounded
  <2> SUFFICES ASSUME RowsInv, NEW u \in User, NEW p \in Purpose
               PROVE  Cardinality(RowsOf(u, p)) <= Cardinality(Slot)
    BY DEF RowsBounded
  <2>1. RowsOf(u, p) \in SUBSET OtpId /\ Creating(u, p) \in SUBSET Slot
    BY DEF RowsOf, Creating
  <2>2. Cardinality(RowsOf(u, p)) \in Nat
    BY <2>1, SubsetsOfOtpId
  <2>3. Cardinality(Creating(u, p)) \in Nat /\ Cardinality(Slot) \in Nat
    BY <2>1, SubsetsOfSlot
  <2> QED BY <2>2, <2>3 DEF RowsInv
<1> QED BY <1>1, <1>2, <1>3, PTL DEF Spec

-----------------------------------------------------------------------------
(* The right row, and the right account. *)

RightInv == TypeOK /\ SignupOnly /\ RightRowUpdated

LEMMA InitRightInv == Init => RightInv
<1> SUFFICES ASSUME Init PROVE RightInv
  OBVIOUS
<1>1. TypeOK
  BY InitTypeOK
<1>2. \A s \in Slot : pc[s] = "idle"
  BY DEF Init
<1> QED BY <1>1, <1>2 DEF RightInv, SignupOnly, RightRowUpdated

LEMMA RightInvCalm ==
    ASSUME RightInv, TypeOK', RowsKept, NoneFinds
    PROVE  RightInv'
<1>1. ASSUME NEW s \in Slot, pc'[s] \in {"increment", "mark", "verifyEmail"}
      PROVE  /\ pc'[s] = pc[s] /\ seen'[s] = seen[s] /\ req'[s] = req[s]
             /\ seen[s] \in OtpId
  BY <1>1 DEF RightInv, NoneFinds, SignupOnly, TypeOK
<1>2. SignupOnly'
  BY <1>1 DEF RightInv, SignupOnly
<1>3. RightRowUpdated'
  BY <1>1 DEF RightInv, RightRowUpdated, RowsKept, RowsOf
<1> QED BY <1>2, <1>3 DEF RightInv

LEMMA NextRightInv == RightInv /\ [Next]_vars => RightInv'
<1> SUFFICES ASSUME RightInv, [Next]_vars PROVE RightInv'
  OBVIOUS
<1>1. TypeOK /\ TypeOK'
  BY NextTypeOK DEF RightInv
<1>2. ASSUME NEW s \in Slot, pc[s] \in {"increment", "mark", "verifyEmail"}
      PROVE  seen[s] \in OtpId
  BY <1>2 DEF RightInv, SignupOnly, TypeOK
<1>3. CASE RowsKept /\ NoneFinds
  BY <1>1, <1>3, RightInvCalm
<1>4. ASSUME NEW s \in Slot, DeleteOld(s) PROVE RightInv'
  BY <1>1, <1>4, DeleteOldEffect, RightInvCalm
<1>5. ASSUME NEW s \in Slot, NEW c \in Code, NEW id \in OtpId, CreateOtp(s, c, id)
      PROVE  RightInv'
  <2>1. /\ NoneFinds /\ \A t \in Slot : seen[t] # id
        /\ \A x \in OtpId : x # id => otps'[x] = otps[x]
    BY <1>1, <1>5, CreateOtpEffect
  <2>2. ASSUME NEW t \in Slot, pc'[t] \in {"increment", "mark", "verifyEmail"}
        PROVE  /\ pc'[t] = pc[t] /\ seen'[t] = seen[t] /\ req'[t] = req[t]
               /\ seen[t] \in OtpId /\ otps'[seen[t]] = otps[seen[t]]
    BY <1>2, <2>1, <2>2 DEF NoneFinds
  <2>3. SignupOnly'
    BY <2>2 DEF RightInv, SignupOnly
  <2>4. RightRowUpdated'
    BY <2>2 DEF RightInv, RightRowUpdated, RowsOf
  <2> QED BY <1>1, <2>3, <2>4 DEF RightInv
<1>6. ASSUME NEW s \in Slot, NEW id \in OtpId, Find(s, id) PROVE RightInv'
  <2>1. /\ otps' = otps /\ req' = req /\ id \in RowsOf(req[s].user, req[s].purpose)
        /\ seen'[s] = id
        /\ pc'[s] = IF otps[id].code = req[s].guess THEN "mark" ELSE "increment"
        /\ \A t \in Slot : t # s => pc'[t] = pc[t] /\ seen'[t] = seen[t]
    BY <1>1, <1>6 DEF TypeOK, Find, Valid, Goto
  <2>2. SignupOnly'
    BY <2>1 DEF RightInv, SignupOnly
  <2>3. RightRowUpdated'
    BY <1>2, <2>1 DEF RightInv, RightRowUpdated, RowsOf
  <2> QED BY <1>1, <2>2, <2>3 DEF RightInv
<1>7. ASSUME NEW s \in Slot, CountAttempt(s) \/ AcceptReset(s) \/ AcceptSignup(s)
      PROVE  RightInv'
  <2>1. /\ seen[s] \in OtpId /\ otps[seen[s]] # NoOtp
        /\ otps'[seen[s]].user = otps[seen[s]].user
        /\ otps'[seen[s]].purpose = otps[seen[s]].purpose
        /\ otps'[seen[s]].code = otps[seen[s]].code
        /\ \A x \in OtpId : x # seen[s] => otps'[x] = otps[x]
        /\ \A t \in Slot : t # s =>
              pc'[t] = pc[t] /\ seen'[t] = seen[t] /\ req'[t] = req[t]
    BY <1>1, <1>7, RecordEffect
  <2>2. \/ pc'[s] = "idle"
        \/ /\ pc'[s] = "verifyEmail" /\ pc[s] = "mark"
           /\ req'[s] = req[s] /\ req[s].purpose = "signup" /\ seen'[s] = seen[s]
    BY <1>1, <1>7 DEF TypeOK, CountAttempt, AcceptReset, AcceptSignup, Finish, Goto
  <2>3. SignupOnly'
    BY <2>1, <2>2 DEF RightInv, SignupOnly
  <2>4. \A x \in OtpId : otps'[x] # NoOtp =>
            /\ otps[x] # NoOtp /\ otps'[x].user = otps[x].user
            /\ otps'[x].purpose = otps[x].purpose /\ otps'[x].code = otps[x].code
    BY <2>1
  <2>5. RightRowUpdated'
    BY <1>2, <2>1, <2>2, <2>4 DEF RightInv, RightRowUpdated, RowsOf
  <2> QED BY <1>1, <2>3, <2>5 DEF RightInv
<1> QED BY <1>1, <1>3, <1>4, <1>5, <1>6, <1>7, MostStepsAreCalm

\* verifyOtp: the row an attempt is counted on, or that is marked as used, is one
\* of the request's user and purpose, and what bcrypt said of it still holds.
THEOREM RowUpdatedIsRight == Spec => []RightRowUpdated
<1>1. RightInv => RightRowUpdated
  BY DEF RightInv
<1> QED BY <1>1, InitRightInv, NextRightInv, PTL DEF Spec

\* An account becomes verified only in a request that has submitted the code of
\* one of its signup OTPs.
THEOREM VerificationNeedsProof == Spec => VerifiedOnlyByProof
<1> DEFINE Step ==
        \A u \in User :
           account'[u] # account[u] =>
               \/ account[u] = "none" /\ account'[u] = "unverified"
               \/ Exists(u) /\ account'[u] = "deleted"
               \/ /\ account[u] = "unverified" /\ account'[u] = "verified"
                  /\ \E s \in Slot :
                        /\ pc[s] = "verifyEmail"
                        /\ req[s].user = u /\ req[s].purpose = "signup"
<1>1. RightInv /\ [Next]_vars => [Step]_vars
  <2> SUFFICES ASSUME RightInv, Next PROVE Step
    BY DEF vars
  <2>1. TypeOK /\ SignupOnly
    BY DEF RightInv
  <2>2. ASSUME NEW s \in Slot, NEW u \in User, Signup(s, u) PROVE Step
    BY <2>1, <2>2 DEF Signup, TypeOK
  <2>3. ASSUME NEW s \in Slot, MarkEmailVerified(s) PROVE Step
    BY <2>1, <2>3 DEF MarkEmailVerified, TypeOK, SignupOnly, Exists
  <2>4. ASSUME NEW u \in User, DeleteAccount(u) PROVE Step
    BY <2>1, <2>4 DEF DeleteAccount, TypeOK, Exists
  <2>5. CASE account' = account
    BY <2>5
  <2> QED
    BY <2>2, <2>3, <2>4, <2>5
    DEF Next, RequestStep, Resend, ForgotPassword, Verify, DeleteOld, CreateOtp, Find,
        Refuse, CountAttempt, AcceptReset, AcceptSignup, Reject, Expire, Restart
<1> QED BY <1>1, InitRightInv, NextRightInv, PTL DEF Spec, VerifiedOnlyByProof
=============================================================================
