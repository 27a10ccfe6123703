------------------------------- MODULE AiQuota -------------------------------
(***************************************************************************)
(* Monthly AI quotas: AiUsageService (consumeQuota, refundQuota) together  *)
(* with the code around it in every LLM feature: analyzeCv and             *)
(* optimizeCvForJob, the grammar check, the ATS suggestions and the cover  *)
(* letter generator, each of which consumes one unit, calls OpenAI with    *)
(* retries and refunds the unit when the call fails.                       *)
(*                                                                         *)
(* Requests interleave at every await.  The table ai_usage is external     *)
(* (PostgreSQL, READ COMMITTED): a SELECT sees the last committed row, an  *)
(* UPDATE ... SET calls_used = calls_used + 1 or a DELETE by id takes the  *)
(* row's lock until the commit, so the statement and its commit are one    *)
(* step.  Requests served by the built-in provider touch no quota and are  *)
(* left out, and so is the content of requests and answers.                *)
(***************************************************************************)
EXTENDS Integers, FiniteSets

CONSTANTS
    Slot,        \* concurrent requests: a slot serves one request at a time
    Key,         \* quota keys: pairs of a user and an AI feature
    LastMonth,   \* bound: months are 1..LastMonth
    Limit,       \* Limit[k]: configured monthly limit, "no limit" when <= 0
    MaxRetries,  \* AI_MAX_RETRIES: attempts of one OpenAI call
    RowId,       \* identifiers of rows (UUIDs)
    NoRow        \* the absence of a row

Month == 1..LastMonth

\* A row of ai_usage: its primary key and calls_used.
Row == [id: RowId, used: Int]

ASSUME QuotaAssumption ==
    /\ IsFiniteSet(Slot) /\ Slot # {}
    /\ LastMonth \in Nat \ {0}
    /\ Limit \in [Key -> Int]
    /\ MaxRetries \in Nat \ {0}
    /\ NoRow \notin Row

VARIABLES
    month,    \* the current calendar month
    rows,     \* rows[k][m]: the ai_usage row of key k and month m, or NoRow
    pc,       \* pc[s]: what the request in slot s does next
    key,      \* key[s]: the user and feature of that request
    period,   \* period[s]: the month its current transaction computed
    seen,     \* seen[s]: the row its transaction's SELECT returned
    attempt,  \* attempt[s]: the OpenAI attempt in flight
    charge,   \* history: the month in which the request was charged, or 0
    admitted, \* history: admitted[k][m], calls let through while m had no refund
    refunded  \* history: the pairs <<k, m>> whose row a refund has lowered

dbVars == <<month, rows>>
requestVars == <<pc, key, period, seen, attempt>>
historyVars == <<charge, admitted, refunded>>
vars == <<dbVars, requestVars, historyVars>>

-----------------------------------------------------------------------------
(* The rows. *)

UsedOf(r) == IF r = NoRow THEN 0 ELSE r.used

Used(k, m) == UsedOf(rows[k][m])

\* Identifiers some row or some transaction still holds: generateUuidv7 never
\* returns one of them.
IdsInUse ==
    {id \in RowId :
        \/ \E k \in Key, m \in Month : rows[k][m] # NoRow /\ rows[k][m].id = id
        \/ \E s \in Slot : seen[s] # NoRow /\ seen[s].id = id}

\* A new identifier.  Which one matters to nothing.
FreshId == CHOOSE id \in RowId \ IdsInUse : TRUE

\* The row the transaction of s is about, as it is now.
RowOf(s) == rows[key[s]][period[s]]

\* The transaction of s finds the row it read: not deleted, not replaced.
RowStillThere(s) ==
    seen[s] # NoRow /\ RowOf(s) # NoRow /\ RowOf(s).id = seen[s].id

-----------------------------------------------------------------------------
TypeOK ==
    /\ month \in Month
    /\ rows \in [Key -> [Month -> Row \cup {NoRow}]]
    /\ pc \in [Slot -> {"idle", "read", "write", "provider", "refundRead", "refundWrite"}]
    /\ key \in [Slot -> Key]
    /\ period \in [Slot -> Month]
    /\ seen \in [Slot -> Row \cup {NoRow}]
    /\ attempt \in [Slot -> 0..MaxRetries]
    /\ charge \in [Slot -> Month \cup {0}]
    /\ admitted \in [Key -> [Month -> Nat]]
    /\ refunded \subseteq Key \X Month

Init ==
    /\ month = 1
    /\ rows = [k \in Key |-> [m \in Month |-> NoRow]]
    /\ pc = [s \in Slot |-> "idle"]
    /\ key \in [Slot -> Key]
    /\ period = [s \in Slot |-> 1]
    /\ seen = [s \in Slot |-> NoRow]
    /\ attempt = [s \in Slot |-> 0]
    /\ charge = [s \in Slot |-> 0]
    /\ admitted = [k \in Key |-> [m \in Month |-> 0]]
    /\ refunded = {}

-----------------------------------------------------------------------------
(* Steps of a request. *)

Goto(s, label) == pc' = [pc EXCEPT ![s] = label]

\* The request in s is answered; the locals of its handlers are gone.  What it
\* answers touches no state: the analysis and the optimization report an error,
\* the other features swallow it and answer without the LLM.
Finish(s) ==
    /\ Goto(s, "idle")
    /\ period' = [period EXCEPT ![s] = 1]
    /\ seen' = [seen EXCEPT ![s] = NoRow]
    /\ attempt' = [attempt EXCEPT ![s] = 0]
    /\ charge' = [charge EXCEPT ![s] = 0]

\* consumeQuota has returned: the first attempt at OpenAI is on its way.
CallProvider(s) ==
    /\ Goto(s, "provider")
    /\ attempt' = [attempt EXCEPT ![s] = 1]
    /\ period' = [period EXCEPT ![s] = 1]
    /\ seen' = [seen EXCEPT ![s] = NoRow]

\* A request for an LLM feature without a limit: consumeQuota returns at once.
BeginUnlimited(s, k) ==
    /\ pc[s] = "idle"
    /\ Limit[k] <= 0
    /\ key' = [key EXCEPT ![s] = k]
    /\ CallProvider(s)
    /\ UNCHANGED <<dbVars, historyVars>>

\* With a limit it fixes the month and opens a transaction.
Begin(s, k) ==
    /\ pc[s] = "idle"
    /\ Limit[k] > 0
    /\ key' = [key EXCEPT ![s] = k]
    /\ Goto(s, "read")
    /\ period' = [period EXCEPT ![s] = month]
    /\ UNCHANGED <<dbVars, seen, attempt, historyVars>>

\* Mutant: the limit itself is let through.
AtLimitOffByOne(s) == RowOf(s) # NoRow /\ Used(key[s], period[s]) > Limit[key[s]]

AtLimit(s) == RowOf(s) # NoRow /\ Used(key[s], period[s]) >= Limit[key[s]]

\* Mutant: a feature that refunds whether or not quotaConsumed was set.
QuotaExceededRefunds(s) ==
    /\ pc[s] = "read"
    /\ AtLimit(s)
    /\ Goto(s, "refundRead")
    /\ UNCHANGED <<dbVars, key, period, seen, attempt, historyVars>>

\* consumeQuota's findUnique returns a row at the limit: too many requests.
QuotaExceeded(s) ==
    /\ pc[s] = "read"
    /\ AtLimit(s)
    /\ Finish(s)
    /\ UNCHANGED <<dbVars, key, admitted, refunded>>

\* It returns a row with room, or none.
ConsumeRead(s) ==
    /\ pc[s] = "read"
    /\ ~AtLimit(s)
    /\ seen' = [seen EXCEPT ![s] = RowOf(s)]
    /\ Goto(s, "write")
    /\ UNCHANGED <<dbVars, key, period, attempt, historyVars>>

\* History of a committed charge.
Charged(s) ==
    LET k == key[s]  m == period[s] IN
    /\ charge' = [charge EXCEPT ![s] = m]
    /\ admitted' = IF <<k, m>> \in refunded THEN admitted
                   ELSE [admitted EXCEPT ![k][m] = @ + 1]

\* Mutant: the counter is set to what was read plus one.
ConsumeOverwrite(s) ==
    LET k == key[s]  m == period[s] IN
    /\ pc[s] = "write"
    /\ RowStillThere(s)
    /\ rows' = [rows EXCEPT ![k][m].used = seen[s].used + 1]
    /\ CallProvider(s)
    /\ Charged(s)
    /\ UNCHANGED <<month, key, refunded>>

\* The row was there: an atomic increment by id, then the commit.
ConsumeIncrement(s) ==
    LET k == key[s]  m == period[s] IN
    /\ pc[s] = "write"
    /\ RowStillThere(s)
    /\ rows' = [rows EXCEPT ![k][m].used = @ + 1]
    /\ CallProvider(s)
    /\ Charged(s)
    /\ UNCHANGED <<month, key, refunded>>

\* No row was there and none is there now: create it with calls_used = 1.
ConsumeCreate(s) ==
    LET k == key[s]  m == period[s] IN
    /\ pc[s] = "write"
    /\ seen[s] = NoRow /\ rows[k][m] = NoRow
    /\ IdsInUse # RowId
    /\ rows' = [rows EXCEPT ![k][m] = [id |-> FreshId, used |-> 1]]
    /\ CallProvider(s)
    /\ Charged(s)
    /\ UNCHANGED <<month, key, refunded>>

\* The row was created (unique constraint) or deleted (record not found) since
\* the SELECT: the transaction rejects, and the request is not charged.
ConsumeConflict(s) ==
    /\ pc[s] = "write"
    /\ ~RowStillThere(s)
    /\ ~(seen[s] = NoRow /\ RowOf(s) = NoRow)
    /\ Finish(s)
    /\ UNCHANGED <<dbVars, key, admitted, refunded>>

\* An attempt succeeds.
ProviderAnswers(s) ==
    /\ pc[s] = "provider"
    /\ Finish(s)
    /\ UNCHANGED <<dbVars, key, admitted, refunded>>

\* Mutant: after the last attempt the loop begins again.
AttemptsRestart(s) ==
    /\ pc[s] = "provider"
    /\ attempt' = [attempt EXCEPT ![s] = 1 + (@ % MaxRetries)]
    /\ UNCHANGED <<dbVars, pc, key, period, seen, historyVars>>

\* An attempt fails and there is another one.
AttemptFails(s) ==
    /\ pc[s] = "provider"
    /\ attempt[s] < MaxRetries
    /\ attempt' = [attempt EXCEPT ![s] = @ + 1]
    /\ UNCHANGED <<dbVars, pc, key, period, seen, historyVars>>

\* The last attempt fails, or an answer cannot be used: the error reaches the
\* feature, which calls refundQuota.  Without a limit that returns at once.
UnlimitedFails(s) ==
    /\ pc[s] = "provider"
    /\ Limit[key[s]] <= 0
    /\ Finish(s)
    /\ UNCHANGED <<dbVars, key, admitted, refunded>>

\* With a limit it computes the month anew and opens a transaction.
ProviderFails(s) ==
    /\ pc[s] = "provider"
    /\ Limit[key[s]] > 0
    /\ Goto(s, "refundRead")
    /\ period' = [period EXCEPT ![s] = month]
    /\ UNCHANGED <<dbVars, key, seen, attempt, historyVars>>

NothingToRefund(s) == RowOf(s) = NoRow \/ Used(key[s], period[s]) <= 0

\* refundQuota's findUnique returns no row, or one already at zero.
RefundNothing(s) ==
    /\ pc[s] = "refundRead"
    /\ NothingToRefund(s)
    /\ Finish(s)
    /\ UNCHANGED <<dbVars, key, admitted, refunded>>

RefundRead(s) ==
    /\ pc[s] = "refundRead"
    /\ ~NothingToRefund(s)
    /\ seen' = [seen EXCEPT ![s] = RowOf(s)]
    /\ Goto(s, "refundWrite")
    /\ UNCHANGED <<dbVars, key, period, attempt, historyVars>>

\* What the SELECT saw decides between deleting the row and decrementing it.
RefundDelete(s) ==
    LET k == key[s]  m == period[s] IN
    /\ pc[s] = "refundWrite"
    /\ RowStillThere(s) /\ seen[s].used = 1
    /\ rows' = [rows EXCEPT ![k][m] = NoRow]
    /\ refunded' = refunded \cup {<<k, m>>}
    /\ Finish(s)
    /\ UNCHANGED <<month, key, admitted>>

\* Mutant: the counter is set to what was read minus one.
RefundOverwrite(s) ==
    LET k == key[s]  m == period[s] IN
    /\ pc[s] = "refundWrite"
    /\ RowStillThere(s) /\ seen[s].used # 1
    /\ rows' = [rows EXCEPT ![k][m].used = seen[s].used - 1]
    /\ refunded' = refunded \cup {<<k, m>>}
    /\ Finish(s)
    /\ UNCHANGED <<month, key, admitted>>

RefundDecrement(s) ==
    LET k == key[s]  m == period[s] IN
    /\ pc[s] = "refundWrite"
    /\ RowStillThere(s) /\ seen[s].used # 1
    /\ rows' = [rows EXCEPT ![k][m].used = @ - 1]
    /\ refunded' = refunded \cup {<<k, m>>}
    /\ Finish(s)
    /\ UNCHANGED <<month, key, admitted>>

\* The row is gone: the update or delete rejects, and the error is swallowed.
RefundConflict(s) ==
    /\ pc[s] = "refundWrite"
    /\ ~RowStillThere(s)
    /\ Finish(s)
    /\ UNCHANGED <<dbVars, key, admitted, refunded>>

\* The database fails a transaction, which rolls back: consumeQuota rejects,
\* and a failed refund is logged and swallowed.
TransactionFails(s) ==
    /\ pc[s] \in {"read", "write", "refundRead", "refundWrite"}
    /\ Finish(s)
    /\ UNCHANGED <<dbVars, key, admitted, refunded>>

RequestStep(s) ==
    \/ QuotaExceeded(s)
    \/ ConsumeRead(s)
    \/ ConsumeIncrement(s)
    \/ ConsumeCreate(s)
    \/ ConsumeConflict(s)
    \/ ProviderAnswers(s)
    \/ AttemptFails(s)
    \/ UnlimitedFails(s)
    \/ ProviderFails(s)
    \/ RefundNothing(s)
    \/ RefundRead(s)
    \/ RefundDelete(s)
    \/ RefundDecrement(s)
    \/ RefundConflict(s)
    \/ TransactionFails(s)

-----------------------------------------------------------------------------
(* The environment. *)

MonthEnds ==
    /\ month < LastMonth
    /\ month' = month + 1
    /\ UNCHANGED <<rows, requestVars, historyVars>>

\* The process stops and restarts: every request in flight is lost, the rows
\* stay as the last commit left them.
Restart ==
    /\ \E s \in Slot : pc[s] # "idle"
    /\ pc' = [s \in Slot |-> "idle"]
    /\ period' = [s \in Slot |-> 1]
    /\ seen' = [s \in Slot |-> NoRow]
    /\ attempt' = [s \in Slot |-> 0]
    /\ charge' = [s \in Slot |-> 0]
    /\ UNCHANGED <<dbVars, key, admitted, refunded>>

Next ==
    \/ \E s \in Slot : RequestStep(s)
    \/ \E s \in Slot, k \in Key : Begin(s, k) \/ BeginUnlimited(s, k)
    \/ MonthEnds
    \/ Restart

Spec == Init /\ [][Next]_vars

\* Every await settles: the database answers, an attempt at OpenAI is cut off by
\* the client's timeout, and Node runs the continuation.
Fairness == \A s \in Slot : WF_vars(RequestStep(s))

FairSpec == Spec /\ Fairness

-----------------------------------------------------------------------------
(* Properties. *)

\* Concurrent consumes may each read the row before any of them writes it, so
\* the counter can pass the limit, but never by more than the number of other
\* requests in flight; and concurrent refunds can take it below zero, but only
\* by two less than that number.  (consumeQuota's check of the limit against
\* its increment, refundQuota's "callsUsed <= 0" against its decrement.)
CountersBounded ==
    \A k \in Key, m \in Month :
        Limit[k] > 0 =>
            /\ Used(k, m) <= Limit[k] + Cardinality(Slot) - 1
            /\ Used(k, m) >= 0 \/ Used(k, m) >= 2 - Cardinality(Slot)

\* Until the first refund of a month the counter is exactly the number of calls
\* let through to OpenAI: no concurrent increment or create is lost, no failed
\* consume is counted, and a restart forgets none.
CounterExactUntilRefund ==
    \A k \in Key, m \in Month :
        <<k, m>> \notin refunded => Used(k, m) = admitted[k][m]

\* A counter goes down only in the refund of a request that was itself charged,
\* and in no month before the one it was charged in: a request refused for its
\* quota, or one that never paid, gives nothing back.
OnlyChargedRequestsRefund ==
    [][\A k \in Key, m \in Month :
           Used(k, m)' < Used(k, m) =>
               \E s \in Slot :
                   /\ pc[s] = "refundWrite" /\ pc'[s] = "idle"
                   /\ key[s] = k
                   /\ charge[s] \in 1..m]_vars

\* The rows keep the promise of the ledger, overrun by the other requests in
\* flight at most.
Ledger == INSTANCE QuotaLedger
    WITH Slack <- Cardinality(Slot) - 1,
         used <- [k \in Key |-> [m \in Month |-> Used(k, m)]]

LedgerSpec == Ledger!Spec

\* Every request is answered, whatever its transactions and attempts meet.
EveryRequestEnds == \A s \in Slot : (pc[s] # "idle") ~> (pc[s] = "idle")

-----------------------------------------------------------------------------
(* What the documentation says, and the code does not keep. *)

\* "Per-feature monthly AI quotas are enforced" (README.md): no month counts
\* more calls than its limit.
QuotaEnforced ==
    \A k \in Key, m \in Month : Limit[k] > 0 => Used(k, m) <= Limit[k]
=============================================================================
