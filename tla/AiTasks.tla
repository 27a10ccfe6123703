------------------------------- MODULE AiTasks -------------------------------
(***************************************************************************)
(* Work on one CV that takes long: analyses and optimizations by AiService *)
(* and PDF exports, asked for directly or as jobs of QueueService, with    *)
(* the cache of analyses and the UnleashService flag that switches the     *)
(* language model on.                                                      *)
(*                                                                         *)
(* The worker runs in the process that serves requests, one job at a time  *)
(* (BullMQ's default).  When the process dies, its requests are lost and   *)
(* its job is found stalled: it is run again, once, although attempts is   *)
(* 1.  A call of analyzeCv is several awaits, and between them the CV is   *)
(* edited or removed and the flag flips.  How the quota is counted is in   *)
(* AiQuota; here a charge is granted or refused.  The queue is enabled.    *)
(***************************************************************************)
EXTENDS Integers, FiniteSets

CONSTANTS
    Job,        \* identifiers of jobs
    Request,    \* direct requests
    Kinds,      \* Kinds[t]: what t may be
    Content,    \* what a CV may say, as hashes
    MaxStalls,  \* times a stalled job is run again (1, BullMQ's default)
    None        \* no CV, no content, no analysis

Task == Job \cup Request

Kind == {"pdf_export", "ai_analyze", "ai_optimize"}

ASSUME AiTasksAssumption ==
    /\ Job \cap Request = {} /\ IsFiniteSet(Task)
    /\ Kinds \in [Task -> SUBSET Kind]
    /\ \A t \in Request : "pdf_export" \notin Kinds[t]
    /\ None \notin Content \cup Kind
    /\ MaxStalls \in Nat

VARIABLES
    cv,        \* what the CV says, None once it is removed
    cache,     \* cache[h]: the content whose analysis is stored for hash h
    client,    \* the Unleash client: "none", "mock", "failed" or "live"
    flag,      \* what a live client knows of the flag
    state,     \* state[t]: of the job or request
    stalls,    \* stalls[t]: how often job t was found stalled
    kind,      \* kind[t]: what it was asked for, until it has settled
    pc,        \* pc[t]: what the call for t does next
    content,   \* content[t]: the content it read
    llm,       \* llm[t]: it has resolved the provider to OpenAI
    spent,     \* the user's quota in use
    wasted,    \* history: charges whose answer or refund was lost
    charges    \* charges[t]: history: charges for t that were not given back

taskVars == <<state, stalls, kind>>
callVars == <<pc, content, llm>>
flagVars == <<client, flag>>
quotaVars == <<spent, wasted, charges>>
vars == <<cv, cache, flagVars, taskVars, callVars, quotaVars>>

-----------------------------------------------------------------------------
Settled == {"completed", "failed"}

\* The state has the types of the rows and variables it stands for, and a call
\* is under way for exactly the active tasks.
TypeOK ==
    /\ cv \in Content \cup {None}
    /\ cache \in [Content -> Content \cup {None}]
    /\ client \in {"none", "mock", "failed", "live"} /\ flag \in BOOLEAN
    /\ state \in [Task -> {"new", "waiting", "active", "stalled"} \cup Settled]
    /\ stalls \in [Job -> 0 .. MaxStalls]
    /\ kind \in [Task -> Kind \cup {None}]
    /\ \A t \in Task : kind[t] = None <=> state[t] \in {"new"} \cup Settled
    /\ pc \in [Task -> {"idle", "find", "lookup", "charge", "call", "refund", "store"}]
    /\ \A t \in Task : pc[t] = "idle" <=> state[t] # "active"
    /\ \A t \in Request : state[t] \notin {"waiting", "stalled"}
    /\ content \in [Task -> Content \cup {None}] /\ llm \in [Task -> BOOLEAN]
    /\ spent \in Nat /\ wasted \in Nat /\ charges \in [Task -> Nat]

Init ==
    /\ cv \in Content
    /\ cache = [h \in Content |-> None]
    /\ client = "none" /\ flag = FALSE
    /\ state = [t \in Task |-> "new"]
    /\ stalls = [t \in Job |-> 0]
    /\ kind = [t \in Task |-> None]
    /\ pc = [t \in Task |-> "idle"]
    /\ content = [t \in Task |-> None]
    /\ llm = [t \in Task |-> FALSE]
    /\ spent = 0 /\ wasted = 0
    /\ charges = [t \in Task |-> 0]

-----------------------------------------------------------------------------
Up == client # "none"

Goto(t, label) == pc' = [pc EXCEPT ![t] = label]

\* UnleashService.onModuleInit: a mock, a client of the server, or, when the
\* configuration is incomplete, a client that enables nothing.
Boot(c) ==
    /\ ~Up
    /\ client' = c
    /\ UNCHANGED <<cv, cache, flag, taskVars, callVars, quotaVars>>

\* A live client hears from the server; before, it takes the flag for off.
Synchronize ==
    /\ client = "live"
    /\ flag' = ~flag
    /\ UNCHANGED <<cv, cache, client, taskVars, callVars, quotaVars>>

IsEnabled == client = "mock" \/ (client = "live" /\ flag)

\* queue.add
Enqueue(t, k) ==
    /\ Up
    /\ state[t] = "new"
    /\ state' = [state EXCEPT ![t] = "waiting"]
    /\ kind' = [kind EXCEPT ![t] = k]
    /\ UNCHANGED <<cv, cache, flagVars, stalls, callVars, quotaVars>>

Begin(t) ==
    /\ state' = [state EXCEPT ![t] = "active"]
    /\ Goto(t, "find")
    /\ UNCHANGED <<cv, cache, flagVars, stalls, content, llm, quotaVars>>

\* processJob: the worker is free and takes a job.
ProcessJob(t) ==
    /\ Up
    /\ state[t] = "waiting"
    /\ \A u \in Job : state[u] # "active"
    /\ Begin(t)
    /\ UNCHANGED kind

\* AiController calls AiService without the queue.
Ask(t, k) ==
    /\ Up
    /\ state[t] = "new"
    /\ Begin(t)
    /\ kind' = [kind EXCEPT ![t] = k]

\* Mutant: the worker goes on to the next job without reporting.
EndUnreported(t, result) ==
    /\ Goto(t, "idle")
    /\ content' = [content EXCEPT ![t] = None]
    /\ llm' = [llm EXCEPT ![t] = FALSE]
    /\ UNCHANGED <<cv, flagVars, taskVars>>

End(t, result) ==
    /\ Goto(t, "idle")
    /\ state' = [state EXCEPT ![t] = result]
    /\ kind' = [kind EXCEPT ![t] = None]
    /\ content' = [content EXCEPT ![t] = None]
    /\ llm' = [llm EXCEPT ![t] = FALSE]
    /\ UNCHANGED <<cv, flagVars, stalls>>

\* Mutant: a job is tried again when it has failed, as with more attempts.
ThrowToRetry(t) ==
    /\ Goto(t, "idle")
    /\ state' = [state EXCEPT ![t] = IF t \in Job THEN "waiting" ELSE "failed"]
    /\ kind' = [kind EXCEPT ![t] = IF t \in Job THEN @ ELSE None]
    /\ content' = [content EXCEPT ![t] = None]
    /\ llm' = [llm EXCEPT ![t] = FALSE]
    /\ UNCHANGED <<cv, cache, flagVars, stalls>>

\* The call throws, and its job has had its only attempt.
Throw(t) ==
    /\ End(t, "failed")
    /\ UNCHANGED cache

\* It answers, with the analysis stored or its own.
Deliver(t) == End(t, "completed")

-----------------------------------------------------------------------------
AfterFind(t, useLlm) ==
    CASE kind[t] = "ai_analyze" -> "lookup"
      [] kind[t] = "ai_optimize" /\ useLlm -> "charge"
      [] OTHER -> "call"

\* CvService.findOne; the provider is resolved and the content hashed.
Find(t) ==
    LET useLlm == IsEnabled /\ kind[t] # "pdf_export"
    IN  /\ pc[t] = "find"
        /\ cv # None
        /\ Goto(t, AfterFind(t, useLlm))
        /\ content' = [content EXCEPT ![t] = cv]
        /\ llm' = [llm EXCEPT ![t] = useLlm]
        /\ UNCHANGED <<cv, cache, flagVars, taskVars, quotaVars>>

\* The CV is gone, or the database fails.
FindFails(t) ==
    /\ pc[t] = "find"
    /\ Throw(t)
    /\ UNCHANGED quotaVars

\* A row for the hash and the provider that has not expired.
LookupHit(t) ==
    /\ pc[t] = "lookup"
    /\ llm[t] /\ cache[content[t]] # None
    /\ Deliver(t)
    /\ UNCHANGED <<cache, quotaVars>>

LookupMiss(t) ==
    /\ pc[t] = "lookup"
    /\ ~llm[t] \/ cache[content[t]] = None
    /\ Goto(t, IF llm[t] THEN "charge" ELSE "call")
    /\ UNCHANGED <<cv, cache, flagVars, taskVars, content, llm, quotaVars>>

LookupFails(t) ==
    /\ pc[t] = "lookup"
    /\ Throw(t)
    /\ UNCHANGED quotaVars

\* consumeQuota
Charge(t) ==
    /\ pc[t] = "charge"
    /\ Goto(t, "call")
    /\ spent' = spent + 1
    /\ charges' = [charges EXCEPT ![t] = @ + 1]
    /\ UNCHANGED <<cv, cache, flagVars, taskVars, content, llm, wasted>>

ChargeRefused(t) ==
    /\ pc[t] = "charge"
    /\ Throw(t)
    /\ UNCHANGED quotaVars

\* The provider, or the PDF renderer, answers; an analysis is stored if it is
\* OpenAI's.
Answered(t) ==
    /\ pc[t] = "call"
    /\ IF llm[t] /\ kind[t] = "ai_analyze"
       THEN Goto(t, "store") /\ UNCHANGED <<cv, flagVars, taskVars, content, llm>>
       ELSE Deliver(t)
    /\ UNCHANGED <<cache, quotaVars>>

\* Mutant: the provider is resolved again when it has failed.
ToRefundByFlag(t) == IsEnabled

\* isOpenAiProvider(provider)
ToRefund(t) == llm[t]

CallFails(t) ==
    /\ pc[t] = "call"
    /\ IF ToRefund(t)
       THEN Goto(t, "refund") /\ UNCHANGED <<cv, cache, flagVars, taskVars, content, llm>>
       ELSE Throw(t)
    /\ UNCHANGED quotaVars

\* refundQuotaOnProviderFailure, and the provider's error is thrown on.
Refund(t) ==
    /\ pc[t] = "refund"
    /\ Throw(t)
    /\ spent' = spent - 1
    /\ charges' = [charges EXCEPT ![t] = @ - 1]
    /\ UNCHANGED wasted

\* The refund fails too, which is only logged.
RefundFails(t) ==
    /\ pc[t] = "refund"
    /\ Throw(t)
    /\ wasted' = wasted + 1
    /\ UNCHANGED <<spent, charges>>

\* The upsert of the analysis, under the hash of the content it was made of.
Store(t) ==
    /\ pc[t] = "store"
    /\ cv # None
    /\ cache' = [cache EXCEPT ![content[t]] = content[t]]
    /\ Deliver(t)
    /\ UNCHANGED quotaVars

\* The upsert fails: the CV was removed and the row would refer to nothing, or
\* the database refuses it.  The answer is lost, and the charge stays.
StoreFails(t) ==
    /\ pc[t] = "store"
    /\ Throw(t)
    /\ wasted' = wasted + 1
    /\ UNCHANGED <<spent, charges>>

-----------------------------------------------------------------------------
Edit(h) ==
    /\ cv # None
    /\ cv' = h
    /\ UNCHANGED <<cache, flagVars, taskVars, callVars, quotaVars>>

\* CvService.remove, and the cache's rows with the CV.
RemoveCv ==
    /\ cv # None
    /\ cv' = None
    /\ cache' = [h \in Content |-> None]
    /\ UNCHANGED <<flagVars, taskVars, callVars, quotaVars>>

\* A row of the cache reaches expiresAt.
Expire(h) ==
    /\ cache[h] # None
    /\ cache' = [cache EXCEPT ![h] = None]
    /\ UNCHANGED <<cv, flagVars, taskVars, callVars, quotaVars>>

\* Charged, and neither answered nor refunded yet.
Owing == {t \in Task : llm[t] /\ pc[t] \in {"call", "refund", "store"}}

\* The process dies, at any point, or is closed when its job is done.
Crash ==
    /\ Up
    /\ client' = "none" /\ flag' = FALSE
    /\ state' = [t \in Task |-> IF state[t] # "active" THEN state[t]
                                ELSE IF t \in Job THEN "stalled" ELSE "failed"]
    /\ kind' = [t \in Task |-> IF t \in Job THEN kind[t] ELSE None]
    /\ pc' = [t \in Task |-> "idle"]
    /\ content' = [t \in Task |-> None]
    /\ llm' = [t \in Task |-> FALSE]
    /\ wasted' = wasted + Cardinality(Owing)
    /\ UNCHANGED <<cv, cache, stalls, spent, charges>>

\* Mutant: how often a job was found stalled is not counted.
RunStalledAgain(t) ==
    /\ Up
    /\ state[t] = "stalled"
    /\ state' = [state EXCEPT ![t] = "waiting"]
    /\ UNCHANGED <<cv, cache, flagVars, stalls, kind, callVars, quotaVars>>

\* The worker finds a job whose lock has run out.
StalledCheck(t) ==
    /\ Up
    /\ state[t] = "stalled"
    /\ IF stalls[t] < MaxStalls
       THEN /\ stalls' = [stalls EXCEPT ![t] = @ + 1]
            /\ state' = [state EXCEPT ![t] = "waiting"]
            /\ UNCHANGED kind
       ELSE /\ state' = [state EXCEPT ![t] = "failed"]
            /\ kind' = [kind EXCEPT ![t] = None]
            /\ UNCHANGED stalls
    /\ UNCHANGED <<cv, cache, flagVars, callVars, quotaVars>>

CallStep(t) ==
    \/ Find(t) \/ FindFails(t) \/ LookupHit(t) \/ LookupMiss(t) \/ LookupFails(t)
    \/ Charge(t) \/ ChargeRefused(t) \/ Answered(t) \/ CallFails(t)
    \/ Refund(t) \/ RefundFails(t) \/ Store(t) \/ StoreFails(t)

BootAny == \E c \in {"mock", "failed", "live"} : Boot(c)

Next ==
    \/ BootAny \/ Synchronize \/ RemoveCv \/ Crash
    \/ \E t \in Job : ProcessJob(t) \/ StalledCheck(t) \/ \E k \in Kinds[t] : Enqueue(t, k)
    \/ \E t \in Request : \E k \in Kinds[t] : Ask(t, k)
    \/ \E t \in Task : CallStep(t)
    \/ \E h \in Content : Edit(h) \/ Expire(h)

Spec == Init /\ [][Next]_vars

\* The process is started again and now and then stays up until the worker has
\* taken a job or looked for stalled ones; every call returns or times out.
FairSpec ==
    /\ Spec
    /\ WF_vars(BootAny)
    /\ \A t \in Job : SF_vars(ProcessJob(t)) /\ SF_vars(StalledCheck(t))
    /\ \A t \in Task : WF_vars(CallStep(t))

-----------------------------------------------------------------------------
Delivered == {t \in Task : state[t] = "completed"}

\* Quota in use is for an answer that was delivered, is for a call still under
\* way, or was lost with a crash, with an analysis that could not be stored or
\* with a refund that failed; a flag that flips during a call neither loses a
\* refund nor invents one.
SpentIsAccounted ==
    /\ wasted + Cardinality(Owing) <= spent
    /\ spent <= wasted + Cardinality(Owing) + Cardinality(Delivered)

\* A job or request takes at most one charge from the user, and a job one more
\* for each time it was found stalled: a charge lost with an answer that could
\* not be stored, or with a refund that failed, is not taken a second time.
Reruns(t) == IF t \in Job THEN stalls[t] ELSE 0
ChargedOncePerRun == \A t \in Task : charges[t] <= 1 + Reruns(t)

\* A job that is waiting is completed or fails, even if the process dies again
\* and again: stalled jobs are not run forever.
EveryJobSettles == \A t \in Job : state[t] = "waiting" ~> state[t] \in Settled

=============================================================================
