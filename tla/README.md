# TLA+ models of the PrismaCV backend

PrismaCV is a NestJS service over PostgreSQL (Prisma), with OpenAI, Stripe and,
optionally, Redis beside it. Hardly any of its logic is hard on its own; what is
hard is that every request is a chain of `await`s. Between two of them any other
request runs, the process may stop, and a row read before is acted on as if it
were still there. There are few transactions, none of them above READ COMMITTED,
no locks and no version columns. This directory models the parts where
that matters, and the text rules whose arithmetic is easy to get wrong, checks
them with TLC and proves the central results with TLAPS.

## How the code is read

- **A step is what runs between two awaits**, and a statement of the database
  with it. A statement outside `$transaction` commits on its own. A `$transaction`
  that only writes (`syncSubscriptionFromStripe`) is one step; one that reads and
  then decides (`consumeQuota`, `refundQuota`) is two, because at READ COMMITTED
  the row can change between them. Where several transactions of
  several statements compete for rows (`Cvs`, `CvSections`), row locks, re-checks after a
  wait and the deadlock detector of PostgreSQL are modelled.
- **A slot is a request in flight.** `pc[s]` says what it does next, and the other
  per-slot variables hold the handler's locals, which are cleared as soon as the
  code no longer looks at them. One process or several makes no difference
  except to `processed` and `cache` in `Billing` and the flag in `AiTasks`, which live in
  one process.
- **A request that is refused before it changes anything is left out**, except
  where being refused is the point (`QuotaExceeded`, `Refuse`).
- **Identifiers** (UUIDs) are never reused while a row or a request holds them.
- **Failure.** In `AiQuota`, `Otp`, `Credentials`, `Billing`, `AiTasks`, `Cvs`, `CvSections`,
  `CvImports` and `Avatars` a statement may fail for any reason, with what was done before
  it left done: `TransactionFails`, `Reject`, `Fail`, and in `AiTasks` `FindFails`, `LookupFails`,
  `ChargeRefused`, `RefundFails` and `StoreFails`. In `CvShares`, `Accounts` and `Tracker` it fails
  only for what the rows say (the row is gone, a unique index refuses it).
  `Restart`, or `Crash`, loses all requests and all memory and keeps the tables.
- **Left out**: what texts say (but for what the text rules look at), mails, prices, dates other than "expired", logs, metrics.

## The system

| Part | State | Operations | What is hard | What makes it correct | Module |
|---|---|---|---|---|---|
| AI quotas (`ai-usage.service`, `openai.provider`, the five LLM features) | `ai_usage` rows | consume, call with retries, refund | check and increment race; refund after the month ended; crash while charged | the overrun is bounded, no count is lost, only paid requests refund, every request ends | `AiQuota`, `QuotaLedger` |
| One-time passcodes (`otp.service`, `users.service`) | `otps`, `users.emailVerified` | create, resend, verify for signup or reset | guesses race past the attempt limit; delete and create are two statements; the row read is stale when updated | guesses and live codes are bounded, the right row is updated, no verification without a code | `Otp` |
| Credentials (`auth.service`) | password and refresh-token hash, `auth_tokens` | login, refresh, reset token, reset, change | token marked after it was used; overlapping resets; a change of password that began before a reset; sessions | uses and tokens are bounded, a reset is overwritten by those who gave an older password a bounded number of times, sessions end with it | `Credentials` |
| Billing (`billing.service`, `plan-access.service`) | plan, customer, subscription; in memory: processed events, cached plans | checkout, webhook, plan lookup | duplicate, late, reordered events; overlapping checkouts; stale cache | nobody gets another's subscription; both derivations of a plan agree; the cache catches up | `Billing` |
| AI analysis, queue, flags (`ai.service`, `queue.service`, `unleash.service`) | `ai_analysis_cache`, BullMQ jobs, the client's state | analyse, optimise, enqueue, process, query a flag | the CV changes during a call; a stalled job runs again; the flag flips between charge and refund | every charge is accounted for, and taken once a run; every job ends | `AiTasks` |
| CVs (`cv.service`, `slug.util`) | `cvs` | create, update, remove, duplicate | two defaults, a lost default, two equal slugs | defaults are bounded and not lost; a lone request keeps its slug | `Cvs` |
| Sections (`cv.service`) | seven tables of items | bulk upserts, the copy in duplicate | two lists saved together, deadlocks | a list is stored whole; what it omits is gone | `CvSections` |
| Sharing (`cv.service`) | `cv_shares` | share, unshare, view | unshared or viewed between lookup and count | a view is counted once; dead links stay dead | `CvShares` |
| Imports (`cv-file-import.service`, `cv-import.service`, `linkedin-cv.service`) | CVs and sections, `linkedin_cv_imports` | import a file, fetch and copy a profile | failure half-way; parts that cannot be fetched | whole, or a first part of it; each line of a section is in its entry | `CvImports`, `ResumeText` |
| Accounts (`oauth.service`, `users.service`) | users' addresses and identities | sign up, sign in with a provider, delete | two first sign-ins, spelling of addresses | one account per identity and per address as spelled, though two for one spelled both ways; an identity is kept | `Accounts` |
| Avatars (`avatar-storage.service`, `users-profile.service`) | files, `users.avatarUrl` | upload, set a URL, delete the account | no transaction covers files; unlinks that go on in the background | the URL's file is there | `Avatars` |
| Tracker (`jobs.service`, `skills.service`) | jobs, progress of skills | create, update, change the status, remove | the first date is decided on a stale row | the first date is kept | `Tracker` |
| Scores (`ats.service`, `grammar.service`, `built-in-ai.provider`) | none | pure functions of a text | rounding twice, lists cut twice, positions searched for | scores are monotone, what is required is suggested, marks are where the sentences are | `Ats`, `Grammar`, `BuiltInAi` |

The parts meet in few places. Every LLM feature goes through the quota (`AiQuota`
models them together, `AiTasks` a charge as granted or refused). `OtpService` vouches for
`verifyResetOtp` and for the first session (`SignIn` and `ResetOtpVerified` in `Credentials`
are its outcomes, and OAuth's). The webhook invalidates the cache that the plan guard
reads (both in `Billing`). An import makes a CV by `CvService` (`CvImports` has its calls,
`Cvs` its slugs, `CvSections` the writers of one section). Removing a CV takes its items,
share and cached analyses with it, and deleting the user everything (`RemoveCv`,
`DeleteAccount` or `DeleteMe` wherever requests may be under way).

`PROJECT.json` lists every component with its status, and every hazard at its line.

## The modules

### `AiQuota` and `QuotaLedger`

| Code | Actions |
|---|---|
| `consumeQuota` | `Begin`, `BeginUnlimited` (limit and month), `ConsumeRead` or `QuotaExceeded` (the SELECT and the check), `ConsumeIncrement`, `ConsumeCreate` or `ConsumeConflict` (the write) |
| `createStructuredCompletion` | `AttemptFails` (back off and retry), `ProviderAnswers`, `ProviderFails` (last attempt, or an answer that cannot be used) |
| `refundQuota` | `ProviderFails` (the month, computed anew), `RefundRead` or `RefundNothing`, `RefundDelete`, `RefundDecrement` or `RefundConflict`; `UnlimitedFails` without a limit |
| outside | `TransactionFails`, `MonthEnds`, `Restart` |

`rows[k][m]` is a row of `ai_usage` (its id, so that a row deleted and created again
is another one, and `calls_used`). `seen[s]` is what the SELECT returned. `charge`,
`admitted` and `refunded` are history: no guard reads them.

`QuotaLedger` is what a caller may rely on: a counter per key and month that goes up
by one per admitted call while it is below the limit plus a slack, down by one per
refund, or to zero. `LedgerSpec` says that `AiQuota` implements it with the slack
`Cardinality(Slot) - 1`, the row mapped to its counter and no row to 0.

### `Otp`

`createOtp` is `DeleteOld`, then `CreateOtp`; `Signup`, `Resend` and `ForgotPassword`
lead to it. `verifyOtp` is `Verify` (the user is found), `Find` or `Refuse` (the OTP is
found; attempts and hash are checked on what was read, so they are one step: nothing
else is looked at until the update), then `CountAttempt`, `AcceptReset`, or
`AcceptSignup` and `MarkEmailVerified`. `usedAt` is a count, `uses`, of how often it was
set; the code only asks whether it is zero. `Expire`, `DeleteAccount` and `Restart`
happen at any time.

### `Credentials`

`Login`, `SignIn` (by OTP or OAuth) and `RefreshToken` lead to `IssueTokens`;
`verifyResetOtp` is `ResetOtpVerified`, `DropTokens`, `CreateToken`; `resetPassword` is
`ResetPassword` (a live row matches), `SetByReset`, `MarkUsed`, `CleanUp`;
`changePassword` is `ChangePassword`, `SetByChange`. Two facts about libraries
matter. Prisma ignores a field that is `undefined`, so `refreshToken: undefined` changes
nothing; and bcrypt compares 72 bytes, which in a refresh token end inside the
user's id, so `Refreshable` asks only that some hash is stored.
`sets`, `interrupted`, `revoked`, `given`, `stored` and `late` are history: how often a token
has set a password, the refresh tokens older than a change, the password a
change gave, those stored since the last reset, and how often a change that
gave none of these was stored.

### `Billing`

`createCheckoutSession` is `Checkout`, `CreateCustomer`, `SaveCustomer`, `OpenSession`;
`processWebhook` is `Deliver`, `Retrieve` (for `checkout.session.completed` only),
`FindUser` or `SkipEvent`, `Sync`, `Invalidate`; `getUserPlan` is `AskPlan`, `ReadPlan`,
`FillCache`. Stripe is external: `Pay` and `Change` append snapshots of a subscription to
`log`, and every event of `Sent` may be delivered at any time, any number of times, by
several slots at once. `processed` is the JavaScript `Set` in its insertion order.

### `AiTasks`

| Code | Actions |
|---|---|
| `QueueService.enqueueAiAnalyze` and the like, `AiController` | `Enqueue`, `Ask` |
| the worker and `processJob` | `ProcessJob`; BullMQ's stalled-job check is `StalledCheck` |
| `analyzeCv`, `optimizeCvForJob`, the PDF export of a job | `Find` or `FindFails`, `LookupHit`, `LookupMiss` or `LookupFails`, `Charge` or `ChargeRefused`, `Answered` or `CallFails`, `Refund` or `RefundFails`, `Store` or `StoreFails` |
| `UnleashService.onModuleInit`, `isEnabled` | `Boot`, `Synchronize`; `IsEnabled` |
| outside | `Edit`, `RemoveCv`, `Expire`, `Crash` |

The provider is resolved once, in `Find`, and remembered (`llm`), because the code asks
`isOpenAiProvider(provider)` when it refunds. A content stands for its hash. `wasted` and
`charges` are history: the charges lost with a crash, with an analysis that could not be
stored (the CV is gone, or the database refuses it) or with a refund that failed; and those
each task has taken and not given back.

### `Cvs`

`create` is `Create`, `CandidateTaken`, `CandidateFree` or `AllTaken` with `LastCandidate`
(`ensureUniqueSlug`, one lookup a step), and `Insert` or `InsertConflict`; `duplicate` the
same. `update` is `Update`, the slug if the title changes, then one transaction:
`ClearOthers` (what its `updateMany` sees), `ClearRow` for each of these rows, and `Write`, or
`WriteFails` if the row is gone. `remove` is `Remove`, `Delete` or `DeleteFails`. A row that
an open transaction has written is `Held`, and who needs it waits; of requests that wait
in a circle PostgreSQL aborts one (`DeadlockVictim`). A slug is a title and what is
appended to it. `disturbed` is history: the requests during which another has written.

### `CvContents`: `CvSections`, `CvShares`, `CvImports` with `Cvs`

`CvContents` puts the four modules about CVs side by side. Each looks at rows and columns
of its own: CVs, sections and shares meet only in the removal of a CV, which each has
as an action. So a step of `ContentsNext` is a step of one part, the others unchanged.

### `CvSections`

The seven `bulkUpsert...` methods are one piece of code over seven tables: `BulkUpsert`,
`DeleteUnlisted` and `DeleteRow` (the `deleteMany`), `UpdateItem`, `ItemNotFound` or
`InsertItem` for each item of the list, `Commit`. `Duplicate` copies a section. Row locks
and deadlocks are as in `Cvs`. `late` is history: what others have committed since the
`deleteMany`.

### `CvShares`

`shareCv` is `ShareCv`, `FindShare`, then `UpdateShare` or `UpdateFails`, or `CreateShare` or
`CreateFails`; `unshareCv` is `UnshareCv`, `Unshare`; `getPublicCv` is `VisitLink`, `FindLink`
or `LinkNotFound`, and `CountView` or `CountFails`. A new link is made of the time (`Tick`),
so two of one millisecond are the same. `shown` is history: the visitors of each link who
were shown the CV.

### `CvImports`

`importFromFile` is `ImportFile`, `CreateCv`, then for each part `SkipPart` or `FillPart`,
with `FindNoInfo` and `CreateInfo` for the personal information, each a transaction of its
own; `importFromLinkedIn` is `ImportLinkedIn`, `CopyProfile`, one transaction;
`importForUser` is `FetchProfile`, `FetchPart` or `FetchNothing` for each part,
`StoreProfile`. `SaveInfo` is the user who edits meanwhile. A part is present or not;
`meant`, `whole` and `failed` are history.

### `ResumeText`

`extractStructuredSections`: `ReadHeading` and `ReadLine` collect the lines of each section,
`ParseSections` cuts them into entries (at blank lines, or where titles are), and `MergeSections` or
`KeepParsed` takes or leaves what a model has found. A line is what the regular
expressions make of it. The entries hold the numbers of their lines, so that what
becomes of each line can be followed. `Titles`, `DateLines`, `Pieces` and `Whole` say what the
expressions make of a line or of an entry: `Pieces` is the skills its separators leave, of which
`ParseSkillEntries` drops those too short or too long (`Odd`), and an entry that is not `Whole` is
marked `cut`: its first line has a third part (`Engineer | Acme | Remote`), which `split(sep, 2)`
discards, or its description is longer than is kept.

### `Services`: the modules below, and `ResumeText`

The services that share nothing with each other: `Services` is to them what `CvContents` is
to the parts of a CV.

### `Accounts`

`UsersService.create` is `Signup`, `EmailUnknown`, `InsertUser` or `SignupConflict`.
`OAuthService.authenticate` is `SignIn`, `FindByProvider`, `FindByEmail`, then `OtherProvider`
(refused), `LinkOAuthAccount` or `CreateOAuthUser`, `StoreMetadata` and `IssueTokens`;
`SignInFails` and `DeleteAccount` at any time. An address is spelled in lower case, as
`create` stores it and `findByEmail` looks for it, or as the provider spells it, as a
sign-in stores it. So an account stored with capitals is not found, and a sign-in
with another identity of the address makes a second one. The unique indexes are in `Insertable`.

### `Avatars`

`AvatarStorageService.save` is `UploadAvatar`, `ListFiles`, `Unlink` or `UnlinkNothing` for each file,
`WriteFile`, `StoreUrl`; `deleteAccount` is `DeleteMe`, the same unlinks, `DeleteRow`. `Promise.all`
ends at the first unlink that finds no file, and `ENOENT` is swallowed: the rest goes on
as `UnlinkBehind`. `updateProfile` is `SetUrl`.

### `Tracker`

`JobsService.create`, `update`, `updateStatus`, `remove` and `SkillsService.updateProgress` read a row
(`Find`, `NotFound`), decide about its date on what they have read, and write (`Write`,
`CreateProgress`, `DeleteJob`, or `Conflict` if the row is gone or there already).
`first` and `raced` are history.

### `Ats`, `Grammar`, `BuiltInAi`

Pure rules, as operators with the names of the methods. `Ats`: keywords and their
importance, the seven section scores, the overall score, the suggestions of the rules
(`GenerateSuggestions`) and with those of a model (`MergeSuggestions`). `Grammar`: a text is a
sequence of symbols; `FindMatches`, then `NextSentence` with the search from the end of the
last sentence, as `detectLongSentences` does it. `BuiltInAi`: the scores, issues and recommendations of
`analyzeCv` and `optimizeCvForJob` as functions of what the rules look at. Numbers the code adds as floating
point are integers of a smaller unit, rounded where the code rounds. What `filter` or a `Set`
leaves of an array is a set of its indices, put in their order by `Ordered!InOrder`; `Ordered!ItemsAt` is
what stands there.

## What is checked

| Run | Instance | Shows |
|---|---|---|
| `quota_races` | 3 slots, 1 key with limit 2, 1 month, 1 attempt | `CountersBounded`, `CounterExactUntilRefund`, `LedgerSpec` |
| `quota_rollover` | 2 slots, a limited and an unlimited key, 2 months, 2 attempts, fairness | `OnlyChargedRequestsRefund`, `EveryRequestEnds` |
| `quota_enforced` | as above | violated: a month counts more calls than its limit |
| `otp` | 2 slots, 1 user, 2 codes, 3 rows, 2 and 1 attempts | `GuessesBounded`, `RowsBounded`, `RightRowUpdated`, `VerifiedOnlyByProof` |
| `credentials` | 2 slots, 1 user, 2 passwords, 3 reset rows, 2 refresh tokens | `ResetUsesBounded`, `ResetRowsBounded`, `OldPasswordsLockedOut` |
| `credentials_sessions` | as above | violated: a refresh token outlives the change of the password |
| `billing_races` | 2 slots, 2 users, 3 customers, 2 subscriptions | `TypeOK`, `StoredIsOwn`, `PayingCustomersBounded` |
| `billing_cache` | 2 slots, 1 user, customer and subscription, 2 versions of 3 snapshots, fairness | `PlanMatchesSubscription`, `CacheCatchesUp` |
| `billing_once` | as above, 2 snapshots | violated: one event is handled twice |
| `contents` | 2 slots; 3 CVs, 1 title, 2 candidates and 1 time; 2 CVs, 3 items, lists of one old and one new item; 2 CVs, 3 times, 2 views; 1 CV, 2 contents | `PartsTypeOK`; `DefaultsBounded`, `DefaultNotLost`, `AloneKeepsSlug`; `ListSurvives`, `OmittedItemsGo`; `ViewsCounted`, `DeadLinkStaysDead`; `ImportedWholeOrPrefix` |
| `ai_tasks` | an analysis job, an export job, a direct request; 2 contents; 1 stalled run; fairness | `TypeOK`, `SpentIsAccounted`, `ChargedOncePerRun`, `EveryJobSettles` |
| `services` | 2 slots; 3 users, 2 identities of one address; 3 files; a job; a skill; 5 job descriptions, 3 measured texts; texts of 7 symbols; resumes of 5 lines | `ServicesTypeOK`; `AloneSignIn`, `IdentityKept`; `AvatarThere`; `FirstDateKept`; `MoreKeywordsNeverLower`, `RequiredSuggested`; `LongSentencesMarked`; `ScoresFair`; `EveryLineInItsEntry` |

`MCContents` and `MCServices` are `CvContents` and `Services` on small instances, with one
restriction: a behaviour is of one part, chosen in `MCInit` and named by `part` (`MCServices`
also takes the jobs and the skills of the tracker one at a time). So the states add up
and do not multiply, and an action of one part is never blamed on another. The theorems are
about `ContentsSpec` and `ServicesSpec`, where steps of all parts alternate.

The type invariants of `AiQuota`, `Otp` and `Credentials` are proved (below) and
not run again; all others are invariants of a run. Each property is broken by a plausible bug,
written next to the definition it replaces and named in `PROJECT.json`.

**The bounds, and why they are enough.** The races are between two requests (three for
the counter below zero: only with three refunds in flight does it get there). Limits of
1 or 2 put the boundary within a few steps; the month ends once, which is all a
request's two reads of the clock can see. Row ids are as many as rows plus remembered
ids can be at once, or one fewer where a state with more only repeats. The webhook's
memory holds one event instead of at least 100, so that eviction happens; a
subscription has two snapshots, enough for an old one to arrive after a new one.
Two candidates for a slug instead of 20, so that they are all taken at times. Two
updates need three CVs to find the same default and wait for each other to clear it
before both set one; three items let a list keep one, delete another and insert a third
while another list wants them. A long sentence has more than one word instead of more than 40, two
entries instead of twelve are kept; the descriptions of jobs are chosen so that every
importance occurs and all lists are cut. `MaxVersions`, `LastMonth`, `MaxStalls`, `MaxKept`,
`MaxNew`, `MaxClock`, `MaxViews`, `MaxLength`, `MaxLines` and the sets of ids are the only
bounds, all named CONSTANTS. Symmetry is declared over identifiers that are only
compared (never in a run with a liveness property). In `MCContents` the CV of the
imports is kept out of it.

Deadlock detection is off where the system really may stop: in `otp` and
`credentials` once the only user of the instance has deleted the account, in `contents`
once the CVs of a part are removed, in `services` once a text is analysed. What no request may do, wait
forever for another, is modelled in `Cvs` and `CvSections` by the deadlock detector.

**Fairness.** `WF(RequestStep(s))`: an await settles (the database answers or fails, an
OpenAI attempt is cut off by the client's timeout) and Node then runs the
continuation. Nothing else in `AiQuota` is fair; requests need not arrive and months need not
end. In `Billing` also `WF(ExpireCache(u))`: entries have a time to live, and time
passes. Webhooks are never assumed to arrive. In `AiTasks` also `WF(BootAny)`, the
process is started again after it dies, and `SF(ProcessJob(t))`, `SF(StalledCheck(t))`: it
may die again and again, which disables both, but now and then it stays up until the worker has
polled, which it does all the time, and until it has looked for stalled jobs, which it does
every 30 seconds. Weak fairness would let every life of the process be too short for either.
Crashes are never assumed to stop coming: that jobs settle is due to the count of stalls.

**Three disagreements** between the code and what is said of it are runs that expect a
violation, listed under "findings": the quota is not enforced against concurrent calls
(though the overrun is bounded), a password change does not end sessions, and
a Stripe event can be handled twice when its deliveries overlap.

## What is proved

Eight modules of proofs, for any number of concurrent requests, any sets of users,
keys, codes, CVs, items, links, files, jobs, customers and identifiers, texts of any length and any
limits:

| Theorem | States |
|---|---|
| `AiQuotaProofs!QuotaOverrunBounded` | `CountersBounded`: a month's counter stays below its limit plus the number of slots, and falls below zero by at most that number less two |
| `AiQuotaProofs!CounterExact` | `CounterExactUntilRefund`: no increment is lost and no refused call counted |
| `AiQuotaProofs!RowsImplementLedger` | `LedgerSpec`: the table implements `QuotaLedger` |
| `AiQuotaProofs!RefundsWereCharged` | `OnlyChargedRequestsRefund`, an action property: what lowers a counter is the refund of a request that has raised one |
| `OtpProofs!GuessesAreBounded` | `GuessesBounded`: what one code answers, and how often it is used |
| `OtpProofs!RowsAreBounded` | `RowsBounded`: live codes per user and purpose |
| `OtpProofs!RowUpdatedIsRight` | `RightRowUpdated`: the row written after the comparison is the request's own |
| `OtpProofs!VerificationNeedsProof` | `VerifiedOnlyByProof`, an action property |
| `CredentialsProofs!OldPasswordsAreLockedOut` | `OldPasswordsLockedOut`: how many changes that gave a password from before a reset are stored after it |
| `CredentialsProofs!ResetRowsAreBounded` | `ResetRowsBounded` |
| `CredentialsProofs!ResetUsesAreBounded` | `ResetUsesBounded` |
| `BillingProofs!StoredIsOwners` | `StoredIsOwn` |
| `BillingProofs!PlanMatches` | `PlanMatchesSubscription` |
| `BillingProofs!PayingCustomersAreBounded` | `PayingCustomersBounded` |
| `AiTasksProofs!ChargesAccounted` | `SpentIsAccounted` |
| `AiTasksProofs!ChargedOnce` | `ChargedOncePerRun` |
| `CvsProofs!DefaultsAreBounded` | `DefaultsBounded` |
| `CvsProofs!DefaultIsNotLost` | `DefaultNotLost`, an action property |
| `CvsProofs!LoneRequestKeepsSlug` | `AloneKeepsSlug` |
| `CvContentsProofs!PartsTypeCorrect` | `PartsTypeOK` |
| `CvContentsProofs!ListsSurvive` | `ListSurvives`, an action property |
| `CvContentsProofs!OmittedAreGone` | `OmittedItemsGo`, an action property |
| `CvContentsProofs!EveryViewCounted` | `ViewsCounted` |
| `CvContentsProofs!DeadLinksStayDead` | `DeadLinkStaysDead`, an action property |
| `CvContentsProofs!ImportsWholeOrPrefix` | `ImportedWholeOrPrefix` |
| `ServicesProofs!ServicesTypeCorrect` | `ServicesTypeOK` |
| `ServicesProofs!SignInsAlone` | `AloneSignIn`, an action property |
| `ServicesProofs!IdentitiesKept` | `IdentityKept`, an action property |
| `ServicesProofs!AvatarsThere` | `AvatarThere` |
| `ServicesProofs!FirstDatesKept` | `FirstDateKept` |
| `ServicesProofs!KeywordsNeverLower` | `MoreKeywordsNeverLower` |
| `ServicesProofs!RequiredAreSuggested` | `RequiredSuggested` |
| `ServicesProofs!LongSentencesAreMarked` | `LongSentencesMarked` |
| `ServicesProofs!BuiltInScoresFair` | `ScoresFair` |
| `ServicesProofs!EveryLineIsInItsEntry` | `EveryLineInItsEntry` |

and in each of the first six modules (`AiQuotaProofs` to `CvsProofs`) `TypeCorrect`, its
model's `TypeOK`.

**Assumptions.** `QuotaAssumption`, `OtpAssumption`, `CredentialsAssumption`, `BillingAssumption`,
`AiTasksAssumption`, `CvsAssumption`, `PartsAssumption` and `ServicesAssumption`, no others. The last two
are conjunctions of what their parts assume, each stated in the part's module as a definition
(`CvSharesAssumption`, `GrammarAssumption`, ...). They say that the sets whose members
are counted are finite and the slots not none; that limits are integers and the
numbers of attempts positive; that the values that stand for an absent row, request
or name are none of the present ones, and that the ids of different tables differ; and
that inputs (job descriptions, measures of a text, answers of a model, the entries it finds, experiences,
the address of an identity) have their types. Of the lines of a resume: none is a heading or blank,
those where an entry begins are among them, and each has a sequence of skills. Two numbers have a range: a long sentence has
more than `MaxWords >= 1` words, and `TopKeywords` is at most 199 (the code has 40 and 30). TLC
evaluates the assumptions on every run of their module.

**What the arguments have in common.** The properties are not inductive: they say
nothing of requests that have read and not yet written. So each proof counts these in.

- *Quota.* The requests that have passed the check and are about to write form a
  set (`Writers`); whoever joins it has read a counter below the limit, and the counter plus the
  size of the set is below the limit plus the number of slots. A write moves one from the set to the
  counter; a failure only shrinks the set. For the lower bound it is the same with
  those about to decrement (`Decrementers`). A request about to lower a counter carries the
  charge it has made, for a month up to the one it lowers (`ChargeCarried`). The refinement follows step by step from
  the type invariant and this bound, which supplies the ledger's guard.
- *OTPs.* For each row, its attempts, its uses and the requests that hold it and have
  not written yet are together at most the maximum plus the slots less one, and a row
  that is used already is held by no more requests than when it was first used. For each user and
  purpose, the rows and the requests between `deleteMany` and `create` are at most the
  slots. What a request remembers still describes the row, because no step changes the
  user, the purpose or the code of a row, and an identifier a request holds is not given
  to a new row (`IdsInUse`).
- *Credentials.* Three sets of requests still to come: those that will set a password
  with a token (`Setting`), those that have and will mark it (`Marking`), and the
  creates whose `deleteMany` is over (`Creating`). As long as a token is not marked, each use of it is
  a request about to mark it; once it is, only those that had matched it before are left.
  After a reset a change that compared its password before it is in flight (`Overtaken`);
  these and the changes already stored are together at most the slots less the one that has
  reset (`LateBound`), and who begins later gives a password stored since (`LateInv`).
- *Billing.* Stripe's side only grows (`StripeGrows`): a customer keeps its owner, a
  subscription its customer and its snapshots. So what was true when a request read
  or stored it stays true, however late the request goes on. For the customers, those of
  a user that can pay or may come to (`Payable`), together with the requests about to save one (`Saving`), are
  at most the slots from the moment on when the user has one: after that
  no request begins to create another.
- *Tasks.* From its charge on a call is known to go to the language model (`Charged`), so
  the step that ends it settles exactly its own charge; the quota in use is weighed
  against the calls that owe an answer or a refund. A task that may still charge (`MayCharge`)
  has charged at most as often as it was run again, and no step that comes after the charge leads back
  before it but that of the stalled-job check, which counts (`OneEach`).
- *Defaults.* Every default CV is given to the slot whose request set its flag
  (`Givers`). A request that sets another began to clear the flags after that, so it has
  cleared its own or sees it cleared, and a slot is left with one at most. A slug is kept because every step that writes a row
  puts all other requests among the disturbed.
- *Sections.* A row that is held is held by one request (`HeldOnce`), and what the
  `deleteMany` did not see was committed later (`SeenInv`).
- *Imports.* A CV is the work of one import, which remembers the parts it has to write;
  what it has written is a first piece of them (`ImportProgress`), whatever the owner saves
  meanwhile. A CV no import is at work on is whole, or its import has failed.
- *Views.* Links are unique (`LinksUnique`), so the row a view is counted on is that of the link that
  was visited, or it is gone.
- *Accounts, avatars, jobs and skills.* What a lone request has found is still so when it writes
  (`StillSo`, `AloneProgress`, `DateDecided`), because whatever another request writes puts it among those
  `disturbed`, `overlapped` or `raced`, of which the properties say nothing. Of avatars it takes that every
  file there was is deleted or an unlink is on its way to it, and none to the new file.
- *Scores.* Shares and points are rounded one by one, and rounding, capping at 100 and the
  sums of shares are monotone; of percentages of `n` keywords, only that of all `n` is rounded
  to 100, as long as `n` is below 200.
- *Suggestions.* The place of a missing keyword in the list is its rank among them, so the
  first five required ones come within the first places. Where suggestions are taken once
  each, and the list cut, the first occurrence of one has at most as many before it
  as it had, so dropping repetitions and cutting at ten keeps it (`FirstOf`).
- *Long sentences.* What the loop has found are the long sentences up to `currentIndex`, and
  `rest` are those after it (`GrammarInv`). No sentence lies across `currentIndex`, and where the text of a
  sentence occurs, it occurs within one, so what the search finds first is the next sentence
  itself. Two sentences have two issues, so each costs its points once.

- *Resumes.* What has been collected of a section are the lines so far under its headings, in
  their order (`ResumeInv`). A section is cut at places in it, so each line is in the chunk that
  begins last before it (`SplitIs`), once, and a chunk that is trimmed loses only blanks; what is
  left out are the entries after the first few. The skills collected are those of the lines read so
  far (`Collected`, `SkillsOf`), of which the fit ones are taken, once each. What is different already keeps its place when more
  is added behind it (`DistinctKeeps`), so a model's skills displace none.

Such arguments need sets of numbers put in order (`InOrder`): its facts follow from the
least element of a set of numbers, by well-foundedness of `<` (`LeastMember`).

Most steps leave rows alone or only remove them; lemmas such as `MostStepsAreCalm` say so
once, so that each invariant has to look only at the few that do not.

**Only model-checked**: the liveness properties `EveryRequestEnds`, `CacheCatchesUp` and
`EveryJobSettles`, because liveness under fairness and `ENABLED` are out of this prover's reach. So
are induction over data and recursive operators (no module here declares one): what is said of
sequences goes by their indices, not by concatenation. Every other property of a passing run is
stated by a theorem above.

## Not modelled

- **Rendering**: PDF and HTML export, templates, e-mails and their fire-and-forget
  sends. Layout only; an export as a job is in `AiTasks`.
- **What a language model says, and prompts.** Only whether it answers, and what is
  done with an answer of some shape.
- **Text extraction** from PDF and DOCX and the patterns that recognise names, addresses
  and dates: `ResumeText` starts from lines that are classified. The dates and names of a
  LinkedIn profile are formatted only.
- **Reads**: lists, statistics, the skill gap, the roadmap and assessments, the
  interview catalogue, a billing portal session. They change nothing.
- **Rows nobody else reads**: the notes of a job, the text of a cover letter (whose
  generation is in `AiQuota`).
- **`adminSignup`, roles and JWT strategies**: checks of one value without a state
  between requests.
- **Observation and set-up**: metrics, health, logging, filters, DTO validation,
  configuration, the set-up of the Unleash client, seeds.

## What could come next

`Billing` composed with the deletion of an account, and with the periods of a
subscription, for the money-side hazards that carry a note in `PROJECT.json`; an abstract register that `CvSections`
refines when lists do not overlap.
