# A TLA+ model of harnessSAAS

harnessSAAS is a multi-tenant back office for e-commerce sellers in which agents
propose operations ("intents") on advertising platforms. A Hono API server
(`apps/api`) compiles rules into intents, admits them into a pg-boss queue, runs
them in workers, and stops the risky ones for a human decision; beside that it
keeps the master data (products, listings and their ids in other systems), the
support cases of a consumer portal, and the knowledge the agents use. State lives
in PostgreSQL through Prisma and, in places, in the memory of the API process.
A Python service (`apps/agent-py`) runs the agent graph; two Next.js programs are
the user interfaces.

This directory holds TLA+ modules of the parts of that system where the order of
steps decides whether it is correct, the TLC configurations that check them, and
proofs, checked by TLAPS, of all their safety properties but those named under
[What is only model-checked](#what-is-only-model-checked). Paths below are
relative to the repository; the lines are those of `PROJECT.json`.

- [Inventory](#inventory)
- [How the code becomes actions](#how-the-code-becomes-actions)
- [The modules](#the-modules)
- [Runs and bounds](#runs-and-bounds)
- [Fairness](#fairness)
- [Where the code and its documents differ](#where-the-code-and-its-documents-differ)
- [What the code does that no document contradicts](#what-the-code-does-that-no-document-contradicts)
- [Proofs](#proofs)
- [What is only model-checked](#what-is-only-model-checked)
- [What is not modelled](#what-is-not-modelled)
- [Plan](#plan)

## Inventory

What each component keeps, does, talks to, and has to get right. "Hard" says
which behaviours a test hardly reaches.

| Component | State | Operations | Interacts with | Hard | What makes it correct |
|---|---|---|---|---|---|
| Run queue and worker (`queue.ts`) | pg-boss jobs, `AgentExecutionLog`, `ApprovalQueue`, `ExecutionReceipt` | deliver, check limit, check breaker, ask for approval, execute, record, retry | admission, reviews, adapters, agent service | redelivery and retry, crashes between statements, concurrent handlers, unawaited writes | no execution of a high-risk intent without approval; no waiting run without a request; jobs settle; bounded overshoot; a breaker that stays open |
| Approval reviews (`server.ts` 1041-1208) | `ApprovalQueue` | approve, reject, cancel, expire | worker (through the rows and the queue) | reads in one transaction and writes in another, two reviewers | a resumed run stands for an approval; a pending request can be resumed |
| Run admission (`server.ts` 256-435, 649-822, 1466-1588) | `RequestNonce` (nonces and token ids in one table) | compile and issue a token, verify, claim, consume, enqueue, sweep | callers, constitution, queue | duplicate and late requests, a sweep by age | one run for each creation of a token's row, one claim per delivery, live tokens stay valid |
| External id mapping (`mdm-mapping-routes.ts`, `mdm-asset-routes.ts`) | `ExternalIdMapping`, `MappingHistory`, `Product.featureFrozen` | create, approve, batch-approve, create-and-approve, reject, revoke, rollback, dual write | event bus, isolation handler | READ COMMITTED races of nine handlers, an index against the order of statements, events lost | one approved mapping of a key; complete history; the product of a revoked mapping is frozen |
| Support cases (`support-routes.ts`, `portal-routes.ts`, `portal-agent.ts`) | `SupportCase`, `KnowledgeEntry` | open, message, agent turn, escalate, feedback, reply, close with writeback | knowledge, ledger, streams | an answer that takes seconds against a close; status read outside the transaction | a closed case stays closed; one writeback per close |
| Portal sign-in codes (`portal-auth.ts`) | a map in memory | send, verify, sweep | mail | an await between check and set | a code signs in once; the cooldown holds |
| Rule sets, constitution (`server.ts` 1690-1897, `constitution-engine.ts`) | `RuleSet`, `RuleVersion`, rows of `PolicyConfig` | edit, rollback, publish | compiler, admission | latest version read and next one written in other transactions | the active version is the newest; one constitution in force |
| Rules engine, compiler (`rules-engine.ts`, `intent-compiler.ts`) | none | parse, detect conflicts, compile, decide | policy, queue | numeric edges, which of several predicates counts | what is queued was judged by the guards in force |
| Product tree (`lifecycle.ts`, `mdm-asset-routes.ts`) | status of listings, stages of commodity and product | change, roll up, bind, delete | listings | two roll-ups overwrite each other | the stage follows the listings once all is quiet |
| Cost versions (`mdm-asset-routes.ts` 60-110, 602-732) | `CostVersion`, `Product.cost` | update, create, revoke | event bus | concurrent creates with different dates | later versions end earlier ones; the price is the cost in force |
| Knowledge, ledger, maturity (`harness-*.ts`) | `KnowledgeEntry`, `ConfidenceLedger`, `TenantMaturity`, maps in memory | decay, cite, write the ledger, score | agents, support | pages over a changing order, idempotency after an await, a stale ceiling | nothing is worn twice; a key is written once; the ceiling holds |
| Pattern evolution (`evolution.ts`) | `AgentExperience`, `DistilledPattern` | distil, record outcomes, demote, decay | worker, agents | counters read and written back | failures demote |
| Live notifications (`sse*.ts`, `chat-sse-manager.ts`, `screen-chat.tsx`) | connections and a LISTEN client in memory, the page | register, unregister, evict, reconnect, show | Postgres NOTIFY, portal, web | ends that come late, a callback set after an await | the limit; one listener; finished answers are kept |
| Exchange rates (`exchange-rate-routes.ts`, `server.ts` 2027-2113) | daily and monthly rows, two timers | sync, average, purge | provider | rearming of timers longer than a timer can be | each month has its average |
| Platform adapters (`packages/platform-adapters`) | a token, its refresh, slots | token, request, poll | platforms, worker | single flight, expiry under slow requests | no request with an expired token |
| Agent service (`apps/agent-py`) | the state of a graph | its nodes in order | API | which field a later node reads | a completed run is within its bounds |
| Sessions (`jwt-auth.ts`, `auth-routes.ts`, `auth-context.tsx`) | refresh tokens and families, the cookie, the page | sign in, refresh, sign out | every page | rotation in three statements, several tabs | an ended family is over; a page acts for whom it shows |
| Support desk (`web/app/support/page.tsx`) | the page | select, load, hear of events | support cases, streams | answers out of order | one case is never shown under the name of another |
| Model policy (`mdm-primitives-routes.ts`, `platform-ai-routes.ts`, `model-router.ts`, pages) | policies, configurations, audit events | load, save, route | AI providers | find, then update or create | the audit tells what was replaced; no key is lost |
| System registry, categories (`system-registry-routes.ts`, pages) | entries and their use, the tree of categories, mappings | toggle, confirm, create, rename, delete, map | tenants | a toggle of what the server reads, copies kept in step by several statements | a click does what it was meant to; paths follow their parents |
| Policy resolution, rate-limit cache, audit chain, public knowledge, market scheduler | see `PROJECT.json` | | | | |

`PROJECT.json` lists every component with its sources and status, and the hazards,
each at the line where it bites, with the properties that cover it.

## How the code becomes actions

- A stretch of code without an await, or one database statement or transaction, is
  one action. What a handler reads before an await is kept in its local state and may
  be stale when it is used.
- A Prisma `$transaction` that only writes is one step. One that reads and then
  writes runs under READ COMMITTED (PostgreSQL's default, nowhere changed in the
  repository): the read is a step, and the writes with the commit are another, since
  from the first write on the row locks and the unique indexes make others wait.
  Where that is the question (`ConstitutionVersions`, `CostVersions`) each statement
  is a step with what it sees.
- A crash or a failed statement is an action of its own, bounded by `MaxFaults`,
  `MaxCrashes` or `MaxLost` where it would make the state space infinite.
- pg-boss, the callers, mail, the pg library and the ends of processes are not in
  the repository's source: their actions are modelled from how the code uses them and
  are marked external in `PROJECT.json`.
- There is no clock in `AgentRun` (an age check goes either way); where ages are the
  question (`RunAdmission`, `SignInCode`, `LedgerWrites`, `ExchangeRates`,
  `PlatformClient`, `KnowledgeBase`) time is a bounded counter.
- A variable that no action reads and only properties do is called a history, and is
  marked so where it is declared.

Instances are put together as a portfolio: `MCPortal`, `MCDecisions`, `MCMasterData` and
`MCLiveness` extend one component, instantiate the others, and a variable `focus` says
of which one a behaviour is. The components share no state, so that nothing is lost; the
others have the value "off". Every component is a module of its own, with its own
`Init`, `Next` and `Spec`.

## The modules

### The run pipeline: AgentRun, ApprovalGate, AgentRunStreak

`jobs` is pg-boss's table with the states created, active, retry, completed, failed;
`worker` the handler invocations with their position (`pc`) and in-process attempt;
`log` and `approval` the rows by intent; `rev` the approve calls under way; `sending`
and `receipts` the receipt writes nobody awaits and the rows they become; `executed`
and `granted` are histories.

| Position | Code | Action |
|---|---|---|
| `limit` | `checkRateLimit`, queue.ts 302-313 | `CheckRateLimit` |
| `circuit` | `isCircuitOpen`, 322-326 | `CheckCircuit` |
| `trip` | `writeCircuitOpenLog` | `WriteCircuitOpenLog` |
| `gate` | one transaction, 328-381 | `RequestApproval` |
| `execute` | dispatch to the adapter or the agent service | `Execute` |
| `ask` | python only: the agent asked for approval | `AskApproval` |
| `record` | upsert of the log row, start of the receipt write | `Record` |
| `done`, `failed` | return or throw to pg-boss | `Settle` |

`Retry` is `executeWithRetry`: it goes back to `limit`, and every guard is passed
again. `DbError` lets a statement fail at any position. `Expire` takes a job from a
worker that is dead or too slow; a slow one runs on, so that two handlers of one job
are under way. An approve is four steps: read the request, read the log row (its
age, its snapshot), write APPROVED, send the resumed job. Assumed of the environment:
an intent is submitted as the compiler made it, without `resumeApproved`.

`HighRiskApproved` is the promise of the whole pipeline; `ApprovalGate` states it as a
program of three actions, and `GateSpec` that `AgentRun` implements it with `performed
<- executed` and `succeeded <-` the intents with a SUCCESS receipt. `RequestsMatchRows`
(of `PendingIsResumable` and `AwaitingHasRequest`) relates the two tables at every moment;
`NodeReopenedOnlyByRedelivery` says when a decision is undone, `LimitOvershootBound` how
far concurrent handlers exceed the daily limit, `BreakerLatches` that refusals do not
close the breaker, and `JobsSettle` is liveness.

### Decisions: what stands before the queue, and what is learned behind it

- `RunAdmission`: `Compile` issues a token and registers its id in `rows`, the one table
  of token rows and nonces; `Receive`, `Claim`, `Evaluate`, `Consume`, `Enqueue` are the
  stretches between the awaits of `POST /run`; `Cleanup` the sweep. The signature covers
  the timestamp, the tenant, the origin and the body, so that a delivery is any
  accepted timestamp with any live token and any nonce, as often as one likes; and a
  nonce may spell the name of a token's row, `decision_<jti>`, which the expression of
  server.ts 368 lets through (the constants `Tokens` and `Nonces` may overlap). `TokenOnce`:
  a token admits a run for each time its row was created, by `Compile` or by a claim of
  its name (`named`). `NonceOnce`: a nonce with a timestamp is claimed once (`claims`).
- `RuleSetVersions` and `ConstitutionVersions`: an edit reads the latest number, creates
  the next version under a unique key and makes it active, each in a transaction of its
  own; a publication reads the row in force, ends the open ones and adds its own in one
  READ COMMITTED transaction. `VersionsKept` joins `NewestIsActive` (unless an edit is
  under way or was overtaken, the history `passed`) and `OneAfterAnother`.
- `RulePipeline`: sentences are records of what the expressions of `rules-engine.ts`
  look for. `PipelineKept`: what `POST /run` queues was judged by the bid guard in force,
  and rules that contradict one another on low stock are shown.
- `AgentGraph`: the nodes that decide a bid and those that check it, in their order, with
  `plan`, `intent` and what each node leaves. `CompletedInBounds` bounds the change of a
  completed run by cap, stock, margin and lowest bid.
- `PlatformClient`: token `cached`, the `refresh` in flight, handlers `asking`.
  `ClientKept`: no request carries a token that expires at the platform before it is
  over, and who waits for a refresh waits for one that is under way.
- `LedgerWrites`: `stamp` and `known` are the maps of the process, `post` the requests.
  `WrittenTwiceOnlyIfSlow`: a key is written again only if the write took longer than
  the minimum interval, the key was forgotten meanwhile, or the process ended.
- `Maturity`: recalculations read, score, and write without a lock, `PATCH /maturity` sets
  the ceiling. `RaisedWithinCeiling`: a step above the ceiling had read another one.
- `PatternEvolution`: `distill` and `report` are the calls under way. `FailingIsDemoted`:
  a pattern whose counted failures reached the limit does not decide by itself, although
  counts are read and written back.

### The portal: consumers, staff and the console

- `SupportCase`: calls of consumers and staff and turns of the agent, which run detached
  from the call that began them, over one case. `WritebackOnce`; `ClosedStaysClosed`
  (reopened only by an escalation that began before); under fairness
  `UnsureReachesHuman`.
- `SignInCode`: the store of codes and the forms; `CodeUsedUp`, `YoungCodeKept`.
- `StreamRegistry`: both registries (refusing or evicting at the limit), the greeting that is
  awaited before the callback is set, clients that leave at any moment:
  `PlacesAccounted`.
- `ChatScreen`: pieces of answers, the buffer, the timer, the bubbles; a bubble shows an
  interval of the pieces. `FinishedKept`.
- `KnowledgeBase`: jobs that page through entries by an offset into an order they change,
  and everybody who uses entries; a vote against a FAQ reads rates (`ReadRates`), writes
  what it made of them later (`WriteRates`) or is lost. `NotWornTwice` judges a weight by
  the use and the rate it was computed from (`basis`, `pace`): the rate may be another by
  the time it is written, and a late vote may have lowered it.
- `Sessions` and `SupportDesk` are joined in `PagesKept`: a family that was ended has no live
  token but one that a rotation under way had made (`escaped`), a page acts for the
  person it shows; the desk shows the selected case, and as new as it was told of,
  unless an older answer arrived last or a stray one was shown (`strayed`, `passed`).
- `ApprovalListener` (in `MCLiveness`): the LISTEN client, `ListenersCounted` and, under
  fairness, `ListenerReturns`.

### Master data

- `ExternalIdMapping`: `rows` is the sequence of mappings, each with its history; a handler
  reads, then writes and commits (`Approve`, `Reject`, `Revoke`, `Map`, `Drop`), then
  publishes (`Freeze`). `Refused` is the partial unique index on approved rows.
  `DualWrite` is `MAPPING_WRITE_MODE`: in dual mode the older route has updated the row
  of the older table before, and holds its lock (`Free`). `OneApprovedPerKey` holds because
  of the index, whatever was read; `HistoryComplete` through writes based on stale
  reads; `RevokedFrozen` relates a revocation to the product the row had at that time.
- `CostVersions`: `CostsKept` joins `LaterEndsEarlier` (an open version has ended every
  earlier one its call knew of) and `PriceInForce` (where prices change by PUT alone).
- `ProductTree`: the roll-up level by level; `StagesRolledUp` for products on which no two
  calls ran together (`together`) and no route without a roll-up (`unsynced`).
- `ExchangeRates`: days, the two timers, stops and starts; `AveragedAfterSecond`: the
  average is there, and no day that is still kept is missing from it.
- `ModelPolicy` and `SystemRegistry` are joined in `ConsoleKept`: a policy saved alone is
  audited with what was in force before it, no key is lost to its mask, a model that a
  page shows is one the router would use; a click does to an entry what it was meant to,
  and none that tenants use is switched off without asking. A page of the registry may
  have several calls under way: its question stays until the answer to the confirmation
  comes, so that the button can be pressed again.
- `CategoryTree`: `CatalogueKept` joins `PathsFollow` and `CountsMapped`. The path of a
  category is that of its parent and its name, except below one that is being renamed
  and in `odd`: what a call wrote that met another's writing or broke off, what lost its
  parent to a delete, and the branch of the same path that a rename, even alone, takes
  for its own (`Namesakes`), with what lies below those.

## Runs and bounds

| Run | Instance | Checks |
|---|---|---|
| `agent` | three scenarios: one high-risk intent, 2 workers, 2 reviewers, 3 jobs, 1 retry, 1 redelivery, 1 fault; one low-risk intent under the python runtime, 1 reviewer, 2 jobs; three intents against a limit of 1 | `HighRiskApproved`, `RequestsMatchRows`, `LimitOvershootBound`, `NodeReopenedOnlyByRedelivery` |
| `breaker` | 4 low-risk intents on one target, 2 workers | `BreakerLatches` |
| `live` | a high-risk intent, 1 worker, 1 reviewer, retries 3 and redeliveries 2 as in the code, 2 faults; a case with 1 call and 2 turns; 5 clients of the database with 2 breaks | `TypeOK`, `GateSpec`, `ListenersCounted`, `JobsSettle`, `UnsureReachesHuman`, `ListenerReturns` |
| `portal` | 2 calls, 2 turns, 2 closes; 2 forms, 2 codes, 2 attempts; 4 connections, 2 places; 4 pieces and bubbles; 1 entry, 2 jobs, 2 votes, rates up to 3, pages of 1, 2 days; 1 tab, 2 people, 2 tokens, 1 lost answer; 2 cases, 2 fetches, 2 changes | `TypesOK`, `WritebackOnce`, `ClosedStaysClosed`, `CodeUsedUp`, `YoungCodeKept`, `PlacesAccounted`, `FinishedKept`, `NotWornTwice`, `PagesKept` |
| `decisions` | 1 token, 2 nonces and the one that names the token's row, claimed once; 2 handlers, skew 1, lifetime and retention 2, 4 units of time; 3 edits, 4 publishers; all texts of one sentence and pairs; caps 15 and 50; interval 2, 2 keys; 2 tenants; 2 distillations, 2 reports, limit 3; 3 handlers of jobs, 2 slots, timeout 1, margin 2, lifetime 3 | `TypesOK`, `TokenOnce`, `NonceOnce`, `TokenRedeemable`, `VersionsKept`, `PipelineKept`, `ClientKept`, `CompletedInBounds`, `WrittenTwiceOnlyIfSlow`, `FailingIsDemoted`, `RaisedWithinCeiling` |
| `masterdata` | 1 key, 2 mappings, 3 versions, or in dual mode 1 mapping, 2 products, 5 versions; 2 changes of costs, 2 prices; 2 listings, 2 commodities, 2 requests; years of 2 months of 3 days, 8 days; 2 administrators, 3 saves; 1 tenant, 2 calls of pages under way, 2 toggles; 3 categories, 2 names, 3 calls, 1 fault | `TypesOK`, `OneApprovedPerKey`, `HistoryComplete`, `RevokedFrozen`, `CostsKept`, `StagesRolledUp`, `AveragedAfterSecond`, `ConsoleKept`, `CatalogueKept` |
| `receipt`, `streak`, `mapping_takeover`, `mapping_rejected`, `support_close`, `lower_bid` | see below | a violation each |

Why the bounds suffice: nearly every race in the code is between two calls (each writes
rows by id or under a unique key, and none waits for a third). Three jobs give one
delivery, one duplicate and one resumption of an intent; the breaker looks at three
rows, so that four intents let the oldest drop out; five versions let a mapping be
approved, revoked, approved for another product and revoked again; three edits let one
overtake another that has overtaken a third; a year of two months has a month whose
next is in another year. Bounds of the model (`Max...` where the code has no limit) are
named where they are declared. Where a property is proved, the theorem does not depend
on the numbers, so that the runs need not either.

Each property has a mutant (`PROJECT.json`), a plausible slip in the code that makes TLC
find the property violated in the same run: the bounds reach the case.
`CHECK_DEADLOCK FALSE` in all runs: jobs, calls and time are bounded, so that the model
comes to rest when they are used up, as an idle server does. `SYMMETRY` is used for safety
only. The `VIEW` of `agent` and `breaker` leaves receipts out of the fingerprint: they
are written and never read, and these properties do not mention them.

## Fairness

Only in `live`, and for each component only while it is in focus:

- weak fairness of each worker's handler and of its fetching (the event loop runs what
  is ready, pg-boss polls), and of the expiry of a job that no worker owns (pg-boss's
  maintenance), for `JobsSettle`. It holds since a handler never waits for a reviewer;
- weak fairness of each turn of the support agent, which awaits only calls that return
  or fail, for `UnsureReachesHuman`;
- weak fairness of the timer that reconnects, and of a connecting client, which is
  answered or fails, for `ListenerReturns`.

Nothing is assumed of callers, reviewers, crashes, lost connections, or of the write of
receipts.

## Where the code and its documents differ

Each of these is a run that TLC ends with a violation of what the quoted line says.

- `receipt`: a run whose first attempt failed and whose retry completed has only the
  FAILED receipt; the second create is refused by the unique `executionLogId` and the
  error is printed (queue.ts 193-217). `.cursorrules:25` asks for a receipt as proof
  of work.
- `streak`: the breaker looks at the three rows created last, one row per intent
  (queue.ts 154-164); three consecutive failures of two intents do not open it, and
  the next run executes. `README.md:129` describes three consecutive failures.
- `mapping_takeover`: the second mapping of a key is updated to APPROVED before the
  first is soft-revoked, and the partial unique index refuses the update
  (mdm-mapping-routes.ts 271). `mdm-mapping-concurrency.test.ts:133` expects the
  first to be soft-revoked.
- `mapping_rejected`: approve checks the status it read and updates by id
  (mdm-mapping-routes.ts 259-271); a reject committed in between is overwritten.
  `mdm-mapping-concurrency.test.ts:101` says that REJECTED to APPROVED is refused.
- `support_close`: whether an escalated case needs a writeback is decided on a status read
  before the transaction (support-routes.ts 155); an escalation in between is closed
  without one. `support/page.tsx:784` says it is required.
- `lower_bid`: the expression that reads a bid change skips the word "lower"
  (rules-engine.ts 207), so that lowering by 12 % becomes an increase.
  `rule-templates.ts:103` means a decrease.

## What the code does that no document contradicts

Met while modelling; the properties are stated so that they hold in spite of it.

- A reject between the read and the write of an approve is overwritten; an end of the
  process after the write and before the send leaves a decided request whose run nobody
  resumes (server.ts 1097), and after the consumption of a token a run that is lost
  (820): neither is sent again.
- A redelivered job asks again for an approval that was given.
- The signature of a run request covers neither the nonce nor the token (server.ts
  216-219, 654): a signed body is accepted under another nonce while its timestamp is.
  Rows of tokens and nonces share a table and its names (333, 368): a claim of the
  nonce `decision_<jti>` after the consumption creates the row anew, and the token
  admits another run. `NonceOnce` and `TokenOnce` count claims and runs accordingly.
- Of two votes that read one decay rate the later write counts, and it may lower a rate
  that others have raised since (portal-routes.ts 989-1011). A recalculation may skip an
  entry when the order changes between two pages.
- Overlapping publications of a constitution can give two versions one number.
- The desk shows an older answer when it comes after a newer one and a stray one was shown
  between them; it does not listen for the end of an agent's answer, nor are messages of
  consumers announced; drafts survive the change of the case.
- A late answer to a page that was left still sets the cookie of the browser, and the
  sidebar does not await the sign-out it asks for.
- An empty list of a policy's section overrides the list above it; a policy that names only
  models nobody knows allows all; a save after a load that failed erases what was there.
- The codes by which the use of warehouses and categories would be counted are never set,
  so that the registry does not ask before it disables them. Confirm Disable toggles what
  the server finds: pressed twice before the answer, it switches an entry off and on.
- A category created below one that is being renamed keeps the old path. Descendants are
  found by their path, and paths are not unique (system-registry-routes.ts 346): of two
  roots A, the second with a child B, renaming the first to X gives B the path of X,
  with no other call under way.
- The margin of the platform's token, 30 s, is exactly twice the timeout of 15 s:
  `ClientKept` needs that much.

## Proofs

`tlapm` checks every theorem to its leaves; the constants are arbitrary within the
named assumptions. A theorem about a component in a portfolio is a theorem of the
portfolio's specification: an inductive invariant `X` of the component, `focus = "x" => X` of
the portfolio (a step of the portfolio is a step of the component in focus and
stutters for the others), and the property from it.

| Module | Theorem | The invariant and why it is needed |
|---|---|---|
| `AgentRunProofs` | `TypeCorrect` | `TypeOK`: a handler under way has a job with an intent |
| | `GateHolds`, `ImplementsGate` | `GateInv`: a step to `execute` depends on the job, and a job with `resume` on the approve that sent it; each link is granted (`ResumeGranted`, `SendGranted`, `ExecuteGranted`), and what is reported was executed. Each step is then one of `ApprovalGate` or a stutter |
| | `PendingResumable`, `AwaitingAsked` | `RequestInv`: what a handler is about to write (`WaitingAsked`) and whom a review has read (`ReviewsExist`) exist already, because rows are never deleted (`Stays`) |
| | `LimitOvershoot` | `LimitInv`: the rows, with the handlers past the check, are fewer than limit and workers together, or the limit is not reached; with the lemmas on cardinalities |
| | `ReopenedOnlyByRedelivery` | `ReopenInv`: a request and the deliveries that can still ask for it are at most the times the queue has started the intent |
| | `BreakerStaysOpen` | `LatchInv`: no two rows have one place, so that a new row pushes out the oldest of three only |
| `RunScenariosProofs` | `TablesAgree`, `LimitKept`, `NodeReopened` | the theorems of `AgentRunProofs` instantiated with the constants of each scenario |
| `LivenessProofs` | `ListenersBounded` | `ListenerInv`: live clients and running timers are at most one more than the ends that came late |
| `RunAdmissionProofs` | `OneRunPerToken` | `OnceInv`: the jobs of a token, the handlers about to send one and its row, if it is there, are at most the creations of that row (`Paid`): every consumption takes one, every claim of the name adds one |
| | `OneClaimPerNonce`, `LiveTokenRedeemable` | `AgeInv`: a nonce claimed with a timestamp has its row as long as that timestamp is accepted (`Claimed`), a handler about to claim has a timestamp that is (`ClaimFresh`), and a live token nobody consumed has its row since its creation (`LiveRow`) |
| `ExternalIdMappingProofs` | `KeyApprovedOnce` | each write makes nothing approved or passed the index |
| | `TrailComplete` | `TrailInv`: each row has its trail (`RowTrail`), and what a handler saw approved, or is to revoke, has an approval in its history (`CallTrail`), which later writes do not remove |
| | `RevokedAreFrozen` | `FrozenInv`: a revocation is on its way to the product, delivered, or lost |
| `PortalProofs` | `OneEntryPerClose`, `ClosedIsKept` | `CaseInv`: every close but the last was undone by an escalation, and each gave at most one entry (`Counts`); a call that may escalate found the case open, and no turn is of a call that found it closed (`BeganOpen`) |
| | `CodesAreUsedUp`, `YoungCodesAreKept` | `CodeInv`: the comparisons of the stored code are its attempts (`CodeCounts`), who is about to sign in has a code that is stored no more (`CodeRedeemed`), and a send that saw the stored code saw it old enough (`CodeAges`) |
| | `PlacesAreAccounted` | `StreamInv`: places in the registry are distinct, and each has an owner that is open or left early |
| | `FinishedAnswersAreKept` | `ScreenInv`: how timer, buffer and last bubble hang together (`Switches`), and which interval a bubble shows |
| | `WornOnce` | `BaseInv`: the weight lost since the use it was judged by is at most days times the rate it was judged by, also for what a job has read, whose rate a vote may change before it writes |
| | `SessionsAndDeskKept` | `SessionInv`: who may still use or make a token of a family, and of whom a page, its cookie and its requests are (`Families`, `GoodRequests`, `GoodPage`); `DeskInv`: what was told is shown or on its way (`Coming`), and so is the selected case while another is shown (`Choosing`) |
| | `PortalTyped` | the types, from all of these |
| `DecisionsProofs` | `VersionsFollow` | `RulesInv`: numbers are 1..m without a gap, and who is to activate one knows that all higher ones passed it; `ConstitutionInv`: rows are intervals that do not overlap, and a publication under way has a snapshot before it |
| | `PipelineHolds`, `RunsCompleteInBounds` | `PipelineInv`, `GraphInv`: what each stage has left for the next |
| | `TokensOutlive` | `ClientInv`: a stored token claims to live at most a timeout longer than it does, and a request under way will be over before its token is (`Good`) |
| | `LedgerWritesOnce` | `LedgerInv`: the maps remember each request of this life of the process (`Stamped`, `Remembered`), and two of one key began an interval apart (`Apart`) |
| | `PatternsDemoted`, `RaisesWithinCeiling` | `EvolutionInv`: failures in a row are counted or were lost to a concurrent report; `MaturityInv` |
| | `DecisionsTyped` | the types, from all of these |
| `MasterDataProofs` | `ConsolesAreKept` | `PolicyInv`: a save that is alone has read what is stored (`Alone`), and the audit explains the row; `RegistryInv`: a call, a page or a question that nobody wrote the entry behind knows it, also with several calls of a page, and who counts has seen every tenant |
| | `StagesAreRolledUp` | `TreeInv`: without another call, what is above the level a roll-up is at may differ from the listings, and nothing else (`Rolling`) |
| | `CostsAreKept` | `CostInv`: from the first write of a call to its end no other writes (`CallsApart`), and what a call saw is ended (`LaterEndsEarlier`) |
| | `MonthsAreAveraged` | `RateInv`: the timer is due today or tomorrow and runs on a second (`Armed`); a month due today has its average, with every snapshot that is kept, once it fired (`Fired`). The calendar is in lemmas on `\div` and `%` (`DueDay`, `NextAlarm`) |
| | `CatalogueIsKept` | `CategoryInv`. `PathInv`: every live category outside `odd` and outside the branches under way (`Moving`) has its parent's path and its name; a call that met no other knows its parent as it is (`AsRead`), and a renaming has found all of its branch and will write each member what it should be (`RenamesAll`, `FoundBelow`); `odd` holds the namesakes of a renamed branch and is closed under children, so that what a parent does cannot break a path outside. `CountsMapped` is inductive with `CategoryTypes` (a mapping names a category that was used), through lemmas on cardinalities |
| | `MappingsAreKept` | `MappingInv` of `ExternalIdMappingProofs`, instantiated with the constants of each write mode (`RowsInv`) |
| | `MasterTyped` | the types, from all of these |

Assumptions, each evaluated by TLC in the runs: `AgentRunAssumption` (finite sets of intents
and workers, a target of each intent, natural numbers), `ScenariosAssumption`,
`ClientsAssumption` (finite sets), `AdmissionAssumption` (finitely many handlers, for
the cardinality; twice the skew and the lifetime of a token are not above the retention:
300 s, 300 s and 24 h in `env.ts`), `MappingAssumption` and `CaseAssumption` (kinds of
keys, natural numbers), `PortalAssumption` (the cooldown is not above the lifetime: 60 s
and 10 min; "none" is no id), `DecisionsAssumption` (two timeouts fit in the margin of a
token and in its life: 15 s, 30 s and 1 h), `MasterAssumption` (the default is a model
of the catalogue; the form has its four parts; a month has at least two days; ids are of
one kind), `CatalogueAssumption` (administrators and mappings are finitely many, for the
cardinalities; a category has a name; the tree may be one level deep at least: 4 in the
code).

What the attempts to prove showed, and the model or the property then said:

- `PathsFollow` was false from four calls on: a category created below one with an odd path,
  and what hangs below a child that became a root, have paths of their own. The history
  `odd` now follows both. In its proof the tree that `CategoryTree.Init` begins with had
  to be as deep as the code allows, and no deeper.
- The desk shows an older answer also after a stray one; a late answer to a page that was
  left changes the cookie; version numbers of constitutions repeat after overlapping
  publications. The properties say so.

## What is only model-checked

- `JobsSettle`, `UnsureReachesHuman`, `ListenerReturns`: liveness under fairness is out of
  the prover's reach, and so is ENABLED.
- The violations: a counterexample is TLC's to show.

## What is not modelled

`PROJECT.json` gives the reason per component. In short: policy resolution and the
rate-limit cache only read; the audit chain is a hash; public knowledge and benchmarks are
single statements; the market scheduler shares no state; single-statement create, read,
update and delete handlers (most of the primitives, the portal's configuration, the
catalogue of Amazon) have no protocol; pages that show what they fetched keep nothing.
Row level security, metrics, logging and the contents of payloads are left out
everywhere. Within the modelled components: experience rows and events of the run
pipeline; `bulk-map` and the reconcile reports of mappings; the two handlers of
`mdm-isolation-handler.ts` for cost and product updates; the calls to AI providers and
the fallback between them; the scopes of rules; drift detection and statistics of
knowledge; the vectors of `memory.ts`; the access control of single requests.

## Plan

Done: the modules above with their runs, and the theorems of the table, one at least for
each property of the passing runs but the liveness ones. Left: the pages of the portal
before a case is open (a visitor's session), which could join `MCPortal`.
