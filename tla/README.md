# Verification of support-ai-platform

TLA+ models of the platform's core logic, TLC configurations that check them on small instances, and
TLAPS proofs for every value of their constants. Paths below are relative to the repository.

1. [The system](#1-the-system)
2. [Modules](#2-modules)
3. [Runs](#3-runs)
4. [Fairness](#4-fairness)
5. [Proofs](#5-proofs)
6. [Findings](#6-findings)
7. [What is not modelled](#7-what-is-not-modelled)
8. [Plan](#8-plan)

`tlc -workers 2 -config X.cfg M` checks a module, `tlapm M.tla` its proofs. `PROJECT.json` lists the
components, the runs, the map from definitions to source lines, the hazards and the theorems.

## 1. The system

A NestJS API (`apps/api`) and a BullMQ worker (`apps/worker`) share a Postgres database through Prisma, an
S3 bucket, a Redis instance, and call an LLM, an embedding model, Stripe and an e-mail service. The
dashboard (`apps/dashboard`), the SDK (`packages/sdk`) and the widget (`packages/chat-widget`) are their
clients. Nothing spans two of these stores: apart from a few Prisma transactions every `await` of a handler
is a point where other handlers, the worker or a crash come in between. That is what the models keep.

| Component | State | Operations | What is hard | What makes it correct |
|---|---|---|---|---|
| Knowledge sources (`documents`, `websites`, `text-snippets`, `knowledge-sources` services) | `KnowledgeSource` row, `Document.uploadStatus`, object in the bucket, job in Redis | upload URL, PUT, complete, create, remove | row, object and queue change one after the other; repeated `complete()`; removal during a run | one job per source, only after the upload; no chunks of a removed source; nothing stuck |
| Ingestion worker (`apps/worker`) | the job, its lock, `KnowledgeChunk` rows, status and error message | `process()` of three services, redelivery by BullMQ | a lost lock or a crash repeats a run that wrote half of its results; Postgres refuses a read or a write in the middle | the settled status agrees with the chunks and the error message; every queued source settles |
| Chat endpoint (`chat.service.ts`, controllers) | conversations and messages, monthly usage, the SSE response | a dashboard or public turn | quota read before it is counted; agent, sources and conversations change under the turn; errors before and after the stream opened | the overshoot of the quota is bounded; no reply without its counted question; a well-formed response |
| Plan limits (`plan-limits.service.ts`) | counts compared with `PLAN_LIMITS` | `assertCan...` before agents, sources, seats, messages | check and creation are separate | the limit holds up to the requests in flight |
| Workspaces and invitations (`workspace`, `invitations` services) | members, invitations | invite, accept, resend, withdraw, remove, delete | every handler reads, then writes by id; expiry; two counts for one limit | nobody joins or leaves except as invited or ranked |
| Billing (`billing.service.ts`, `stripe.service.ts`) | `Subscription` row, processed event ids; Stripe's subscriptions | checkout, change of plan, webhooks | events late, repeated, out of order; snapshots written after newer ones; a second subscription; deletion of the workspace | the row is a state Stripe announced; in the end it is the present one |
| Authentication (`auth.service.ts`, `apps/dashboard/src/lib/api`) | `RefreshToken` rows, verification tokens, the e-mail queue; the token pair in local storage, `refreshPromise` of each tab | log-in, refresh, log-out, verify, resend; interceptors and guards of the dashboard | rotation of a token used twice; a log-out over a refresh; an answer that nobody receives; two resends; a mail retried after its link was replaced | one successor per refresh token; a log-out ends its log-in; no tab waits for nothing; the newest link works |
| Public API (`api-key.guard.ts`, `api-key-rate-limit.service.ts`, `agent-api-keys`) | key rows, counters in Redis, the page of keys | check a key, count a request, create and revoke keys | INCR and EXPIRE are two commands; a counter that expires under a request; a TTL in whole seconds; a list that is behind | the rate in each window, a `Retry-After` that suffices; the page lists the keys that work |
| Crawler (`packages/knowledge/src/crawl`) | queue, visited set, pages | breadth-first crawl in batches | bounds in the middle of a batch, redirects, robots rules, pages found twice | every allowed page within `maxDepth`, once, at its distance, unless `maxPages` stopped it |
| Retrieval (`packages/knowledge/src/retrieval`) | the rows of the attached sources | search, dedupe, MMR | sources detached and removed between two reads; ties and boundaries | each page once, by its nearest chunk |
| Streams (`groq.provider.ts`, `chat.service.ts`, `packages/chat-core`) | bytes read and the rest of a line kept for the next piece | read, split, parse, forward | a piece may end anywhere, either connection may break | the tokens shown are those generated, in order |
| Chat clients (`packages/chat-core`, `packages/sdk`, `packages/chat-widget`) | conversations in local storage, what a surface shows, the reply it waits for | send, select, start, delete, close, reload | events that arrive after a switch or a deletion; two surfaces on one store | no thread holds another's messages; a deleted thread's reply is aborted; threads lose nothing |
| Dashboard (`apps/dashboard`) | cached queries, forms, sheets, dialogs, the workspace id in local storage | pages of sources, conversations, playground, workspaces, members | every list is behind; an effect that runs after each render; mutations answered in another order; tabs that share an id | a page with nothing in flight shows what the server has, and offers what it allows |
| UI components, e-mail templates, configuration, landing, usage and billing pages | - | - | presentation | not modelled |

## 2. Modules

Every handler is a process with a `pc`; one action per `await`, with the guards, early returns and error
paths of the code in between. A record holds what the handler read and still uses: that is how stale reads
show. A step that the code makes atomic (a Prisma transaction, a nested update, one SQL statement) is one
action; where two rows are written in one statement with a condition, the condition is part of the guard.

* **KnowledgeLifecycle** - abstract: the life of a source as its status column shows it, with the number
  of jobs it was given.
* **KnowledgeIngestion** - the sources from `UploadUrl`/`CreateRow` to READY or FAILED. `status`, `upload`,
  `copies` (whole sets of chunks) and `errorNote` are the row; `url` and `object` the bucket; `added`, `job`,
  `lock`, `stalls` the queue; `req` the API's handlers and `run` the worker's. `Process(w)` is `process()` of
  the three services, whose differences are `AfterLoad`, `AfterFetch`, `AfterMeta` and `AfterStore`. Clients,
  expiring URLs, lost locks, stalled jobs and crashes are actions of their own. `Refused` is a statement that
  Postgres does not answer: before the row is known it ends the run without a status, in the `catch` it leaves
  the row unwritten (`job` is then UNWRITTEN). Refines KnowledgeLifecycle.
* **PlanAdmission** - abstract: check a count against a limit, add the unit later.
* **ChatTurn** - `streamChat` behind both controllers. The generator's first event opens the response, so an
  exception is a JSON status before it and an SSE `error` after it (`Throw`). `NewMonth`, `RemoveMany`,
  `SetActive`, `DeleteAgent`, `SourcesChange` and `Crash` happen between any two steps. Refines PlanAdmission
  with the turns that passed the check and have not counted their message.
* **Membership** - the seats of a workspace: `create` with the two queries of `assertCanAddMember`, `accept`
  with its transaction, `resend`, `remove`, and `removeMember` behind its guards. Refines PlanAdmission for
  the open invitations, under the limit less the owner's seat.
* **Billing** - the `Subscription` row against Stripe. Stripe's side is external: subscriptions that change
  on their own, a log of events, redelivery until an event is answered. `Ordered` chooses whether the events
  come in order. `SyncSubscription`, `OnSubscriptionDeleted` and `OnInvoicePaymentFailed` write the row;
  `Lookup` and `RecordEvent` are the two ends of the deduplication; `ChangePlan`, `Checkout` and the
  steps after them the customer's side; `ReadForDelete` and `DeleteWorkspace` `deleteById`.

* **Session** - a request is a fetch of a tab together with the handler that serves it: `Handle` has the awaits of
  `refresh()`, `logout()`, `login()` and a protected call, `Client` the interceptors (`refreshAccessToken`, the
  replay after a 401, `clearTokens`), the guards of the pages and their reloads. `LoseAnswer`, `Forget`, `Expire`
  and `Crash` come from outside. A pair of tokens is named by the `jti` of its refresh token; `login`, `closed` (the
  log-ins that a log-out was about) and `raced` (those of them that had a refresh between `revoke()` and
  `issueTokens()`, or whose row somebody else took first) are histories.
* **EmailVerification** - `createUser`, `resendVerification`, `verifyEmail` of one address, and the e-mail worker
  with its attempts between a token and its link.
* **PublicApi** - the guard and the counter command by command; `api-keys.service.ts`; and the
  dashboard's page of keys. A tick of the clock is a fraction of a second; `Seconds` rounds a TTL to whole
  seconds as Redis does, and a command that fails may have taken effect (`RedisFails`).
* **Crawler** - `crawl()` batch by batch. What a URL answers is chosen when its result is handled, so one run of
  TLC goes through every site of that many URLs. `allowed` stands for hosts, robots.txt and extensions.
* **Retrieval** - `retrieve()`: attachments, vector search, deduplication and MMR as functions over bounded
  rows, while sources are trained, detached and removed between the reads.
* **TokenStream** - the two line splitters, one after the other: an event is two symbols and its newlines, and
  a piece is any prefix of what has been sent. The last line, `[DONE]`, may come without its newline. A proxy may
  cut either connection; the API goes on reading after the visitor's is gone, and saves the reply.
* **ChatClient** - `useChat`, `ChatPanel`, `ChatBubble` and `mountWidget` on `conversations.ts`. A surface is a
  panel or a widget; the difference is what a deletion or a switch does to a reply under way.
* **QueryCache** - the operators of a query of TanStack's `QueryClient` as the hooks use it: sent, read, rendered,
  cancelled by an invalidation.
* **SourcesPage**, **Inbox**, **Playground**, **WorkspacePages**, **MembersPage** - pages of the dashboard over
  QueryCache. A page reads its lists in two steps (the server reads, the page renders), and visitors, workers,
  other members and other tabs act in between. What the page derives in an effect or a memo is derived in
  the action that renders. The API behind them is one step here: the other modules take it apart.

`MCKnowledgeIngestion`, `MCChatTurn`, `MCMembership`, `MCBilling`, `MCSession` and `MCChatClient` add the model
values and the symmetry sets. `MCServices` (Crawler, Retrieval, TokenStream) and `MCDashboard`, which extends it
(the five pages, PublicApi with the page of keys, EmailVerification), check ten parts that share no variable: `part`
names the one a behaviour is of, the variables of the others are fixed, so the states are the sum of theirs and not
the product. The symmetric sets of the dashboard run are those over which its invariants only quantify; the
`CHOOSE`s of the modules are over positions or pick the only element there is. The loops of the services over lines,
links and hits are the operators `Filter` and `Loop` of **Loops**, recursive functions which both TLC and the
provers unfold. `*Proofs` hold the theorems. Definitions named after a mistake (`AssertQuotaOffByOne`,
`ResendReopens`, `LookupForgotten`, ...) stand before the definition they vary and are used by no action: putting
one in its place must break the property that `PROJECT.json` ("mutants") names.

## 3. Runs

| Run | Instance | Checks |
|---|---|---|
| `ingestion_document` | one source of any kind, 2 API requests, 2 workers, 1 redelivery; 184 000 states | `EnqueuedOnce`, `JobAfterUpload`, `NeverStuckProcessing`, `CopiesBounded`, `ImplementsLifecycle` |
| `ingestion` | a document and a snippet, 1 request, 1 worker, 1 redelivery, fair; 347 000 states | `OutcomeCoherent`, `ReadyHasItsChunks`, `RemovedLeavesNoChunks`, `QueuedIsSettled` |
| `chat_turns` | 2 turns, 2 conversations, quota 1, a month boundary; 413 000 states | `ImplementsQuota`, `RepliesAnswerQuestions`, `RepliesAreCounted`, `ResponseWellFormed` |
| `membership` | 2 users and the owner, 2 invitations, 2 requests, 2 seats; 603 000 states | `ImplementsInvitationLimit`, `JoinsByInvitation`, `RemovalFollowsRank`, `InvitationsOnlyClose` |
| `billing` | 2 subscriptions (one live at a time), 1 request, events in order, 7 events; 532 000 states | `WebhookIsSourceOfTruth`, `RowIsFromStripe` |
| `session` | 2 tabs, 2 fetches at a time, 3 pairs of tokens, 2 log-ins, 2 expiries, 1 lost answer; 2.3 million states | `OneSuccessor`, `LogoutIsFinal`, `RefusedOnlyIfOver`, `WaitersAreWoken` |
| `chat_clients` | 2 surfaces of any kind, 2 conversations, 2 messages; 2.6 million states | `PanelsDoNotMixThreads`, `DeletedIsAborted`, `ThreadsOnlyGrow` |
| `dashboard` | five pages, the public API with its page of keys, the verification mail, the crawl, retrieval and the streams, see below; 2.3 million states | `PagesCatchUp`, `PanelShowsAnExistingThread`, `FormShowsSavedAgent`, `PreviewIsOneConversation`, `ReadyIsStored`, `RefusedForRankOnlyIfBehind`, `NewestLinkWorks`, `WindowsAreFixed`, `PageIsCurrent`, `CrawlIsComplete`, `EachPageOnceAtItsDistance`, `PagesOnceByTheirBest`, `ReplyIsWhole` |

The violation runs (`membership_seats`, `billing_source_of_truth`, `billing_two_subscriptions`, `workspace_header`)
are the findings of section 6.

What the properties say:

* *Ingestion.* `EnqueuedOnce`: a source is put on the queue once, however many `complete()` calls overlap.
  `JobAfterUpload`: never before its upload was committed. `CopiesBounded`: only redelivery duplicates
  chunks, and by at most one set per delivery (documents are not cleared before a second run, snippets and
  websites are). `NeverStuckProcessing` names the three ways a source stays PROCESSING for ever: its handler
  was cut off before `queue.add`; its job stalled too often; or its last run threw because Postgres did not
  answer, either `findUnique`, before the `catch` knows which row to write, or the `update` of the `catch` itself.
  `OutcomeCoherent`: after a job has ended and nothing works on it, status, chunks and error message agree, unless
  Postgres refused the `catch` its writes. `ReadyHasItsChunks` and `RemovedLeavesNoChunks` are the like for READY
  and removal; `QueuedIsSettled` says that a queued source gets an outcome, with the exceptions of section 4.
* *Chat.* `ImplementsQuota`: admission is that of PlanAdmission, whose overshoot is at most the turns in
  flight less one. `RepliesAnswerQuestions` and `RepliesAreCounted`: a reply that a user can read has its stored and
  counted question, through deletions, crashes and failures; the second is about the first month, since a later one
  starts its count again. `ResponseWellFormed`: a JSON error or a stream with
  exactly one terminal event, never both.
* *Membership.* `JoinsByInvitation`: a member row is created only by the step that accepts an invitation to
  that address and role. `RemovalFollowsRank`: a removal is one that the current role of the removed member
  allows, although it was read earlier. `InvitationsOnlyClose`: a late resend reopens nothing.
* *Billing.* `WebhookIsSourceOfTruth`: with all events answered and nothing under way the row is the live
  subscription's; in its passing run, with one request and events in order, what can break it is a crash or a
  redelivery between `Lookup` and `RecordEvent`, while late events and overlapping writes are for
  `billing_source_of_truth`. `RowIsFromStripe`: no mixture of two states. `KeepsPaidFeatures`, of the
  violation run: a subscription that was set to cancel keeps its plan until it ends.
* *Sessions.* `OneSuccessor`: of the tokens that descend from one log-in at most one has a row. `LogoutIsFinal`: a
  log-in that a log-out or `logoutAll()` has ended (`Ended`) has no row again, although refreshes that had verified
  its token go on; the log-ins it misses are exactly those whose refresh was between `revoke()` and `issueTokens()`
  just then, and those whose row another handler took from a log-out, which then answered 500. `RefusedOnlyIfOver`:
  a tab sends a token once, so while no other tab or lost request holds it, it is sent to the log-in page only when
  the session is over. `WaitersAreWoken`: a log-out that waits for `refreshPromise` waits for one that will settle.
* *Chat clients.* `PanelsDoNotMixThreads`: with panels alone, no stored thread holds a message of another
  conversation. `DeletedIsAborted`: the widget aborts the reply of the thread it deletes. `ThreadsOnlyGrow`: with
  one surface alone, a stored thread is replaced only by one that continues it.
* *Services.* `CrawlIsComplete` and `EachPageOnceAtItsDistance` compare the crawl with reachability in the site it
  met: every allowed page within `MaxDepth` links, once, in the order of distance, and past `MaxPages` by no more
  than the rest of one batch, which is dropped. `PagesOnceByTheirBest`: a page is cited once, by its nearest chunk,
  the nearest page first, and no place in the context stays empty that a found page could fill. `ReplyIsWhole`:
  however the bytes are cut, what is saved and what the visitor sees are prefixes of the model's tokens, all of them
  before `done`. After a proxy cut the response no more than that is promised; a response that was not cut is not
  read to its end without an end event.
* *E-mail and keys.* `NewestLinkWorks`: while an address is not verified the link drawn last works until it expires,
  whatever resends overlap, links expire or handlers die beside it; it is gone only while the very handler that
  deleted it has not drawn the next one, or died there.
  `WindowsAreFixed`: at most the rate is admitted of the requests counted in their own window, and a client that
  waits as `Retry-After` says arrives in another window or in the last half second of this one, which TTL rounds
  away, unless TTL found a counter without expiry. `PageIsCurrent`: the page of keys, with nothing in
  flight, lists exactly the keys that work.
* *Dashboard.* `PagesCatchUp`: both pages of sources show the rows, or are visibly in training, and a preview is of
  the document it was opened for. `PanelShowsAnExistingThread`: after deletions the panel settles on a thread that
  exists. `FormShowsSavedAgent`: a form without edits shows the saved instructions, whatever poll overlapped the
  save. `PreviewIsOneConversation`: the turns shown that named their thread are of the one the next message goes to.
  `ReadyIsStored`: the id that calls carry is that of the page, with one tab, except after a creation that was
  answered when its page had been left. `RefusedForRankOnlyIfBehind`: the API refuses a button for a role only when
  the user's own role has changed since.

**Bounds.** Races of the handlers need two of them on one resource: two requests, two turns, two workers where lock
loss matters. `ingestion_document` has one source at a time (the constraint `OneSource`) because sources share no
row, object or job; which of the three kinds it is, is a choice of the client's first step. `ingestion` adds a
second source with one request, where redelivery and removal are the question. A quota of 1 and two seats are the
smallest at which an admitted and a refused request meet. `MaxStalled` 1 is BullMQ's default of `maxStalledCount`.
Two invitations do not reach a user who leaves and joins again with a higher rank while a removal waits; the proof
of `RemovalFollowsRank` covers it. Seven billing events are a checkout (2), a change, a failed payment (2), an end,
and one more. `MaxLive = 1` in `Billing.cfg` cuts off the case in which a customer pays for two subscriptions, which
the code allows: it is the case of `billing_two_subscriptions`, where `MaxLive` is 2. `Billing.cfg` uses one request
and events in order because `WebhookIsSourceOfTruth` fails with two requests (section 6): the run says nothing about
events out of order or overlapping writes. `RowIsFromStripe` is proved for any number. `MaxCustomers`,
`MaxQuestions`, `LastMonth` and the sets of ids only cut off repetition.

`session`: a rotation, a second one of the same token, and a log-out are the longest race, over two log-ins of one
browser: three pairs. `MaxLost` bounds the fetches whose answer nobody handles. `chat_clients`: mixing needs a reply
under way in one conversation while another is selected, and a second message.

`dashboard`, the services: 4 URLs with up to 2 links each, `maxPages` 3, `maxDepth` 2, batches of 2 are the smallest
at which a batch discovers a page twice, a page has two ways of different length, and the page limit falls inside
a batch. Retrieval: 2 sources of up to 2 chunks, 3 candidates, 2 places, two relevances, texts that share words or
do not: duplicates, ties and more pages than places occur. Streams: 3 tokens of 2 kinds.

`dashboard`, the others: mail: 3 links, 2 handlers, one crash, one expiry, and 1 attempt, since a second one only
mails the same link again. Keys: 1 key, 1 origin, a rate of 1, 2 guards and 2 requests, one failed command; 3 ticks
a second, so that rounding goes both ways, windows of 2 seconds and 6 ticks: one window and the start of the next.
A rate of 1 is the smallest at which an admitted and a refused request meet; the proof covers every rate.
The pages: 2 sources, 2 agents and 2 submitted sheets, with previews before the last sheet only (the constraint
`PreviewsBefore`: a preview changes nothing that a sheet or a list reads); 3 threads; 2 texts, 2 saves and 3 turns; 2 workspaces
with 3 slugs, 1 tab, 2 changes and 1 call; the owner, 2 users and 2 rows each. Each
page has the actor behind it that changes the rows between a read and its rendering, which is what one repetition
of every step needs.

`CHECK_DEADLOCK FALSE` is set where everything may come to its end: sources settled or removed, the bounded number
of log-ins, messages, changes and tokens used up.

`OutcomeCoherent` is checked, and proved, with one worker, which is what docker-compose starts
(`container_name: support-ai-worker`). Two overlapping workers, after a lost lock, can leave a READY status
with an error message; so can a redelivered run leave a READY website without chunks.

## 4. Fairness

Safety runs use no fairness. `ingestion` uses `FairSpec`: weak fairness of every handler's and run's
next step (Node runs the continuation of a settled promise), of `Finish` and of the stalled check (BullMQ's
timers), and strong fairness of `Pick`: an idle worker polls its queue, but a crash may take it away each
time. Clients, crashes, lost locks, removals and the bucket are not forced. A worker that crashed comes back
(`restart: unless-stopped`). `QueuedIsSettled` therefore says that a queued source settles unless it is
removed, BullMQ gives up its job, or Postgres answered the last run neither its read of the row nor its write of
FAILED. A fetch that never returns is not modelled: the worker's awaits end in success or in failure, those on
Postgres included.

What the dashboard, the e-mail worker and the streams must reach in the end is stated as a property of the states
in which nothing of theirs is in flight, and needs no fairness.

## 5. Proofs

Constants are arbitrary except for the named `ASSUME`s: finite sets of requests, workers and surfaces where
cardinalities or induction over a set occur, natural bounds, a positive rate and window, null values outside their
sets, a crawl that fetches something at a time and an answer that cites something (`Concurrency`, `TopK`), scores
that are not negative, and tokens that are not taken for the streams' own events (a token is inside a JSON object).
An invariant is proved as part of an inductive one that says what the handlers in between have established; four
theorems have a hypothesis besides, which is part of their statement: no two runs of a source overlap
(`SpecOutcomeCoherent`), one worker, which implies that (`OneWorkerOutcomeCoherent`), finitely many conversations
(`SpecRepliesAreCounted`, which sums over them), and one tab (`OneTabReadyIsStored`). Each is what the run of that
property has, and the code breaks the property without the one of Ingestion and of the tab. Properties that speak of
one surface, of panels only or of a clean page have that condition in the property itself.

* **KnowledgeIngestionProofs.** `TypeOK`; `OneJobInv`, the inductive strengthening of `EnqueuedOnce` and
  `JobAfterUpload`: between its commit and `queue.add` a source belongs to exactly one handler and has no job,
  before the commit it has neither, and UPLOADING, the condition of the commit, goes with PENDING.
  `EnqueuedOnce` alone is not inductive, since two handlers about to enqueue the same source would break it.
  From the same invariant every step is a step of KnowledgeLifecycle or a stutter, hence `ImplementsLifecycle`.
  On top of it stand `SettledInv` for `NeverStuckProcessing` (a run that is over has written an outcome, and a
  job has not ended before one did); `CopiesInv` for `CopiesBounded` (the deliveries that may still store,
  queued or running, are counted before they do: an argument about the cardinality of the set of workers that
  are storing, which each step changes by one at most); `DeliveredOnceInv` for `ReadyHasItsChunks` (without a
  stall one run works for a job, and none before it was picked); and `OutcomeInv` for `OutcomeCoherent`: what
  each `pc` of the run has already written.
* **ChatTurnProofs.** Types; each step is a step of PlanAdmission under `used` and `Admitted`. From that the
  bound of the overshoot (`QuotaOvershootBounded`) for any number of turns: `used + |Admitted|` grows only when
  a turn passes the check, and then `used < Limit` and there are at most all turns admitted. `ResponseInv`: a stream
  is open exactly from the third check on. `AnswersInv`: replies and the turns that owe one are together no more
  than the questions, conversation by conversation, and a conversation without a row has neither. `CountedInv`
  says the same of all conversations and the month's usage; it needs that a sum over a finite set changes by
  what one summand changes, which a few lemmas on `FoldFunction` give (`IsSum`).
* **MembershipProofs.** Types; `MembershipInv` (the owner stays, invited addresses are users, and each handler
  *knows* what it read: the invitation it holds was of that address and role, the member row it will delete had
  that role) with a lemma that rows only evolve in ways that keep this knowledge (an id is never reused, a role
  never changes in place, an invitation only closes). From it the three action properties, and the refinement of
  PlanAdmission with its bound, by the same argument (`InvitationOvershootBounded`).
* **BillingProofs.** `BillingInv`: every subscription that started is as its last event says, every handler
  holds a subscription and a snapshot from the log (or, for `checkout.session.completed`, reads one that is),
  and `RowIsFromStripe`. The log only grows, so what a handler holds stays true while others run. This gives
  `TypeOK` and `RowIsFromStripe` for any number of requests, any order of delivery and any number of live
  subscriptions.
* **SessionProofs.** `SessionInv`: the types, `OneSuccessor`, `LogoutIsFinal`, and `Descent`: a row and a closed
  log-in were issued; a handler between deleting a row and creating its successor (`Rotating`) holds a token
  that was issued in a log-in that is not in `Ended`; and a log-out that has verified its token but not
  deleted its row (`Outgoing`) holds one that was issued. The second part is what makes `LogoutIsFinal` inductive:
  `revoke()` throws when the row is gone, so of the refreshes and log-outs that hold one token only one gets past
  it, a log-out that comes upon a rotation puts its log-in into `raced`, and a rotation can begin only while
  there is a row, which no log-in in `Ended` has. It holds for any number of tabs, fetches, log-ins and
  tokens. `WokenInv` for `WaitersAreWoken`: the `refreshPromise` of a tab is the one refresh that the tab
  listens to. `TokensInv` for `RefusedOnlyIfOver`: while nothing excuses it, the stored token has its row or is
  being rotated, one refresh at a time holds a token, and a pair that is on its way to the browser was sent by
  nobody.
* **DashboardProofs.** Nine theorems over MCDashboard, one or two invariants for each part, and `SpecServices`, by
  which the theorems of ServicesProofs hold in the run of MCDashboard. What a query has answered and the page has
  not rendered yet is the state that the properties leave out and the invariants need: unless a mutation is about to
  invalidate it, it fits the rows (`ListsFit`, `ListedExist`, `BaseIsSaved`, `ListKnown`). `NavigationsLeave`: a
  navigation under way never ends in the page it starts from, so the effect that stores the id runs; a creation
  whose answer comes after its page was left sets `astray` until that effect or another mutation stores an id
  (`RouteInv`). `ListBehindByRows`: a list is behind by whole rows, since a role stays while its row lives.
  `DeletionsExcused`: a handler is about to drop a link only when that link expired, to tidy up only after the
  address was verified, and the newest link is missing only if it was replaced. `AdmittedAreCounted`: while a window
  lasts its counter holds every request admitted in it, and the one between INCR and EXPIRE; `CountersOutlive`: an
  expiry is past its window, by lemmas of arithmetic on ticks, seconds and windows (`ClockFacts`, `SecondsFacts`,
  `SpanFacts`, `ExpiringFacts`).
* **ChatClientProofs.** `BaseInv`: the types, that a surface knows only conversations the server created, that
  the turn that a surface has not stored is nowhere else (`PendingIsPrivate`), and which surfaces await a reply.
  `MixInv` adds, for panels, that what is shown is of one conversation: the event of a reply that comes after a
  switch finds no entry to write to. `LoneInv` adds, for a surface that is alone, that what it shows goes on
  from what is stored (`ShownGoesOn`) and that a widget is at the active thread or at that of its reply, which
  its history does not list (`WidgetIsCurrent`). `ThreadsOnlyGrow` is the action property under it.

* **ServicesProofs.** Theorems of `ServicesSpec`: three invariants, one for each part of MCServices, and what the
  loops compute.
  `CrawlInv` is about the items ever enqueued, in their order (`Log`): their URLs are what is `seen` and differ
  (`LogIsSeen`), depths never fall along it (`Layered`), each item was found in a result one layer above
  (`Found`), and every link of a handled result above the depth limit is in it, no deeper than the layer below
  (`Followed`). `Layered` is what makes the depth of an item its distance although a batch is fetched at once.
  `RetrievalInv` says that hits fall in score; that deduplication and the rounds of MMR keep the best chunk of
  each page, and the first hit, is a lemma on the split of the candidates into selected and left
  (`RoundSplits`). `StreamInv` relates what the model wrote to what is saved (`Upstream`) and what is saved to
  what is shown (`Downstream`): the bytes on the way begin the lines, or the frames, of the events that are
  still to come, the reader's rest is less than one separator short of an event, and what was handed over
  followed by those events is what was written. It is what `ReplyIsWhole` leaves open: where the bytes are cut.
  The library's theorems on induction and on recursive functions have an operator as a parameter, which no prover here
  can instantiate. The proofs go around them: `SetInduction` is induction over a *set* of numbers, from the
  well-foundedness of `<`, and `Recurs`, `Loop` and `Filter` are unfolded by it.

Type invariants and the two overshoot bounds are stated by theorems only. Every safety property of the passing
runs is proved but one, `WebhookIsSourceOfTruth`. It fails as soon as requests overlap, events change their order or
a second subscription is paid, so a proof would need all three ruled out, which neither the API nor Stripe does: it
stays with its run. `QueuedIsSettled` is only model-checked too: liveness under fairness is out of the prover's reach.
`OutcomeCoherent` and `ReadyIsStored` are proved under the hypotheses of their runs only.

## 6. Findings

* `membership_seats`: `assertCanAddMember` counts members and invitations with two queries; an accept
  between them is in neither count, and the workspace gets more members than seats without any two
  invitations being created together.
* `billing_source_of_truth`: a handler writes the snapshot it holds without looking at the row; the slower of
  two overlapping handlers writes the older state last and nothing repairs it.
* `billing_two_subscriptions`: `onSubscriptionDeleted` (`billing.service.ts:292`) resets the row to FREE without
  comparing the subscription that ended with the one in the row, and `createCheckoutSession` (line 73) opens PRO while
  HOBBY is live. A subscription that is to keep its plan until its period ends loses it when the other one ends,
  against the dialog before a downgrade ("You'll keep paid features until then", `plans-settings-view.tsx:81`).
* `workspace_header`: the dashboard replays a call after a 401 with the workspace id that local storage has by
  then. A tab that went to another workspace meanwhile keeps the other workspace's rows under the first one's key.

Seen while reading, without a run of their own: concurrent turns exceed the monthly number of messages
(`plan-limits.service.ts:126`) by the turns in flight less one, the bound that is proved; a turn refused by the quota
gets 403, the README (line 119) documents 400; a workspace can be deleted while its checkout is open or
paid but not announced, and the subscription lives on; a document whose API process dies between the commit and
`queue.add` stays PROCESSING; a redelivered document job doubles its chunks; a presigned PUT outlives the
removal of its source and leaves an object; deleting a workspace deletes no objects; `accept` does not look at
`acceptedAt` again inside its transaction, so a member removed between two accepts of one invitation can be
added back; expired invitations keep their seat; the plan of a row counts whatever its status; the React panel does
not abort the reply of a conversation it deletes, whose remaining events store it again; a worker whose first
`findUnique` fails leaves the source PROCESSING, since its `catch` does not know the row yet; a log-out between the
`delete` and the `create` of a refresh leaves that log-in alive, for `revoke()` finds no row (the log-out answers
500) or `deleteMany` none to delete; a workspace whose creation is answered after its page was left has its id
stored under another workspace's page, until an effect stores that page's own, against the description of
`use-active-workspace.ts` (lines 9-15); `Retry-After` may end within the last half second of the window it is about.

## 7. What is not modelled

* UI components (`packages/ui`), the widget's styles, the generated bundle `public/embed/widget.js`, e-mail templates,
  landing, usage and billing pages of the dashboard, configuration, generated Prisma code: presentation or
  no state of their own.
* Prompt texts, embeddings, the contents of pages and the LLM: a generation or a search succeeds, fails, or gives
  any order.
* Timeouts of the LLM stream, and a line of a token that Groq would send last and without its newline, which
  `groq.provider.ts:125` drops: only `[DONE]` is modelled so.
* Commands that ioredis repeats on its own after a lost connection. Redis' clock and the API's are taken for one.
* Tokens of invitations (who holds the current link is who names the row), profile and other settings of a workspace
  beside its name, creation and deletion of agents.
* At Stripe: customers deleted there, prices outside the configuration, trials, incomplete payments.
* Hashes and signatures of tokens and keys: names stand for them.
* Deletion of a workspace against an open checkout is in the states of Billing, but no rule of the code or its
  documents says what should hold of it.

## 8. Plan

Built so far: ingestion with its lifecycle; chat turn, plan admission, membership and billing; sessions; e-mail
verification, API keys, crawler, retrieval, streams; chat clients; the dashboard's pages; and the proofs of every
safety property of these. Next:

1. Weaker hypotheses: which parts of `OutcomeCoherent` are left when runs overlap, for TLC to find out first.
2. Composition: the chat turn with a plan that Billing changes under it; agents and sources under their limits as
   further instances of PlanAdmission.
3. Liveness of the e-mail job and of the crawl; two tabs of `WorkspacePages`.
