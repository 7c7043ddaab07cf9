# Verification of Kombu Analytics

Kombu Analytics collects web analytics events over HTTP and stores them in
PostgreSQL. The repository has two servers for the same tables, a service in
Rust (`crates/`) and a web server in TypeScript (`webui/`, Next.js), and two
scripts that run in the visitors' browsers (`webui/src/tracker`,
`webui/src/recorder`). This directory holds TLA+ models of the parts whose
correctness depends on the order of concurrent steps or on what is left behind
when a step fails, the TLC instances that check them, and TLAPS proofs. Paths
are relative to `src/`; `api/` stands for `src/crates/kombu-api/src/`, `cli/`
for `src/crates/kombu-cli/src/`, `web/` for `src/webui/src/`.

## 1. Inventory

One Rust process (`cli/main.rs`, `run_serve_internal`) runs the HTTP router on
tokio's multi-threaded runtime, 32 queue workers and one background task.
Operators run one-shot commands against the same database. The web server
answers each request with an async handler; its handlers of one process, and
the processes of one deployment, interleave at every `await` and share only
PostgreSQL (or ClickHouse) and Redis. A page of a tracked site runs the tracker,
which sends events and keeps the token that the server answers with, and
optionally the recorder, which sends replays and heatmaps with the tracker's
token. All other durable state is in the database.

The repository does not build all of this. The server half of `webui`
(`web/app/api`, `web/queries/prisma`) is never built or deployed here:
`webui/package.json` has no next, prisma or redis, `schema.prisma` and the
generated client are missing, and `docker/Dockerfile` ships a Vite single-page
application and the Rust binary. The live counterparts of its handlers are
`api/ingest.rs`, `api/recorder.rs`, `api/teams.rs` and `api/websites.rs`. The
scripts of the browser are shipped, as `webui/public/script.js` and
`recorder.js`, which the Rust service serves. Collect, Teams and the server's
parts of Recorder and Heatmap are therefore models of source code, not of what
this repository deploys; IngestPipeline, RateLimiter, BulkImport, Retention and
Alerts are models of both.

| Component | State | Operations | Interacts with | Hard behaviour, and what makes it correct |
|---|---|---|---|---|
| Collect handlers (`api/ingest.rs`) | `website_cache`, `session_cache` | `send`, `batch`, `heartbeat_post` | rate limiter, website table, queue | A cache is read, an await or another handler's step follows, then it is written. The cache may claim a session only if its row exists or is on its way. |
| Ingest queue (`api/queue.rs`) | 32 bounded channels; per worker a batch and a transaction | `try_push`; recv, drain, begin, insert, commit | handlers, event tables | Every error is swallowed; one bad statement aborts a batch. Events of a session keep their order; an event appears with all its rows or not at all; nothing is stored twice. |
| Rate limiter (`api/rate_limit.rs`) | cache of windows | `check` | `send`, `batch`, login, two-factor verify | Read and write of a window are two steps. Counts are never invented; a refusal has the limit behind it. |
| Bulk imports (`cli/plausible.rs`, `cli/umami.rs`, `api/export_handler.rs`) | one transaction | parse, begin, rows, commit | event tables | Statement errors are swallowed, reports differ from outcomes. All rows that were parsed or none; an error means nothing was stored. |
| Retention (`api/retention.rs`, `api/background.rs`) | policies, purge log | `save_policy`, `purge`, `admin_purge_all`, the hourly round | event tables, session cache | Separate statements race with the workers and with each other. No purge takes the session of a stored event; an event without session has a cause; the log counts each removal once; only a policy in force removes. |
| Alerts (`api/alerts.rs`, `api/background.rs`) | `alert_rule`, `alert_history`, `last_triggered_at` | `create`, `update`, `delete`, the minutely round | event tables, webhook receivers | Rules change during a round, missed ticks are made up for, the process restarts. Cooldown, honest and complete history, no unfounded alarm, a rule that is off falls silent, a lasting breach is noticed. |
| Website lifecycle (`api/websites.rs`) | `website` rows (soft delete) | `create`, `update`, `delete`, `reset`, `transfer` | caches, event tables | The caches are not told of a delete or a reset. |
| Page tracker (`web/tracker/index.ts`) | `cache` (the token), `identity`, `currentUrl`, the flags of the page's reports | `send`, `identify`, page views, engagement, performance, before-send | collect API of the web server | Answers arrive in any order and each replaces the token; four things report a page. Each page is reported once, under its URL. |
| Collect API of the web server (`web/app/api/send/route.ts` and what it calls) | tables; the website in Redis | `POST`, `deleteWebsite`, `resetWebsite` | tracker, Redis, PostgreSQL | What was looked up once is carried in a token for good; each statement of a request stands alone, those of a reset or a deletion run between them. A visit ends in time, an event has its session, an answer means stored. |
| Session recorder (`web/recorder/index.js`, `web/app/api/record/route.ts`, `web/lib/replay.ts`) | buffer, chunk number and start time per tab; `session_replay` | record, flush, split, save, merge, restore | tracker's token, reader | Chunks are lost and reordered, tabs number apart. A replay is in order and has whole events. |
| Heatmaps (`web/recorder/index.js`) | depth measured and reported per URL, buffer; `heatmap_event` | scroll, change of URL, flush | tracker's token | Timers fire after the URL has changed. Each URL has the depth its visitor reached. |
| Teams, websites, users (`web/app/api/teams`, `users`, `websites`; `web/queries/prisma`) | `team`, `team_user`, `user`, owners of entities | create, join, add, change, remove, transfer, delete | each other | Chains of checks before one write, in overlapping requests. Ranks, one owner per team, complete and justified deletions. |
| Teams and invitations (`api/teams.rs`) | teams, members, invitations | create, join, invite, accept, revoke, ... | users | Check-then-act on separate statements, no unique membership. |
| Two-factor setup (`api/two_factor.rs`, `web/app/api/2fa`) | pending secret, backup codes | initiate, confirm, cancel, disable | users | Setups of one user overlap. |
| Links and pixels (`api/links.rs`, `api/pixels.rs`, `kombu-ingest`) | their rows; spawned saves | CRUD, redirect, render | event tables | The direct save is a list of separate transactions that stops at the first error. |
| Readers of both servers (`reports`, `kombu-query`, `web/queries/sql`, ...) | none | queries | event tables | Their semantics are SQL. |
| Boards, segments, annotations, shares, admin | one row each | CRUD | - | One statement per request. |
| Core functions (`kombu-core`, `web/lib`) | none | strings, ids, bots, addresses | everything | Pure; tested in the repository. |
| Storage backends (`kombu-db`) | none | migrations, SQL text | - | Generated SQL; the service uses PostgreSQL only. |
| Web user interface (`web/app/(main)`, `web/components`) | the views' | React components | both servers | No state of the system. |

`PROJECT.json` lists every component with its status, and under `hazards` each
line of the code where one of these behaviours bites.

## 2. Modules

    EventDelivery          what ingest promises            (abstract)
      ^ implemented by
    IngestPipeline         handlers, caches, queue, workers
                                            IngestPipeline_proofs  9 theorems
    RateLimiter            one key of the limiter
                                            RateLimiter_proofs     3 theorems
    BulkImport             the three imports
                                            BulkImport_proofs      4 theorems
    Retention              policies, purges, reset + reduced ingest path
                                            Retention_proofs       5 theorems
    Alerts                 rules, background loop, evaluation round
                                            Alerts_proofs          5 theorems

    Wire                   requests, tokens, the clock and the network
      ^ extended by
    Tracker, Collect       the script in the page; the handler, its tables and Redis
      ^ composed by
    Visitor                a visitor of a site
                                            Visitor_proofs         6 theorems
    Recorder, Heatmap      the two captures of the recorder
                                            Captures_proofs        3 theorems
    Teams                  members, owners and deletions
                                            Teams_proofs           6 theorems

    MC<Module>             constants of the TLC instances
    MCCaptures             Recorder beside Heatmap

**IngestPipeline.** A request has a body (kind, session, site, payload class)
and a program counter whose places are the points of `send` and
`heartbeat_post` between which other threads may act: before the website cache
is read (`CheckSite`), the query (`LookupSite`), the insert into the cache
(`FillSite`), the session cache read (`ReadSession`) and insert (`MarkSession`),
`try_push` (`Push`). `batch` calls `send` per item, so an item of a batch is a
request. A worker has one action per statement group of its loop: `WorkerRecv`,
`WorkerDrain`, `WorkerDrained`, `WorkerBegin`, `WorkerInsert`, `WorkerCommit`.
Its transaction is a record of the rows it would add; `aborted` is PostgreSQL's
aborted state, in which every later statement is refused and the commit is a
rollback. Payloads are classes that differ in the rows they produce (`plain`,
`data`, `sale`) or in a value a column refuses (`wide_session`, `wide_event`;
such a value exists: `send` stores an error's `message` as the event name,
which `normalize_payload` does not shorten, and any text may hold a NUL).
The environment creates and deletes sites, evicts cache entries, refuses calls
of the workers and restarts the process. `pushed` and `lost` are history.

**EventDelivery** knows only lanes, pending events, stored events and lost
events. `IngestPipeline!Delivery` maps a shard to a lane and `batch \o queue` of
the shard to what the lane has pending.

**RateLimiter.** A check is `TakeTime`, `ReadWindow` and one of `OpenWindow`,
`CountRequest`, `Refuse`; at most `threads` checks run at once. `batch` asks once
for itself and once per item (`Continue`), and ignores the refusal of an item
(`TurnAway`).

**BulkImport.** One action per phase of an import. A row is a class: whether it
has a session row, whether PostgreSQL refuses one of its statements, and whether
it is a line of a CSV file that is too short, which `parse_plausible_csv` skips
(`Parsed`). The
formats differ in what they report on an error (`Fail`, `BeginRefused`,
`CommitError`), which is the code of the `main` arms and of `import_events`. The
1,000-row chunks share one transaction, so they are not steps.

**Retention.** The background round, `admin_purge_all`, a purge on request and a
reset are jobs: lists of statements, each an action that may fail. The
ingest path is the one of IngestPipeline for an existing site, with one lane for
each session and one item in a batch: the handler reads the session cache, writes
it and pushes in three steps (`ReadSession`, `MarkSession`, `Push`), the shard may
be full, the worker's transaction may be refused, aborted or fail to commit, and
its `INSERT ... ON CONFLICT DO NOTHING` (`WriteItem`) and its commit (`CommitItem`)
stay apart, because a purge may come between. The cache drops entries, and a
restart loses what the handlers and lanes hold. The background task is at
`alerts` while its loop runs alert rounds, and nothing makes these return.
Times are days; `Born` is the timestamp a client sends, so an event may arrive old.
`lost`, `removed`, `late`, `torn`, `gone`, `logged`, `unlogged`, `in_force` are history.

**Alerts.** The loop of `start_background_tasks_with_durations` (two intervals,
`biased` to retention, missed ticks fire at once), the evaluation round
statement by statement, and the handlers that change rules meanwhile. The
query's value is drawn from a few numbers around the threshold; a failed query
counts 0. An update draws a new value as well, which stands for a new threshold.
The window of a rule cannot be updated, so its cooldown is a constant. An attempt
knows the row of `alert_history` that shows it, or that none could be written;
`belated` counts the notifications of a rule since it was switched off or
deleted.

**Wire, Tracker, Collect, Visitor.** A request is a record that wanders from the
page (`hooked` while a before-send callback has it, then `sent`) through the
stages of `POST` in `send/route.ts` to its answer, and back (`answered` or
`refused`, then `done`). Each stage is one statement of the handler or one of
the functions it calls; the two statements that an identify starts with
`Promise.all` finish in either order (`todo`). A token is a record of what
`createToken` signs: session, visit, `iat`, link. Ids are tuples of what they are
hashed from, so the handler's recomputation of the session id from address and
month is a function of the clock and the address. Time goes in half hours, since
`route.ts` tells apart only the age of a token (1800 seconds), the hour and the
month. `Tracker` has one action per thing that may happen in the page; a call of
`send` within it is part of the action. `Collect` also has the owner's side: the
interactive transaction of a reset or deletion, and the write to Redis after it.
Each `deleteMany` is a step (`DeleteRevenue` to `DeleteSession`) that takes the rows
it finds (`doomed`); for everyone else they stay until the commit (`CommitReset`,
`CommitDelete`), which leaves what was stored behind the statement for its table,
and an insert or update that meets such a row waits (`Waits`). The transaction may
roll back. `over` has the requests that had ended when it began. `root`,
`via`, `raced`, `late`, `wipes` and `segments` are history.

**Recorder** has the buffer of each tab, the cut into chunks and into parts of
large events, the numbering by the second (`getReplayChunkIndex`), a network
that loses and reorders, the handler, and the reader as operators
(`Orders`, `MergedBefore`, `RestoreReplay`), which speak of the places of the
parts in the chunks. **Heatmap** has the depth that
is measured and the depth that was last reported, which the URL changes under.
The two share only their configuration, so `MCCaptures` runs one or the other.

**Teams.** A request is a chain of queries, each a step: find, permission,
target, rank, then the write. Transactions (`createTeam`, `deleteTeam`,
`deleteUser`) are one step. Rows are records with the id of the request that
made them, so that a doubled membership can be seen. `before`, `seen`, `made`,
`ended` and `deposed` are history; `CLOUD_MODE`, which turns deletes into marks,
is chosen at the start.

`PROJECT.json` maps each definition to the lines it stands for. Caches drop
entries nondeterministically: the cache library is external to the repository.

The map covers a small share of the repository, and cannot cover a large one:
most of its TypeScript is React components and SQL text, which keep no state of
the system.

## 3. Runs

| Run | Instance | Shows |
|---|---|---|
| `order` | 3 requests, 1 session, shard of 2, batch of 2; refused begin, eviction, restart | `ClaimExplained`, `OrphanExplained`, `SessionOrder`, `DeliveryRefined` |
| `settle` | 2 requests of 2 sessions and shards; sales, oversized values, every fault; fair | `EventComplete`, `Accounted`, `NoRevival`, `AnsweredSettles` |
| `zerodrop` | no fault at all | violation of `ZeroDroppedEvents` |
| `windows` | 3 calls with up to one extra item; one thread with limits 0-2, two threads with evictions | `CountHonest`, `RefusalJustified`, `WindowBound` |
| `race` | 3 calls, two threads, limit 1 or 2 | violation of `DocumentedLimit` |
| `faults` | 2 imports of every format, up to 2 rows, bad rows and short lines, every fault | `AllOrNothing`, `SilentLossExplained`, `ErrorMeansNothing` |
| `rollback` | 1 Plausible import | violation of `RollbackReported` |
| `purges` | one job of each kind on a site with 1 session and 2 events, one born old; every fault of purges, batches, shard and cache, at most 2 troubles; fair | `OrphanExplained`, `DataExplained`, `LogConserves`, `PurgeJustified`, `OverduePurged` |
| `rounds` | 1 rule with an `lt` threshold, minutes 0 to 2, one fault of any kind; fair | `CooldownKept`, `HistoryHonest`, `AlarmExplained`, `DisabledSilent`, `BreachNoticed` |
| `page` | 2 addresses, 2 pages, 1 identity, ticks 1 to 3 with a month's end at 2, cloud mode, before-send callback, statements that fail, wipes that roll back; effort 5 | `VisitBounded`, `SessionExplained`, `DeletedExplained`, `AnswerHonest`, `ReportExact` |
| `replay` | 2 tabs and 2 visits, events up to twice the payload limit; 2 URLs, 3 depths, 4 moves | `ReplayFaithful`, `NothingDropped`, `ScrollHonest` |
| `teams` | 2 requests; 2 users and an administrator, 1 team, 1 website, 1 link; both modes | `MembershipUnique`, `OwnerKept`, `RankKept`, `DeletionComplete`, `DeletionJustified` |

`settle`, `purges`, `rounds` and `replay` have some 130,000 to 650,000 distinct
states, `page` and `teams` a million, `windows` two. `TypeOK` of each module was
checked on the same instances (add `INVARIANT TypeOK` to a configuration); where
a theorem states it, it is proved.

What the properties say, and why they could fail:

- `ClaimExplained`, `OrphanExplained`: `send` caches a session before its row is
  queued. The cache may run ahead of the table only while the item that writes
  the row is in flight. The remaining disjunct, `CreatorLost`, is the weak point
  of the code: when that item is dropped, the cache stays wrong and the session's
  events stay without a row until the entry is evicted or the process restarts.
  Heartbeats claim their session without asking and are excluded.
- `Accounted`, `SessionOrder`, `DeliveryRefined`, `AnsweredSettles`: batches,
  aborted transactions and restarts may lose events but never reorder, repeat or
  forget them, and never write one that was dropped. An accepted event ends with
  its event and session rows in the tables, or lost to a named cause.
- `NoRevival`: after a delete, once the cache is clean and no handler holds an
  old answer, the site cannot come back.
- `WindowBound`: on one thread the limit holds in every window, and any minute
  has at most twice the limit.
- `AllOrNothing`: every statement's error is swallowed, and yet all rows that the
  parser took are stored, or none, although the loop goes over chunks of 1,000. A
  short line of a CSV file is no row: it is skipped without a word.
- `OrphanExplained` of Retention: a purge takes the session of no stored event,
  since its `NOT EXISTS` holds at its statement; a reset does. An event that is
  committed without its session row is so because its handler or worker had found
  the session, and the row was purged since, or had never been written: its item
  is still on its way, or was dropped by a full shard, a refused or aborted batch,
  a failed commit or a restart. The property says that these are the only ways.
- `DataExplained`: which purges may part an event from its `event_data`.
  Automatic purges, purges with a path and resets leave `event_data` behind for
  good.
- `AlarmExplained` lists the two exceptions of the code: a failed query triggers
  an `lt` rule, and a rule edited in a round is held to its old threshold.
- `DisabledSilent`: a round reads the rules once and then awaits between them, so
  a rule may be notified after it was switched off or deleted. It is, at most
  once, whatever rounds, missed ticks, faults and restarts follow.
- `HistoryHonest`: entries and notifications match one to one and in order. A
  notification has no entry only while it is under way, or if the entry could
  not be written or the task ended before it was.
- `VisitBounded`: the visit of a token lives for 30 minutes from its `iat`, and is
  named by the hour of its `iat`; a token may come from a tab, a beacon or an
  answer of long ago. No mixture of them makes a visit longer than an hour and a
  half.
- `SessionExplained`: only a request without a token inserts a session row. The
  exceptions are what that costs: a new address or month, or a committed wipe,
  under a chain of tokens; and a request that was under way while the last wipe's
  transaction was open, whose event may be stored behind the statement for
  `website_event` while its session row is deleted by the next one.
- `DeletedExplained`: a token is never checked against the website, so a deleted
  site takes events as long as a tracker holds one. An event may also be stored
  behind the deletion's statement for it and answered before the commit. Otherwise,
  without a token, the cache in Redis decides: outside cloud mode it outlives the deletion, in cloud mode
  only by the race of a reader with the deletion.
- `AnswerHonest`: an answer with a token stands for all rows the request carried.
- `ReportExact`: hiding, leaving, a change of URL and a timer all flush the
  reports of a page, and each page has at most one of each kind, under its URL.
- `ReplayFaithful`: whatever is lost or reordered, the reader restores for each
  tab exactly the events that are stored whole, in the order of their recording,
  and the number the list shows counts those, and the ones that lost a later
  part. This is what sorting by chunk number and then, stably, by time must
  achieve, although two tabs share the numbers.
- `ScrollHonest`: a reported depth was measured on that stay at its URL, or was
  left over from the stay just before; and a report as deep covers every depth
  that was measured, unless reports were lost.
- `MembershipUnique`, `RankKept`, `OwnerKept`: what is left of a check at its
  write. A doubled membership takes two overlapping requests; a change of a
  member's role takes a rank that was higher at some moment; no overlap costs a
  team its owner.
- `DeletionComplete`, `DeletionJustified`: a deletion takes what its owner had,
  and nothing else, even if the owner changes between its queries and its
  transaction. A team's websites are the exception of the code.

**Bounds.** `Requests`, `Calls`, `Imports`, `Events`, `Rules` bound the actors;
`MaxRows`, `MaxItems`, `LastSecond`, `LastDay`, `LastMinute`, `LastTick`,
`MaxTrouble`, `MaxFaults`, `MaxMoves`, `MaxEffort` bound counters. Three requests
on a shard of two overflow the shard, and make a full batch with a third item
behind it; two requests of different sessions reach different shards. Two
imports suffice, since imports share only the tables. Two calls with a second
item each give a window more checks than its limit, over three or more seconds
an old and a new window. Two events tell one that a purge removes from one it
spares. `MaxTrouble` and `MaxFaults` are spent on restarts and failing calls
alike; one of them makes every repair and every exception happen, and two of
`MaxTrouble` put a lost item or an evicted entry beside a purge. Minutes 0 to 2
with a cooldown of one contain a notification, a round made up for in the same
minute, which must be silent, and the next notification.
One rule is enough for the properties of a rule; what two rules do to each other
is to delay, and the clock may advance at any step of the round.
`MaxEffort` of Visitor weighs what a behaviour has: a request on the network and a
mishap (a loss, a failure, a move, an expiry, the start of a wipe, its rollback) cost two, a tick, a page or
a report one. Five allow two requests after the first, or one with a wipe, at
any times: a chain of tokens with the exception of `SessionExplained`, a visit that
crosses its hour, a late Redis write. The run was also made with
`CloudMode = FALSE`. `MaxEffort` of Recorder counts events and ticks once and token
changes and switches twice, which allows a large event in two parts beside
events of the other tab. Two requests are what a race of `Teams` takes; a third
that only prepares a state is unnecessary, since `Init` has every consistent team.

**Symmetry** is over actors and names that no constant or `Init` tells apart. The
runs with liveness have none.

**Deadlock** is not checked where the model ends on purpose: requests, imports,
moves and clocks are finite.

**Fairness.** `IngestPipeline!FairSpec`: a task of the runtime that is ready is
polled, so a started handler and a worker with work proceed; nothing forces
clients, evictions, restarts or faults. `Retention!FairSpec`: the interval of the
background task keeps firing and its purges wait only for PostgreSQL. Nothing is
assumed of the alert rounds in the same loop, which may wait for a webhook for
ever; `OverduePurged` excepts just that case (`<>[](job[j].pc = "alerts")`), as
`BreachNoticed` does. `Alerts!FairSpec`: the loop and
the statements of a round, and the clock; the webhook receiver gets no fairness,
as the HTTP client has no timeout, and `BreachNoticed` excepts just that case.
Nothing in the browser or the web server retries, so nothing there has a
liveness property worth stating.

## 4. Disagreements with the documentation

- `docs/migration-from-umami.md:10` claims "zero dropped events". `zerodrop`
  reaches a loss without any fault: one oversized value rolls back its batch.
- `docs/deployment.md:503` calls `COLLECT_RATE_LIMIT` the maximum per minute.
  `race` lets two threads take the last slot. Even serially a minute may pass
  twice the limit (`WindowBound`).
- `docs/migration-from-plausible.md:90` promises "a detailed error message" on a
  rollback. `rollback` shows a success message.

The import of a Plausible file differs from its description twice more, and the
model follows the code:

- `docs/migration-from-plausible.md:89` says "Imports run in transactions chunked
  at **1,000 rows per batch**", so that a failure would keep the chunks before it.
  There is one transaction for the whole file (`cli/plausible.rs:158-232`; the
  chunks only divide the loop), which is why `AllOrNothing` can say "or none".
- A line with fewer columns than the page needs is skipped without a report
  (`cli/plausible.rs:97-99`; the test at 285-288 expects it), so a success does
  not mean that every line of the file was imported.

Met while modelling `webui`, and part of the models as they are in the code:

- Every JSON answer replaces the tracker's token (`web/tracker/index.ts:496-500`):
  the 400 for the type `error`, which the tracker sends (733, 746) and the schema
  of `send/route.ts:33` does not know, the 500 of a failed statement and the
  answer to a bot all delete it.
- "Create a session if not found" (`send/route.ts:160`) happens only without a
  token. "Repeat identify calls skip" their writes (132) only if a before-send
  callback delayed the call, since `identify` clears the token.
- The tracker's `revenue()` sends `amount`, `saveEvent` reads `revenue`
  (`web/queries/sql/events/saveEvent.ts:155-157`).
- A page view that waits for its timer takes the URL of when it fires; the
  tracker does not listen to `popstate`; engagement after a page was hidden once
  is not reported; a beacon carries no token.
- Outside cloud mode a deletion never clears Redis.
- A chunk is dropped without a trace while there is no token
  (`web/recorder/index.js:112`), and never sent twice. A depth that was not
  reported is reported for the next URL (514-531, 585-595). The record handler
  answers ok when the heatmap could not be stored (`web/app/api/record/route.ts:243-248`).
- `deleteTeam` leaves the websites of the team. `deleteUser` leaves revenue,
  session links, heatmap and replay rows, and the websites of the user's teams.
  A manager may add, and an administrator transfer to, any id.

## 5. Proofs

All theorems hold for every value of the constants under the named assumptions
of the modules. These are the types of the constants and, where a proof needs
it, that the sets of requests, jobs or events are finite; `TeamsAssumption` also
says that the ids of users, teams and entities differ, which random ids do. The
constants that cap clocks, faults and moves are only bounds: no proof uses their
values.

- **IngestPipeline_proofs.** Each invariant is inductive relative to those named
  before it.
  - `TypeCorrect`, `MemoryBounded`: the types, and the guards of `Push` and
    `WorkerDrain`, are inductive as they stand.
  - `EveryRequestAccounted` rests on `Custody`: besides `Accounted`, a channel
    holds no request twice, only requests whose handler is done or gone are lost,
    and only requests whose handler is done are stored. It needs `WorkerShape`
    (where a worker may be with what batch) and `Written` (a transaction that is
    not aborted holds exactly the batch items before `next`, whence a commit
    stores the batch and nothing else).
  - `EventIsComplete` rests on `EventInv`: in every transaction and in the tables
    the data and revenue rows are those the payloads of the events call for.
  - `ClaimsAreExplained` rests on `SessionInv`, which adds `Creates` (the item
    that found its session unknown writes the session row in the same
    transaction as the event): every session that the cache, a handler or an item
    relies on has its row, or a creator in flight, or a lost creator.
    `OrphansAreExplained` follows.
  - `ForgottenStays` proves the action property `NoRevival` from the types: no
    handler that reaches the website query finds a row of a deleted site.
  - `DeliveryIsRefined`: IngestPipeline implements EventDelivery. What a lane has
    pending is `Lane(s) == batch[s] \o queue[s]`. A push appends to it, a receive
    or a drain moves the boundary between the two and stutters, a commit takes
    its batch away as stored or, if the transaction was aborted, as lost, and a
    restart loses every lane; `Custody` and `Written` tell which.
  - `SessionsInOrder` rests on `OrderInv`: along every lane, and from the table to
    the lanes, the events of a session are in the order of their pushes, and each
    was pushed.
- **RateLimiter_proofs.** `CountsAreHonest` rests on `HonestInv`: the windows that
  running checks have read are honest too, `admitted` is finite and a check is
  admitted at most once. `RefusalsAreJustified` follows at the step of `Refuse`.
  `WindowsAreBounded` rests on `SerialInv`: on one thread only one check runs
  (`OneAtATime`), so the window it read is still the current one, and the windows
  that were ever opened are a minute apart (`WindowsApart`), so two of them meet
  any minute.
- **BulkImport_proofs.** `TypeCorrect`, `ParsedRowsAreAtomic`,
  `SilentLossIsExplained`, `ErrorsMeanNothing`, from an invariant per import: a
  healthy transaction holds exactly the parsed rows that are not in `todo`, the
  tables hold the import's rows exactly when
  it committed, and rows are reported only from its end.
- **Retention_proofs.** One invariant `Inv` for five theorems.
  - `OrphansAreExplained` needs `Claims`: every session that the cache or a known
    item relies on is backed (`Backed`): it has its row, had one, or the item that
    writes it is on its way or was lost. A worker that inserts no row for an
    unknown session found it there. `QueueShape` and `HandlerShape` add that an
    event is at its handler, then at most once in the lane of its session, and
    only then stored or dropped.
  - `DataIsExplained` needs that a purge which deletes `event_data` does so before
    the events (`DataBeforeEvent`): an event that still has its data after the
    first statement failed, or was committed after it, and so is in `torn`.
  - `LogIsConserved` sums over the jobs: what was counted but is not logged yet
    is with a job that is still to log it. `UnwrittenOf` is stated as the
    cardinality of a set of pairs, about which the library has theorems, and not
    as a fold.
  - `PurgesAreJustified` (an action property) needs `RoundInForce`: the policies a
    round still has to do were in force at some moment since it began, and the
    cutoff of the statement under way is that of one of them.
- **Alerts_proofs.** `TypeCorrect` from `IInv`: while a notification is under
  way it is the last attempt of the current rule, and history is not written
  before the receiver has answered. `AlarmsAreExplained` is inductive next to
  it. `CooldownsAreKept` rests on `CInv`: a rule is evaluated once a round
  (`OnceARound`), and what its next evaluation goes by, the row or what the round
  has fetched of it, is as late as every notification that was stamped
  (`Covered`). `DisabledAreSilent` rests on `SilentInv`: while the round
  still has a row or the query of a rule to go by, the rule has not notified since
  it was switched off, and only an enabled rule, which has not either, comes into
  the next round.
  `HistoryIsHonest` rests on `HInv`: each attempt knows the row of `alert_history`
  that tells of it, rows and recorded attempts match one to one, in order
  (`Written`), and an attempt without a row is the one under way, or is marked as
  missed by the step that lost its row (`Missing`).
- **Visitor_proofs.** Six invariants, each relative to `IInv`.
  - `TypeCorrect`, `VisitsBounded` from `IInv`: every token, with the tracker, on
    a request or in an answer, was issued in the hour its visit is named for, and
    an answer that was given carries a visit of its time.
  - `ReportsAreExact` from `PagesInv`: the flags of the tracker tell what was
    reported of the page that is shown, and of every earlier page all was
    reported that was worth it. A page is therefore flushed before `currentUrl`
    changes, on every way out of it.
  - `SessionsExplained` from `SInv`: the row of the session that a chain of tokens
    began with is there until the next wipe (`Rooted`), and a request that has an
    answer has its session's row or one of the reasons for which it may be
    missing (`Explained`). It also rests on `WInv`: a request that was over when
    the open transaction began stays over, and once the statement for
    `website_event` has run, its event is among the deleted rows. So whoever keeps
    an event through the commit was under way while the transaction was open.
  - `AnswersHonest` from `AInv`: nobody holds two tokens (`Single`), a token claims
    only links that are written (`Vouched`), and each stage of the handler has
    behind it the rows of the stages before (`Underway`). A wipe makes both void
    for every chain that is older, which `SInv` shows every chain then to be.
  - `DeletionsExplained` from `DInv` and `WInv`: where a request may stand once the site is
    deleted (`Placed`), and that in cloud mode Redis holds a deleted site only
    while the deletion is still to tell it, or by a late write.
- **Captures_proofs.** `NothingIsDropped` and `ReplaysAreFaithful` of Recorder,
  `ScrollsAreHonest` of Heatmap.
  - `RecorderInv` is about the chunks sent, be they stored, on the way or lost
    (`Sent`; storing a chunk leaves it as it is). A tab numbers its events in a
    row and stamps them in order (`Recorded`), and its buffer holds some of them
    in that order (`BufferShape`). A chunk holds parts of events of its tab in
    the order of their recording; while the tab records, its number was used
    already and its events come before the buffered ones (`SentShape`). Two
    chunks of a tab hold what was recorded in the order of their numbers, and
    one number is one chunk (`SentOrder`). Until something upsets the tab, it
    has a token while it records, and every event is buffered or sent whole
    (`NothingLeft`, from which `NothingIsDropped` follows).
  - Each step sends one or two batches. `ChunksTidy` says what the cut into
    chunks gives for any batch, by induction along it: the parts rise along and
    between the chunks, so that none occurs twice, and together they are those
    of the batch. `NumberedStamped` adds the numbers.
  - For the reader, `OrdersEnumerate` says that each way the database may return
    the rows lists each of them once, by `chunk_index`. In the rows of one tab
    the merge by time is then the order of recording, whatever rows of other
    tabs stand between them (`MergedInOrder`). So the last part of an event is
    the one it is restored with (`WholeEventsReturn`), and events return in order
    (`EventsReturnInOrder`). `CountIsHonest` maps what the list of replays counts
    one to one to the events with a stored first part.
  - The recursions are over numbers, the length of a batch and the largest chunk
    number. `LeastNat`, `Induction` and `Recursion` derive what is needed about
    them from the well-foundedness of `<`, because the induction theorems of the
    library take operators as parameters, which the provers cannot instantiate.
  - `ScrollsAreHonest`: the last report of a stay is its deepest
    (`LastReported`), and a depth that is kept was measured on this stay and is
    reported, or was left by the stay just before and goes with the next report
    (`KeptExplained`). Without the second case the invariant is not inductive: it
    is the depth that the change of the URL leaves behind (section 4).
- **Teams_proofs.** One invariant `Inv` for six theorems. Each conjunct says what
  is left of a check when its write comes.
  - `MembershipIsUnique` needs `NewcomerRead` (who is about to become a member had
    no row, but for rows of requests that had not ended when his began) and
    `PastShape` (a row is the work of a request that has ended).
  - `OwnersAreKept` needs `MemberRead` and `TeamShape`: the owner has no second
    row in his team, and only an administrator's request comes to the write with
    an owner's row, which is an exception of `OwnerKept`. `NewcomerRead` keeps an
    owner from being made a member beside it.
  - `DeletionsAreComplete` needs `TeamsRead` and `WebsitesRead`: what belongs to
    the user and was not read by his deletion came to him while it ran.
  - `RanksAreKept` and `DeletionsAreJustified` (action properties) need that the
    history of a running request is not behind the tables (`RolesSeen`,
    `HoldingsSeen`).

Only model-checked: `BreachNoticed`, `AnsweredSettles` and `OverduePurged`.
Liveness under fairness is out of the prover's reach.

## 6. Not modelled

The readers and single-statement CRUD of section 1; the React components; tokens'
signatures and password hashing; the content of ids, addresses, device and
location fields; the retry-after header; login's and verify's use of the limiter,
which is the same `check` with other keys; graceful shutdown of HTTP connections
(a restart may come at any step instead); several Rust processes on one
database, which the deployment documents do not describe.

Of `webui`: two resets or deletions of one site at once, and a site that is
created again; identify calls of one visitor with different keys; client timestamps, links, pixels and bots in `send/route.ts`, the
batch and heartbeat routes, ClickHouse in place of PostgreSQL; the listeners of
the tracker that only call `send`; clicks of the heatmap; clocks of a browser
that step back; team names, access codes and shares; the limits of the cloud,
which count and then create; the two-factor routes.

## 7. Plan

1. `TwoFactorSetup`: initiate, confirm, cancel and disable of one user in
   several requests; enabled implies the codes of the last confirmation.
2. Invitations of `api/teams.rs` in the frame of `Teams`: an invitation is used
   once unless two requests overlap.
3. `DirectTracking`: the save of links and pixels, with the counterpart of
   `AnswerHonest`; website update and transfer next to `NoRevival`.
4. Pure operators against reference definitions: `determine_event_type` and the
   queries that read event types, payload normalisation, flattening.
5. Proofs: the invariants of these components as they are modelled.
