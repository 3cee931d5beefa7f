# Codasaurus: TLA+ models and proofs

Codasaurus is a GitHub App that reviews pull requests: it takes webhooks, keeps a
durable queue of review jobs in PostgreSQL, runs detectors and a language model over
the diff, posts one review, and has a dashboard with accounts and settings. This
directory models the parts of it that are hard to test: several replicas and tasks on
one database, crashes, retries and timeouts, requests that check a row and write it
later, and filters and verdicts that are computed apart and must agree. Every definition
is translated from the Rust source under `src/`; `PROJECT.json` names, for each one, the
lines it stands for.

## 1. Inventory

| Component | State | Operations | What is hard about it | What makes it correct |
|---|---|---|---|---|
| Per-PR locks (`bot/mod.rs`) | `PR_LOCKS`: a map from pull request to a reference-counted mutex | look up or insert, lock, drop the guard, prune, return, panic | the lookup, the lock and the prune are separate steps of many tasks | one task per pull request; a waiter gets its turn; it behaves as a plain mutex |
| Review job queue (`bot/queue.rs`) | `review_jobs`, one row per commit: status, attempts, `updated_at` | `enqueue`, `claim_next`, `mark_done`, `mark_failed`, `requeue_if_retryable` | redelivery, stale reclaim after a crash, outcomes reported out of order | every job ends for good; a job is with one worker; done stays done; retries are used up |
| Review workers (`bot/worker.rs`) | per task: permit, lock, job, deadline | poll, claim, wait for permit and lock, timed review, outcome | a wait that outlives the stale window; a timeout racing the review | as above; nothing is reviewed twice at once in a replica |
| SHA leases, comment slots (`state.rs`, `bot/review/github.rs`) | `reviewed_commits`, one row per pull request; `review_comments`, one per slot | claim (SELECT, then upsert), force, complete, release; find, edit, post, store | SELECT and upsert are two statements; owners restart; rows are overwritten; answers to POSTs are lost | a running review's lease is fresh; `completed` is earned; no orphan; a slot has one comment |
| Review pipeline (`bot/review/*.rs`) | the run's target commit, its findings, what was posted | fetch, early returns, claim, analyse, filter, judge, post, conclude, complete | the head moves while it runs; each call may fail; two runs share the table of changed lines | one review per commit; a skip only for a duplicate; no blocking finding is lost on the way |
| Webhook intake (`bot/mod.rs`, `bot/verify.rs`, `db/repos.rs`) | `webhook_deliveries`, `repos` | record the delivery, read the payload, dispatch, register, check, enqueue; install, uninstall | the delivery is recorded before its payload is read and before it is handled; a repository is looked up and inserted apart | none is handled twice, and each that can be read to its end; the last decision about a repository stands |
| Slash commands (`bot/commands.rs`, `bot/github_files.rs`) | permits, locks, comments, the branch | parse, some twenty commands, a fix that commits files | a command holds a permit and waits for a lock; two at once; a push under a fix | every command ends; comments do not stack; no push is lost |
| Learning (`learning/*.rs`, `bot/reactions.rs`, `bot/threads.rs`) | `dismissed_findings`, `learned_rules` | dismiss, take back, promote, approve, archive, mine, decay; a review's three reads | counts read in one statement and acted on in another; five sources, some of which take the finding's mark from any comment; scopes | a rule is earned; what is hidden was dismissed where it counts |
| Finding baseline (`baseline.rs`) | `pr_diff_lines` | clear, save per file, filter | cleared and saved file by file, shared by runs | what is reported is on lines the commit adds |
| Policy and gate (`gates.rs`, `confidence.rs`, `bot/policy.rs`, `bot/quality.rs`, `bot/strictness.rs`, `bot/premerge.rs`, `bot/readiness.rs`) | none | floors, caps, budget, confidence, gate, event, check run, score | the order of the filters, boundaries, four verdicts by four rules | the verdicts agree |
| Accounts, invites, sessions (`db/users.rs`, `db/invites.rs`, `api/users.rs`, `api/auth.rs`, `api/setup.rs`) | `users`, `invites`, `sessions` | first owner, role change, removal, bootstrap transfer, invite, revoke, accept, single sign-on | what a request checked may have changed when it writes | there is always a bootstrap owner, who is not demoted or removed; one account per invite |
| Configuration cache (`db/config.rs`) | `app_config`, a cache with a lifetime in each replica | get, set, delete, get all, seed | a read that fills the cache after a concurrent write | staleness is bounded; what the dashboard saved is not overwritten |
| App setup and offline mode (`api/setup.rs`, `api/settings.rs`, `serve.rs`) | rows, environment, `BOT_CONFIG`, `OFFLINE_MODE` | set up, delete, switch, start, reload | key by key, in three places, beside webhooks that reload | what was switched off stays off |
| Rate limiting (`api/rate_limit.rs`, `api/auth.rs`) | a window per key | check | the end of a window | never more than twice the limit |
| LLM client, budget (`llm/*.rs`, `db/events.rs`) | `agent_events`, `LOCAL_SPEND_MICROS` | gates, tool loop, fallback, ledger | check, then spend, then book, by many tasks; timeouts in between; two tables that may not be readable | the overshoot and the loop are bounded |
| Registry clients (`registry/*.rs`) | a cache per lookup | existence, metadata, advisories | outages, slow answers, offline | an answer is backed by the registry |
| Symbol index (`index/*.rs`) | `repo_symbols`, `repo_edges`, embeddings | re-index the files of a push | edges are found by the symbols that are deleted next | the index is that of the version indexed last |
| Schema and migrations (`db/migrations.rs`, `db/mod.rs`) | the schema, `schema_version` | start: schema, then v11 to v26 | no transaction, no lock between replicas | nothing below the recorded version is missing; starts succeed |
| Maintenance, detectors, rendering, OIDC and JWT plumbing, command line | none to speak of | pure functions, protocol plumbing | - | not modelled, see the end |

How they interact: the webhook handler records the delivery, checks the repository and
enqueues a job, or, when that fails, starts a review itself; a worker claims the job,
takes a permit and the pull request's lock, and calls the pipeline, which claims the
commit in `reviewed_commits`, asks detectors (which ask registries) and the model, filters
the findings by the changed lines and by what was learned, posts, completes the claim, and
reports to the worker, which writes the job's outcome. A slash command enters below the
queue with a forced claim. Dismissals come back as rules. Replicas share nothing but the
database and GitHub; permits, locks, caches, limiters and `BOT_CONFIG` are per process.

The hazards found while reading are in `PROJECT.json`, each at its line with the
properties that would catch it.

## 2. Modules

| Module | What it models | State and actions against the code |
|---|---|---|
| `Mutex` | what a lock promises: at most one task inside | abstract; `Enter`, `Exit` |
| `PrLocks` | the map of reference-counted mutexes | `entry` is `PR_LOCKS`, `arc` each task's clone of the `Arc`, `guard` who holds each mutex; `PrLock` (lookup), `Acquire`, `DropGuard`, `Prune`, `Return`, `Unwind` (panic) are the statements of `run_webhook_review_inline`, `process_queued_review` and `spawn_review` around the lock. Implements `Mutex` |
| `ReviewService` | queue, workers, inline fallback, `review` command, leases, pipeline skeleton, GitHub and its users, crashes, the clock | one row of `jobs` per row of `review_jobs`, one of `leases` per row of `reviewed_commits`; each runner has a `pc`. One action per SQL statement or await. The per-PR lock is the mutex that `PrLocks` implements |
| `Findings` | what the pipeline does to a set of findings, as operators | one operator per function: floors, policies and their layers, caps, signal budget, changed lines of a patch, confidence, merging, gate, event, conclusion, readiness |
| `FindingFlow` | the findings of the runs of one pull request, from the detectors to GitHub | `lines` is `pr_diff_lines`; `fs` what is left of the findings of each run; one action per call: clear, save a file, filter, judge, list, look up, post, conclude; a file may come without a patch (`Shown`) |
| `Conversation` | comments, rows and commits that commands and reviews leave | `comments` and `branch` are GitHub's, `slot` is `review_comments`, `rows` the reviews with their findings; `cmd` and `pc` of each spawned task, `free` the permits |
| `Intake` | deliveries and repositories | `recorded` is `webhook_deliveries`, `repos` the table; a request is let in (`Receive`), then its payload is read or refused (`TakeOn`, `Reject`), and the spawned task is at one statement of its event's branch; maintainers switch, synchronise and delete |
| `SymbolIndex` | the re-index of a push, as the branch `bot/mod.rs:608` has it (no push of GitHub reaches it, see below) | the three tables; per task the statement, what its DELETEs saw and the file under way; `Symbols` and `Edges` are what is extracted of a syntax tree |
| `Learning` | dismissals, promotion, rules, and what a review hides | the two tables; per request the statement it is at and what it read; a reaction or a thread may bear any mark, for nobody asks who wrote the comment; a review's three reads are three steps |
| `Accounts` | requests on `users` and `invites` | one action per SQL statement; `req[r]` is what the handler holds between statements; a transaction is one step but for the rows its first statement saw (`snap`) |
| `ConfigCache` | the settings table and the cache of each replica | `table` is `app_config`; `cache[r]` and `full[r]` are `entries` and `full_loaded_at` of the process' `CACHE`, with ages for instants; a request is under way in `req`, one step per statement and one for the cache update after it. Seeding at start is `Seed` and `ApplyDbToEnv` |
| `AppSetup` | the GitHub App and the offline mode, in table, environment and memory | `rows`, `mirror`, `live` (`BOT_CONFIG`), `offline` (`OFFLINE_MODE`); owners' requests, the steps of a start, a webhook's reload, a settings page |
| `Migrations` | a start that brings the schema up to date | `schema` is the set of its objects; a statement is a record of what it needs, adds and drops; the start of each replica goes through the statement list of `run_migrations` |
| `RateLimit` | a fixed window per key, of the three limiters | `hits` is the map of the limiter; `allowed` what got through in the last ticks, as history |
| `LlmClient` | calls of the model under the budget | per task the gates left, messages, requests; `ledger` is `agent_events`, `local` the counter of the process; a look at the budget may miss the ledger or the setting (`View`); `TimedOut` and `Restart` drop a call where it stands, booked or not |
| `Registry` | lookups of packages behind their caches | `cache` an entry, `lookup` a request under way, `truth` what the registry says |
| `MC...` | instances for TLC | sets, functions and the composition of parts that share no state (`part` says which one a behaviour is about) |
| `PrLocksProofs`, `ReviewServiceProofs`, `AccountsProofs`, `ConfigCacheProofs`, `IntakeProofs`, `LearningProofs`, `ConversationProofs`, `FlowProofs` | proofs | - |

`PrLocks` and `ReviewService` compose by substitution: the first shows that the Rust map
of locks is a mutex per pull request, the second uses such a mutex in each replica. A run
of the pipeline is seen three times: its control in `ReviewService`, its findings in
`FindingFlow`, what it leaves behind in `Conversation`; none of the three reads the
others' state, but for the claim of the commit, which the last two take as given.

Abstractions that matter:

* `ConfigCache` keeps, as history, how long ago the table last held each value (`aged`).
  A missing entry and an expired one of an absent key are one value: neither is a hit,
  and a fresh snapshot answers None for both. `Flight` bounds how long a statement takes
  to be answered (`db/mod.rs:264` sets a `statement_timeout`, and the pool an acquire
  timeout); a statement of a process that dies takes effect before the death or not at
  all. `invalidate_config_cache`, which only tests call, is left out.
* In `ReviewService` what the detectors and the judge find is one choice: nothing to post,
  something to post, or an error. `FindingFlow` has the findings: each detector, severity,
  file and line that a filter or verdict tells apart. Lists are sets there; the order
  matters to the signal budget alone, which is stated for any order its sort may leave.
* Time is a set of ages. Ages are capped one above the stale window, beyond which no
  comparison can tell values apart. A tick waits for bookkeeping statements, which the
  code gives 120 s, and for run timers that are due.
* Permits and locks are handed to any waiter; Tokio's are first come, first served, so
  the models have more behaviours than the code for safety. Deployments without a database
  are not modelled.
* Which of several pending invites single sign-on takes is left open; the code takes the
  newest. Expiry of an invite may come at any moment, sessions are not modelled: they
  name an account, whose role each request reads again (`rbac.rs`).
* In `AppSetup` one replica is looked at closely; the others matter by what they write,
  and are one `Elsewhere`. A cache entry may be forgotten at any time; `ConfigCache` has
  its lifetimes.
* `Migrations` tracks one by one only the objects that a later statement looks at.
* In `Learning`, `Intake`, `Conversation` and `LlmClient` what is only remembered to state
  a property is called history where it is declared; no guard reads it.

## 3. Runs

| Run | Instance | Shows |
|---|---|---|
| `service_faults` | 2 replicas, a worker in each, a forced review and an inline one, 1 commit of a draft, any two of crash, database fault, redelivery, lost answer, forced review, foreign review and switched repository | `IInv`, `RunningLeaseFresh`, and with fairness `JobsSettle` |
| `service_head_moves` | the same with 2 commits of one pull request, one disturbance, one attempt | `CompletedLeaseIsEarned` and `OneReviewPerReplica` while the head moves |
| `service_calm` | 2 replicas, 2 pull requests, 2 attempts, one redelivery, nobody crashes | what the queue and the claims promise when nothing breaks: `JobHeldOnce`, `DoneStaysDone`, `ReviewedOnce`, `PostedOnce`, `NoOrphanLease`, `QuietHeadReviewed`, `QuietRetriesUsed` |
| `accounts` | 2 addresses, 3 ids, 1 invite, 2 requests at once, open join on, no transfer overlapping a role change or a removal; 1.1 million states | `SuperuserExists`, `InviteUsedOnce`, `BootstrapProtected` |
| `learning` | 2 organisations with a repository each, 3 pull requests, a security finding and another, comments with any mark, 3 requests of which 2 at once, a review, tasks symmetric; 2.2 million states | `RulesAreEarned`, `FatesHaveCauses` |
| `webhooks` | intake: 4 sends of 5 deliveries, one of which cannot be read, 2 repositories, 2 replicas, a fault, dropped request or crash, a maintainer's act; index: 2 files in 2 versions, 3 pushes, 2 tasks; 255,000 states | `NotRepeated`, `DecisionsStand`, `InactiveStaysQuiet`, `Handled`; `IndexExact` |
| `conversation` | 2 commands at once on one permit, 7 comments they may come from, 2 files, a fault or crash, a push; 406,000 states | `OneComment`, `CompletedRowsWhole`, `FixKeepsPushes`, `CommandsEnd` |
| `process` | locks: 3 tasks, 2 pull requests, 3 mutex objects, panics; migrations: 2 replicas on a fresh database or one of v21, 2 attempts, a fault; limits: 2 requests in 2 ticks; 130,000 states | `OneTaskPerPr`, `ImplementsMutex`; `NothingSkipped`; `TwiceTheLimit`; `WorkEnds` |
| `config_cache` | caches: 2 replicas, 2 requests at once, 1 setting, 2 changes, a restart, lifetime and statement time of a tick; App: a replica and its peers, 2 owners' requests, a mishap; 1.6 million states | `FreshEnough`, `SeedsWhatWasMissing`; `FailsClosed` |
| `finding_flow` | 2 runs of 2 commits, 3 files of which one has no patch, 6 reports, 3 sets of settings, a failing call; 2 callers of the model with a budget of 2 and 2 errors, timeouts or restarts; 2 tasks at a registry; 1.1 million states | `NoSilentPass`, `OldCodeQuiet`, `VerdictsAgree`, `InlineOnce`; `SpendBounded`; `AnswersBacked` |
| `service_crash_skips` | one crash | violated, see below |
| `migrations_upgrade` | a database of v15, one replica, no fault | violated, see below |

Four runs check parts that share no state beside each other: the behaviour is one of one
part, and the others rest in one initial state. They are in one run because each is small,
not because they interact.

Bounds, and why they are enough to be interesting:

* `Timeout` = 1 and `Stale` = 2 stand for a review timeout and the longer stale window
  (`max(timeout + 120, 600)` seconds): the smallest values for which a lease can be fresh,
  about to be stale, and stale. The proofs cover every `Timeout < Stale`.
* `MaxAttempts` is 2 (1 in `service_head_moves`), 3 in the code: with 2 there is a first
  attempt, a retry, and an exhausted job.
* `Permits` is 2 where the per-PR lock must be contended, 1 in `service_calm` and
  `conversation`, where the permit is what is contended.
* `Budget` of the service bounds the number of disturbances in a behaviour, `Kinds` says
  which; with two of them a fault can meet a crash, a forced review a redelivery.
  `MaxPosted` = 2 is where the count of posted reviews saturates, one above the promise.
* `TTL` = `Flight` = 1 tells fresh, just fresh and expired entries apart, and a value that
  left the table during a statement from one that left it before. One setting is enough
  for the interplay of entry and snapshot; with two, `FreshEnough` rests on the theorem.
  In `Registry`, `Ttl` = 2 and `SoftTtl` = 1 let a failure expire before an answer.
* Two requests at once are what check-then-act races need; the third id of `accounts`
  lets a removed member return, the third request of `learning` takes back, or decides
  about, what two at once have promoted (`MinDismissals` = 2 as in the code's default).
  The marks are those of both findings, a prefix of one, and every row that mining may
  write for the ordinary detector: enough for a mark to point at another's row. Two
  pull requests of the two repositories have the same number, as marks name numbers only.
* Three pushes let a file gain, lose and regain a definition while two tasks overlap;
  four deliveries let an installation come, go and come again around a pull request.
* Settings of `finding_flow` are three that reach every layer, preset and verdict; two
  runs are what it takes to share the table of changed lines.
* One fault is enough to tear any sequence of statements at any place.

`CHECK_DEADLOCK FALSE` stands where the system may come to rest: requests, deliveries,
commands and pushes are bounded, and an exhausted behaviour has nothing left to do.

Fairness: in `ReviewService` the clock ticks, and a task that can go on does so (Tokio
polls every woken task; workers poll the queue every two seconds; a crashed process is
restarted by its supervisor). Nothing is assumed of GitHub or of users. In `PrLocks` a
lock that is free again and again is given to a given waiter in the end (strong fairness
of `Acquire`), which Tokio's queue of waiters provides. In `Intake` and `Conversation` the
runtime goes on with every task it has spawned; a command may still time out, which is
itself a step of the task. In `Migrations` a start goes on, and a refused one is started
again by the supervisor. `MCProcess` states the same fairness part by part.

### Disagreements between code and text

* `service_crash_skips`: after a crash the job is reclaimed by the age of its own row,
  which starts a little before the lease's; the new run finds the dead run's lease still
  fresh, returns Ok, and the job is marked done unreviewed, although the queue is
  there for "crash recovery" (`bot/worker.rs:19`).
* `migrations_upgrade`: every start runs the whole schema of a fresh install first, and
  that creates an index on `learned_rules.status`, a column that only v21 adds
  (`db/migrations.rs:204`). A database of an earlier release is refused there, on this and
  every later start, although "migrations run automatically on boot" (`docs/database.md:90`).

Twelve more configurations can be run by hand; each checks one statement of the documents
that the code does not keep (`webhooks_push_rejected` on `MCWebhooks`,
`flow_timeout_unbooked` on `LlmClient` itself, the others on the module of the run they are
named after):

* `service_waiting_stolen` (`JobHeldOnce`): a job is claimed before the worker waits for a
  permit and for the lock; that wait is not covered by the stale window, against
  `bot/worker.rs:43` and `CHANGELOG.md:126`.
* `service_claim_race` (`ReviewedOnce`): `try_claim_sha` decides in one statement and writes
  in another that accepts a `completed` row, so the race that `pipeline.rs:83` wants closed
  is open.
* `service_draft_ready` (`QuietHeadReviewed`): the job of a draft ends as done;
  `ready_for_review` does not re-pend it.
* `accounts_transfer_race` (`BootstrapProtected`): a role change or removal that read its
  target before a transfer hits the new bootstrap owner, whom `docs/configuration.md:103`
  protects.
* `config_cache_own_write` (`StaysSeen`): a read awaits the database and then fills the
  cache unconditionally, so one that began before a change of the same process puts the old
  value back after it, for a whole lifetime, against "so this process sees the change
  immediately" (`db/config.rs:193`).
* `learning_hidden_elsewhere` (`HiddenWhereDismissed`): the dashboard's page still sends no
  repository, so a dismissal there is global (`CHANGELOG.md:46`).
* `flow_policy_dropped` (`PolicyEnforced`) and `flow_judge_overrules` (`JudgeSparesTier1`):
  findings of the policy itself are about a file `POLICY`, which no diff changes, so the
  baseline filter drops them (`docs/codasaurus-toml.md:44`); and the judge is shown findings
  of deterministic detectors too (`docs/codasaurus-toml.md:163`).
* `flow_patch_omitted` (`OnlyOldCodeHidden`): GitHub leaves out the patch of a large file,
  which then has no changed lines; but a file on a critical path is fetched whole
  (`pipeline.rs:331`), and all that is found in it is dropped, new code or not, against
  "findings on pre-existing lines are baseline-suppressed" (`docs/codasaurus-toml.md:144`).
* `flow_timeout_unbooked` (`HardStop`): a request is entered in the ledger after its answer
  (`llm/mod.rs:714`), and reviews and commands run under a timeout (`bot/worker.rs:139`,
  `:219`) that drops it before. Such requests are paid and no look at the budget finds
  them, for one entry in the ledger hides the local counter: the budget does not stop them,
  against "daily LLM spend hard-stop" (`llm/budget.rs:1`). No error of the database and no
  crash is needed. `SpendBounded` therefore counts what was dropped under way.
* `webhooks_push_rejected` (`PushesHandled`): the payload of a push has no `action`, which
  `WebhookPayload` asks for (`bot/mod.rs:225`), so reading it fails (`:503`) after its id
  was recorded (`:495`): the answer is 400, a redelivery is a duplicate, and the branch that
  is to "re-parse files touched by the push" (`bot/mod.rs:609`) is never reached.
* `learning_mark_dismissed` (`DetectorsDismissed`): a reaction or a resolved thread takes
  the finding from any comment (`bot/reactions.rs:11`, `bot/threads.rs:4`). A comment that
  bears the mark under which mining would record another detector's dismissal gives that
  row a maintainer's word, and mining then keeps the word and puts its detector there
  (`learning/mine.rs:184`): a rule stands that no maintainer's dismissal of the detector
  and no two pull requests are behind, against the guard at `learning/mine.rs:16`.
  Security detectors are safe from it, which `RulesAreEarned` checks.

### Other outcomes

Found while modelling, kept by the models, and left out of the properties by name.

Reviews. With `Kinds = {"lost"}` a lost answer posts twice (`PostedOnce`); with
`{"human"}`, or a push during the review, the check before the POST takes somebody else's
review, or one filed under the new head, for its own; with a moving head a failed run
leaves its lease behind (`NoOrphanLease`), because the release names the commit of the
job; with `{"crash"}` a process that dies between `mark_failed` and the requeue strands the
job (`QuietRetriesUsed`); in the instance of `service_waiting_stolen` the late failure of
a worker that lost its job undoes a done one (`DoneStaysDone`); and with `{"toggle"}` twice
a job that was done while its repository was switched off stays unreviewed
(`QuietHeadReviewed`). That is why `service_calm` is calm.

Findings. A custom quality gate with an operator like `lt` may fail on an empty list
(`gates.rs:57`), and an approval then stands beside a check run that requires action
(`VerdictsAgree`, hence `CleanPasses`). The signal budget of five warnings runs before the
default gate, whose condition on warnings can then never be met, and before the baseline
filter, so old findings use it up. A pull request without findings returns before the
pre-merge checks and readiness. `quality_gate.block_on_fail` of a repository's
`config_json` is not read. The floors of `drop_ungrounded` are 3 and 2 where the document
says 1. The bot's own approval counts for readiness, and a request for changes counts for
ever. A second finding of one detector in one file gets no inline comment while the first
is there. `graph/mod.rs` enters both ends of every edge anew, so a node has at most one
outgoing edge and the graph detector, whose thresholds are 5 and 16, reports nothing,
although `blast_radius` is to find "all symbols that could be affected".

Intake and index. An upsert of `ensure_repo_exists` after a concurrent installation
overwrites the installation's id, and the uninstallation then misses the row. An error or
a missing row at the active check lets the event through. A pushed removal leaves a file's
rows; a push to any branch is indexed; edges are deleted by name, so two files that define
one name lose each other's (`OthersKept`, `index/store.rs:30`), and embeddings are never
deleted (`EmbeddingsInStep`, `index/semantic.rs:46`). `build_repo_index` is called by
nothing, and since no push gets to the re-index the tables stay empty: `SymbolIndex` says
what the branch would do if pushes were read. A request that GitHub gives up on while its id
is being recorded is dropped at that await and lost like one whose process dies.

Learning. Rules from mined comments match no message; `wiki` lists approved rules only,
while the reply about candidates says to run it; prefixes of 8 to 11 characters are accepted
and never match; mining again archives a rule that was approved; a resolved thread makes
a rule for a detector named `resolve`, which does not exist.

Commands. Two at once on one slot stack comments (`CHANGELOG.md:93`), as does a POST repeated
after a lost answer; `summarize` and a review's summary share a slot, and so do the wiki and
the reply to `approve-rule`; a fix that meets a conflict stops half way without a reply; its
marker review counts as a review of the commit; a crash between `pipeline.rs:1176` and
`:1185` leaves a reviewed commit without a row.

Budget and registries. When the last day's sum is 0 the counter since boot is taken, which
`budget.rs:5` reserves for a missing database, and a failing read of the ledger counts as
0; a failing read of the budget setting, unless the environment sets it, counts as no
budget at all (`budget.rs:20`, the `no_budget` look); the budget may be exceeded by four
requests per task, by what each failed look lets through, and by what is dropped under
way; a request with its retries is counted once. A metadata answer other than 200 is kept
as long as a licence; offline, no advisory is known.

Start, settings, limits. v22 is skipped for good once v23 is recorded; v20 and v21 are not
recorded and run again; two overlapping starts one of which dies half way can leave a
table without its key (`TornStarts`). The environment wins over the table at boot, against
the comment at `serve.rs:525`; two reads that fail during one start bring a switched-off
App online, hence `MaxMishaps <= 1` (`FailsClosed`); two setups at once, or one that
breaks off, mix the credentials of two Apps in the table; a page or reload under way when
the App is deleted can bring it back on that replica, and other replicas keep it until
they restart. Two additions to the list of custom tool servers at once lose one
(`api/mcp.rs:40`). An error while reading a setting counts as its absence.

## 4. Theorems

All are checked by TLAPS for every value of the constants that satisfies the assumptions
of the modules: finitely many commits, pull requests and files, `Timeout < Stale`,
disjoint kinds of runners, "owner" and "viewer" among the roles, events that name
repositories, settings the parser lets through, a positive window and time to live. A
hypothesis beyond these is in the theorem's statement; each is one that "Other outcomes"
above shows to be needed.

* `PrLocksProofs`: `TypeCorrect`, `MutualExclusion`, `Refinement` of `Mutex`, and
  `EntriesStay`: in this code `prune_pr_lock` never removes an entry, since its callers
  still hold a reference. The invariant says that a mutex object is reachable for a pull
  request only through the map's entry or a task that looked it up there, so two tasks on
  one pull request contend for the same object. `LimitIsKept` (`TwiceTheLimit`) is about
  the limiters: whatever was let through in a span of one window is what the open window
  counts, and what the one before it counted, at most the limit each; the first request of
  a window is by then out of sight of a span that ends in the next one (`LimitInv`).
* `PrLocksProofs`, migrations: `NothingIsSkipped` (`NothingSkipped`), for any number of
  replicas, from a fresh database or what any release left, if no start dies beside
  another (`TornStarts`). What a recorded version or a start that has passed it claims is
  there, or some replica is between a DROP and the ADD that restores it (`Laid`). That
  replica gets there: its ADD is refused only where another has restored the object
  (`Cleared`, and what the ADD needs was made before); it dies only if it has met nobody,
  and then no version claims the object yet (`Met`, `Alone`). The proof relies on the
  table of statements only through `ProgramAssumption` and `ReleaseAssumption`, closed
  facts about it that TLC evaluates: what a statement drops, only the next one of its
  migration is sure to leave; a version is recorded last; a release left what its versions
  claim. A new migration that keeps to them needs no new argument.
* `ReviewServiceProofs`, with faults: `IInv` is inductive; from it `TypeCorrect`,
  `LeaseOutlivesRun` (`RunningLeaseFresh`), `CompletedMeansReviewed` and `OneReview`.
  `RunningLeaseFresh` is not inductive: the strengthening `LeaseYoungerThanRun` says that a
  lease with this run's commit and owner is no older than the run, which needs that only
  the holder of the replica's lock writes such a row (`LockHeld`), that a run is about its
  own pull request (`Located`), and that nobody believes in a lease before claiming
  (`LeasedByClaim`). A run never lasts longer than `Timeout`, which is below `Stale`.
* `ReviewServiceProofs`, the queue: `JobsAreHeldOnce` and `DoneJobsStayDone` hold, faults
  and all, of every behaviour in which the wait for permit and lock leaves a review its
  time (`WaitsAreShort`: the age of the job a worker starts on plus `Timeout` is at most
  `Stale`). That is what the stale window is made for, and the wait is what it does not
  cover (`service_waiting_stolen`). The invariant is that a worker's job is younger than
  the window for as long as its timer can run (`JobInHand`, `TimerUnstarted`).
* `ReviewServiceProofs`, calm: without crashes, faults and forced reviews, with one commit
  per pull request and no more workers than permits, which is how `worker.rs` and
  `bot/mod.rs:832` size them, the promises of `service_calm` hold for any number of
  replicas, workers and pull requests: `CalmJobsAreHeldOnce`, `NoLeaseIsOrphaned`,
  `RetriesAreUsed`, `CommitsAreReviewedOnce`, `ReviewsArePostedOnce` (if no answer is
  lost), `HeadsAreReviewed` (if no repository is switched off and no pull request starts
  as a draft). A worker never waits for a permit then, so a job stays with it
  (`PermitsHeld`, `LocksHeld`); the claim of a commit is as fresh as its run
  (`ClaimsAreFresh`); a lease belongs to a run or is completed (`LeasesHeld`); a job that
  is done has a completed lease (`FinishedStands`).
* `AccountsProofs`: `IInv` is inductive; `InvitesMakeOneAccount` always; `SuperuserStays`
  and `BootstrapKept` if no transfer overlaps a role change or a removal. The
  strengthening says what a request that has passed a check may still rely on: its target
  is not bootstrap if it is to be demoted or removed (`MayUpdate`), everything past the
  owner check comes after the first bootstrap owner (`PastFounding`, `FoundedFirst`), and
  an id that was not given out has no row (`FreshIds`). Two transfers at once, or two
  first-owner requests, are covered: the target of a transfer ends up bootstrap in the
  same transaction that clears the others.
* `ConfigCacheProofs`, the cache: `IInv` is inductive; from it `BoundedStaleness`
  (`FreshEnough`) and `SeedsTheMissing`. `FreshEnough` alone is not inductive: entries,
  snapshots and answers under way must each be as recent as their age says
  (`EntriesFresh`, `SnapshotsFresh`, `AnswersFresh`), and no entry may be older than a
  fresh snapshot. A lifetime of 0, which disables the cache, is covered. The bound is one
  statement wider than the documented window, because `loaded_at` is the time of the
  answer, not of the read.
* `ConfigCacheProofs`, the App: `DeletedAppStaysDeleted` (`ClearedStays`), and
  `SwitchedOffStaysOff` (`FailsClosed`) whatever single read fails; two failing reads of
  one start do bring a switched-off App online, so the hypothesis is `MaxMishaps <= 1`.
  The invariant says that no step still holds an id from before the deletion
  (`NoIdLeft`) and that an offline switch is seen by every read a start has yet to make
  (`StaysSwitched`).
* `IntakeProofs`: `TakenOnOnce` (`NotRepeated`), from `FreshDeliveries`: what was not
  recorded was not let in, whether its payload can be read or not. `LastWordStands`
  (`DecisionsStand`): an upsert keeps what is active, in one statement, and everyone else
  who writes `active` decides. `InactiveIsQuiet` (`InactiveStaysQuiet`), from what a task
  may rely on at each statement: it has seen its repository active if it is
  (`SeenActive`), finds no row only if excused (`MissingExcused`), and is entitled to
  enqueue when it is about to (`Entitled`). `IndexStaysExact` (`IndexExact`) is about
  `SymbolIndex`, for any number of files and pushes: each edge has a file that accounts
  for it and takes it along when it is indexed again (`EdgesOwned`).
* `LearningProofs`: `RulesEarned` (`RulesAreEarned`) and `FatesCaused`
  (`FatesHaveCauses`), with nothing assumed of the marks in comments or of who wrote them:
  where one points at another's row, the maintainer who dismissed it is the cause the
  property names (`Inherited`). A count was true of the rows when it was read (`CountsBacked`);
  dismissals ever made only grow, so a threshold once reached stays reached and the rule
  that a later statement writes is earned although the rows it counted may be gone
  (`RulesCaused`). What a review has read in three statements was there at each of them
  (`ReviewsBacked`).
* `ConversationProofs`: `TypeCorrect`, `CommentsAreOne` (`OneComment`), `RowsAreWhole`
  (`CompletedRowsWhole`), `PushesAreKept` (`FixKeepsPushes`). A review's row is written
  only by the holder of the pull request's lock, so its findings are all there when it is
  completed (`RowsInHand`); a slot on which nothing failed and no two tasks met has one
  writer at most, who knows its comment (`SlotsKept`); a file that was pushed since a fix
  read it is refused to the fix.
* `FlowProofs`, findings: `OldCodeStaysQuiet` (`OldCodeQuiet`), `CommentsAreMadeOnce`
  (`InlineOnce`), `BlockersGetThrough` (`NoSilentPass`) and `VerdictsAlwaysAgree`
  (`VerdictsAgree`), for every set of detectors, files, lines and settings. The table of
  changed lines is shared by two runs, so what a run may rely on is what was saved since
  it cleared (`LinesGathered`); what it has posted is among what it was told exists or
  made (`CommentsListed`); what it says is about what is left of its findings
  (`SaidSoFar`); a blocking finding on a line that GitHub shows (`Shown`) is dropped only
  by a filter entitled to (`BlockersKept`). `VerdictsAlwaysAgree` needs `CleanPasses`: the
  quality gate passes an empty list. `gates.rs:57` lets a custom gate ask for at least so
  many findings; with such a gate (`lt`, `lte`, `eq`) an approval stands beside a check
  run that requires action.
* `FlowProofs`, what the findings rest on: `SpendIsBounded` (`SpendBounded`): the
  overshoot of the budget is what the requests under way may still cost, each task having
  passed its gate when the books were below the budget (`BooksKept`, `OvershootForeseen`,
  `RoundsCounted`), plus the requests the books never saw: those dropped under way by a
  timeout or a restart (`dropped`), and those that a failing statement kept out of them or
  let through (`slips`). The code bounds neither of the two, and so does not the theorem.
  `AnswersAreBacked` (`AnswersBacked`): what a request was told was true no longer ago
  than the request is old (`ToldBacked`), and what the cache says no longer ago than its
  age and one flight (`CacheBacked`), though a slow request may overwrite what a fast one
  stored.

The induction is the same everywhere: `IInv` (or `CalmInv`, `FlowInv`, ...) is the
conjunction of the type invariant and of named parts, one lemma per action shows that the
action keeps it, and the theorem adds what the invariant implies. Operators of the models
(`Findings`, the filters, counts of finite sets, longest waits) have lemmas of their own.

Model-checked only: liveness (`JobsSettle`, `WorkEnds`, `CommandsEnd`, `Handled`), which is
out of the provers' reach. The runs that expect a violation, and the twelve by hand, show
what the hypotheses are there for.

## 5. Plan

Written: all modules above, and a theorem for every safety and action property of the
passing runs. Next, in this order:

1. An abstract queue (a job is offered, held, ended) that `ReviewService` implements when
   calm, from `CalmInv`.
2. Sessions, and the list of custom tool servers with the check before each call
   (`api/mcp.rs`, `mcp/mod.rs`).

Not modelled, and why:

* Detectors, parsers and rendering: pure text processing without state; what they report
  is a choice in `FindingFlow`.
* OIDC, JWT and SSRF guards: protocol plumbing around external services.
* The command line and the parsing of its files, metrics, the client of tool servers.
* Periodic cleanup and audit rows: they delete what is 14 to 30 days old, far beyond the
  models' clocks, and nothing reads it by then.
* Unbounded reclaim of a job that kills its worker (`queue.rs:60`): every behaviour of the
  models has finitely many crashes.
* Search in the index and the graph read from it; the first whole index, which nothing
  calls; prices and the parsing of the model's answers; backoff and waiting for rate
  limits of GitHub; validation of settings.
