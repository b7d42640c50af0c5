# TLA+ verification of risk

`risk` scores open-source dependencies: collectors fetch repositories and
package data into one SQLite file, a scorer adds a score per entity, an HTTP
server publishes both, signs users in, sells a premium subscription through Stripe and
limits API keys; a script deploys it all. This directory holds TLA+ models of the parts where order, crashes,
retries and concurrency matter, the TLC runs that check them and TLAPS proofs of
their main properties. Every definition is translated from the Rust source;
`PROJECT.json` maps each one to its lines.

## Inventory

| Part | State | Operations | Talks to | What makes it correct |
| --- | --- | --- | --- | --- |
| API-key gate (`apikeys.rs`, `gate_v1`) | `api_keys`, `api_usage` | create, revoke, authenticate, check and record, count, prune | server routes; one mutex around one connection | no key exceeds its limit in a window; nothing is metered that was not let through; a revoked key drains |
| Billing (`billing.rs`) | `subscriptions`, `users.premium` | checkout, two webhook events | Stripe, which repeats, delays and reorders | premium is paid for; a half-applied event is never final; the entitlement follows Stripe |
| Migration (`db.rs`, `schema.sql`) | the schema itself, `entities` and its child tables | create, add columns, rebuild, index | server, ingest and score run it on the same file | after it the schema is v2; no data is lost; everybody gets through |
| Collector runtime (`collectors.rs`, ingest binaries) | `entities`, `collector_runs` | fetch with retries, upsert in one transaction, run log | GitHub, deps.dev; systemd timer | a run stores everything or nothing and says which |
| Collectors (`github.rs`, `depsdev.rs`, `github_topic.rs`) | fetched entities, metadata | search, map, deduplicate, enrich | remote APIs | one flaky package does not fail a batch; no name twice |
| Scoring (`scoring.rs`, `score.rs`) | `entity_scores` | signals, document score, verdict, save | reads `entities`, `releases`, `star_history` | scores in range, verdicts as the thresholds promise, one failure does not stop the rest |
| Sign-in (`auth.rs`) | `users`, two cookies | login, callback, me, logout | OIDC issuer, browser tabs | a session only from the browser's own login, for the subject who signed in; premium read fresh |
| Server (`server.rs`, `handlers.rs`, `cors.rs`, `spa.rs`, `config.rs`) | flags, shared connection | routing, read-only queries | everything above | an answer is no older than its request, its parts agree |
| Deployment (`deploy.sh`) | binary, web dist, their `.new`, `.old`, `.prev` | ship, activate, health check, rollback | systemd, rsync | the previous release can always be restored |
| Web (`useUser.ts`, ...) | current user | fetch, login, logout | server | what is shown is what the last call was to leave |
| Analytics, observability | none | fire and forget | - | no property |
| Contract suite (`contract/`) | none | compare responses | a test server | not part of the system |

The parts meet in the SQLite file. Inside the server one `Mutex<Connection>`
makes each locked section atomic; across processes SQLite's locks do, for at most
`busy_timeout` (5 s), after which a statement fails. No lock is held across two
statements of different requests, and most handlers lock several times: that is
where the interleavings are. `PROJECT.json` lists every hazard at its line.

## Modules

| Module | Models | Kind |
| --- | --- | --- |
| `RateLimit` | what the limiter promises, without database, phases or restarts | abstract specification |
| `ApiKeys` | `apikeys.rs`, `gate_v1`, the prune task, `init_db` | detailed, implements `RateLimit` |
| `ApiKeysProofs` | proofs about `ApiKeys` | |
| `Entitlement` | what the webhook promises about premium, without tables, customers, retries or faults | abstract specification |
| `Billing` | `billing.rs`, the billing routes; Stripe as environment | detailed, implements `Entitlement` |
| `BillingProofs` | proofs about `Billing` | |
| `Migration` | `db::migrate` in several processes, and the writes of migrated ones | detailed |
| `MigrationProofs` | proofs about `Migration` | |
| `Catalog` | what a collector run promises, without processes, retries or failures | abstract specification |
| `Ingest` | `collectors.rs`, the two collectors, `score --all`, the order of the systemd unit; operators who run the same programs by hand | detailed, implements `Catalog` |
| `IngestProofs` | proofs about `Ingest` | |
| `SignIn` | `auth.rs`, the auth routes, `cors.rs`, `useUser.ts`; the issuer, browsers and restarts as environment | detailed |
| `SignInProofs` | proofs about `SignIn` | |
| `Deploy` | `deploy.sh`, step by step, on the host | detailed |
| `DeployProofs` | proofs about `Deploy` | |
| `Scoring` | the formulas of `scoring.rs`, without state | operators |
| `ScoringProofs` | proofs about `Scoring` | |
| `Reading` | the read-only handlers beside collectors and score programs; uses `Scoring` | detailed |
| `ReadingProofs` | proofs about `Reading` | |
| `MCApiKeys`, `MCDeploy` | symmetry sets for TLC | |
| `MCBilling`, `MCSignIn` | what TLC runs of `Billing` and `SignIn` | |
| `MCReading` | the rows a collector stores in the run | |
| `MCIngest` | the searches and names for TLC | |

### ApiKeys

A request runs through `phase`: `new`, `authenticated`, `recorded`, `done`. Each
of the three places where `gate_v1` takes the mutex is one action per outcome:
`Authenticate`/`AuthenticateFails`, `CheckRecords`/`CheckRejects`/`CheckFails`,
`Pass`/`PassUncounted`. Between them anything may happen: other requests, `RevokeKey`,
`Prune`, `Restart`, `Tick`. `usage` is `api_usage`; `log` and `at` are history: every row
ever inserted, which pruning cannot hide, and the sub-second time of it. The clock
counts ticks, the program sees `clock \div TicksPerSec`, as `db::now` does. It is assumed
not to step back.

### Billing

Each webhook event is two actions: the `subscriptions` statement
(`ReceiveCompleted`, `ReceiveDeleted`) and `SetPremium`. `handling` is the event between
them; it holds the mutex, so nothing else of the server that the model sees runs.
`Interrupt` is a kill of the process or an error of the second statement. `Answer200` may
be lost. `outbox` is Stripe's view. The checkout form names no customer, hence each
checkout has a customer of its own (`Checkout`). The variable `delivery`, one of `Deliveries`, is chosen once. When it is `"in_order"` the end of
a subscription is reported after its beginning was acknowledged; with `"any_order"`
nothing is promised and Stripe may give up. A user without a `users` row (`Strangers`)
breaks the foreign key, so his completion never gets past its guard. Signature and payload
checks are left out: a rejected call changes nothing. Under the mapping to `Entitlement` a checkout is `Buy`, a cancellation `End`,
`SetPremium` is `Grant` or `Revoke`, and every other step, the statement on `subscriptions` included, stutters. A user with two
subscriptions loses premium with the first that ends; `Revoke` allows it, since that is what the code does.

### Migration

`step` and `at` say where each process is in `migrate`. `schema.sql` and the ALTERs are one
action per statement, with the read (`CheckColumn`, `Inspect`, `Ensure`) apart from the write that
relies on it. The rebuild's transaction is one action, with its rollback as the other. It empties
the child tables, because `DROP TABLE` with `foreign_keys = ON` deletes the rows first. One child
table, `entity_scores`, stands for the four with `ON DELETE CASCADE`; the tables that no migration
touches are left out. `Upsert`, `SaveScore` and `Stop` are what a migrated program does next.
`Fault` is a kill or a busy timeout at any step.

### Ingest

A process runs `github`, `depsdev` or `score` (`prog`) and is somewhere in it (`step`). The timer's
process goes from one program to the next (`Following`, the `ExecStart` lines), whatever became of
the one before; an operator's runs one and ends. The unit and an operator do not exclude each other.
A collector is `OpenCollector`, then one `Search` after another (`SearchFails` drops what has been
collected and counts an attempt, of three), `Store` (the commit of `upsert_all`) or `StoreFails` (its
rollback), and `Report`, the `collector_runs` row. Each search sees GitHub as it is at that moment:
`world` is a version number that grows (`GitHubMoves`) and is copied into what is fetched, so that a
stored row and a score tell how old they are. `lookup` is what `enrich` made of the two deps.dev
requests. The scorer reads the ids (`OpenScore`), then for each entity the signals, the rest, and
inserts (`ReadSignals`, `ReadPopularity`, `SaveScore`); an entity without `last_pushed_at` is
an error, which is logged (`SkipUnpushed`). `Abort` is a kill, a panic or an error that ends
the program, `StopUnit` one that ends the whole unit. `wrote`, `alone` and `settled` are history.
Only the newest score row of an entity is kept. `Ingest` starts on a migrated database; migration while
others write is the subject of `Migration`.

### SignIn

`Login` draws a state token, notes for the properties which browser it answered (`begun`) and sets the
state cookie of that browser, over the one of an earlier login. The issuer binds a subject to a login
(`Authenticate`) and spends its code once. A callback is `BeginCallback` up to the await, `Exchange` (the claims the
issuer has at that moment), and `EndCallback`: the upsert, the row read back and the session cookie, under one lock. It may
fail, its answer may be lost, and `Restart` ends it and may leave the server without a provider (`init_auth`). The session is what
the cookie holds; its `sub` and `login` are history. `CurrentUser` reads the row afresh. `Entitle` is the billing
webhook's `set_premium`. A page calls `FetchUser` and `Logout`; what the server answers is computed at the call, and
the answer arrives later, in any order, or not (`FetchReturns`, `FetchFails`, `LogoutReturns`). `Foreign` pages
come from an origin that `cors_headers` does not name. `expected` is history: what the last call of a page is to leave
there. MACs and randomness are perfect: nobody has a session or a state that he was not given.

### Deploy

`disk` says what is at each of the seven paths: nothing, a release, or something half-written. A rename is one step; a copy, an
rsync of a directory and the `rm -rf` of the live dist are two. rsync of the single file renames it into place, so that is one, and so is an
`rm -rf` of `dist.prev`, `dist.new` or `dist.old`, which may leave half. `mv` of a directory onto an existing one, and `cp -r` onto an existing
`dist.prev`, put it inside: the path keeps the content it had (`MoveDir`, `CopyDist`), and the directory inside, which nothing reads, is not counted.

What a failed command leads to is decided twice, as in the script. The shells on the host have no `set -e`: `AfterFailure` says which
command of the same call comes next, which after a `;` is the next one (`rm -rf dist.prev`; `rm -rf dist.old` and `mv dist dist.old` in the
activation; every command of the rollback, where `restored=1` follows a failed `mv`, too). Otherwise the call fails, and `Caught` is what `set -e`, the
`if !` or the `|| true` makes of that. `CommandFails` is any command at any stage, having done nothing or half of its work (`HalfDone`), or one whose source another deployment
has moved away. `SessionLost` fails the call; `Killed` ends the script. In both cases the remote command is broken off, or goes on alone, as a
shell without a terminal does: `orphans` are such commands, each going to the end of its call and no further, beside the
rollback or the next deployment. An rsync ends with its session but may finish its file after a kill. A failed `chmod` is what a
session lost after the first `mv` is. A process that runs may fail to answer `/healthz`. `before`, `alone` and `ignored` are history:
`ignored` has the commands whose failure nothing stopped for, and `alone` says that no other deployment and no orphan has run beside one.
Overlapping deployments interleave at the level of whole paths, and the source of a copy is read at its end. The unit
changes only by the script: systemd's own restarts of a process, and a crash of the host, are left out.

### Scoring

Floats are counted in exact units: the issue ratio in thousandths, the composite in five-hundredths, rounded half up. For every trajectory
score and star count the result is that of the program's `f64` arithmetic without documentation, which is all that production scores. With documentation
an exact half may be rounded the other way by the `f64` sum (three such ties, all with trajectory score 0). A README is the phrases it
contains, its fences and its length.

### Reading

A listing is `Select` (the statement with its limit, ties in any order, rows with a NULL column dropped after they were
counted) and then one `Attach` per entity, in the order of the list; `stats` is three counting statements. The server's mutex is held
throughout, so there is one request at a time, but collectors (`Upsert`) and score programs (`Pick`, `SaveScore`) are other
processes and commit between any two statements. `scored_at` has one-second resolution, so of two scores of the same second
either may be the latest. `search` shows no trajectory; the difference is left out.

Any statement may fail. A prepare of a list that fails is a 500, a failed detail a 404; neither changes anything, so they have no action. The handlers ignore
every other error ("errors ignored"): the rows of a list may break off (`Read`), an entity keeps the empty verdict of one without a score
(`AttachFails`), `count(*)` reads as 0 (`CountEntities`, `CountScores`), and the histogram has the first of its rows or none (`CountVerdicts`).
`failed` is history: the statements of the request in progress that failed, by which the properties say how far a failure may be seen.

## Runs

| Run | Checks | Bounds |
| --- | --- | --- |
| `gate` | types, `WindowBound`, `RealTimeBound`, `AccountComplete`, `RevokedKeyDrains`, `HeaderHonest`, `ImplementsLimiter` | 3 requests, 2 keys, 2 users, 2 passes per 2-second window, half-second ticks, clock up to 5 ticks |
| `gate_documented_window` | `DocumentedBound` is violated | 3 requests on 1 key |
| `billing` | types, `AlwaysLinked`, `ImplementsEntitlement`, `FlagMatchesRows`, `EntitlementFollowsStripe`, `EntitlementCatchesUp` | 2 users and a stranger, 2 subscriptions, 2 customers, both kinds of delivery, 1 fault; no symmetry, as it has liveness |
| `billing_replay` | `ReplaysAreIdempotent` is violated | 1 user, 1 subscription, no fault |
| `billing_reorder` | `RevokedAfterDeleted` is violated | 1 user, 1 subscription, no fault |
| `migration` | types, `ReadyIsV2`, `EntitiesKept`, `SettledKeepsScores`, `EveryoneGetsReady` | 2 processes, 2 entities, 2 names, 1 score, 1 fault |
| `migration_data` | `DataPreserved` is violated | 1 process, 1 entity, 1 score, no fault |
| `ingest` | types, `LogHonest`, `ImplementsCatalog`, `Refreshed`, `ScoresCurrent`, `JobEnds` | the unit and one operator (github or score), 2 launches, 2 searches, 2 names of which one has no `pushed_at`, 2 versions of GitHub, 1 fault |
| `ingest_lookup` | `LookupFailuresShow` is violated | the unit alone, 1 launch, every lookup outcome, no fault |
| `signin` | types, `OwnLogin`, `SessionNamesSubject`, `SignInKeepsEntitlement`, `AnswersAreTrue`, `ClaimsOnlyAgeByOverlap`, `PageShowsLastCall` | 2 subjects, 2 browsers, each with a page and one of them foreign, 2 logins, 2 user ids, 2 callbacks at once, 2 other events (restart, tick, expiry, premium, profile, calls) |
| `deploy` | types, `PreviousKept`, `NeverHalfWritten`, `RollbackRestores`, `SuccessIsLive` | 2 deployments in turn or overlapping, on an empty host or a live one, 2 faults |
| `reading` | types, `FreshAnswers`, `StatsAgree`, `NeverGreen` | 2 entities, 3 kinds of row, 3 upserts, 3 scores, 2 seconds, limits 1 and 50, any number of failed statements |

Why the bounds are enough. A limit of 2 needs three requests to be exceeded and
two windows to be straddled, which five half-second ticks do; two keys show that
one key's uses are not another's. Two subscriptions of two users are one each or both of one user,
which is how rows, customers and users can be shared. The races of the migration are
between two processes; two entities are what it takes to share a name. The ingest job
meets one other program at every step of every program of its own; one of the two names is in the answers of both searches and
moves between them, which is what deduplication has to deal with; two versions of GitHub are an older and a newer.
Two logins are two tabs of one browser or two browsers, two subjects are the one who signs in and somebody else, and two ids are a row for each, the second of which is what a repeated sign-in could draw for nothing. A second
deployment is what finds the leftovers of a first, and two faults are a failed activation with one more failure before it or in the rollback, or one before and one beside an overlap: a deployment started while another runs counts as a fault, so that the bound is on what goes wrong altogether. Two entities are a list with an order and
a next statement. What the runs
show on these instances the proofs extend to all of them, except liveness.

Bounds that are not the program's: `MaxTick`, `MaxFaults`, `MaxLaunches`, `MaxWorld`, `MaxEvents`, `MaxCallbacks`, `MaxUpserts`, `MaxScores`, `MaxTime`, and which programs an operator starts (`ByHand`). Deadlock checking is off where
the system really may stop: no more requests, nothing left to deliver, the deployments ended.

Fairness. `Billing`: weak fairness of `SetPremium` (a handler that holds the mutex
goes on) and strong fairness of receiving an event (Stripe retries; the webhook is busy
now and then). Only the property about in-order delivery rests on it, where Stripe does not give up. `Migration`:
weak fairness of a process's next step, including being started again (systemd's
`Restart=on-failure` and the ingest timer). `Ingest`: weak fairness of the timer's programs and of nothing else: their
requests time out (the blocking HTTP client's default, 30 s), their statements fail after `busy_timeout`, and
systemd starts the next line; which outcome a request or a statement has is left open. None
of them assumes that faults are absent, only that they are finitely many.

Every property of a passing run has a mutant in `PROJECT.json`: a plausible bug in one
definition (operators named `Mutant...`, next to the definition they change), under
which TLC finds the property violated.

## Findings

1. The rate limit's window is up to one second shorter in real time than
   documented (`DocumentedBound`); the bound that holds is `RealTimeBound`.
2. A replayed `checkout.session.completed` is not idempotent once the
   subscription has ended (`ReplaysAreIdempotent`).
3. A `customer.subscription.deleted` that overtakes its completion is lost, and
   premium stays (`RevokedAfterDeleted`).
4. The rebuild of a pre-v2 database deletes all scores, releases, star history and
   taxonomy of every entity (`DataPreserved`). The test that says otherwise
   uses a table without the foreign key.
5. A failed lookup of a package's default version is stored as a package that was
   found and has no advisories (`LookupFailuresShow`).

More observations, without a run of their own.

- `NeverGreen` is proved: the score program passes no README fetcher, so no score is ever green, although the repository's `README.md`
  (lines 3-5) promises green verdicts and documentation quality.
- `RollbackRestores` needs every command of the rollback, and the `rm -rf dist.prev` before the snapshot, to succeed. Their failures are hidden by
  `|| true` and by `;`, and `ROLLBACK OK — service healthy on previous release` is then printed of whatever process answers, as it is when there was no
  previous release. A failed `rm -rf dist` in the rollback makes `mv dist.prev dist` put the snapshot inside what is left; a failed
  `rm -rf dist.prev` makes `cp -r` put the new snapshot inside what is left of the old one, which a later rollback moves into place.
- `SuccessIsLive` has one exception: after a failed `mv dist dist.old` (`deploy.sh:72`) `dist.new` goes inside the live dist, the unit is restarted,
  and "Deployed successfully" is printed with the previous web dist in place.
- A failed lookup of a score shows an entity as one without a score (`FreshAnswers`), and an answer of `/stats` may have scores and no verdicts
  or the other way round (`StatsAgree`); nothing in the answer tells.

## Proofs

All proofs are for every value of the constants, from the assumptions
named in the modules (`LimiterAssumption`, `BillingAssumption`, `SentinelAssumption`,
`MigrationAssumption`, `IngestAssumption`, `IngestSentinels`, `SignInAssumption`, `NoneAssumption`,
`DeployAssumption`, `VelocityAssumption`, `ReadingAssumption`, `BoundAssumption`).

- `ApiKeysProofs`. The inductive invariant `IInv` is `Typed /\ LogHonest /\ EveryWindow`.
  `LogHonest` says each metered request has exactly one row in the history, stamped with the second it was
  metered in, and that `usage` still holds every row a current or later window may ask for (this
  needs `Retention >= Window`). `EveryWindow` bounds each window that ends at a row's second; a new
  row only affects windows ending now, and there the guard of `CheckRecords` counted exactly those rows.
  From it: `WindowBound`, `RealTimeBound` (a span of `Window - 1` seconds falls into one window),
  `AccountComplete`, `HeaderHonest`, and the refinement `GateImplementsLimiter`, step by step.
- `BillingProofs`. The invariant is `TypeOK /\ Consistent`: rows carry the user and customer of
  their sale, sales differ in their customers, events belong to sales, and a running
  handler has left its row as its event asks with the event unacknowledged. It makes the
  row that `set_premium` finds the event's own (`LinkedIsOwnRow`). From it:
  `AlwaysLinked`; the refinement `BillingImplementsEntitlement`, where the row `set_premium` picks being the buyer's is what makes
  a grant one to a buyer, and "ends are reported" (a "deleted" leaves Stripe only for a subscription that has ended) what makes a
  revocation one of an ended subscription, with `OnlyBuyersArePremium`, proved of `Entitlement` and carried over; and `FlagMatchesRows`, inductive beside the invariant (an event is only
  acknowledged by the step that makes flag and row agree). `EntitlementFollowsStripe` adds
  what in-order delivery gives: no "deleted" before its "completed" is acknowledged, and no replay after it.
- `MigrationProofs`. The invariant `Progress` says what a process may rely on at each step;
  everything in it is stable because tables and columns are only added and the key never
  returns to `slug`. From it: `ReadyIsV2`; `EntitiesKept` and `SettledKeepsScores` follow
  action by action. `MigrationsEnd` is a variant: the columns a process may still collide on (`MayCollide`) only become fewer, one
  fewer with every failure on a duplicate column, and its place in `migrate` moves on with every statement that does not
  fail; so `13 * |MayCollide(p)| + Place` falls with every step of the process while no two rows share a name, and
  nobody else raises it. It is what livelock freedom of two migrations rests on.
- `IngestProofs`. `Typed` adds to the types what each step has in its hands (`Settled`); a step of one
  process changes only that process and the tables (`OthersStay`, `Moves`), so the rest is one lemma per
  action. `Books` relates the log, the history `wrote` and the runs still to come: the launches of
  running programs differ, a run that is not finished has no log row, and it has written nothing unless its outcome is
  `stored` (`Committed`). From it: `LogIsHonest`, and the refinement `RunsImplementCatalog`, where `Store` is `Publish`,
  `Report` is `Report` and all else stutters. `ReportsAreFinal` is proved of `Catalog` and carried over. `Ages` says that a collector that is alone holds nothing older than any
  stored row, and gives `EntitiesAreRefreshed`; `Scored` says that what an undisturbed score program has
  dealt with is current, and gives `ScoresAreCurrent`. `JobIsBounded` is a variant again (`StepsLeft`): three attempts at every search,
  a commit and a report, three steps per entity, and the programs still to come.
- `SignInProofs`. The invariant (`Timely`, `OwnStates`, `SessionsHaveRows` and the other parts of `IInv`) follows a login from its cookie to its session: a callback belongs to the browser
  whose cookie named its login, at most one row has a subject, and a session names the row of the subject it was issued for, which is
  never given to another. From it: `SessionsAreOwn`, `SessionsNameTheirSubject`; `EntitlementIsKept`, `ClaimsAgeByOverlap` (claims in hand
  are as new as the row unless `late`) and `PagesLearnTheTruth` step by step; `IdlePageShowsLastCall` for the page. `IdsAreNeverReused` is
  about all steps, not only those of a sign-in.
- `DeployProofs`. The invariant says for each stage of a deployment that is alone which paths hold which release, given which of its commands
  failed unnoticed (`ignored`); everything behind the current stage is new, everything before it old, and what earlier deployments left is only known to be something.
  It is inductive because what runs beside a deployment, another one or an orphan, takes `alone` from it for good (`Solo`), so that
  every step since it began is its own. `Unbroken` says that with deployments one at a time and none of them spoiled the live dist is partial only while
  a rollback removes it, and a partial `dist.prev` is never one that a rollback would trust. From it: `PreviousIsKept`, `DistIsWhole`, `RollbackIsHonest` and `SuccessIsHonest`.
- `ScoringProofs`. Linear arithmetic over the points: `CompositeInRange`, `NoDocsNoGreen`, `ExcellentExplainsUse`. `MoreStarsNeverWorse` needs that the
  rounded issue ratio falls with the stars; `UpkeepNeverWorse` that it grows with the open issues, and that each kind of point is
  monotone (`BetterSignals`). `LabelsAgree` relates two independent sets of thresholds. The two conditions of `MoreStarsNeverWorse` are needed: a first star makes issues count, and below 30 points
  too many issues are `red` where fewer are `critical`.
- `ReadingProofs`. Scores are only added, stamped with a clock that does not go back, so the latest of an entity is at least as
  new as anything the request began with, and what a failed statement did not read stays empty (`AnswersAreFresh`, by what each statement shows, `FreshFor`). Each count that did not fail
  is of a larger table than the one before it, the four bars partition the last, and a bar that is missing is missing whole (`CountsAgree`, from `Counting`); that `total_entities`
  covers every entity with a score needs that rows are never deleted. `TypeCorrect` and `SiteIsNeverGreen` take the range of the stored scores from `ScoringProofs`.

The components are proved one by one; what one assumes of another is what the other is proved to keep. `Billing` and `ApiKeys` take
the ids of users as given, `IdsAreNeverReused` says that these stay and name the same person. `Ingest` starts on a migrated database, `ReadyOnV2`
says that it finds one and that nobody takes it away. `Reading` takes rows that are replaced but never deleted and scores that are only
added: `EntitiesAreRefreshed` and `SettledIsSafe` say so of the programs that write them, after the last rebuild. `Ingest` and `Reading`
store every score they compute; that the column's CHECK accepts it is `CompositeInRange`.

Only model-checked: the liveness properties (`EntitlementCatchesUp`, `EveryoneGetsReady`, `JobEnds`), because the prover handles neither
fairness nor `ENABLED`. Of `EveryoneGetsReady` and `JobEnds` the safety half is proved, the variants above; what is left to TLC is
that a process that is not done has a step to take and takes it. `EntitlementFollowsStripe` is the safety half of `EntitlementCatchesUp`. That
`Velocity` of a list of dates is monotone in them is induction over data, so `UpkeepNeverWorse` keeps the releases fixed.
