# Verification of the golden-path control plane

TLA+ specifications of the control plane in this repository, TLC configurations
that check them on small instances, and TLAPS proofs for all instances.

Paths below are relative to `src/`. The system is a Go API, one or more worker
processes, a migrator, a CLI, a development token issuer and one PostgreSQL
database. The processes share no memory: what happens between them happens through
rows, so in the models of the database one step is **one database call together
with the code around it**. Such a call has three outcomes:

- `ok`: it commits and its answer arrives;
- `lost`: it commits and its answer does not (connection broken, context cancelled);
- `err`: it does not commit.

The code cannot tell the last two apart. Most of what is hard here comes from that,
from steps of other processes between two calls, and from clocks that differ.

## 1. Inventory

| Component | State | Operations | Hard behaviour | What makes it correct |
|---|---|---|---|---|
| Evaluation requests (`internal/app/controlplane.go` QueueServiceEvaluation, `internal/postgres/services.go` EnqueueJob) | rows of `jobs`, audit events | look up service, insert or find the job by key, audit | retries, races on a key, job committed but request failed | one job per key; a 202 is a job for that service |
| Job table (`internal/postgres/jobs.go`) | status, attempts, available_at, locked_at, lock_owner | ClaimJobs, MarkJobCompleted, MarkJobFailed | leases that expire under a live worker, clock skew, stale marks | fencing, exclusion within the lease, completion is final and has evidence |
| Worker (`internal/jobs/worker.go`, `cmd/worker`) | the claimed batch, the job in hand | Run, runOnce, processJob | death at any point, abandoned batches, lost answers | every job settles; an attempt runs once |
| Readiness evaluator (`internal/platformchecks`) | none | Evaluate | agreement with validation | counts, score and state agree |
| Domain validation (`internal/domain/models.go`) | none | Validate of inputs and patches | only patches are validated, never the merge | stored profiles stay valid |
| Service registry (RegisterService, UpdateService) | `services`, `slo_policies` | create, read-patch-write | lost updates, name races | valid, one per name, patches not lost |
| Scorecard (GetLatestScorecard, SaveReadinessEvaluation in `internal/postgres/services.go`) | `readiness_snapshots`, `readiness_check_results` | store an evaluation; read a card in three statements | evaluations and patches between the reads; slow evaluations | the card adds up and is no older than its request |
| Promotion gate (CreateDeploymentCandidate, EvaluateDeploymentCandidate, `internal/postgres/candidates.go`) | `deployment_candidates`, `promotion_decisions` | create, decide | two deciders, evidence that moves between read and write | decided once, on evidence of the right service |
| Audit trail (`internal/postgres/audit.go`) | `audit_events` | insert, list | insert fails after the change it reports; stamped by one clock, inserted later | no event without its change; a page has what follows its events |
| Schema migrations (`internal/migrations`, `cmd/migrate`) | advisory lock, `schema_migrations` | Apply, EnsureCompatible | concurrent migrators of several releases, death with a COMMIT in flight | each version once and in order; nobody serves on a schema that is behind |
| Runtime (`internal/app/runtime.go`, `cmd/api`, `internal/postgres/postgres.go`) | pool, tracer, server, draining goroutine | Bootstrap, serve, Shutdown, Close | signal at any stage, failure at any stage, handlers on few connections | the pool is closed, never under a call; process and requests end |
| Configuration (`internal/config`) | none | Load, validate, Redacted | fallbacks between variables, integer widths, redaction | what boots runs as configured and satisfies what the rest assumes; secrets stay out of the log |
| Authentication, HTTP pipeline (`internal/auth`, `internal/api/server.go`, `internal/httpx`) | cached keys, the fetch under way | validate, authorize, decode | key rotation during a shared fetch, second granularity of times | the role asked for decides; lifetimes kept; a good token is not refused twice |
| Development issuer (`internal/devoidc`), CLI (`cmd/cli`) | a key per start | discovery, token, keys; `cli token` | restart between two calls of the CLI | tokens carry what was asked for |
| Observability (`internal/observability`) | counters | SetupTracing, logger, metrics | none beyond set-up and shutdown | see section 7 |

Interaction: the API writes `jobs`; workers poll it, read `services`, write
`readiness_snapshots` and `audit_events`; the gate and the scorecard read the
snapshots, and the gate writes candidates and decisions; service owners rewrite
`services` at any time. Every process checks the migrated schema at boot. The
CLI gets tokens from the secret or the issuer, and the API checks them.

The hazards, each at its line with the properties that watch it, are listed in
`PROJECT.json`.

## 2. Modules

| Module | What it is |
|---|---|
| `EvaluationJob` | abstract specification of a job: submitted, tried a bounded number of times, at most one piece of evidence per try, done only with evidence of its current try |
| `JobQueue` | requests, job table and workers in detail; implements `EvaluationJob` |
| `JobQueueProofs` | theorems about `JobQueue`, the refinement included |
| `Readiness` | profiles, validation, patching and the checks, as operators |
| `ServiceRegistry` | registrations and patches in detail; extends `Readiness` |
| `ServiceRegistryProofs` | theorems about `Readiness`, for every profile, and about `ServiceRegistry` |
| `Scorecard` | workers' evaluations and scorecard requests, composed with `ServiceRegistry` |
| `ScorecardProofs` | theorems about the composition |
| `Promotion` | abstract specification of the gate: a candidate is ruled on at most once, in one act, on a fact about its own service or on none |
| `PromotionGate` | creating and deciding candidates while evidence changes; implements `Promotion` |
| `PromotionGateProofs` | theorems about `PromotionGate`, the refinement included |
| `Migrations` | migrators of several releases, the lock, and runtimes that check the schema |
| `MigrationsProofs` | theorems about `Migrations` |
| `Config` | config.Load, the conversions and the redaction, as operators on an environment |
| `Runtime` | one API process from Bootstrap to exit, booting under an environment of `Config` |
| `RuntimeProofs` | theorems about `Config`'s operators and `Runtime` |
| `Access` | `cli token`, the issuer, both validators and the checks in front of the handlers |
| `AccessProofs` | theorems about `Access` |
| `AuditTrail` | events stamped, inserted and listed, composed with `Access`, whose requests do the listing |
| `AuditTrailProofs` | theorems about the composition |
| `MCJobQueue`, `MCServiceRegistry`, `MCScorecard`, `MCPromotionGate`, `MCMigrations`, `MCRuntime`, `MCAccess` | definitions for TLC's small instances |

Operators marked "Fault" or "Faulty" in the modules are plausible mistakes in the
definition that follows them. No specification uses them; replacing the definition
by its faulty form makes a property fail (`PROJECT.json`, "mutants").

### JobQueue

`jobs` is the table (a request's uuid is its job's id; status "absent" before the
INSERT), `req` the handlers of `POST /v1/services/{id}/evaluations`, `pc`, `claims`
and `cur` the worker processes, `snapshots` and `audit` the tables workers write,
`now` the database clock.

- `LookUpService`, `EnqueueJob`, `AuditRequest` are the three calls of
  QueueServiceEvaluation. A request without key gets one nobody else has.
  `Conflicting` is `ON CONFLICT (type, idempotency_key)`; there is one job type.
- `ClaimJobs` takes any set of at most `BatchSize` eligible rows: the statement
  orders rows, but `SKIP LOCKED` makes it pass over those another statement
  holds. `Eligible` and `Leased` are its WHERE and SET. `expiredBefore` comes from
  the worker's clock (`Skew`), `locked_at` from the database's.
- `ReadService`, `SaveReadinessEvaluation`, `AuditEvaluation`, `MarkJobCompleted`,
  `MarkJobFailed` are the calls of one turn of runOnce's loop; `AfterMark` is what
  the loop does with the result, abandoning the batch included. Backoff is
  computed as in the code, `min(1 << min(attempts, 6) s, 60 s)`.
- `Stop` is a killed or cancelled process. Under a cancelled context every further
  call fails at once, MarkJobFailed too, so the process changes nothing more.
  Worker ids are fresh uuids, so a restart is another member of `Workers`.

### Readiness, ServiceRegistry and Scorecard

A text is known by its class: empty, blank, junk (no e-mail address or URL) or
good. Validation trims and parses; the checks compare with the empty string. A
patch is a function on the fields it carries. `ServiceRegistry` runs RegisterService
and UpdateService call by call; `version`, `readAt` and `wroteAt` are history that
lets properties speak of overlap. `MaxInteger` is the limit of an INTEGER column,
which the validated latency may exceed: the statement then fails.

`Scorecard` puts evidence on top: an evaluation reads the stored profile
(`ReadService`), is stamped by its worker's clock (`StampEvaluation`) and stored as
a snapshot with ten check rows in one transaction; a card is `GetService`,
`GetLatestSnapshot` and `GetChecks`, each seeing what is committed by then.
`EvidenceNext` interleaves them with every step of the registry.

### PromotionGate

The evidence side is reduced to what the gate can see: owners patch all the while,
so an evaluation may find a service in any state; it is stamped and stored in two
further steps. The gate's side has every call of CreateDeploymentCandidate and
EvaluateDeploymentCandidate. `GetLatestSnapshot` picks any snapshot with the
greatest `evaluated_at` (ties are open). `basis` is history: the snapshots that
were stored when the deciding request came in. `ImplementsPromotion` maps
`candidates` to the docket and the snapshots, without their times, to the facts.

### Migrations

A migrator is an execution of `cmd/migrate` with its session. `AdvisoryLock`,
`EnsureTable`, `NextEntry`, the check of a version, its transaction and the unlock
are the calls of Apply. A killed migrator leaves a session that holds the lock, and
perhaps a COMMIT already sent, until the server ends it. `Embedded` gives every
binary its own set of files, so that two releases or two branches migrate side by
side. A runtime makes the two reads of EnsureCompatible without the lock.

### Config and Runtime

A number or duration is unset, junk or a value; other variables are a few words,
DATABASE_URL is a sequence of tokens. `Half` stands for 2^31 (TLC's integers end
there), so `Int32` wraps where `int32(...)` does, for the pool's size (`size`) and its
idle minimum (`minIdle`). `Loads` has every refusal of Load; `Loaded` is what it
returns. `Parses` is what pgxpool.ParseConfig takes (external, by its rules): URLs of
the schemes postgres and postgresql, with the password in the userinfo or in a query
parameter, and keyword/value pairs.

`Runtime` boots under one environment: `LoadConfig` (with the logger and the
metrics, whose failure needs no cause in the model), `SetupTracing`, `NewPool`,
`EnsureCompatible`, `NewValidator`, each with its failure and what it releases;
`Listen`, `Shutdown` in its goroutine, `ServeReturns` as soon as that has begun, and
the deferred Close. A handler makes `Calls` database calls, one connection each,
given back in between; pool.Close refuses new acquires and waits for the
connections that are out (external: pgxpool, by its use). Process exit cuts off
what handlers are left.

### Access

Keys are numbered by the issuer's starts; `Secret` is the HMAC secret. `RunToken` and
`IssueOIDCToken` are the CLI before and after discovery, so the issuer may restart
in between. The CLI turns the role into a client id (`oidcClientIDForRole`) and the
issuer the client id into the role it signs (`Clients`). `Arrive` takes a request up to its answer or until it waits for keys;
the fetch is shared by all that wait (external: go-oidc's remote key set), served by
`ServeKeys` and delivered by `ReceiveKeys`. Token times are whole seconds, the
clock has `Second` ticks in one. `Authorize` is the role check and then the parsing
of id, body and query, in the handlers' order.

### AuditTrail

`AuditTrail` extends `Access`: the requests that Access lets through to
audit-events do the listing, under the same clock. `AuditEvent` stamps an event by its
process's clock, `InsertAuditEvent` stores it in a later step, `ListAuditEvents` reads
one page: filter, ORDER BY created_at DESC, the clamped limit. A restart of the API
takes the handlers under way along (`RestartCutsListings`). `before` is history: what
had been answered when an event was stamped. `AuditNext` interleaves these with every
step of `Access`.

## 3. What the runs check

| Run | Instance | Shows |
|---|---|---|
| `queue_safety` | starts: one job and three workers, or one of them fast; two requests with one key; two jobs in batches of two. 3 attempts, lease 2 | `AttemptRunsOnce`, `CompletedHasEvidence`, `AuditedEvaluationsExist`, `LeaseFencing`, `LeaseProtects`, `OneJobPerKey`, `CompletedIsFinal`, and `Inductive`, the invariant of the proofs |
| `queue_live` | 1 job, 2 workers, one of them fast, 3 attempts, fairness | `EveryJobSettles`, `ImplementsEvaluationJob` |
| `gate_race` | 1 candidate, 2 deciders, 2 services, 2 evaluations, one clock fast | `DecisionsSound` (types, tables that agree, verdict and evidence), `DecisionAudited`, `FreshAsOfRequest`, `DecidedOnce`, `ImplementsPromotion` |
| `registry` | starts: three patches of one service; two registrations and a patch; a card of two services under a patch and two evaluations; two evaluations, one clock fast, under a patch | `EvidenceTypeOK`, `StoredServicesValid`, `FlagsDecideReadiness`, `OnlyOverlapLosesPatches`, `NameHasOneService`, `CardIsSound`, `OldEvidenceIsBounded` |
| `migrations` | 3 migrators with files {1,2}, {1,2}, {1,3}, a runtime with {1,2}; kills and lost answers | `CheckStaysTrue`, `AppliedOnce`, `AppliedInOrder`, `SuccessIsComplete`, `ServingSchemaComplete`, `RefusalHasReason`, `MigratorsEnd` |
| `runtime` | some 1100 environments; under one of them 3 requests of 2 calls on one connection | `PoolClosedInOrder`, `RunsAsConfigured`, `UserinfoNotLogged`, `SignalEnds`, `RequestsEnd` |
| `access` | starts: one token and one request of every kind, both modes; two tokens and three requests while the issuer restarts twice; an administrator's page under 3 events on 2 resources, one fast clock | `TypeOK`, `HandledAsAsked`, `LifetimeKept`, `RetryAdmitted`, `OldKeysForgotten`, `ListingsSound` |

Five runs state what the documentation or the code's own settings say, and are
violated by what the code does:

- `queue_keyreuse` / `AcceptedMeansQueued`. The key is unique over all services.
  Sent again for another service it returns the first service's job: 202, an audit
  event for the second service naming the first one's job, and no evaluation.
- `gate_stale` / `ApprovalUsesLatestEvidence`. The decision is written in a
  transaction that does not look at the evidence again. What does hold is
  `FreshAsOfRequest`: nothing that was stored when the request came is ignored.
- `registry_lost` / `NoLostPatches`. PATCH reads, merges in memory and writes all
  columns back. Two overlapping patches of different fields are both answered 200
  and one is undone. `OnlyOverlapLosesPatches` shows that nothing else loses one.
- `runtime_drain` / `RequestsDrained`. main returns when ListenAndServe does, which
  is when Shutdown begins (`cmd/api/main.go:41`); nobody waits for the goroutine, so
  a request under way is cut off with time left. `PoolClosedInOrder` shows what is
  still true: no database call is cut in the middle of an orderly exit.
- `runtime_redact` / `SecretsNotLogged`. redactURL (`internal/config/config.go:409`)
  knows only the userinfo of a URL. pgxpool also takes keyword/value pairs and a
  `?password=` parameter; a process configured so boots and logs the password. In
  production only the second is possible, since sslmode must be set in the query.
  `UserinfoNotLogged` shows what is still true: a password in the userinfo is never
  logged, with or without a scheme and wherever an `@` is part of it.

Also visible in the models and permitted by the properties, since nothing promises
otherwise:

- a process that dies in a job's last attempt leaves the row `processing` for ever;
- a change whose audit insert fails stays without an event, and the retry of a
  decision is then answered 409;
- a job whose answer was lost is evaluated again, so one job may have one snapshot
  per attempt;
- evidence of an older profile may carry the later time, by as much as its
  evaluation took (`OldEvidenceIsBounded`), and then wins over newer evidence;
- DATABASE_MAX_OPEN_CONNS and DATABASE_MIN_IDLE_CONNS wrap at 32 bits, each by
  itself and after they have been compared (`internal/config/config.go:273`): with a
  size of 2^32 + 1 and the default minimum the process boots with MaxConns 1 and
  MinConns 2. `RunsAsConfigured` says that this takes more than 2^32 connections:
  below, the converted values are the configured ones or the pool is refused;
- JOB_MAX_ATTEMPTS beyond an INTEGER boots and lets every insert fail;
- a Bootstrap that fails after SetupTracing never shuts the tracer down;
- in oidc mode `cli token --ttl` is ignored (`cmd/cli/main.go:83`): the lifetime is
  the issuer's;
- a good token may be refused once, by a fetch that the issuer answered before it
  restarted (`RetryAdmitted` says that the next try is not).

An empty audit list is encoded as `items: null` (`internal/postgres/audit.go:55`
declares a nil slice), where `openapi/openapi.yaml:757` wants an array; the models
do not encode bodies.

### Bounds

- Several runs begin in one of a few *starts*. Each is a state the specification's
  own Init reaches, in which some requests have ended or some workers have died:
  several small instances with the constants of one run, instead of one instance
  too large to explore.
- `queue_safety`: three workers and three attempts give a takeover of a takeover
  with the first worker still alive; a fourth of either repeats the pattern. Two
  jobs with a batch of two give a tail that ages. `now` has no cap: `Tick` is enabled
  only while a row that may still be tried waits for its time.
- `MaxTime = 1` in `PromotionGate`: two evaluations need two distinct times to be
  ordered either way, or the same time to tie. `MaxTime = 3` in `Scorecard`: read,
  stamp and save of two evaluations and a patch can all be apart.
- Registry inputs and patches contain accepted values at the edges (tier 3, 100 %,
  latency 1), values refused for one field, a latency too large for its column, and
  the empty patch. Ready, degraded and blocked profiles all occur.
- `Migrations`: two executions of one release and one of a branch give waiters,
  takeovers of a dead holder's work and versions recorded out of a binary's order;
  the theorems cover any number.
- `Runtime`: DATABASE_URL takes thirteen forms, with and without userinfo, query, TLS
  and scheme, keyword/value pairs among them. The environments are a development and a production profile with one
  number, both pool sizes, two words, or a word and the database changed, with
  values around 0, 2^31 and 2^32 (`Half = 16`). Requests come under one environment
  only, with the smallest pool: the handlers do not depend on the rest.
- `Access`: `Second = 2` ticks puts the clock on and between whole seconds; lifetimes
  of 1, 3 and 4 ticks end on either; three keys are two restarts.
- `queue_live`: one job, so that an abandoned batch is not part of it. The lease of
  an abandoned claim runs out like that of a claim whose answer was lost, which is;
  two jobs under fairness are beyond five minutes of TLC.
- `AuditTrail`: limits 2 and 3 stand for 20 and 100, so that three events exceed the
  default and reach the maximum. In the starts of `Access` no more events are written,
  in the start of the events no more tokens are made: the two sides meet in the
  request alone.
- Symmetry is over ids whose clocks agree and which no definition tells apart; it
  is not used in the liveness runs. The other temporal properties checked under
  symmetry are action properties and a refinement without fairness, which
  permuting ids does not affect.
- The gate, registry and access runs switch deadlock checking off: a finite
  set of requests comes to an end. Workers poll for ever, and migrators and the
  process of `Runtime` have an explicit last step.

### Fairness

`queue_live` assumes weak fairness of each worker's step and of the clock.
Run's loop has no exit but the end of its process, so a live worker keeps taking
steps; `Stop` always leaves one process that has not died, which stands for the
deployment restarting workers (a restart is a new id). A claim that fails leaves
the state as it is, so fairness also says that the database does not refuse claims
for ever; without that no job could settle. Every other call may fail every time:
the job then runs out of attempts. Requests are not fair: clients may stop.

`Migrations` assumes that a lock that is free goes to some waiter, that a migrator
that has it keeps taking steps or dies, and that the server ends the session of a
dead process. Which waiter comes next is open; each runs once, so all get their turn.

`Runtime` assumes that main and the draining goroutine run and that database calls
end (weak fairness), and that acquire serves its waiters in turn (strong fairness
of `BeginCall`: a waiter's chance comes and goes with the free connection; pgxpool
keeps a queue). Nobody has to send a request or a signal.

## 4. What is proved

Every safety property that a passing run checks, the action properties and both
refinements are theorems; liveness is not. All constants are arbitrary within the
modules' named assumptions: any sets of requests, services, keys and workers, any
positive attempts, batch size and lease, any clock skews (with an upper bound where
a lease depends on it), any number of migrators and releases, any environments, any
number of starts of the issuer, any length of a second.

Two kinds of assumption say more than a constant's type. The placeholder `None` is
none of the values it stands in for. And the environments of `Runtime` are what the
model can express: variables are of their kinds and DATABASE_URL is any sequence of
tokens (`EnvironmentsAssumption`).

All arguments have one form: an inductive invariant, kept by each action, and the
property as a consequence. No property but the type invariants and a few simple
ones is inductive alone, and what follows is what had to be added.

`JobQueueProofs`. `Inductive` has three layers, each needing the one before:

1. `Shapes`: types; a row has an owner exactly while `processing`; a handler's own
   row does not exist before it calls EnqueueJob; claims exist only inside the loop.
2. `Leases`: a claim's row exists at this attempt or a later one, a worker has one
   claim per job and no two workers have the same attempt (`ClaimShape`); the claim
   is live or its lease has run out by the fastest clock (`LeaseCovers`); a row with
   the worker's id is at the claim's attempt (`LeaseFencing`). Fencing needs the
   fact that a worker claims only with empty hands: that is why checking the owner
   is enough although the attempt is not compared.
3. `Evidence`: snapshots belong to attempts that started, a claim's attempt has none
   before its save (`SnapshotShape`), a worker about to complete has stored snapshot
   and event (`SavedEvidence`), and completed rows have theirs.

From it follow `TypeCorrect`, `Fencing`, `LeaseExclusion`, `OneRunPerAttempt`,
`CompletionEvidence`, `CompletionFinal`, `KeysIdentifyJobs` (with an invariant of
its own on keys), `AuditedAreStored` (the event is written from the claim whose
snapshot is stored, and snapshots stay) and `QueueImplementsJob`: initial states map
to initial states and each step to Submit, Try, Record, Finish or a stutter of
`EvaluationJob`.

`ServiceRegistryProofs`. `ScoreRange`, `ValidReadiness`, `PatchedValid` are about
all profiles. `StoredValid` and `StoredReadiness` use the invariant that what a
handler is about to write is valid (`PendingWritesValid`): the write uses an old
copy, but a patched valid copy is valid whenever it was read. `NamesIdentifyServices`
adds that a row and its name appear together (`RowsNamed`). `PatchesLostOnlyByOverlap`
is the hard one: versions order the reads and writes of a row (`WriteOrder`), and not
only rows but also the merged copies in memory carry, of each patch written before
they were read, every field that nothing has superseded (`CopiesKeep`, `RowsKeep`);
without the copies the next write could not be shown to keep anything.

`ScorecardProofs`. `EvidenceImplementsRegistry` carries the registry's theorems over
to the composition. On top, what a worker has read stays with its attempt, with the
version and time of its read (`ReadsSound`); of two reads of a service the one of the
older version was no later (`ReadsInOrder`), which gives `OldEvidenceStaysBounded`;
a snapshot has exactly its ten rows (`SnapshotsComplete`), so it does not matter that
a card's three reads are not one transaction (`CardsSound`), which gives
`CardsAreSound`. That the counts of the ten rows are those of the evaluator is proved
by counting the five checks that can fail and the five that can warn.

`PromotionGateProofs`. `Rests` says of a verdict, a service and the snapshots known
at a request that the verdict is that of a stored snapshot of the service at least as
late as all those known, or that of none if none was known. A handler about to save
holds it (`HandlerShape`), and since snapshots are only added, so does the decision
for ever (`DecisionRests`). A service with snapshots has a latest one
(`LatestExists`), so a decision without evidence really had none to use. The request
whose UPDATE hit the pending row is the only one to report (`ReporterAlone`). From
these: `DecisionsAreSound`, `DecisionsAreAudited`, `DecisionsAreFresh`,
`DecidedAtMostOnce` and `GateImplementsPromotion`, step by step against `Promotion`.

`MigrationsProofs`. The invariant `Inductive` (`MigrationsInductive`) adds two facts
to the properties: whoever is past pg_advisory_lock holds it, a dead migrator with a
COMMIT under way included (`HolderAlone`); and what a migrator's loop has left
behind is recorded, with the entry at hand below all the rest (`LoopInvariant`).
The first makes the answer of a version check stay true until the transaction that
relies on it (`ChecksStayTrue`), hence `VersionsAppliedOnce` and, with the second,
`VersionsAppliedInOrder`, `SuccessMeansComplete`, `ServingOnCompleteSchema` and
`RefusalsHaveReason`.

`RuntimeProofs`. Pool, drainer and handlers follow the stage of main (`Stages`,
`Handlers`), which gives `PoolIsClosedInOrder`. From config.Load on the process has
what its environment says, and a size and a minimum converted to 32 bits of which the
size is at least 1 (`Configured`). `Int32Bounded` is about the conversion, whatever
`Half` is: it never exceeds its argument, is the argument itself below 2^31 and not
positive from there to 2^32. So an open pool of at most 2^32 connections had a size
below 2^31, and its minimum with it: `ProcessRunsAsConfigured`. `LogHidesUserinfo` is
about positions in the URL: Redacted cuts at the last `@` and the first `://`, which
exist by well-founded choice of a least and a greatest position, and a password in
the userinfo lies between them.

`AccessProofs`. Every signer makes the role, subject and expiry out of what it was
asked for (`TokensSigned`; the CLI's and the issuer's maps undo each other,
`ClientOfItsRole`); what is recorded of a request fits its token while it
waits and once it is answered (`RequestsSound`), hence `RequestsAreHandledAsAsked`
and, with a bound on cutting to whole seconds (`UnixWithin`), `LifetimeIsKept`. The
key last admitted, the cached keys and the one being fetched come in the order of
the issuer's starts (`KeysInOrder`): `OldKeysAreForgotten`. A refused token is of the
issuer that still runs, and a fetch answered from then on brings its key
(`RefusedSteady`): `RetriesAreAdmitted`.

`AuditTrailProofs`. A stamp is not ahead of its clock (`Stamped`), so an event
answered before another was stamped has no later time unless fast clocks are
involved (`StampsFollow`); a page has the latest times of what it is about
(`PagesLatest`), and who has been answered had got through to the handler and keeps
that answer (`Permitted`). `AuditSpecKeepsAccess` carries the theorems of Access over
to the composition. With a lemma that a page fits its limit, and with
`RequestsAreHandledAsAsked` and `LifetimeIsKept` for who is shown it:
`ListingsAreSound`.

The invariants of the queue, of access and of the composition were checked by TLC on
the runs' instances before they were proved; the queue's is part of `queue_safety`.

Only model-checked are the liveness properties `EveryJobSettles`, `MigratorsEnd`,
`SignalEnds` and `RequestsEnd`: they need fairness and ENABLED, which are beyond the
provers used here. The five violations are counterexamples and need no proof.

## 5. Plan

All components of section 1 have their modules, and all safety properties their
theorems. What is left for the proofs:

1. facts on the way to the liveness properties that are safety facts: that in every
   reachable state a job that is not settled can still be claimed or waits for a
   time, that a migrator that waits has a holder to wait for, and that the attempts
   that are left never grow;
2. type invariants of `Migrations`, `PromotionGate` and `Runtime` as theorems of
   their own (they are conjuncts of the proved invariants today);
3. shorter proofs where one lemma about an action's effect can serve several of
   its cases.

## 6. Abstractions to keep in mind

- A transaction is one step. Its statements conflict only on the rows it updates
  under a WHERE clause the model evaluates at commit, which is what READ COMMITTED
  does when it re-checks the clause after waiting for a row lock.
- Rows are never deleted by the code, so services, jobs and candidates do not vanish.
- Uuids are unique by construction. `updated_at`, payloads, error texts and reasons
  are left out: nothing decides by them.
- Statements of migration files are opaque; whether they ran is what `effects`
  counts. DDL of a version and its row commit together.
- A signature verifies with its key and no other; which of several checks of a
  validator fails first is kept only where it decides whether keys are fetched.

## 7. Not modelled

- Metrics, request ids and the set-up of logging: they keep no state that other
  parts read back.
- The CLI's other commands: each builds one HTTP request and prints the answer.
- The read-only endpoints besides scorecard and audit list: one SELECT, no state.
- Token cryptography, JSON, HTTP and connection pooling as such: library code,
  modelled by what the code here relies on.
- The web of field rules in DeploymentCandidateInput.Validate is one yes/no choice:
  no property depends on which field is wrong.
