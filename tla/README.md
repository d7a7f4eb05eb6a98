# Verification of Cobri

TLA+ models of Cobri, a tutoring service: learners submit answers to programming
exercises, a worker evaluates them, and the verdicts drive what the learner may try
next and when an item counts as mastered. Paths below are relative to the
repository; `cobri/` stands for `backend/src/cobri/`.

## The system

A browser client (`frontend/src/App.tsx`) talks to a FastAPI application. The API
verifies tokens, validates requests and commits submissions; it evaluates nothing.
A worker process polls the database for jobs, runs the learner's code in a sandbox,
asks a model provider (or a deterministic fixture) for an evaluation, and commits
it with everything that follows from it: events, progress, mastery. API and
worker share nothing but the database. Packages of lessons are files, read at start;
operators review and publish them by commands, and install releases of the whole on a
preview host by shell scripts.

| Component | State | Operations | What makes it correct |
| --- | --- | --- | --- |
| Evaluation queue and workers (`persistence/repositories.py`, `worker.py`) | `evaluation_jobs`, `evaluations`, the job each process holds | `claim_job` (sweep, select, take), `renew_job_lease`, `finish_job`, `fail_job`; crash, lease expiry, back-off | one verdict per job and only for succeeded jobs, final outcomes, every job decided |
| Evaluation pipeline (`worker.py`, `model_gateway/`, `sandbox/`) | the tasks, threads and containers of one worker process, the rest of its lease | start, renew, cancel, test in the sandbox, time out, ask fixture or providers, validate, crash, restart | the tests decide the outcome; a worker at work keeps its lease and comes back |
| Submission polling (`assessments/router.py`, `_submission_view`) | none of its own | two reads per `GET /submissions/{id}` | the outcome is shown in the end, and errors pass |
| Progression and mastery (`assessments/router.py`, `finish_job`, `tutoring/contracts.py`) | `submissions`, `learner_progress`, `learner_events` | `POST submissions` with a parent, `GET next`, the progress half of `finish_job` | mastery is earned, progress never falls back, the history accounts for the profile |
| Acceptance and deletion (`accept_submission`, `delete_learner`) | `submissions`, `idempotency_records`, `sessions` | accept, replay, conflict, delete | one submission per key, truthful answers, all or nothing |
| Learner client (`frontend/src/App.tsx`) | pending key in local storage, shown lesson and submission | submit, poll, continue, retry | the learner is never stuck, a repeated click is one submission |
| Token verification (`identity/auth.py`) | cached key set, lock, time of the last forced refresh | verify | rotated keys are found and withdrawn ones forgotten in bounded time |
| Rate limiter (`rate_limit.py`) | recent request times per learner and action | check | never more than the limit in a window |
| Content catalog and discovery (`content/catalog.py`) | packages in memory | load, select version, match topic, resolve item | only reviewed packages are served, and a next one is always recommended |
| Content lifecycle (`content/lifecycle.py`, `backend/scripts/approve_review.py`, `build_dataset.py`) | `releases.json`, `review-manifest.json`, package files | edit, build, validate, review, publish, approve | published implies reviewed; approved implies recorded |
| Deployment (`ops/`) | current link, recorded release, schema version, what each service runs | promote with its trap, roll back, systemd's restarts | code has its schema; API and worker agree; the link stays alive |
| Retrieval, web quarantine | embeddings, quarantined sources | build, search, fetch | only reviewed evidence is used |
| Readiness, wiring (`main.py`, `config.py`) | worker heartbeat row | ready | ready exactly if a worker is alive |

Hard behaviours: several workers may poll one queue and all of them call themselves
`local-worker`; a worker may die or stall at any statement; transactions run READ
COMMITTED without row locks after the claim, so that what `finish_job` and
`fail_job` read may be stale when they write; inside a worker an evaluation may
outlive the call that awaits it, and its container the process; answers and commit
acknowledgements get lost and requests are repeated; an operator deletes a learner
while both are at work; parents of submissions are chosen by the client; threads race
for a key set the provider is just changing; the release ledger is truncated and
rewritten by commands that may overlap or die; and a promotion may stop between any
two commands.

## Modules

| Module | Models | Composition |
| --- | --- | --- |
| `JobLifecycle` | what the queue promises of a job: attempts, then one verdict or failure | abstract |
| `EvaluationJobs` | the queue and its workers, statement by statement where it matters | implements `JobLifecycle` |
| `SubmissionView` | learners polling beside the queue | extends `EvaluationJobs` with a poller per job |
| `EvaluationPipeline` | one worker process from the inside, in discrete time | establishes what `EvaluationJobs` assumes of timely holders |
| `Progression` | the progression check, `GET next`, progress and mastery | jobs follow `JobLifecycle` |
| `Acceptance` | idempotent acceptance, the verdict's commit and the operator's deletion | one session of one learner |
| `LearnerClient` | the page of `App.tsx`, its local storage and the network | a service that is idempotent and checks parents, as `Acceptance` and `Progression` say |
| `Clock`, `KeyCache`, `RateLimiter` | the API's monotonic clock; signing keys in the threads of the pool; request limits | |
| `RequestGate` | a request's way through verification and limiter | extends `KeyCache` and `RateLimiter` on one clock |
| `ContentLifecycle` | authors, operators, the ledger and the manifest | |
| `Deployment` | `promote.sh`, `rollback.sh`, systemd and the host | |
| `EvaluationJobsProofs`, `EvaluationPipelineProofs`, `ProgressionProofs`, `AcceptanceProofs`, `LearnerClientProofs`, `RequestGateProofs`, `ContentLifecycleProofs`, `DeploymentProofs` | theorems | each extends its module, `EvaluationJobsProofs` extends `SubmissionView` |
| `MCEvaluationJobs`, `MCSubmissionView`, `MCEvaluationPipeline`, `MCProgression`, `MCAcceptance`, `MCLearnerClient`, `MCRequestGate`, `MCContentLifecycle`, `MCDeployment` | instances for TLC | |

Definitions marked *Seeded fault* are variants of the definition that follows them,
with a plausible bug. Nothing uses them in the specifications; put in place of the
definition, each breaks the property it is listed with in `PROJECT.json`.

### EvaluationJobs

`job[j]` is the row of `evaluation_jobs`; the timestamps are reduced to what guards
ask of them (`lease` unset, live or expired; `due`). `evaluation[j]` names the
stored verdict by the attempt that produced it, `announced[j]` counts the
`EVALUATION_SUCCEEDED` events, and `worker[p]` is a process with the attempt number
it got from `claim_job` and whether `finish_job` found a verdict.
`claim_job` and `renew_job_lease` are UPDATEs whose WHERE clause is their guard:
one action each (`Claim` with the sweep it makes, `ClaimOrphan` for a job whose
submission has been deleted, `ClaimNothing`, `Renew`). `finish_job` is
`FinishReadJob` (the SELECT with the ownership test), `FinishReadEvaluation` and
`FinishCommit`; `fail_job` is `FailReadJob` and `FailCommit`. A commit writes the
row by primary key and does not look again: that gap is what the model is about.
`FinishCommit` also has the outcome in which the commit takes effect and its
acknowledgement is lost, so that `run_once` calls `fail_job`. `FinishAborts` stands for
every way its transaction is rolled back, an insert of an evaluation that meets
another's among them.

`HolderMayStall` is the one environmental switch: may a lease run out while its
holder is still at work? If not, live holders renew in time (they renew every third of
a lease, 20 s of 60 s by default), as `EvaluationPipeline` shows from the inside. `Undisturbed` is the assumption of the stronger
theorems: no stalls, or a single process, which is what `ops/` deploys.

### SubmissionView

`_submission_view` reads the job row and then the evaluation. `ReadJob` and
`ReadEvaluation` are the two reads; `Consistent` is the validator of the response
model, whose refusal is a server error to the client.

### Progression

One learner and one package. An evaluation keeps what the code tests: `good` (correct
and sound), whether the diagnosis is supported, and the misconception named.
`Submit` is the router's check together with the event that acceptance records;
`NextStep` is what `GET next` offers, and `Item` what the package has: a lesson may have no
transfer (`WithTransfer`), and may list misconceptions without defining them and their
practices (`WithPractice`), as `content-packages/python-functions/1.0.0` does. `FinishDecide` is `finish_job` up to its commit,
with the progress row it read; `FinishCommit` writes by primary key;
`FinishConflict` is the insert that loses against another worker's;
`FinishIllegal` is `next_progress_state` raising. Claims are atomic and exclusive
here, which is what `EvaluationJobs` establishes under `Undisturbed`.

### Acceptance

A call is a POST request, and a submission is named by the call that created it.
Every SELECT of the router and the store is a step; insert and commit are one step,
because a second insert of a key waits for the first transaction at the unique
constraint. `delete_learner` is a transaction of five groups of statements, each of
which dooms the committed rows it sees, and a commit; whoever wants to write a
doomed row waits. `FinishJob` is the worker's commit seen from here. There are no
foreign keys in `persistence/models.py`, so that nothing else ties the tables.

### LearnerClient

`page` is the React state of `TutorExperience`; `pending[i]` is the entry
`cobri.pending.<i>` of local storage; `task` holds the handlers that await an answer,
with the values they closed over; `wire` the submissions sent and not yet processed,
which outlive a reload; `service` what is stored. A handler is one action up to its
next await, with the effects React runs after it. The item shown is reduced to its
purpose, since next items belong to the lesson of the page, and answer and reasoning to one
text. `Discover`, `TopicArrives` and `TopicFails` are the topic composer, which is there on
every page and clears and sets the page's one error; which lessons it offers, and what else
the learner only reads (progress, events), is left out.

`Next` is everything the page allows. `SettledNext` is a learner who goes to another
lesson only when nothing is under way, leaves the interface language and the link of
the lesson at hand alone while studying it, goes on from a result by the button
under it, and leaves the buttons under a result or an error alone while the page is checking:
a topic request that fails beside a poll shows "Try again" there. Such a learner still edits,
asks for topics and reloads at any moment, and loses requests and answers. The page enforces
none of this; the last section but one says what happens without it.

### EvaluationPipeline

`run` is where `run_once` is, `task[t]` an evaluation with its sandbox thread, `row`
the job of this process in the database with the rest of its lease, and `stray` says
that a container runs for ever. An answer is known by what the package's tests make
of it: it passes, fails or loops. Durations count down, so that no clock bounds the
run: a call to the database takes up to `StoreTime`, and a lease is set at the start
of the call that reports it. `Tick` waits for nobody who waits for a provider or for a
docker command that removes a container, and for everybody else. Two things in the code
make the model more than a sequence: `asyncio.shield` keeps an evaluation going while
its lease is renewed, so that a renewal that *raises* leaves it running beside
`fail_job` and beside the next job (`RenewalRaises`, `Dropped`); and cancelling a task
that waits for `asyncio.to_thread` ends the task and not the thread
(`CancelledTask`). `ProcessFails` is the calls nothing catches (`heartbeat`,
`claim_job`, `fail_job`): the process ends, waits for its threads and is restarted by
systemd. `JobIsLost` is whoever else changes the row: a deletion of the learner, or
another worker after the lease. Every combination of sandbox, mode and provider keys is
an initial state. The evaluator says anything of the schema; `TakeFailure` is also
`_validate_evaluation` refusing it.

### KeyCache, RateLimiter and RequestGate

`KeyCache` is `TokenVerifier._key_for` in threads: the look without the lock, the queue
for it, the second look, the cooldown and the forced refresh, with `PyJWKClient`'s cache
as the code uses it. A request for the key set answers with the keys of some moment
before it ends, and is stored with the time it ends. `Rotate` publishes or
withdraws a key, `since` remembers when. All but requests to the provider takes no time.
`RateLimiter.check` holds a lock and awaits nothing else: one action, in which `first`
says where the deque begins in the history of admissions, so that the window can be
stated over the history. `RequestGate` puts both behind one another as the routers do.

### ContentLifecycle

A package is its bytes: a status, the prerequisites it names, and the layout of the JSON. The
code takes two digests of them. That of the bytes (`lifecycle.py:12`) is in the ledger and
decides what may be published and served: an entry has the whole text, and `Recorded` compares
it. That of the parsed JSON, written anew (`approve_review.py:12`, `evaluate_dataset.py:39`,
`build_dataset.py:21`), is in the manifest: `Parsed` forgets the layout, and `StartApproval`
and `ReviewApproved` compare `Contents`. A command is a sequence of steps with the copy of the ledger it read:
`ReadLedger`, `OpenLedger` (`write_text` truncates), `CloseLedger`; `Die` may come
between any two. `Visit` is the recursive search of `validate`, translated as it stands,
as a recursive function of the package and the sets passed with it. `overlapped` remembers that a command
met another command, an edit or a new manifest, which `ApprovalIsInLedger` excludes
and `PublishedWasReviewed` does not.

### Deployment

`script` is the command that is next in `promote.sh` or `rollback.sh`, with what its
variables hold. Any command may fail, which once `switched` is 1 runs the trap
(`AbortSwitched`); and a script may end anywhere without it (`Dies`: a failure while
`switched` is 0, also between `ln` and `switched=1`, a failing `ln` in the trap, a kill,
any failure of `rollback.sh`), its current command done, half done or not. A
`systemctl restart` that goes through leaves each service on the linked release or down;
one that fails may leave either as it ran (`RestartFailed`). `Fails` and `Starts` are
systemd on its own, `HostStops` the host. `Resolved` is `readlink -f`. `settled` says that the
script that moved the link last ended with 0, that its trap saw the restart through, or
that the host was started since. Assumed: one script at a time (the workflow's
concurrency group), and the archive holds what `promote.sh` uses.

## Runs

| Run | Question and instance | Answer |
| --- | --- | --- |
| `jobs_timely` | Does the queue keep its promise, and what do learners see of it? 2 workers sharing one id, 2 jobs and an orphan, 2 attempts, a poller each, no stalls, fairness | `ImplementsLifecycle`; verdicts exactly for succeeded jobs; no job is stranded; success is announced once; who writes owns; every job is decided; a poll errs only by overtaking success, and the outcome is shown in the end |
| `jobs_stalled` | What survives workers that write jobs they have lost? 3 workers, 2 jobs and an orphan, 2 attempts, stalls | succeeded jobs have verdicts, which are never replaced |
| `jobs_stranded` | "Exhausted jobs become failed" (`docs/day2-runbook.md:18`), with stalls, 2 attempts | violated: a stalled worker's `fail_job` puts the other's last attempt back to pending, where no query finds it |
| `pipeline_attempts` | Does a worker come back, with a lease that lives and verdicts that are tested? 2 evaluations at once, lease 5, database 1, sandbox 2, every configuration, fairness | yes, through failing renewals, lost jobs, looping answers and crashes |
| `progress_single` | Is progress sound with one worker? 2 attempts, 3 submissions | it never regresses, and the history matches the profile |
| `progress_workers` | Which guarantees survive two workers finishing at once? 2 sessions, 2 lessons, 3 submissions | mastery is earned, transfers and practices are grounded; steps offered exist and are accepted, in a lesson with a transfer and a practice and in one without |
| `progress_lost_verdict` | "A failed submission can be retried after the infrastructure issue is resolved" (`docs/day2-runbook.md:19`), one worker, 3 attempts | violated: a learner who is `transfer_ready` and repeats the item with a worse result gets no verdict, however often the worker tries |
| `accept_calls` | Is acceptance idempotent and whole? 3 calls, 2 keys, 2 payloads, an operator's deletion | yes, statement by statement |
| `client_settled` | Does a settled learner get through? 2 lessons, 2 submissions, 2 sessions, topic requests that may fail at any time, fairness | no attempt is submitted twice or forgotten; the page shows what belongs together, sends nothing the service must refuse, and does not hang |
| `content_ledger` | Is what is published, approved and served reviewed? 2 operators, 2 packages in 4 texts, two of them the same JSON in two layouts, 2 ledger entries | what is published, byte for byte; what is approved, by what it says; and a tree that validates never leaves a learner without a next package |
| `release_host` | Do code, schema and services agree? 3 releases, 2 migrations | the schema covers the code and the link stays alive whatever command, service or host fails; API and worker agree after a script that succeeded or a trap that saw its restart through |
| `gate_requests` | How wrong may a cached key set be, and for how long? 1 key, 2 threads, 1 caller with limit 2 in a window of 2, clock to 5 | a withdrawn key is accepted for a lifespan and a request, a published one refused for a cooldown and a request; no window holds more than the limit |

The type invariants of `EvaluationJobs`, `LearnerClient` and `ContentLifecycle` are
checked by these runs; all are proved. Two definitions state what a document says and the code does not do
(`NothingOutlivesDeletion`, `ContainersAreEphemeral`) and are not checked; the last
section but one describes how they fail.

Bounds. Jobs interact only through the workers that hold them, so two ordinary jobs
and an orphan show every way a claim can treat one while another is held. Two
workers are the holder and the one who retakes; with a shared id a third looks
like the second. Two attempts give a first and a last one, where claim, sweep and
retry meet; the theorems hold for any number. Three
submissions give the longest chain in which mastery is decided (assessment,
practice, transfer) and a repeat of any of its steps. Three calls give a winner, a
loser and a later replay of one key, and both a matching and a changed payload. Two
lessons and two submissions give an attempt, its successor, and a lesson left and
returned to. Of the two tasks a settled learner has one at work at a time (`OneAtWork`); the
second is a retry beside a poll, which such a learner never starts. One text is enough for a
changed payload, since a reload puts the assessment in the place of a practice; two
texts give the same results without liveness. In the pipeline two evaluations are the
one that is awaited and one that was abandoned; a lease of 5 is the least the
settings allow, with a renewal interval of 1, in which a call fits exactly, and the
sandbox times out between two renewals. In the ledger two entries are a review and what
depends on it; two operators lose each other's. One package in two layouts meets both digests. Three releases give a step with a
migration and one without, in either direction. For the gate one key is enough: what
happens to other keys reaches it through `cache`, `forced` and `lock`, which the second
thread moves; a second key is more than TLC can search, and the theorems need no
bound. Five ticks hold a lifespan, a request and a cooldown.
`CHECK_DEADLOCK FALSE` stands where the bounds end the run: when all
`MaxSubmissions` are decided, and when all calls are answered.

Fairness. `run_worker` polls in an endless loop and systemd restarts it
(`ops/cobri-worker.service`), so polling and, for a process with a job, going on
with it are weakly fair. Evaluations end, which `EvaluationPipeline` looks into. Lease
expiry and back-off are the clock. Renewing and crashing are not
fair, and a crash does not disable its process for good. A client that polls is
weakly fair in `ViewFairSpec`. In `PipelineFairSpec` the event loop runs, the clock
goes on, and requests to providers and docker commands end; an answer that loops does
not end by fairness, only by its timeout. This excludes a provider that sends a byte
now and then for ever, for `httpx`'s timeouts are per read and the code has no
deadline of its own, and `WorkerReturns` excludes a process that is killed for ever. In
the browser, `fetch` settles and
timers fire, and a job is decided (`EveryJobIsDecided`); nothing the learner does is
fair, and `CheckingEnds` excludes one who reloads the page for ever. No strong fairness is used.

## Proofs

### The queue

`EvaluationJobsProofs` proves, for any number of jobs, workers and attempts:

* whatever the workers do: `TypeCorrect`, `AttemptsAreBounded`,
  `SucceededJobsHaveVerdicts`, `RunningJobsAreLeased`, `VerdictsAreKept`;
* under `Undisturbed`: `VerdictsMatchOutcomes`, `NoJobIsStranded`,
  `SuccessIsAnnouncedOnce`, `WritersAreOwners`, `OutcomesAreFinal`, and `Refinement`:
  the queue implements `JobLifecycle`.

They use the five assumptions named in `EvaluationJobs` (orphans are jobs, worker ids
are not the null owner, at least one attempt, the switch is a boolean, `NoJob` is not a
job).

The first group follows from `GInv`: types, bounded attempts, leases on running
rows, and that a worker about to commit either saw a verdict that is still there or has
an attempt number to write. None of it speaks of ownership, and so it survives
stalled workers. The second group needs to know that a read is still valid at the
write. `TInv` adds `HolderInv` (a worker with a job holds the attempt it claimed, or
is in `fail_job` after a lost acknowledgement, when the job has succeeded and cannot
be owned any more), `ExclusiveInv` (two workers never hold one job), and `SeenInv`
(what `finish_job` saw of the verdict is still so). `NoStrandedJob` and
`VerdictIffSucceeded` alone are not inductive: a `FailCommit` by a worker whose attempt
number is stale breaks the one, and by a worker whose job has succeeded the other;
`HolderInv` excludes both. Exclusiveness rests on `Undisturbed`: a claim takes a
running job only when its lease has expired, which it does under a live holder only if
holders may stall, and then there is nobody else to claim it. `Refinement` maps every
step to a step or a stutter of `JobLifecycle`, row by row.

With a poller added (part 4 of the module), `ErrorsMeanSuccess` follows from
`OutcomesAreFinal`'s step (`SuccessStays`), for a poll reads the status first.

### The worker process

`EvaluationPipelineProofs` proves `PipelineTypeCorrect`, `LeasesAreRenewed` and
`VerdictsAreTested` for any number of evaluations, any sandbox time and configuration,
from one assumption (`TimelyAssumption`): three calls to the database and a renewal
interval fit into a lease. `LeaseInv` says how much of the lease is left at each point
of `run_once`: a renewal counts the lease from its start, so that an interval may begin
with one call's time gone, end in a renewal that takes another and fails, and be
followed by `fail_job`, which takes a third. `LeaseIsLive` alone is not inductive.
`LeasesAreRenewed` is what `HolderMayStall = FALSE`, and so the second group of
theorems about the queue, rests on. `SandboxInv` carries the result of the tests
through fixture and providers to the verdict.

### Progression

`ProgressionProofs`, for any workers, lessons, misconceptions, sessions and limits:
`ProgressionTypeCorrect`, `MasteryNeedsATransfer`, `ChainsAreGrounded` and
`OffersAreAccepted`. The invariant `StudyIsSound` says that what is not an assessment
follows an evaluated submission of its session and lesson (`StudyInv`), that a
submission is evaluated by one worker (`WorkInv`), and that a decision about to be
committed was legal for the row that was *read* and its mastery earned
(`DecisionInv`): mastery is then earned also when another worker has overwritten that
row meanwhile. The lemma `MasteryFollows` shows which rule of `finish_job` can ever
credit mastery. With one worker (`OneWorker`) the row that was read is the row that
is written: `HistoryIsTrue` and `ProgressHolds`, by `HistoryInv`.

### Acceptance and deletion

`AcceptanceProofs`, for any calls, keys and payloads: `SubmissionsAreWhole`,
`KeysAreUsedOnce`, `CallsAreAnsweredTruly`, `AcceptedSubmissionsStay` and
`AcceptanceTypeCorrect`. The three tables agree until a deletion commits
(`TablesInv`), and at its commit each submission that stays has lost nothing
(`DeletionInv`): the statements run in an order in which the submissions come last,
and what they see only grows. `CallInv` is the loser of a key, who finds the winner
unless the learner has been deleted.

### The learner's page

`LearnerClientProofs`, for any lessons, texts and numbers of submissions, keys and
sessions. Whatever the learner does (`Spec`), `ClientTypeCorrect`: its invariant `TypeInv`
adds to the types that handlers, page and local storage name only submissions that exist
(`References`). For a settled learner (`SettledSpec`): `AttemptsAreSubmittedOnce`,
`AcceptedStaysRemembered`, `PageAndSubmissionAgree` and `CheckingIsWork`, from one
inductive invariant, `SettledInv`. Its two halves need each other:

* `DataInv`, what the service, the wire and local storage know. The service has one
  submission per session and key (`ServiceInv`); a request on its way has been accepted, or
  its key is still in local storage (`WireInv`), so that a late request is never a second
  submission; and `AcceptedIsRemembered`. Two submissions of a lesson that are not shown
  would both have the one remembered key, and so are one.
* `ViewInv`, what the page and its handlers do about it. Page and handlers are about one
  submission, which is remembered or was shown (`SubjectInv`): only so does `loadResult`
  remove the key of what it has loaded. What a handler closed over is still so when it
  goes on (`HandlerInv`); a follow-up item has a parent the service takes (`RouteInv`,
  `ResultInv`); and one handler or the timer is at work at a time, while the page is checking
  (`OneAtWork`). The error of the page says nothing of that, since a topic request may set or
  clear it at any time: only a learner who leaves the buttons alone while the page is checking
  has one thing at work.

### The gate

`RequestGateProofs`: `QuotaIsKept` for any callers, limit and window (the deque holds
every admission of the window, `DequeInv`); `AcceptedKeysAreRecent` and
`RefusedKeysAreYoung` for any threads, keys and times with a cooldown of at most a
lifespan. A cached set that is out of date for a key was stored at most a request
after the key changed (`CacheInv`), also when late answers overwrite younger ones; and
the last forced refresh is under way, has failed, or its answer or a younger one is in
the cache (`ForcedInv`).

### The host

`DeploymentProofs`: `SchemaIsSufficient`, `ServicesFollowLink`, `LinkStaysServed` and
`HostTypeCorrect`, for any releases and migrations. Every release the link, the
record, a service or the trap may name is covered by the schema (`SchemaInv`), which
only grows; a script that has not switched still knows where the link points
(`LinkInv`). A script that has moved the link is not settled up to its end, and comes to
its probe only by a restart that went through (`SettledInv`), so that what an earlier one
left behind is repaired before a later one reports success.

### The ledger

`ContentLifecycleProofs`, for any finite set of packages, any texts, operators and length
of the ledger: `ContentTypeCorrect`, `PublishedIsReviewed` and `ApprovedIsInLedger`. What a
command has read is written back whole, so that `WellPublished` must hold of the copies in
the hands of the commands as well as of the file (`Publications`), and then survives lost
entries, torn files and overlapping commands. An approval is in the ledger, as reviews of bytes that say the same, only when no command
overlaps another and the ledger can be read: there is one command then (`Alone`), which signs
what its entries cover, and no entry of a signed package is lost (`Covered`).

`LearnerGoesOn` (`LearnerIsNeverStuck`) is about the algorithm of `validate`: when the search
reports no cycle, each set of packages has one that needs none of the set
(`SearchFindsCycles`), and what a learner has yet to master is such a set. Nothing is assumed
of `Visit`. `SearchExists` shows that its recursion has a solution, because each call leaves
fewer packages to enter; `SearchContinues` that the solution keeps visited packages closed
under their prerequisites, well-founded, and apart from those being visited, until it
reports a cycle (`Sound`). `SearchIsExact` adds that it reports none where there is none,
because the packages being visited are linked up to the one visited next (`Linked`): `Cyclic`
agrees with its reference definition for any finite set of packages. The library's
induction theorems cannot be applied to the loop and to the recursion; `SmallestSet`, that
of some finite sets one contains no other, is instantiated with the set of
counterexamples instead (`Induction`, `FoldEndsIn`).

### What is only model-checked

Liveness (`EveryJobIsDecided`, `OutcomeIsShown`, `WorkerReturns`, `EvaluationsEnd`,
`CheckingEnds`) is out of the provers' reach. Every other property of the passing runs is a
theorem.

## What the models show about the code

* A poll may be answered with a server error although nothing is wrong, when
  `finish_job` commits between the two reads (`persistence/repositories.py:783`,
  `assessments/contracts.py:88`); the next poll succeeds (`ErrorMeansSucceeded`).
* Repeating an item with a worse result after having become `transfer_ready` loses the
  verdict, and the learner is told that evaluation is unavailable
  (`progress_lost_verdict`).
* With more than one worker process: give each process a worker id of its own, and make
  `finish_job` and `fail_job` lock the row or test ownership when they write. Without
  that a stalled worker can strand a job (`jobs_stranded`), and, in the same
  instance with the other properties of `jobs_timely`, leave a failed job with an
  evaluation, change a decided outcome or announce success twice.
* With two workers `ProgressNeverRegresses` fails too: of two finishes on one item
  the later commit overwrites the earlier. This is why it is checked for one worker.
* `delete_learner` leaves rows behind if the learner is active, against "retention until
  explicit deletion" (`docs/governance.md:23`): `NothingOutlivesDeletion` fails with a
  single call that is accepted while the deletion runs. No submission row is left
  without its job and key (`SubmissionIsWhole`), but jobs, events, keys and evaluations
  may be left without their submission; `ClaimOrphan` shows that the worker disposes of
  such a job.
* `GET next` answers with a server error whenever the lesson's item is passed in a lesson
  without a transfer (`assessments/router.py:177`). The package model allows such a lesson,
  `validate` demands a transfer of one package only, and
  `content-packages/python-functions/1.0.0` is a reviewed package of such a lesson; its learners see "Try
  again" for good. `OfferedStepIsAccepted` names the case.
* `RETRY_SUBMITTED` can never be recorded: it needs an assessment with a parent, which
  `SubmissionCreate` refuses.
* The mastery rule for a transfer after a practice needs the practice's parent to be
  of the practice's own item and an assessment, which no accepted submission is; mastery
  is earned only by a transfer directly after the passed assessment (the lemma
  `MasteryFollows`), and not after a repeated transfer, although `GET next` answers
  "complete" in both cases.
* The page is left checking, its submit button disabled, when another lesson is opened
  while a submission is evaluated (`App.tsx:198`), although errors are to be
  "visible and recoverable" (`docs/day2-plan.md:49`): run `client_settled` with `Leave` in
  place of `Quiet /\ Leave`. `checking` should be reset with the
  rest, and `loadResult` should find out whether the page is still the one it was called
  for: an answer under way is otherwise shown in the next lesson, whose pending key it
  may remove (`PageIsOfOneSubmission`, `AcceptedIsRemembered`, and then
  `AttemptIsSubmittedOnce`, are violated by `SettledNext \/ Leave`). Switching the
  interface language restarts the pending request and has the same consequences.
* After a reload the drawer opens beside the result of the submission that was pending.
  If the learner submits a new answer there, the answer to it is lost, and "Try again"
  is pressed, the *old* result is loaded and the key of the *new* submission removed: it has
  been accepted, and the learner never learns of it. The run is `client_settled` without
  `page.submission = 0` in `SettledNext`, where `AcceptedIsRemembered` fails.
* `discover` and the submission share one error (`App.tsx:280`, `App.tsx:285`). A topic
  request that fails while a poll is under way offers "Try again", which calls `loadResult`
  beside the poll without looking whether anything is checking. The later of the two
  answers comes when the learner may have gone on and submitted the next attempt: it shows the
  old next step beside the new submission and removes the key the new one has just written
  down. The run is `client_settled` with `Click` in place of `~page.checking /\ Click`:
  `PageIsOfOneSubmission` and `AcceptedIsRemembered` fail, and, with three submissions and
  three keys, `AttemptIsSubmittedOnce` after a reload. `discover` also clears an error that
  a failed poll has set, and with it the button: the page is left with neither a result
  nor, unless a topic request fails, a way on but a reload.
* The link of the lesson at hand clears session and parent, but not the current practice,
  which is then refused until a reload (`PageIsOfOneSubmission` with `FollowOwnLink`), and
  has a pending key sent in a new session, as a second submission
  (`AttemptIsSubmittedOnce`).
* A container runs for ever when the worker stops, or `docker rm` fails, while an
  answer that loops is in it, whatever `docs/day1-contracts.md:58` says of "timeout ...
  and forced cleanup": `ContainersAreEphemeral` fails in the instance of
  `pipeline_attempts` after one crash. `promote.sh` restarts the worker at each
  promotion. A time limit inside the container, or removing containers by a label at
  start, would end it.
* A renewal that raises should cancel the evaluation as a refused one does: until it ends
  the abandoned evaluation uses the sandbox and the provider beside the retry.
* The two digests of a package disagree on what a change is. A `package.json` that is
  reformatted after its approval keeps it (`_review_approved`), while the ledger has no review of
  its bytes any more: if it is a draft, the catalog drops it, and it cannot be published. With
  `Recorded(ledger, p, file[p])` in its conclusion `ApprovalIsInLedger` fails in `content_ledger`
  by one approval and one such edit.
* The ledger should be written to a new file and renamed: two operators lose entries,
  and a command that dies while it writes leaves a file no later command can read.
  `validate` raises `UnboundLocalError` where it should report that a reviewed package
  depends on a draft (`content/lifecycle.py:122` uses `package_path` before it is set),
  and the review command, which validates before it records, lets a package be reviewed
  before its prerequisite; after that every command fails. `supersede` and `rollback`
  are always refused, because `main` has no option for the predecessor they need.
* A first promotion that fails after the switch leaves `/opt/cobri/current` pointing at
  itself and reports success in restoring: `readlink -f` of a missing link is the link's
  own path, and the trap's test follows the link (`ops/promote.sh:18-23`). A promotion
  succeeds with a dead worker, since only the API is asked.
* `rollback_on_error` reports "restored" also when its restart failed
  (`ops/promote.sh:24`, `|| true`): API and worker may then run the release whose promotion
  failed while the link names the old one, until somebody restarts them. The same is left
  by `rollback.sh` when its restart fails (`:10`), for `set -e` ends it with the link moved;
  and a signal between `ln` and `switched=1` (`ops/promote.sh:39-40`) leaves the link on the
  new release with the old one running, because the trap finds nothing to restore. This is why
  `ServicesAgree` is about scripts that succeed. `switched=1` belongs before the `ln`.
* `rollback.sh` ignores the release it is given (`docs/preview-deployment.md:91`), does nothing when repeated, and
  has no trap. The archive of the release workflow lacks the `alembic.ini` that
  `promote.sh:37` names; the model takes an archive that has it.
* A forced refresh that fails starts the cooldown all the same, and on a host that has
  just booted `_last_forced_refresh = 0.0` counts as a refresh; both are within the
  bound of `RefusedKeyIsYoung`.

## Not modelled

* Topic matching, the fixture's comparison of texts, wording of prompts: text, of which
  the models keep the outcome. Retrieval: similarity of floating-point vectors.
* Web quarantine: filtering of network input, with one idempotent insert.
* Readiness: a heartbeat written once per poll, compared with 60 seconds; a matter of
  durations. A long evaluation makes the probe report the worker missing.
* Migrations: schema changes. Offline evaluation: batch arithmetic over reports (its
  approval is in `ContentLifecycle`).
* Listing and exporting: reads.
* `supersede` and `rollback` of the ledger: the command line refuses both, see above.
* Claims of tokens, CORS, size limits: libraries and wiring.

What could follow: selection of a package version in `content/catalog.py` as an operator
against a reference definition.
