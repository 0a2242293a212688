# Ranabhum: specifications, model checking and proofs

Ranabhum benchmarks order matching engines: a contestant uploads an archive,
the sandbox engine builds and runs it in a container, the bot-fleet coordinator
fires orders at it for a minute, and the telemetry services store the metrics of
the orders, score the run and show a leaderboard.  The modules in this directory
model the parts of that pipeline in which steps of several actors meet, TLC checks
them on small instances, and TLAPS proves the theorems that hold for every size.

## The system

| component | source | state | operations |
|---|---|---|---|
| sandbox engine, API | `sandbox-engine/api/routes.go` | `proxyCache`, one goroutine per deployment, the requests in flight | submit, get, list, stop a submission, delete a container, proxy an order |
| sandbox engine, runner | `sandbox-engine/docker/runner.go` | `portOffset`; the containers of the Docker daemon | deploy (extract, build, port, run), stop, clean up at start |
| sandbox engine, store | `sandbox-engine/store/storage.go` | `submissions`, in memory only | save, get, `UpdateStatus`, `UpdateEndpoint` |
| sandbox engine, publisher | `sandbox-engine/publisher/publisher.go` | topic `submission.ready` | publish |
| coordinator | `botfleet/cmd/coordinator/main.go`, `botfleet/internal/consumer`, `botfleet/internal/state` | the run document `run:<id>` in Redis, the group's offset | certify, set the run, run the bots, delete the submission, finish the run, cool down |
| bot | `botfleet/internal/bot` | a ticker, a semaphore of 100, the orders in flight | fire an order, judge the fill, publish the metric |
| telemetry consumer | `telemetry/app/consumer/kafka_consumer.py` | `batch_buffer`, `run_last_seen`, `run_score_tasks`, the asyncio tasks | buffer, flush, schedule, cancel, score |
| scoring | `telemetry/app/scoring/engine.py` | table `order_metrics` | one query and some arithmetic |
| leaderboard store | `telemetry/app/db/redis_store.py` | sorted set `leaderboard`, documents `scores:<team>` | update, read |
| telemetry API and frontend | `telemetry/app/main.py`, `telemetry/frontend/src/App.tsx` | `connected_clients`; the list in the browser | broadcast, fetch, merge |
| sample submissions | `tests/` | an order book | match |

How the parts interact:

```
 client --HTTP--> sandbox engine --docker CLI--> containers
                     |  ^   ^
   submission.ready  |  |   +--- DELETE /submissions/:id ---+
                     v  +------- orders of bots ----------- |
                  coordinator --- certification, bots ------+
                     |    \
      run:<id> (Redis)     bot.metrics
                     |         |
                     v         v
                  telemetry consumer --> order_metrics (TimescaleDB)
                     |         \
        leaderboard, scores:<team> (Redis)   POST /broadcast
                     |                          |
                     +----> telemetry API <-----+ --websocket--> browser
```

What is hard in it, and hard to test:

- **Interleavings.**  A deployment runs in a goroutine next to any number of
  DELETE and order requests, with a lock around each store access and none around
  two of them.  Score tasks of several runs share one buffer, and a Redis
  read-check-write of two keys is spread over three awaits.
- **Cancellation.**  Every message cancels the score task of its run at whatever
  await it has reached; inserts are shielded and go on without their task.
- **Crashes and restarts.**  The engine's store is in memory while containers and
  events outlive it.  The consumer's offsets are committed in the background while
  rows and score tasks are in memory.  The coordinator commits after the handler.
- **Time.**  A run ends when nothing was heard of it for 5 s; orders outlive the
  bot that fired them by up to the 5 s timeout of the client; the next submission
  is tested after a pause of 30 s.
- **Partial failure.**  docker stop without docker rm, a failed insert, a status
  written with a cancelled context, an event that cannot be published, an archive
  that is cut short, a DELETE whose answer nobody reads.
- **Shared lists and books.**  The broadcast walks over a list of websockets that
  other handlers change; the passes of a certification share one order book.

What makes each component correct is stated in the sections below, and
`PROJECT.json` lists under `hazards` the lines at which it could go wrong, with the
property that shows it or the reason there is none.

## Modules

| module | extends or instantiates | what it is |
|---|---|---|
| `AllTimeHigh` | | abstract: a team's entry is absent and then only grows |
| `Leaderboard` | instantiates `AllTimeHigh` | `update_leaderboard`, one action per Redis command |
| `MetricsConsumer` | instantiates `Leaderboard` | the telemetry consumer, composed with `update_leaderboard` |
| `LiveBoard` | extends `Leaderboard` | the way of a score from Redis to a browser: `get_leaderboard`, the telemetry API, the page |
| `SubmissionLifecycle` | | abstract: the statuses a client may see of a submission |
| `SandboxEngine` | instantiates `SubmissionLifecycle` | handlers, deployment, store, proxy cache, containers |
| `Deployment` | extends `SandboxEngine` | a deployment in detail: upload, build directory, image |
| `Coordinator` | | consumer loop, handler, bots, run documents |
| `Benchmark` | extends `SandboxEngine`, instantiates `Coordinator` | the two processes together, with the topic and the DELETE request between them |
| `OrderBook` | | the Go order book as functions, and what an order is owed, without sorting or loops |
| `LoadTest` | extends `OrderBook` | certification and one bot against a container |
| `MCMetricsConsumer`, `MCLiveBoard`, `MCSandboxEngine`, `MCDeployment`, `MCCoordinator`, `MCBenchmark`, `MCLoadTest` | extend the models | the finite sets the configurations use |
| `LeaderboardProofs`, `LiveBoardProofs`, `MetricsConsumerProofs`, `SandboxProofs`, `DeploymentProofs`, `CoordinatorProofs`, `BenchmarkProofs`, `LoadTestProofs` | extend the models and `TLAPS` | theorems and proofs |

How they fit together:

```
 AllTimeHigh <-- Leaderboard <-- MetricsConsumer        OrderBook <-- LoadTest
                      ^
                      +--------- LiveBoard

 SubmissionLifecycle <-- SandboxEngine <-- Deployment
                              ^
                              +------------ Benchmark --> Coordinator
```

Definitions whose comment begins with "mutant:" are no part of a specification:
each is a plausible mistake in the code next to it, and the property named with
it in `PROJECT.json` fails if it takes the place of the definition.

### Leaderboard

`leaderboard` is the sorted set, `details` the documents `scores:<team>`, and
`update[r]` is the program counter and the argument of the call for run `r`.
`Begin`, `ZScore`, `ZAdd` and `SetDetail` are the stretches between awaits of
`update_leaderboard` (`redis_store.py` 5-25); the comparison belongs to `ZScore`,
because it runs as soon as the reply is there, and what it allowed is done later
whatever the entry has become.  `Abort(R)` is a cancellation, a Redis error or the
end of the process.  Scores are any naturals: the policy only compares them.

`Spec` lets the calls of one team overlap.  `SerialSpec` does not, which is how
things go as long as the consumer keeps up: the coordinator tests one submission
at a time and pauses for 30 s.  A consumer that has to catch up reads the metrics
of several runs in a burst, and then their tasks wake at the same time.

### MetricsConsumer

One process, and an action is what runs between two awaits of it.  `log` is the
topic `bot.metrics`, a message is its offset and `log[o]` its run;
`position`, `committed` are offsets of the group; `batch_buffer`,
`run_score_tasks` are the variables of that name, `silence` is the time since
`run_last_seen`; `inserts[w]` is the batch that writer `w` (the loop, or the task
created by message `w`) has on its way; `order_metrics` counts the rows of each
message.  History only: `failed` (rows whose insert raised), `scored` (the
messages a score counted), `restarts` and `failures` (bounds).

| action | code (`kafka_consumer.py`) |
|---|---|
| `Receive`, `Resume` | the body of the loop, cut at `await flush_batch` (165-195); `Register` is 185-195 |
| `AutoCommit` | the background commit of aiokafka (145-151, `enable_auto_commit` is its default) |
| `EndLoop`, `InterruptFlush`, `Stop`, `Exit` | the loop ends while it waits for a message or for a flush: `except`, `finally`, the end of `asyncio.run` (182-210) |
| `InsertDone`, `InsertFail` | `_do_insert` (34-49), one transaction per batch |
| `Wake`, `FlushDone`, `Compute`, `Publishing` | `score_after_delay` (53-84), cut at its awaits; `Publishing` takes the steps of `Leaderboard` |
| `TaskFails` | the query or a Redis command raises in a task |
| `Tick` | one unit of time for all sleeps and silences |
| `Crash`, `Restart` | a kill, and a new process at the committed offset |

### LiveBoard

`Leaderboard`, with a team's runs one after the other (`SerialSpec`), extended by
who reads it and by what follows an update.  `posting` is the request POST
`/broadcast` for which the consumer's event loop is blocked; `pushes[n]` is the
`n`-th such request: the index of the loop in `broadcast_score`, its `dead_clients`;
`connected_clients` is the list of that name, `socket[c]` what the handler of `c`
knows of it; `inbox[c]`, `page[c]` and `shown[c]` are the page's unread messages,
its first request and its rows.  History only: `owed` and `removals` in a push
(the clients listed when its loop began and not reached yet; those removed from
the list since), and `missed[c]` (the teams whose document the page was not sent,
or has replaced).

| action | code |
|---|---|
| `BeginUpdate`, `UpdateStep`, `UpdateEnds`, `ConsumerDies` | `score_after_delay` from line 65 on; the POST is part of the last step, because `urlopen` is called without an await |
| `Serve`, `Send`, `Finish`, `NotServed` | `broadcast_score`, `main.py` 51-68: before the loop, one turn of it (the list is read by index at each turn), what comes after it; a request that does not arrive |
| `Accept`, `Disconnect`, `ReceiveRaises`, `Leave` | `websocket_leaderboard`, 70-78, and a client that goes; a handler that ends with any other exception than `WebSocketDisconnect` leaves its client in the list |
| `LoadRanks`, `LoadDetail` | `get_leaderboard`, `redis_store.py` 27-40: the ranks (teams of one score in any order), then one document after the other |
| `ShowAnswer`, `OnMessage` | `App.tsx` 26-31 and 36-42 |

The page keeps one row per submission and sorts what it shows, so a page is a
function of the submission.

### SandboxEngine

`submissions`, `proxyCache`, `portOffset` are the variables of that name;
`deploy[s]` is where the goroutine of submission `s` stands and `port[s]` the port
it was given; `containers[s]` is what Docker holds for it, and `adrift` are the
submissions whose `docker run` was on its way when the engine died; `deleters` and
`orders` are requests in flight; `ready` is the topic `submission.ready`.  A submission has a
fresh uuid and is deployed once, so its container is named by the submission.

| action | code |
|---|---|
| `Submit`, `SetCompiling` ... `ClearEndpoint` | `handleSubmit` and its goroutine, `routes.go` 101-198, with `DeploySubmission`, `runner.go` 68-166 |
| `StopSubmission`, `DeleteContainer`, `EvictProxy`, `DockerStop`, `DockerRm`, `DockerFails`, `SetCompleted` | the two DELETE routes, `routes.go` 219-258, with `StopContainer`, `runner.go` 168-181 |
| `ReadEndpoint`, `GetOrCreateProxy`, `Serve` | `handleProxyOrder`, `routes.go` 260-275, with `getOrCreateProxy` 47-87 |
| `ContainerExits` | a contestant's program that ends |
| `Crash`, `Start` | the engine's process; `Start` is `CleanupManagedContainers`, `runner.go` 40-56 |
| `RunLate` | a `docker run` that outlived its engine (`runner.go` 157: no context) has its effect, before the next cleanup or after it |

The archive, the image and their cleanup are inside `Build` and `BuildFails`; they
are `Deployment`'s.

### Deployment

`uploads[s]` is the file that `SaveSubmission` writes: whole, cut, or cut only behind
the end mark of the archive, where the tar reader does not look (`trimmed`); `scratch[s]` the directory the
archive is extracted to, `images` the image store, and `stage[s]` is where
`DeploySubmission` stands.  Each action conjoins the step of `SandboxEngine` that it
is part of: `Save` is `Submit`, `TakePort` is `Build`, `RunImage` is `RunContainer` or
`RunFails`, `ExtractFails` and `RemoveScratch` are `BuildFails` when the deployment
failed, `Return` is what `handleSubmit` does after `DeploySubmission` returned.

| action | code |
|---|---|
| `Save`, `SaveFails` | `SaveSubmission`, `storage.go`: a read error ends the copy as its end does |
| `Extract`, `ExtractFails` | `extractZip`, `extractTarGz` and their callers, `runner.go` |
| `CopyDockerfile`, `BuildImage`, `BuildImageFails`, `TakePort`, `RunImage`, `RemoveImage`, `RemoveScratch` | `DeploySubmission`, `runner.go` 68-166, with the deferred `RemoveAll` and the two calls of `removeImage` |
| `Die` | a crash: files and images stay, and a `docker build` or `rmi` on its way may still have its effect |

### Coordinator

`position`, `committed` are offsets in `submission.ready`; `pc` is where the loop and
the handler stand; `status[r]` is the document `run:<id>`; `inflight` is the set of
orders whose goroutine waits for an answer, each with its slot of the semaphore
and the time that is left of the client's timeout; `remaining` is what is left of
the pause.  A run is named by the life of the process and the offset of its event.
History only: `finished`, `errored` (how the handler of a run returned).

| action | code |
|---|---|
| `Fetch`, `FetchCancelled`, `Commit`, `CommitFails` | `SubmissionConsumer.Run`, `submission.go` 40-72 |
| `Certify`, `SetRun`, `SetRunFails`, `BotsReturned`, `Delete`, `Judge`, `UpdateStatus`, `UpdateStatusFails`, `CooldownOver` | the handler, `main.go` 49-144, with `redis.go` 30-62 |
| `Fire`, `BotReturns`, `Answer` | `bot.Run` and `fireOrder`, `bot/runner.go` 37-180, with `publisher/metrics.go` |
| `Tick`, `Cancel`, `Crash`, `Restart` | time, SIGTERM, a kill, a new process |

### Benchmark

`SandboxEngine` and `Coordinator` with what lies between them: `topic` says which
submission each event of `Coordinator` is of, `request` is the DELETE request that
the coordinator waits for.  `undeleted` (submissions whose DELETE or its answer was
lost) is history, `crashes` a bound.

| action | joint step |
|---|---|
| `EngineAlone`, `CoordinatorAlone` | one process goes on; the other is unchanged |
| `Announce` | `Publish` of the engine, when the event is written, is `Publish` of the coordinator's topic |
| `DeleteArrives` | `StopSubmission` with the id of the event under test; the coordinator waits |
| `DeleteAnswered`, `DeleteRefused`, `DeleteLost` | `Delete` of the coordinator: the handler has finished (500 included) or its process has; 404, 400 or a refused connection; a lost request |

A request that was sent is served though the coordinator dies, and an engine
that dies drops every request it serves.

### OrderBook and LoadTest

`OrderBook.ProcessOrder` is the function of that name
(`tests/go_orderbook_submission/main.go` 48-185): sort the other side by price and
time (`Sorted`), take from it in a loop (`Loop` is the function of its turns, `Take`
one turn), rest what is left of a limit order.  An order is appended when it comes
and sorting keeps the orders of one price as they are, so that a place in the slice
stands for the timestamp.  `Reached` and `Quantity` say what an order is owed with
sets only.

`LoadTest` sends it `runCertification` and then one bot, whose coordinator or
worker binary it is.  `book` is the container's, `late` are the orders nobody waits
for that the container may still handle; `cert` is the state of the
certification; `now` counts periods of the bot's ticker, `tick` is the time in the
ticker's channel (which holds one), `inflight` are the orders of `fireOrder`
goroutines with the time that is left of the client's timeout.  `disturbed` counts
what can spoil a certification: a book used by an earlier run of the same event,
an order of the certification that is not answered in time.

| action | code |
|---|---|
| `SendBuy`, `SweepAnswered`, `SweepUnanswered`, `Start` | `runCertification` and what follows it, `coordinator/main.go` 58-104, 153-216 |
| `TakeTick`, `Fire`, `Cancel` | `bot.Run`, `bot/runner.go` 37-81; the deadline is compared with the time of the tick |
| `Answered`, `TimedOut` | `fireOrder` 84-180; `Judge` is `fillCorrect` |
| `LateHandled` | the container handles an order after its client has given up |
| `WorkerEnds`, `TimePasses` | `worker/main.go` 45-52; the ticker and the clock |

## Runs

Passing runs:

| run | question | instance |
|---|---|---|
| `consumer_safety` | Are rows accounted for, is there one scorer per run, is a run silent from the flush before its score until its score is in Redis? | two runs of one team, three messages, batches of two, a slow and a failing insert, one exit or kill and a restart |
| `consumer_scores` | Is every run scored and every row stored if nothing fails, and does the score of a single run count all rows? | two runs of two teams, four messages, batches of two, so that the last rows never fill one; a delay of two units |
| `live_board` | Is Redis the all-time-high policy while others read it and the consumer waits for the API? Does the loop over the clients skip no more of them than were removed? Does a page come to show what is in Redis, or for a stated reason does not? Can the consumer always go on? | two runs of one team and one of another, scores 1 and 2, a page and another client, of which each may go and the other's handler may raise, the best entry is read, two broadcasts |
| `sandbox_safety` | Do status, record and event tell the truth, and do orders reach their own container? | two submissions, two DELETE requests, an order, docker commands that fail, containers that die, any number of crashes |
| `sandbox_deploys` | Does the engine own what runs, what does a deployment leave on the disk, do all writers of a status follow the lifecycle, does every deployment end? | `Deployment` with two submissions, one DELETE request, any number of crashes; stop and rm fail only for a reason |
| `coordinator_events` | Are events handled once looked at, do metrics belong to a run, does a run start quiet, is a run DONE exactly when it was tested to its end, is every event handled if its DELETE, and each before it, is answered? | two events, one of which may be unreadable, two bots with one slot each, a signal or a kill, a restart, two failing calls |
| `benchmark` | Is the container of a submission gone when its test has ended, and is every container reclaimed in the end? | two submissions, one DELETE at a time, each process dies once at any moment and is started again, docker and Redis do not fail |
| `load_test` | Does a correct order book get its full certification and only correct fills, and do its orders and the bot itself end in time? | three buys and a sweep in each of two passes, then a bot with three ticks, two slots and a timeout of three periods; prices 1 and 2 and the certification's; one disturbance |

The bounds are small and reach the cases that matter.

- `consumer_safety`: three messages with batches of two give a batch that is full,
  one that is not, and a message that arrives while another is inserted; one
  restart gives a redelivery.
- `live_board`: with two runs a team's document is beaten, tied and missed, with a
  second team an entry can be out of the first `Top`; with two clients one can be
  skipped because the one before it was removed; with two broadcasts the loops of
  two overlap (the consumer dies, its request is still being served) and remove
  the same client twice.  The two runs of one team are interchangeable, hence the
  symmetry.
- The engine: a submission is deployed once and the state space is finite
  without a bound, so that two submissions can compete for ports over any number
  of lives of the engine.
- `coordinator_events`: a second event is what a commit can pass, and a pause of 2
  with a timeout of 1 is the smallest instance of the relation that matters (30 and
  5 in the code).  One slot per bot is enough for orders that outlive their bot.
- `benchmark`: bots and orders are left out, for the DELETE and the container do
  not depend on them; failures of Redis are left out because the property names
  what they cause as an exception.  One crash of each process, at any two moments,
  gives an event that is handled again before, during and after its DELETE, in the
  same life of the engine and in the next.  `BenchmarkProofs` does without bounds.
- `load_test`: a timeout of as many periods as the run has ticks makes the bot wait
  for a slot across its deadline and take an old tick after it, which is the only
  way to be late; two passes are what one pass can spoil for another.

TLC finds an error in each of these runs for every mutant listed with it.  Deadlock
is checked in none but `sandbox_deploys` and `sandbox_safety`: everywhere else the
bounds end the behaviours.

Time is discrete, and nothing happens at a time of its own choosing that the
code does not make happen: in `MetricsConsumer` a timer that ran out may wait, so
that every order of wake-ups and messages is there; in `Coordinator` and `LoadTest`
an order does not outlive the timeout of its client, and a bot does not sleep while
it can do something.

Runs that end in a violation, each of one sentence of the repository:

| run | what the repository says | what happens |
|---|---|---|
| `consumer_same_team` | `ARCHITECTURE.md:48`, a "strict All-Time High policy" | two runs of a team are scored at the same time, both read the old entry, and the lower score is written last |
| `sandbox_orphans` | `runner.go:38`, cleanup "removes any orphaned sandbox containers" | `docker ps -q` lists running containers only; others stay |
| `sandbox_proxy_poisoned` | `routes.go:25`, a cache of connections to the container | an order before `UpdateEndpoint` caches a proxy to an empty URL, and every later order gets 502 |
| `coordinator_retry` | `submission.go:66`, "Don't commit - retry on restart" | the commit of the next event passes the failed one |

Seen while modelling, and kept in the models, in `hazards` or here rather than in a
run of its own:

- Consumer: a consumer that is killed during the silence of a run, after its
  offsets were committed, never scores that run, though the comment at
  `kafka_consumer.py:192` says the score task "will fire 5s after last message".
  `consumer_scores` states its third property for one run in flight because with
  two a task that finds the buffer empty does not wait for the insert of another
  task that holds its rows.  A message that waits for a full batch has not yet
  refreshed `run_last_seen` (`kafka_consumer.py:183`), so that the task of the
  message before it can still score the run.  Two runs of one team overlap only
  when the consumer has to catch up, after a kill for instance.
- Browser: a run that is scored again is pushed again with its new score, and the
  page replaces the row even by a lower score, while Redis keeps the higher one;
  the answer of the first fetch replaces everything that was pushed before it; the
  websocket is not opened again when it closes.  A client that is behind a removed
  one in the list is skipped by a broadcast on its way, and a client that two
  broadcasts found dead is removed twice, which raises and leaves the rest of the
  second list in place (`main.py:66`).  The exceptions of `PageShowsBest` are these.
- Engine: an order that read the endpoint before a DELETE caches its proxy after
  the eviction (`routes.go:85`, against `ARCHITECTURE.md:113`); the event names the
  port of the container, not of the engine, so that bots do not go through the
  proxy (`routes.go:179`, against `ARCHITECTURE.md:106`); events of an earlier life
  of the engine name ports it hands out again.
  A `docker run` is started without a context and outlives its engine: if its
  container comes up after the next engine's cleanup, it runs until somebody stops
  it by hand or the engine starts once more, on a port that the next engine may hand out.  `NoOrphans` fails for it
  as it does for the exited containers of `sandbox_orphans`, and `RunningIsOwned` names
  it as its exception.
- Deployment: uploads are never removed, nor is the image of a deployment that
  succeeded; the directory of an archive that could not be extracted stays;
  errors of `io.Copy` in the extraction are dropped (`runner.go:232`, `275`), so that
  a container can be built of a file that was not written to its end; and a
  `.tar.gz` whose upload broke off behind the two zero blocks that end an archive is
  extracted without an error.
- Coordinator: FAILED is never recorded in a run document, for it is written with
  the context whose cancellation it reports (`main.go:132`), and the document stays
  RUNNING until it expires; the DELETE is sent by the default client, without context or timeout,
  and is never repeated: an engine that does not answer holds the whole fleet;
  the comment and the log line at `main.go:135` and
  `137` say 10 seconds where the code waits 30.
- Bot: the comment at `bot/runner.go:144` says that a fill "cannot fill more than was
  requested", while the code compares it with the quantity the answer itself calls
  expected; `log.Fatalf` in the worker is not reached, since `Run` returns an error
  of a cancelled context only.
- Certification: a buy that is answered late rests in the book and is matched by the
  sweep of the next pass, so that one slow answer can fail every pass after it
  (the exception of `CertifiedInFull`).

## Fairness

Safety runs use a specification without fairness.  Where liveness is checked, weak
fairness is added of what a scheduler, a clock or a timeout makes happen:

- `MetricsConsumer`: the event loop runs every ready task (`Receive`, `Resume`,
  `Stop`, `Exit`, the steps of each score task), the database answers
  (`InsertDone`), time passes (`Tick`), and a dead process is restarted (the k8s
  Deployments restart it).  Publishing, background commits, failures and kills are not
  fair.
- `SandboxEngine` and `Deployment`: the goroutine of a deployment goes on; the build
  has a timeout of 300 s, and that the other docker commands and the Kafka writer
  return is assumed.  Which of success and failure comes is open.  Requests, crashes,
  starts and a `docker run` that outlived its engine are not fair.
- `Coordinator`: the loop and the handler go on (the orders have a timeout of 5 s, Redis
  and Kafka answer or fail), bots end by their deadline, an order ends by its timeout,
  time passes, a dead process is restarted.  The return of the DELETE is not fair: it
  has neither a context nor a timeout (`main.go` 117-119).  `EveryEventHandled` says
  instead what it is worth, for every event: if the handler does not stay in a DELETE
  for ever, the event is handled or the process ends.  Signals, kills and new events
  are not fair.
- `Benchmark`: deployments go on, a DELETE handler goes on, a dead process is started
  again (both are Deployments of Kubernetes), the coordinator's loop goes on, and its
  DELETE ends once it was answered, refused or lost.  That the engine's handler ends,
  and so answers, follows from its own steps; that `docker stop` and `docker rm`
  return, and that the coordinator notices a lost connection, are assumptions.
- `LoadTest`: the certification and the bot go on, time passes, the client gives up.
  That the container answers is not assumed.

`LiveBoard` has no fairness: a client of the websocket may stop reading for as long as
it likes.  `BlockedIsServed` says instead that the API is always able to go on.  No action has strong fairness.

## Proofs

All theorems hold for every value of the constants that satisfies the named
assumptions; TLC evaluates those on every run.  Each safety theorem is proved from
an inductive invariant in the three usual facts, with one lemma or step per action.

**Leaderboard** (`LeaderboardProofs`; assumes `TeamOfAssumption`,
`ScoresAssumption`).  `DetailHasRank` is not inductive: a call waiting for SET must
know that the ZADD it did is still there (`ZAddDone`).  `DetailNeverAhead` and
`ImplementsAllTimeHigh` hold for `SerialSpec`; their invariant adds that at most one
call of a team is on its way (`OneAtATime`) and that the comparison a call made is
still true when it acts on it (`AnswerStillTrue`): exactly what overlapping runs
break.

**LiveBoard** (`LiveBoardProofs`; assumes `LiveAssumption` too: the clients are
finitely many).  Every step of consumer, API and browser is a step of `SerialNext` or
leaves Redis and the calls alone (`ConsumerSteps`, `ReadersOnly`), so `LiveSpec`
implies `SerialSpec`; the two theorems about the serial store then hold for any number
of pages and clients.  `LiveTypes` rests on `LiveInv`, that the list of the API names
no client twice and none whose handler knows that it is gone (`ListOK`; one whose
handler raised stays until a send to it fails), and where a broadcast
and a page can stand (`PushOK`, `PagesOK`).  Two invariants follow a score on its way:

- `PageInv`, for `PageShowsBest`: every document that a page is not excused for reaches
  it (`Reaches`) - the page shows it, or it is in its inbox or in a broadcast that still
  owes it to the page (`OnItsWay`), or in the answer that is being read for the page
  (`BeingRead`).  Each step of consumer, API and page moves a document from
  one of these to the next, and whatever drops one is recorded in `missed`.
- `SkipInv`, for `SkipsNeedRemovals`: a removal under the loop hides at most one more of
  the clients that are owed (`HiddenByRemoval` counts them), because the list names a
  client once and the loop goes by index.

`BlockedCanGoOn` says of a blocked consumer that its request is not over and that the
loop never stands before a client that it could not send to nor fail to: the guard of one of `Serve`,
`Send` and `Finish` holds, which is what is behind `BlockedIsServed`.

**MetricsConsumer** (`MetricsConsumerProofs`; assumes `BoundsAssumption`).
`NewestScorer` says something only while the loop polls.  The invariant
(`ScorerInv`) is about all times: a live task is the registered one; a newer message
than its own is the one the loop holds while it awaits a flush; and what a task has
left to sleep and the silence of its run make up the delay (`Timers`), which gives
`StaleCheckNeverFires`, and for a task past its sleep `ScoredInSilence`.  The
consumer touches Redis through the steps of `Leaderboard` only; that it implements
`Leaderboard` (`ConsumerImplementsLeaderboard`) holds by this composition and is a lemma, with
which the theorems of `LeaderboardProofs` hold of the consumer:
`ConsumerListsItsDocuments` without a condition, and `ConsumerKeepsAllTimeHigh` as long
as no two runs of one team are at Redis at once (`NoOverlap`).  That is the condition
`consumer_same_team` breaks.  The rows (`RowInv`) are in one place each (`Apart`), a writer has one insert
at a time (`WriterFree`), and a row that is still in memory or still to be read was
not written in this life (`WrittenOnce`); `RowsAccountedFor` follows.
`FinalScoreCounts` is proved for `~SlowInserts`: otherwise a task may wake while an
insert of the loop still holds rows of its run.  While every message of a life is of one
run the only live task is that of the newest (`OnlyNewestLives`); from the first tick of
its sleep on no insert is on its way but the one it starts itself, which takes the whole
buffer (`FinalInv`), so that what its score does not count was refused.

**SandboxEngine** (`SandboxProofs`; assumes `NamesAssumption`).  `RecordInv` ties the
record of a submission to the stage of its deployment; `PortInv` says that a port
belongs to one submission of this life and that a container which has a recorded port
is the recorded one; `DeleterInv` says what a request in flight has found;
`OrderInv` where a request and a cached proxy point to; `ReadyInv` what an event
promises.  From these: `CompletedIsGone`, `OrdersReachOwnSandbox`,
`AnnouncedIsRecorded`, and the refinement `ImplementsLifecycle`, all with docker
commands that may fail at any time.  `RunningIsOwned` also needs
`~DockerErrors`: a stop that fails at start leaves a container nobody knows.
A `docker run` that outlives its engine is an exception that `OrdersReachOwnSandbox`,
`AnnouncedIsRecorded` and `RunningIsOwned` name (`adrift`), because in the code nothing stops it.  `AdriftInv` confines it to submissions of an earlier life
whose deployment had not come to its end, which were therefore never announced and are
never deployed again.

**Deployment** (`DeploymentProofs`; assumes `NamesAssumption`).  Every step is a step
of the engine or leaves its variables alone, so `DeploySpec` implies `Spec`, and the
engine's theorems and its invariant `IInv` hold here.  `OnlyImagesStay` speaks of
deployments that are over; its invariant `LeftInv` says for each stage of
`DeploySubmission` what is there (`StageOK`), and once it has returned what it cleaned
up (`Cleaned`), for as long as the goroutine has not yet told the status; that a
status is reached by the goroutine alone (`StatusAt`, `OutcomeStays`) carries it
through DELETE requests.  `LeftInv` and `DiskOK` hold whatever Docker does; the
theorem on images needs `~DockerErrors`, for the error of `removeImage` is only
logged.

`SubmissionsAreDeployed` proves a liveness property.  A deployment takes a bounded number
of steps, and `StepsLeft` says how many are left at each place (`Places` lists the places
there are).  Every step of the goroutine lowers it or ends the deployment
(`GoroutineAdvances`), and no request, container, crash or other deployment raises it
(`GoroutineUndisturbed`); so each place leads to a nearer one or to the end
(`OneStepNearer`, the rule for weak fairness), and since the number at the start is known
the chain of these is finite (`GoroutineEnds`).  The prover cannot look into ENABLED,
so that the goroutine has a step it can take is a hypothesis, `[]GoroutineCanGoOn`.  It is
plain from the guards: every stage can fail without a condition.

**Coordinator** (`CoordinatorProofs`; assumes `BoundsAssumption` and, for the pause,
`CooldownAssumption`: the timeout of the client is shorter than the pause).
`OffsetInv` extends `CommittedWasHandled` to all events the loop has left behind;
`MetricsInv` adds that bots run only after `SetRun`; `TimerInv` says that during the
pause every order has less time left than the pause, which is why none is there when
it ends (`QuietBeforeRun`).  For `TestedIsDone`, `LifeInv` says that the finished runs
of this life are of events the loop has left behind and that lives to come have none,
so that neither `SetRun` nor a restart touches the document of a finished run; and
`DoneInv` that only a signal leads to FAILED.

**Benchmark** (`BenchmarkProofs`; assumes `NamesAssumption`; any number of
submissions, requests, events, crashes).  Two refinements: the system is a behaviour
of `SandboxEngine` (`EngineIsSandbox`) and one of `Coordinator`
(`CoordinatorIsCoordinator`).  The first needs to know that what is deleted was
announced, hence `TopicInv` and `PlaceInv` (the coordinator's place is an event of the
topic); the engine's invariant `IInv` then holds of the composition.  `TestedIsStopped`
is proved for `~DockerErrors` (a docker stop that fails for no reason is answered by
500, and the coordinator does not look at the answer).  Its invariant `DeleteInv`
follows the container through the request: while the coordinator waits the request is
on its way to the tested container and past its stop only if it has stopped; once
the coordinator has gone on the container has stopped; and it does not come back
(`DeadStays`), because a submission that was announced is deployed no more.  The
refused DELETE is the case that needs the engine's own invariants: the record of an
announced submission names its container for as long as the engine lives
(`ReadyInv`), and a container it does not remember does not run (`OwnedInv`), unless a
`docker run` outlived its engine - which is never that of an announced submission.
`JointTypes` (with `FleetAssumption`, which is what `Coordinator` assumes of its
constants) adds that the offsets of a submission are as many as its announcements, and
finitely many (`BetweenInv`), and that a request that is waited for is for the event
under test (`Waiting`).

**LoadTest** (`LoadTestProofs`; assumes `LoadAssumption`).  The orders' part
of `EndsSoon` needs `BacklogOK`: a tick that is taken late was put into the channel in
time, and while the bot waits for a slot one comes free within a timeout.  With one slot that is
false (the assumption says two or more; the code has 100): the order that is fired
from the waiting tick takes the slot that the next old tick waits for.
The bot's part needs more (`SoonOK`): the bot loops on only after a tick that was in
time, and while such a tick waits behind a full semaphore, every order that holds a
slot was fired before it and so ends within a timeout of the deadline.

The rest of `LoadTestProofs` is about the order book, for any prices, any quantities
and a book of any length.

1. `Counting`: a set of numbers that contains 0 and with each number the next contains
   them all.  It is the induction that the proofs below use, and it follows from the
   library's well-foundedness of the naturals; being about a set it needs no theorem
   with an operator as its parameter.
2. Quantities: `Quantity` counts units, so that adding a place adds its quantity
   (`QuantityAdds`) and more places have no less (`QuantityGrows`).
3. Sorting: `Before` is a strict total order of the places (`BeforeIsOrder`), ranks
   count through them (`RanksCount`, by a pigeonhole argument), so the list that
   `Sorted` returns holds every order once (`SortedIs`).
4. The loop: the function that `Loop` chooses exists (`LoopIs`), and `SoFar` is its
   invariant.  After `k` turns, as long as some of the order is left, all good orders
   among the first `k` were taken whole and were owed to it; when nothing is left, those
   it reached are enough for it; the ids named are theirs, best first; and units taken
   and units left add up.  `TurnStep` shows that a turn keeps it, `MatchIs` that it holds at the end.
5. `Processed`: an order keeps a book uncrossed and its ids apart, and is answered what
   it is owed.

`LoadInv` then says where each order of a load test is (`OrdersOK`): in the book, on its
way, or given up and still to arrive, and in one of them only; without it an id could
rest twice and the book could not be said to keep its orders apart.  `LoadTypes`,
`HonestBook` and `PriorityKept` follow.  For `Certified` the invariant (`Undisturbed`)
names the whole book: while nothing has gone wrong it holds the buys of the pass in
their order and nothing else (`CertBook`), buys of one price are not moved by sorting
(`CertSorted`), and the sweep takes them one by one (`CertSweepTakes`).

Model-checked only:

- `EveryRunScored`, `EveryRowStored`, `EveryEventHandled`, `ContainersReclaimed` and `BotEnds`.
  How many steps they take depends on the constants (messages, bots, retries of an
  event, ticks), so a proof needs an induction over temporal formulas, which the
  installed provers cannot use.  Of `BotEnds` the safe half is proved: a bot that goes
  on is not past its deadline by more than a timeout (`EndsSoon`).
- `BlockedIsServed`, which is about ENABLED.  `BlockedCanGoOn` is what is proved beside it.

Every other property of a passing run is stated by a theorem.

## Not modelled

- The arithmetic of `compute_scores`: percentiles, a bonus with a logarithm, a
  penalty, all over floats.  It reads the table and changes no state.
- The expiry of run documents in Redis after two hours, against runs of a minute.
- The batches of the two asynchronous Kafka writers: a metric is written or lost.
- Several partitions or replicas: the manifests run one of each service, and topics
  are created with one partition.
- Metric messages that are no JSON or lack a field: both writers marshal `BotMetrics`
  (`bot/models.go`).
- Other docker commands than `run`, `build` and `rmi` that outlive the engine: a `stop`
  or an `rm` has its effect before the crash or never.
- Which paths of an archive `safePath` refuses, form validation, wording of answers,
  logging, the helpers that read environment variables, the manifests.
- The other three sample submissions: the C++ book promises what the Go book does, one
  is wrong and one is slow on purpose.
- Connection retries of the consumer at its start, and schema creation.

## Plan

Left, in this order:

1. `Benchmark` with the telemetry consumer: the pause of 30 s against the silence of
   5 s, which is what `SerialSpec` assumes of a consumer that keeps up.
2. The score as integers (thousandths), against the claims the documentation makes of
   penalty and bonus.
