# Verification of monitex-sentinel

TLA+ specifications, TLC runs and TLAPS proofs kept beside the alarm-monitoring
service in `src/`: a FastAPI backend whose tasks share one asyncio event loop,
and a React dashboard fed by server-sent events.

`PROJECT.json` is the index: components, runs, the source lines behind every
definition, a mutant that breaks every property, findings, hazards, theorems.

## 1. The system

| Part (source under `src/`) | State it keeps | Operations | Talks to |
|---|---|---|---|
| Event intake (`backend/intake.py`, `models.py`) | none | `accept_raw`, `normalise_payload`, `accept` | rules, store, pipeline, correlation, metrics |
| Event pipeline (`backend/pipeline.py`) | an `asyncio.Queue` of records, its sleeping putters and getters | `submit` (put, wait, time out, shed), `get` | producers on one side, workers on the other |
| Triage workers (`backend/triage/worker.py`) | the record each is asking about | get, ask the provider, publish | pipeline, provider, store, correlation, metrics |
| LLM provider (`backend/triage/openai_compatible.py`, `schema.py`) | attempts of the running calls | `triage`: admit, POST, retry, validate and bound the reply, count tokens, price it | circuit breaker, the API |
| Circuit breaker (`backend/triage/circuit.py`) | run of failures, time of opening, trial flag | `state`, `before_call`, `record_success`, `record_failure` | provider |
| Rule engine (`backend/triage/rules.py`) | none | `classify`, `triage`, `is_fast_path` | - |
| Correlation (`backend/correlation.py`) | a window of sightings per site | `evaluate` | called by intake and workers |
| Alarm store (`backend/store.py`) | records by id in age order, subscribers' buffers, lagged marks | `upsert`, `acknowledge`, `resolve`, `snapshot`, `subscribe` | everything above, the API |
| Metrics (`backend/metrics.py`) | counters, samples | `record_*`, `snapshot` | the API |
| HTTP API and SSE (`backend/api.py`) | per client: subscription, merged queue, two pumps | acknowledge, resolve, stream, reads | store, metrics |
| Dashboard (`frontend/src`) | map of alarms, announced ids, filters | stream handlers, `applyLocal`, clicks, the tone | API |
| Ingest loop (`backend/ingest.py`) | connection, backoff | connect, receive, reconnect | intake |
| Video worker (`backend/video`) | capture, previous frame, debouncer | open, warm up, sample, detect, emit | intake |
| Runtime, settings (`backend/runtime.py`, `config.py`) | the tasks | `start`, `stop` | all |

An alarm's path: a producer (the ingest loop or the video worker) calls
`accept`; the rules give a verdict, the record goes on the board; a fast-path
type is final at once, any other alarm is queued, waits for room or is shed; a
worker takes it, asks the provider (or falls back to the rules), re-reads the
board, lets correlation escalate it and publishes it; the store pushes each
update to every dashboard; an operator acknowledges or resolves it at any time.

What is hard in it:

* **Interleaving at awaits.** Nothing is preempted between two awaits, but a
  put on a full queue, its timeout, a provider call and a retry's sleep are
  points where everything else moves: puts barge, timeouts race wake-ups,
  the operator and evictions get in while the provider thinks, stragglers
  report to a breaker that has moved on.
* **Bounds.** Queue, board and subscriber buffers are bounded, each with a
  policy of its own (wait or shed, evict the oldest, drop the oldest and mark).
* **Two writers of one screen.** The dashboard takes records from the stream
  and from the replies of its own requests, in no common order.
* **Failure.** The API fails, slows down, lies or answers in a shape nobody
  expects; connections break; a feed repeats an id. Nothing is persisted, so
  there is no recovery from a crash to model: a restart is the initial state.
* **Cancellation.** A stop cancels every task at whatever it awaits, inside a
  put, a read or a sleep, and waits for all of them.

What makes each part correct is what section 3 checks of it.

## 2. Modules

```
AlarmLifecycle          what is promised about one delivered alarm
   ^ implemented by
AlarmPipeline           intake + queue + workers + store + counters
   AlarmPipelineProofs
      ^ extended by
   AlarmAccountingProofs
CircuitBreaker          the breaker object
   ^ extended by
TriageProvider          the concurrent provider calls that share it
   TriageProviderProofs
Rules, Correlation      the verdict of the rules, the windows per site
TriageReply             what the provider makes of a response
   ^ all three composed by
Assessment              an event's way to its published verdict
   AssessmentProofs
DashboardFeed           what is promised to one connected dashboard
   ^ implemented by
AlarmStream             store fan-out + SSE + dashboard, with its sound
   AlarmStreamProofs
      ^ extended by
   AlarmFeedProofs
IngestLoop, VideoWorker the two producers, up to their call of accept
   ^ composed by
Feeds                   both of them, and the stop of the runtime
   FeedsProofs
MC*.tla, *.cfg          the instances TLC checks
```

**AlarmPipeline.** One step is what one task does between two awaits.
`AcceptFastPath` and `AcceptForTriage` are `EventIntake.accept` up to its first
await (the second includes the put that succeeds or falls asleep); `PutRuns` is
the put that runs or runs again; `BackpressureTimeout` is `wait_for` giving up,
with the cancellation of the put inside `asyncio.Queue` and the shed counter;
`Get` and `Settle` are the two halves of `_triage_one` around the provider's
answer; `Acknowledge` and `Resolve` are the endpoints. `queue` and `putters` are
`asyncio.Queue._queue` and `_putters`, `board` and `order` are
`AlarmStore._records` (value per id, ids by age), `job` is the record a worker
holds. An element of `Deliveries` is one event object; `IdOf` gives its id, so
two deliveries can share one. A worker evaluates the record it settles, which is
built on the board's current one: `Settle` charges `evaluate` to the event the
board shows (`Evaluated`), and `evaluations` keeps, per delivery, the events
evaluated when it was settled. The queue of the standard library is modelled
from its use here and marked external: puts that barge, the wake-up of the
first sleeping putter by a get, its hand-over when the woken put is cancelled.
`wait_for` starts the put as a task of its own in Python 3.11 and runs it at
once from 3.12 on; the project allows both, so does the model.

**AlarmLifecycle** is the same system with no queue, worker or store: an alarm
is unseen, pending, settled or shed, never goes back, and does not stay pending.

**CircuitBreaker** and **TriageProvider.** The breaker's operations are
operators; `TriageProvider` has the workers call them as
`OpenAICompatibleProvider.triage` does: `StartsCall` if `before_call` lets it (a
refusal changes nothing), then a POST that `Succeeds`, `FailsForGood` or `FailsRetryably`,
and `Retries` after the sleep. The clock is the breaker's age since it opened,
in ticks. `ApiHeals` is the environment: the API may fail in any way until then.
`posted` is a history: the posts of each worker since the circuit last opened.

**Rules**, **Correlation**, **TriageReply**, **Assessment.** `Classify` is
`rules.classify`: downgrade or upgrade by confidence, then the shift of the
night. `evaluate` never awaits, so a call is one step. A sighting is its age;
ages stop one past the window, where they no longer matter. `TriageReply` is
`_extract` with the validation of `TriageResponse`, the truncation, the two
shapes of `usage` and the estimate of the cost. A text is its length; a severity
is a word in the schema's spelling or another; a response says at which point on
the way to its content something is wrong, and its `usage` what its shape is:
absent, an object, one whose counts `int()` refuses (all are then zero), or one
on which counting or pricing raises (`UsageErrors`). A count is any integer, as
for `int()`; `BilledCached` is the clamp of `estimate_cost`, at both ends. `Assessment` puts them together:
a payload is normalised as `normalise_payload` does (`Normalised`: a missing
site or type has a placeholder, a confidence is cut to 0..100 or unreported, an
unreadable timestamp is the time of arrival), time passes, and the alarm is
evaluated with the rules' verdict (`AssessedByRules`: the fast path, and the
fallback of a worker) or with what a reply gives (`AnsweredWith`: its verdict,
or the rules' if nothing can be extracted). `verdict` is what is published.
What waits shares no state with the others that wait, so one waiting alarm for
any site gives every order of evaluation.

**AlarmStream.** `Upsert` publishes to every buffer or drops its oldest update;
`Connect` subscribes and takes the snapshot in one step, as the generator does;
`Pump` moves an update on with its lagged mark; `Receive` and `ApplyLocal` are
the two ways a record reaches the board. A record is the number of the update
that wrote it and what the sound asks of it: `kind` is calm (not critical),
alerting (critical and active) or handled (critical, acknowledged or resolved).
The rest of its content is AlarmPipeline's. `IsNewCritical` and `Announce` are
`announce`, with `announced` the ids of `announcedRef`. The operator switches the
sound whenever he likes, so at each announcement it is on or off; `chirps`,
`silenced` and `onLoad` are histories of the tones played, of the alarms
announced with the sound off and of the criticals there when the page loaded. The pump, the merged
queue and the socket are FIFOs in a row, hence one FIFO. An abandoned subscription that
the server has not noticed yet changes nothing a client sees and is left out.

**DashboardFeed** is the same stream with no buffer, pump, socket, store or
screen: while a dashboard is connected one line of messages leads to it, which
begins with a snapshot, is joined by every update at its end and read from its
front; a line with more than the backlog of a client that does not read may have
its oldest unread update pushed out, with a mark on the message behind it.
`AlarmStream` maps its line to the transit followed by the buffer, a lagged
subscription being a mark on the first update of the buffer (`Line`).

**IngestLoop**, **VideoWorker**, **Feeds.** `link` and `camera` say at which
await each task is. `Fails` is both except clauses of the ingest loop,
`ClosesCleanly` the end of its iteration without an exception; `SourceFails`
and `FailsUnexpectedly` are the worker's two except clauses, of which only the
first gives the capture up, after waiting for the executor to release it
(`Drops`); the second may also end an `accept`. `MotionDebouncer.observe` is `ObserveMotion` and
`ObserveQuiet`; a reading is whether motion was detected. `FeedComesBack` and
`SceneMoves` are the environment: from then on the feed stays up, the source
works and the scene moves. What `accept` does is AlarmPipeline's; here it is an
await that returns. The two tasks share nothing else, and `Feeds` interleaves
them as `runtime.py` starts them. `Stops` is `SentinelRuntime.stop`: it cancels
both tasks; `IngestEnds` and `VideoEnds` are the cancellation arriving at the
await they are in, with what the handlers do (the ingest loop puts its lamp out,
the worker releases its capture through the executor, but not from a sleep or
the handler of an error, which are outside its `try`), and `Stopped` is `gather` returning. Under Python
3.11 the `wait_for` of a submit whose put has just finished returns its result
and swallows the cancellation: `IngestAbsorbs` and `VideoAbsorbs`.

## 3. What the runs check

| Run | Instance | Properties |
|---|---|---|
| `alarm_pipeline` | 2 producers, 2 workers, queue of 1, board of 2, 4 deliveries with 3 ids | below |
| `triage_provider` | 3 workers, threshold 2, cooldown 2, 2 retries | below |
| `assessment` | 2 sites (one the placeholder), threshold 3, window 2, 4 evaluations; 5 types and an unknown one, confidences beside each threshold, none and two out of range, night and day; 32 replies: a good one and every change of one field, a usage of each shape and negative counts among them | below |
| `alarm_stream` | 1 dashboard, 3 ids of which one may be critical and is acted on, board of 2, buffer 2, transit 2, 4 updates, 1 lost connection | below |
| `feeds` | backoff 1 up to 3, cooldown of 2 ticks, quiet run 2, rising edge 2, warm-up of 1, one stop | below |
| `alarm_pipeline_shed`, `alarm_pipeline_eviction`, `triage_provider_trial`, `alarm_stream_reply`, `alarm_stream_lagged`, `alarm_stream_silent`, `feeds_close` | the same modules, most of them smaller | one each, violated: section 5 |

*alarm_pipeline.* `TypeOK`; `QueueInv` (the list of sleeping puts is exactly the
producers asleep); `WakeupsSuffice` (while somebody sleeps, each free slot has a
woken put on its way: no wake-up is lost to barging or to a timeout);
`EventsAccounted` and `CallsAccounted` (the counters on the dashboard add up at
every moment); `EvaluatedOnce` (every delivery that is neither shed nor on its
way has been evaluated once, with its own event if its id came once and with that
of one of the deliveries that arrived if it was repeated; none is lost or settled
twice); `OldestMakesRoom` (the store gives up an alarm only to a new one when it
is full, and then the one written longest ago: what is written becomes the
youngest, the rest keep their order and their records); `PreliminaryBacked` (a
preliminary verdict on the board is in flight or was shed, also with a repeated
id); `OperatorStateSurvives` (a verdict that lands never undoes an acknowledge
or a resolve while the store retains the alarm); `ImplementsLifecycle` (the
refinement, liveness included); `BoardSettles` (what is shown as preliminary
becomes final or was shed).

*triage_provider.* `OpenIffThreshold` (open or half-open exactly when the run of
failures has reached the threshold); `TrialIsRunning` (the trial flag belongs to
a call in flight: the breaker never waits for nobody); `OpenCircuitQuiet`
(an open circuit falls quiet: the call that opened it posts no more and every
other worker at most the retries its call had left, however many stragglers
restart the cooldown: the breaker is asked once per call, and that is what it
costs); `EveryCallEnds`; `Recovers` (once the API is well, the circuit closes for
good, whatever stragglers and trials do).

*assessment.* `NoRecentSightingLost` (pruning at the head only drops expired
sightings, and only a prefix); `EscalatesOnPattern` (a call escalates if and
only if the alarm is not critical and its own site has had the threshold of
sightings in the window, by definition from the whole history);
`ConfidenceNeverLowers` (a surer detector never lowers the verdict, through all
the shifts of the rules); `GuessNeedsPattern` (with the model out, an event below
the low threshold becomes critical only in a pattern, to which it adds nothing
unless its type is critical by itself); `VerdictFits` (whatever the API answers,
what is published has a known severity, texts that are there and within their
bounds, no false-positive mark on an escalated alarm, and a cost no higher than
its token counts at the uncached price, nor below zero unless the count of the
prompt or of the completion is: no count of cached tokens makes it so);
`GoodReplyIsUsed` (a reply that keeps the schema it was asked for and says
something is thrown away exactly if counting or pricing its tokens raises;
otherwise, whatever its counts, it becomes the verdict, never milder than the
model said, and is an override exactly if the rules would have said something else).

*alarm_stream.* `NoSilentGap` (updates are sent in order with none missing, or
the one after a loss is marked); `BoardInSync` (when all has arrived, the board
agrees with the store unless updates were lost or a late reply went over a newer
record); `StreamMakesUp` (the board goes back under the stream only where a
reply was ahead of it, and the newer record is still coming); `ChirpsOnce` (no
alarm chirps twice, nor one announced with the sound off, whatever snapshots,
updates and reconnections repeat it and however the sound is switched; and over a
connection that holds every alarm that is critical and active has chirped, was
announced with the sound off or was there when the page loaded); `UntouchedMovesOn` (an alarm nobody
acts on never goes back on a board, whatever buffers overflow and connections
break; it can only leave with a snapshot, when the store has not kept the record
shown); `UpdatesArrive`; `ImplementsFeed` (the refinement of `DashboardFeed`,
liveness included).

*feeds.* `BackoffSchedule` (the n-th failure in a row waits for the initial delay
doubled n - 1 times, up to the maximum); `FeedLampHonest` and `CameraLampHonest`
(what the dashboard shows as connected is connected, apart from the clean close
of section 5, and a camera shown as live has been warmed up); `FindsTheFeed`;
`OneAlertPerEpisode` (two alerts are separated by a whole quiet run, and an alert
follows readings that all show motion, whatever reconnections lie between);
`MotionIsAlerted` (motion that goes on gets its alert even if it began in the
cooldown, during an outage or under the last episode), both of these for as long
as the runtime runs; `StopEnds` (a stop ends, whatever the two tasks are awaiting
when it comes, with the feed's lamp out, unless a submit swallowed a cancellation).

Each property has a mutant in `PROJECT.json`: a plausible bug (a dropped guard,
a missing hand-over, a stale record published) under which TLC finds it broken.

### Bounds, and why they are enough

A queue of one is full and empty within two steps, so two producers reach every
race of the queue: barging, two sleepers, a timeout before and after a wake-up.
Two workers let verdicts land in the other order than the alarms arrived. Four
deliveries cover the kinds that differ: critical, ordinary, fast path, and a
second delivery of an id. A board of two evicts with three ids. Three provider
calls are a trial, a straggler and a refused caller; two retries let a call
sleep, post and sleep again across the opening of the circuit. A window of two
ticks has sightings inside, at and past its end. The types of `assessment` are
one of each kind the rules tell apart, the confidences both sides of each
threshold, none, and one past either end. In AlarmStream a dashboard reads the
store only, so one of them shows what any of them does, other operators' clicks
arriving as updates; four updates overflow a buffer of two behind a transit of
two. In Feeds the maximum is no power of the initial delay, so the cap cuts a
doubling short, and runs of two tell one reading from enough of them. The bounds
`MaxEvaluations`, `MaxUpdates` and `MaxDrops` only cut behaviours short;
`FailureCap`, at least two, stops the count of failures where the delay has
reached its maximum; `Payloads`, `Replies` and `Hours` are the inputs enumerated,
and `ReasonLength` is the length of the text an escalation adds.

### Fairness

* AlarmPipeline: a ready put and a ready get run (the event loop), and a
  provider call ends. The last is `EveryCallEnds` of TriageProvider, where it
  rests on the POST's timeout and the end of a sleep. The feed, the operator and
  the backpressure timeout are not forced to do anything.
* TriageProvider: POSTs and sleeps end, time passes, and alarms keep coming:
  without calls no breaker can learn that its API is back. The API is not
  forced to heal: `Recovers` says what follows if it does.
* Feeds: a connection attempt, an executor call, an accept and a sleep end, and
  time passes. A cancelled task is resumed with its cancellation, the release of
  a capture ends and `gather` returns when both tasks have. Failures are never
  forced and may go on for ever; `FindsTheFeed` and `MotionIsAlerted` say what
  follows if they stop. Nothing forces a stop either.
* AlarmStream: EventSource reconnects, the pump runs, the browser reads, a reply
  arrives. Connections need not break.

Deadlock is checked for `triage_provider`, which never stops. The others stop
when their bounded input is used up, Feeds when the runtime has stopped.

## 4. What is proved

TLAPS checks these for every value of the constants that satisfies the modules'
assumptions (any finite sets of producers, workers and clients, any capacities,
thresholds, delays, bounds and prices, any assignment of ids and severities).
Every invariant and action property of the passing runs is among them, and so
are some that no run lists: they were first checked on the runs' instances, and
say something of every instance that follows from an invariant already there.

* `AlarmPipelineProofs`: `TypeCorrect`, `QueueDiscipline`, `NoLostWakeup`.
  `QueueInv` is inductive with `TypeOK`; `WakeupsSuffice` needs both: a get moves one putter to the woken ones as it frees one slot, a
  put takes as many slots as woken producers it uses up, and a cancelled woken
  put either finds the queue full or hands its wake-up to the next sleeper.
* `AlarmAccountingProofs`: `NothingQuietlyLost`, `EveryCallCounted`,
  `NoVerdictTwice`, `BoardNeverWaitsForNothing`, `OperatorHasTheLastWord`,
  `PipelineImplementsLifecycle`, `EvaluatedAsItself`. The strengthening is that a delivery is at one
  place only (`OnePlace`: unseen, in a hand, in the queue, a job or shed, and
  otherwise settled) and that it has been evaluated exactly if it is settled, with
  an event of its id that has arrived (where no id is repeated that is its own,
  `EvaluatedAsItself`); the counters are then cardinalities of these places, and
  each action moves one delivery (`DeliveryStep`). From the
  same invariant every step of the pipeline is a step of `AlarmLifecycle` or a
  stutter (the safety half of the refinement). `BoardWithinCapacity` and
  `OnlyTheOldestGoes`: ids in age order are distinct and are those on the board
  (`StoreInv`), so an upsert that evicts the first keeps the number, and what a
  step does to the store is what `AlarmStream` assumes of it. `NeverStuck`: while
  a delivery is in flight and there is a worker (`config.py:27`), a put, a get or
  a provider call can go on without any timeout, which follows from
  `WakeupsSuffice` for the producers asleep at a full queue.
* `AssessmentProofs`: `TypeCorrect`, `WindowKeepsRecent`, `EscalationIsThePattern`,
  `SurerIsNoMilder`, `GuessWaitsForPattern`, `VerdictAlwaysFits`,
  `GoodReplyNeverLost`. The windows are suffixes of the history, and the history
  is ordered by age (the strengthening `SeenOrdered`), so what pruning leaves is
  what is recent and its length is the count of the pattern. The proof rests on
  lemmas about suffixes of sequences, on the order of the rules' verdicts by
  confidence, and, for the cost, on the clamp of the cached tokens between zero
  and the prompt's, and on their being no dearer. The counts are any integers.
* `TriageProviderProofs`: `TypeCorrect`, `OpensAtThreshold`, `TrialAlwaysRuns`,
  `QuietWhileOpen`, from one inductive invariant: a trial flag implies an open
  circuit and a call in flight that was admitted as a trial, which no other
  call's end takes away without clearing the flag too; and while it is open a call
  has posted no more than its retries so far, and the worker whose failure opened
  it has no call (`QuietInv`). Two action properties follow from it:
  `TrialsTakeTurns` is what remains of "a single trial call" after the finding of
  section 5 (the flag is given back only with the circuit closed or its cooldown
  started again, so two trials in flight are of different cooldowns), and
  `NoCallGoesOn` is the measure behind `EveryCallEnds` (every step of a call
  leaves it fewer waits than it had, of which it starts with 2 * MaxRetries + 2).
* `AlarmStreamProofs`: `TypeCorrect`, `GapsAreMarked`, `BoardCatchesUp`,
  `OneChirpEach`, `StreamBringsNewer`, `NeverBackUntouched`. `OrderInv`: a buffer ends with the store's
  last update and lacks none before it, what is in transit goes on without a gap or with a mark,
  and only the first message is a snapshot. `SyncInv`: nothing coming is newer
  than the store's record, an older record is followed by the last one, and what
  the board lacks is coming. `SoundInv` says the same of the tone: an alarm that
  is alerting has chirped, fell into a muted sound, was there on load, or will be
  announced when what is coming arrives. `ViewInv`: a board and the replies to come show nothing newer than the
  store, nor newer than a snapshot on its way unless their update follows it, and
  to a client that has missed nothing what is coming is numbered without a gap.
  `AheadInv`: what is coming of an alarm nobody acts on is newer than the board.
* `AlarmFeedProofs`: `StreamImplementsFeed`, the safety half of the refinement of
  `DashboardFeed`, step by step: an upsert is `Publish` with, for each client, the
  message appended to the line or the first of a full buffer pushed out and the
  next marked; a pump moves a message within the line and is a stutter, its mark
  moving from the subscription to the message, for which a lagged subscription
  must have something in its buffer (`LagInv`); a click, a reply or an update
  shown on the board changes the line as `Receive` does or not at all.
* `FeedsProofs`: `TypeCorrect`, `BackoffDoubles`, `FeedLampTells`,
  `CameraLampTells`, `NewEpisodePerAlert`, `CaptureIsHeld`, `StopEndsBoth`. The delay before the next failure is
  the initial one doubled as often as there were failures, up to the maximum
  (`BackoffInv`; the solvers know nothing of exponentiation, so 2^n is introduced
  as the number of subsets of a set of n elements); the debouncer's counters are
  bounded by the histories of readings (`DebouncerInv`), and what the lamp says
  by the capture and its warm-up (`CaptureInv`), through failures and the stop.
  A frame is never read without an open capture and none is opened over another
  (`OneCapture`, which needs what the worker holds at each of its awaits); neither
  task ends but by the stop, and a stop that returns has ended both with the
  feed's lamp out (`StopIsClean`, from `StopInv`: after a stop, a task that runs
  has a cancellation still to take or has swallowed it).

Not provable with the tools used, and therefore only model-checked: liveness
under fairness (`BoardSettles`, `EveryCallEnds`, `Recovers`, `UpdatesArrive`,
`FindsTheFeed`, `MotionIsAlerted`, `StopEnds`, the liveness halves of
`ImplementsLifecycle` and `ImplementsFeed`). Of `EveryCallEnds`, `StopEnds` and
the absence of a deadlock behind `BoardSettles` the safety part is proved:
`NoCallGoesOn`, `StopEndsBoth`, `NeverStuck`.

## 5. Where code and documentation disagree

Each is a run in which TLC finds the quoted claim violated.

* **A shed alarm is never correlated** (`alarm_pipeline_shed`). `intake.py:88`:
  "only the LLM enrichment was skipped"; the shed path also skips
  `CorrelationEngine.evaluate` and leaves the alarm preliminary. A site under
  overload loses sightings of the very pattern that overloads it.
* **An acknowledged alarm can come back active** (`alarm_pipeline_eviction`).
  `tests/test_worker.py:117`: "triage must not resurrect an acked alarm".
  `store.get(id) or record` falls back to the record taken at intake if the
  store evicted the acknowledged one while the provider was answering.
* **Two trials at once** (`triage_provider_trial`). `circuit.py:14`: "Half-open
  admits a single trial call". A straggler's failure clears the trial flag and
  restarts the cooldown, after which a second trial is admitted although the
  first is still running. It takes a call that lasts longer than the cooldown:
  three attempts of 6 s with two waits of 8 s (`Retry-After` is honoured up to
  that) last 34 s against a cooldown of 30 s.
* **A late reply goes over a newer record** (`alarm_stream_reply`).
  `useAlarmStream.ts:92`: "The SSE update is idempotent". If the verdict lands
  on the stream before the reply of the click, the reply puts the preliminary
  record back until something else changes the alarm.
* **A lagged dashboard stays wrong** (`alarm_stream_lagged`). `store.py:8`: a
  client is marked "so it can re-request a snapshot"; the dashboard ignores the
  mark.
* **A critical alarm can be missed by ear** (`alarm_stream_silent`).
  `README.md:352`: "Critical alarms cannot be missed. [...] a two-tone chirp plays
  for each new critical". Every snapshot, that of a reconnection too, adds its
  critical alarms to the announced ones without a tone; the comment beside it
  has the refresh of the page in mind only. An alarm that turns critical while
  the connection is down is silent for good, with the sound on throughout.
* **A clean close skips the backoff** (`feeds_close`). `ingest.py:6`:
  "Reconnection uses exponential backoff with jitter". A close frame ends the
  iteration over the messages without an exception: the loop connects again at
  once, counts no reconnection and leaves the connected lamp lit. A feed that
  accepts and closes is called in a tight loop.

Seen and not made a run:

* `correlation.py:64` escalates "if the site's pattern just crossed the
  threshold", the code any non-critical alarm while the window is full, an info
  one that adds no sighting too.
* Motion is among the types of `rules.py:44` "that mean more outside business
  hours", but its base is info, no confidence raises it and the shift leaves info
  alone: the night changes nothing for it, although `rules.py:14` says that a
  0.38-confidence motion at 03:00 "is worth a look". Only the model can see it.
* An unrecognised type with a low confidence is lowered to info, although
  `rules.py:106` keeps it at warning.
* The breaker is asked once per call, so a call that sleeps before a retry posts
  although the circuit has opened meanwhile (`README.md:217` "Never calls the
  API"); `OpenCircuitQuiet` says how often.
* A repeated id: the worker that settles the first delivery evaluates the record
  on the board, whose event is the second's (`worker.py:63-66`), so one event is
  evaluated twice and the other never, against `correlation.py:15` "Evaluated
  exactly once per alarm". `EvaluatedOnce` says what is left of it, and
  `EvaluatedAsItself` that it holds where no id is repeated. A second delivery
  also puts an acknowledged alarm back to active (`intake.py:80`).
* A `usage` that is JSON but no object, or whose `prompt_tokens_details` is none
  (`openai_compatible.py:351-352`), an infinite count (`int()` raises
  `OverflowError`, which line 361 does not catch) and a count too large for the
  price's floats raise after a valid verdict was read: it is lost to the fallback.
  `GoodReplyIsUsed` names these cases (`UsageErrors`) and allows no others.
* A negative count of prompt or completion tokens passes `int()` and makes the
  cost of the call negative: only the cached count is clamped, although "a
  provider reporting nonsense must not produce a negative bill"
  (`tests/test_openai_provider.py:488`). `VerdictFits` excepts exactly this.
* `float()` of an integer too large for it raises `OverflowError`, which
  `_coerce_confidence` does not catch, against `models.py:59` "Never let it raise".
* The reason of an escalation is put before a reasoning already cut to its 400
  characters, so what is shown may be longer (`VerdictFits` adds it); a cached
  count above the prompt's makes `llm_cache_hit_rate` exceed one, though not the
  cost below zero.
* The dashboard keeps alarms the store has evicted until its next snapshot.
* After an unexpected error the video worker keeps its capture, so what is left
  of a warm-up is skipped and the connected lamp, lit only where a source is
  opened, stays off while the camera works.
* A stop that finds the video worker in a sleep leaves the capture to the garbage
  collector; a release may run while an executor thread still reads from it; the
  camera's lamp stays as it was.

## 6. Not modelled, and the plan

Not modelled:

* The JSON parse of `accept_raw` and its counter of malformed messages: a
  message is a delivery or it is not.
* The wording of summaries, prompts and reasons; the request's body; the table of
  prices and the choice between the presets: text and data.
* The metrics' rolling samples (latency percentiles, the arrival window): they
  are read by nothing but the dashboard.
* Pixel arithmetic and the camera's I/O: a reading is motion or none.
* Rendering, ranking and filters of the dashboard, and the sound itself.
* The stub provider and construction from settings: sequential and stateless.
* The start of the runtime, and the workers' part in its stop: they re-raise a
  cancellation wherever they await, and nothing they hold is kept.
* The simulator and the scripts: not part of the service.
* A crash: nothing is persisted, so a restart is the initial state.

What could come next: the loss of a click's reply, after which a retry meets an
alarm already handled; the metrics' windows as operators against a reference;
the workers of AlarmPipeline under a stop, which would tell what is lost with them.
