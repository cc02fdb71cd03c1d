# voiceLedger gateway: models, checks and proofs

voiceLedger turns voice memos into spreadsheet rows. Its own logic is the Go
gateway under `src/gateway`: it takes an upload, converts it, queues it, has a
whisper server transcribe it and an LLM server extract price, place, category
and date, appends a row to a Google sheet, and answers polls for the outcome.
Nothing is persisted. This directory holds TLA+ models of that logic, the TLC
runs that check them on small instances, and TLAPS proofs of the main results
for every instance.

## The system

| part | source (`src/gateway/...`) | state | operations |
|---|---|---|---|
| job queue and pool | `internal/transcription/queue.go`, `job.go` | bounded channel, `stopCh`, the fields of each `*Job` | `Enqueue`, `worker`, `processJob`, `Start`, `Stop` |
| job store | `internal/transcription/store.go` | map of job IDs to live records | `Save`, `Get`, TTL sweep (`Delete` is never called) |
| job handlers | `internal/transcription/handler.go` | none of their own | submit, poll, list tabs |
| process | `cmd/gateway/main.go` | signal goroutine, listener | start-up, timed drain, shutdown |
| rate limiter | `internal/ratelimit` | a token bucket per address | `Allow`, `cleanup` |
| sheets client | `internal/sheets` | tab, category and token caches, a mutex each | lookup, append, formatting, fetches |
| LLM client | `internal/llm` | categories fixed at start-up | `ExtractWithRetry` |
| whisper client | `internal/whisper` | none | one HTTP call |
| audio | `internal/audio` | none | detect, validate, convert with ffmpeg |
| server | `internal/server`, `internal/httputil` | none | routes, CORS, body limits |
| configuration | `internal/config` | none | environment with defaults |

How they interact: a request passes the limiter; the submit handler validates
and converts, *saves* the job and then *enqueues* it. A worker writes the fields
of the job it runs with no lock, and the store hands out the same pointer, so
polls and the sweep read a record that is being written. One context
(`WHISPER_TIMEOUT_SEC`) covers whisper, the LLM with its retries and the sheet
with its retries; the sheets client's mutexes are held over HTTP calls and do
not know the context. On a signal main closes `stopCh`, waits for the workers
for at most 30 seconds, stops the sweep and shuts the listener, upon which
`main` returns. Requests are served all the while.

What makes each part correct:

* **queue and pool**: a job has exactly one owner; every accepted job settles,
  with a complete outcome; memory for audio is bounded; a shutdown ends, and
  does not cut short what it had time to wait for.
* **store**: no record is forgotten while somebody works on it, none comes back
  after it was forgotten, and every settled one is forgotten in the end.
* **polling**: what a client sees is consistent and never goes back.
* **limiter**: being refused or forgotten neither costs nor earns tokens.
* **sheet**: a reported row is there, and retries and resubmissions do not
  multiply it.
* **calls of a worker**: with all timers, retries and waits a job is worked on no
  longer than its context and the mutexes allow, and nothing keeps it for ever.
* **upload**: whoever has a job running knows its ID (which is not so: `lost_answer`);
  a request takes no longer than its own stages and those before it in line, and ends.
* **caches of the sheets client**: what is given out is current within its TTL,
  is not fetched twice, and is fetched with a token that Google still accepts;
  nobody is left waiting for a mutex.

The hard behaviours are the unlocked writes, the races around `stopCh`, the
sweep reading half-written records, deadlines, lost and late answers of Google,
and lazy arithmetic on time. `PROJECT.json` lists each at its line.

## Modules

| module | what it is |
|---|---|
| `JobLifecycle` | abstract: the stages of an accepted job |
| `JobQueue` | submit, channel, workers, `processJob`, sweep, shutdown |
| `JobPolling` | `JobQueue` composed with polling clients |
| `TokenBucket` | abstract: one bucket per address that fills all the time |
| `RateLimiter` | `Allow` and `cleanup` |
| `WorkerCalls` | `JobQueue` with whisper, the LLM and the sheet as chains of timed calls |
| `UploadPath` | an upload from its header to its answer, with everybody in line for the tab list |
| `SheetExport` | `AppendRowWithRetry` against a sheet that may answer late or never |
| `SheetsCaches` | tabs, categories and token, under their mutexes |
| `MC*` | the instances TLC checks |
| `QueueLemmas` | facts about sequences used as queues |
| `*Proofs` | theorems and proofs about the module they are named after |

`JobPolling` and `WorkerCalls` extend `JobQueue`; `JobQueue` implements
`JobLifecycle`, `RateLimiter` implements `TokenBucket`, and `WorkerCalls`
implements `JobQueue`. `SheetExport`, `SheetsCaches` and `UploadPath` stand alone: what they share with the pipeline is the time they
take, which is a constant there (`LockOverrun`, `TabsWait`, `FetchTime`), and the
outcome, which is a choice there.

### JobQueue

`job[j]` is the record behind the pointer: status, how far the result is filled
in, whether there is an error, whether the audio is still held, and the age of
`UpdatedAt` (counted to just past the TTL, since the code only compares it with
the TTL). `stored` is the key set of the map, `queue` the channel, `handler[j]`
the position of the submit request, `worker[w]` the position of a worker in
`processJob`, its job, and what is left of its context. `server` is main.

Every write that another goroutine can tell apart is a step of its own: the
status before the error in both failure branches (`TranscribeFails` then
`ReportWhisperFailure`, `ExtractFails` then `ReportExtractionFailure`), the status
before `UpdatedAt` at the end (`MarkDone` then `FinishJob`), the refusal in the
handler (`EnqueueRejected` then `RejectJob`). Writes that no reader can separate
(the audio, the timestamp and the status at `queue.go:94-98`) are one step.

`EnqueueHandoff` is a send to a worker parked in its select. An idle worker need
not be parked yet, so with an unbuffered channel `EnqueueRejected` may happen
while a worker is idle. After `Stop` no worker is parked, but an idle worker may
still take a job instead of stopping: `Dequeue` and `WorkerStop` are both enabled.

Time is `Tick`. No time passes while a goroutine has something to do that waits
for nothing, so the age of a record while a job is processed is bounded by the
budget of the context plus `LockOverrun`, the time that mutexes of the sheets client
can hold a worker past its deadline. `WorkerCalls` says how large that has to be. Go gives no such guarantee; with deadlines
in minutes and steps in microseconds the model takes it. `TTLCovers`, the
budget plus the overrun at most the TTL, is the condition under which the sweep is
safe. The defaults, 600 s and 3600 s, leave 3000 s for the overrun. Nothing in the
code keeps it within that: `catsMu` alone can be held for as many requests of 15 s as
the first 1000 cells name ranges, if each of them is slow.

`Killed` is SIGKILL or a crash. Docker sends it ten seconds after SIGTERM (the
compose file sets no grace period), well before main's own 30 seconds. It then starts
the gateway again, with an empty store. The models end with the process:
`JobLifecycle` admits that a kill loses jobs, and what is said about a 404
(`MissingMeansSettled`) holds within one life of the process; the next one answers
404 for jobs of the last that never settled.

### JobPolling

A poll gets the pointer under the store's lock (`PollFound`, `PollMissing`) and then
encodes the record in the order of the struct: `EncodeStatus`, `EncodeResult`,
`Respond` reads the error and answers. Steps of the pipeline come in between.
The result and its extraction are read in one step: the worker stores the
extraction into a result that is already published, and every combination that
two reads would give is given by one read before or after. A string whose
two words are read around a write is not modelled.

### WorkerCalls

`call[w]` is what a worker of `JobQueue` waits for: an operation, the attempt it
belongs to, and what is left of its timer. The operations are the request to
whisper, the request to the LLM and the pauses between its attempts
(`ExtractWithRetry`), the lookup, the append and the pauses of
`AppendRowWithRetry`, and those of the formatting that follows an append: the tab
list, the categories with the ranges they name, and the batch update. Waits for a
mutex are operations of their own, because they ignore the context.

`OnAnswer`, `OnFailure` and `OnLocked` are the control flow of the export as a
table: which operation can follow on an answer, on an error, and with a mutex in
hand, where the cache may make a request unnecessary. `return` and `retry` hand
back to `processJob` and to the loop of `AppendRowWithRetry`. A cell that names no
range leads from one range to the next, so a chain of ranges has no bound but
the context.

A request ends when its client's timer or the context of the job does,
whichever is first (`StillWaits`). A request that needs a token includes the
exchange for one, hence its two timeouts. The select of a pause may pick the timer
when the context has ended too: `TriesAgain` and `ExtractionCancelled` are then both
enabled, and so are `ExportTriesAgain` and `ExportCancelled`.

How long a worker waits for a mutex depends on the other callers, whom
`SheetsCaches` models; here each mutex has a constant for it. `OverrunAssumption`
is what then has to be within `LockOverrun`: a worker whose context ends while it
waits for the tab list still waits for the categories, and twice for the token.
`ExportAssumption` says that the sheet is enabled; without it the extraction ends the
job and `JobQueue` alone says all there is.

### UploadPath

`upload[u]` is a request: its stage (`reading`, `converting`, `tabs`, `enqueue`), its
recording and the tab it names, what is left of the stage's own deadline, its age
since the end of the header, whether the client is still there, the status it is
answered, and whether the answer was heard. The write deadline of `http.Server` runs
from the end of the header and stops nobody: the handler goes on, saves and enqueues
the job, and a 202 that is written at the age of `WriteTimeout` or later is lost.
`turns` is an observer: how many hold `tabsMu` until the request is through with it.

`AnsweredInTime` bounds the age by what the request has met, under any timeouts and
any number of callers: its own stages, and `turns` fetches. It says how long an answer
can take, not that it is heard. With the shipped timeouts it is not: `lost_answer` is
an upload that no one else disturbs, whose conversion takes 30 of its 120 seconds.

A recording is the set of the signatures it shows. `DetectFormat` yields the set of
the names the loop over the map may return; ogg and opus have one signature, so
where only one of them is allowed `RefuseFormat` and `TakeFormat` are both enabled: the
same file is refused or taken from one request to the next. What else may be wrong with
a request (`Flaws`) is a choice with its status. ffmpeg runs under a context of its own,
so a client that leaves does not stop it.

`line` is `tabsMu`: its head holds it, the others wait in order, and `held` is what
is left of the longest that the holder may take, `FetchTime`. The order is that of
`sync.Mutex` once somebody has waited for a millisecond, which is long before a
fetch that takes seconds ends. A failed fetch, and the context of a client that
has left, both leave the tab unchecked and the job goes on (`TabsUnchecked`).
`Others` are the callers of `GET /sheets` and the workers.

### RateLimiter

Credits are tokens times `Cost`, so that a tick brings `Rate` whole credits: with
`Cost` the ticks of a minute, `Rate` is `RATE_LIMIT_PER_IP`. `idle` is the time since
`lastFill`, which equals the time since `lastUsed` after every call. `window` is an
observer that counts what is let through from a moment it chooses.

### SheetExport

`export[w]` is the state of a call: where it is, row, attempt, whether the context
has ended, and the outcome. `sheet` is the tab. A call fails before the append
was applied (`AppendFails`), after (`AppendLost`), or while Google still has it
(`AppendAbandoned`); in the last case `ApplyLate` may apply it at any time or never.
`Full` are the rows whose last cell is not empty: the values API leaves trailing
empty cells out, so the length check at `client.go:426` skips the others.
`LookupRows` is how many of the appended rows `A1:D1000` covers. `MaxExports` is
a bound of the model.

### SheetsCaches

A caller asks for the tabs (`Tabs`, `TabExists`, `sheetIDFor`), for the categories of a
tab, or for nothing but a token (the calls of `SheetExport`). `call[p]` is its
question and place: `queued` for `tabsMu` or `catsMu`, `wantToken` for the mutex of
the token, in the `exchange` of a token, in the `fetch` of a list, or reading a
`range` that a dropdown names. `http[p]` is the current request: what is left of
its timeout, whether Google has acted on it, and the remaining life of the
token it carries. `answer[p]` is what the caller was given: whose list, and how
long ago Google read it. A mutex is taken in the step that checks the cache
(`Hit`, `Miss`) and freed in the step that returns (`Store`, `Fail`).

The contents of lists are abstracted to the tab they describe and to whether
anything was found, since a nil list of categories is not kept and an empty
list of tabs is. A range that cannot be read adds nothing, and the list is
stored all the same. Entries are stamped when the answer arrives, so what was
read is older than its stamp; expiry of the token is counted from there too, so
Google ends it earlier than the gateway believes. `MaxRanges`, the number of
ranges one list names, bounds what the code does not: each of the 1000 cells it
looks at can name some, and all are read under `catsMu` with one token (`SendNext`).
`used` is an observer that counts how long. `TokensValid` says for how much of such a
chain the one check is good, whatever its length: a call that begins before the
`Margin` less a `CallTime` has passed still carries a live token. The `CallTime` is
what the expiry is late by, being counted from the arrival of the token. With 60 s and
15 s that is 45 s of use; a list of many slow ranges goes on with an expired token,
each of its ranges is refused, left out, and the rest kept for an hour. The run
reaches that: its bound is met exactly, and tokens do expire in the last range.

## Runs

| run | instance | what it shows |
|---|---|---|
| `job_queue` | 3 jobs, 2 workers, capacity 1, budget 2, overrun 1, TTL 3, drain 2 | one owner, retention, complete outcomes, clean drain, implements `JobLifecycle` |
| `job_polling` | 3 jobs, 1 worker, 1 client, capacity 1, budget 1, TTL 1 | consistent and monotone answers; the bound on accepted audio |
| `worker_calls` | 2 jobs, 1 worker, capacity 1, budget 4, overrun 4, 3 attempts at the LLM, 2 at the sheet, every request and every mutex 1, fair | implements `JobQueue` and its fairness, no early giving up, accepted jobs settle, shutdown completes, records expire |
| `upload` | 2 uploads, 1 other caller, read 1, convert 2, fetch 1, write 3, fair | no upload waits longer than its stages and its turn, every upload ends |
| `rate_limit` | 2 addresses, burst 2, rate 2/3 of a token per tick | implements `TokenBucket`, window bound, no starvation |
| `sheet_export` | 2 workers, 2 rows (one with an empty last cell), 2 attempts, 3 exports, lookup over 3 rows, fair | success means present, duplicates bounded, rows bounded by attempts, exports return |
| `sheets_caches` | 2 callers, 1 tab, 2 ranges, TTLs 1 and 2, a call 1, token 4, margin 2, fair | answers current, single fetches, valid tokens, no circular wait, holds run out, calls return |
| `queue_drain` | violation | `Stop` does not drain (comment at `queue.go:58`) |
| `polled_failure` | violation | `failed` without its error (`README.md:63`) |
| `sheet_resubmit` | violation | a resubmitted row is duplicated (`README.md:160-161`) |
| `categories_of_tab` | violation | one tab's categories are given for another (`client.go:223`) |
| `lost_answer` | violation | an accepted upload is not told its job (`docs/testingScript.md:116`) |

Why the bounds are enough: three jobs are one queued, one processed by each
worker or refused; two workers can both be idle, both busy, or one of each when
the signal comes; a budget of two ticks separates deadline, settled and evicted;
the drain ends before and after the workers. In `job_polling` three jobs face a
channel of one and one worker, so the audio bound of two is reached and a third
job refused; the TTL is as short as `TTLCovers` allows. No run has capacity 0; the
theorems on `OneOwner`, `AcceptedAudioBounded` and the other safety properties of
the pipeline include it. In `worker_calls` a job waits behind another; the budget
can run out in a request, in a pause and in a wait for a mutex, and covers the three
attempts at the LLM, with pauses of one and two ticks, only when they fail fast; the
overrun is exactly what `OverrunAssumption` asks for. In `upload` an upload can be
third in line, each of its deadlines can be met exactly, and answers come before and
after the write deadline. Of the two recordings one is no audio, and one has the
signature of ogg, which is allowed, and of opus, which is not. `lost_answer` has the
shipped timeouts in units of ten seconds, 1, 3 and 12, with a fetch of 3 (a token and a
list of 15 s each).
In `rate_limit` a bucket is empty, partly filled, full and forgettable, with the
TTL exactly at the edge of `EvictionSafe`. In `sheet_export` the sheet grows past
the rows the lookup reads, and two workers with two attempts can lose and
abandon appends of the same row. In `sheets_caches` the margin is used up by a fetch
and a range, and the second range follows; two callers can want the same mutex or hold one each and
meet at the token's, and a list can expire while another is fetched. Jobs and workers are symmetric in the safety
runs of the pipeline; liveness is checked without symmetry.

`rate_limit`'s `WindowBound` is burst plus refill. `README.md:74` speaks of 30
requests a minute; with the default burst of 30, a minute that starts with a full bucket
lets through almost 60, and `WindowBound` admits that. `CopiesBounded` is about rows that
the lookup can find. A row without comments is not among them: its recording is exported
again each time it is submitted, although `README.md:160-161` says that this never
duplicates a row. What holds of such rows is `RowsPerExport`.

Fairness, and why the code justifies it: a submit handler runs to its end; an
idle worker takes a job or stops; a call returns once its context has ended and
the mutexes it waits for are free (`Returns`; that this is what the chains of calls
give is `MeetsFairness`, from the timers alone); time passes; the sweep's ticker
fires; main's steps happen. Nothing is assumed of clients, signals, whisper,
the LLM or Google. `CallsFairness` assumes of a call that it ends when its timer has
fired or its context has ended, that a mutex is had once its wait is over, and
that the loops go on after a pause. `AcceptedJobsSettle` is only claimed while no shutdown has
begun, because a shutdown does leave jobs behind. In `RateLimiter` the client is
the one that keeps asking: `NoStarvation` is about such a client.
`SheetExport` assumes that the context ends, that a failing call then
returns, and that the wait between attempts ends. `SheetsCaches` assumes that a
call that has timed out returns and that a mutex that is free again and again
is had in the end (strong fairness): `sync.Mutex` hands over to the first waiter
once it has waited for a millisecond. `UploadPath` assumes that time passes, that a
handler whose deadline has come moves on, and that a fetch of the tab list ends
within `FetchTime`: not that a body arrives, that ffmpeg ends or Google answers.

Every property of a passing run has a mutant: a changed definition, kept next
to the one it replaces and commented as a plausible bug, under which TLC finds
the property violated. No specification uses these definitions.

## Proofs

For any number of jobs and workers, any capacity and any times:

* `JobQueueProofs`: `TypeCorrect`, `Ownership`, `Retention`, `Outcomes`,
  `CleanShutdown`, `AudioBounded`, and `Implementation` (under `TTLCovers`). The properties are not
  inductive: nothing in `OneOwner` says that a queued job was never started, or in
  `RetainedWhileOwned` how old a record can be. `IInv` adds what a job looks like
  in the channel (`QueuedUntouched`), at each position of its handler
  (`HandlerPlaces`) and of its worker (`WorkerPlaces`). The heart of the last is
  that the age of a record plus what is left of its worker's budget never
  exceeds the budget; at a deadline plus the overrun the age is therefore at most
  their sum, and with `TTLCovers` the sweep finds no record expired that a worker
  holds. Steps of `processJob` are proved through two lemmas, one for steps that
  keep the job and one for steps that let it go. For `AudioBounded` an accepted job
  that still has its audio is, by `OneOwner` and `SettledOutcome`, in the channel or
  with a worker, and these are no more than the places there are.
* `JobPollingProofs`: `PollerTypes`, `DoneIsComplete`, `MissingIsFinal`, and
  `AnswersInOrder` (under `TTLCovers`). `PollInv` says of what an encoder has read so
  far that the record is now at that status or a later one (`Later`), and that a
  result read after done is complete. Every step of the pipeline respects that order.
  `AnswersInOrder` relates the last answer to the draft of the next one and to the
  record, and needs `TTLCovers` because otherwise a record that was answered 404 could
  be saved again.
* `WorkerCallsProofs`: `CallsTypes`, `CallsImplementQueue` and, by it, `CallsRetain`,
  `CallsKeepPromises` and `CallsKeepLifecycle`: what is proved of `JobQueue` holds of
  the worker with its calls, down to the refinement of `JobLifecycle`.
  The mapping is the identity on `JobQueue`'s variables; what has to be shown is
  that the clock of `WorkerCalls` never goes where `JobQueue`'s may not. `OnTime`
  says that what is left of the context and `LockOverrun` always covers the wait a
  worker is in and those it still owes (`Owed`), for any timeouts and retries.
  `LLMGetsItsPauses` proves `GivesUpLate` from `PausesWaited`: what is gone of the
  context covers the pauses before the attempt that runs, 2^(n-1) - 1 before the n-th,
  and during a pause, with what is left of it, that pause too. The prover knows nothing
  of exponents: `PowersDouble` gets 2^(n+1) = 2 * 2^n from the library's cardinality of
  `SUBSET` and a bijection between the subsets with and without n + 1.
* `UploadPathProofs`: `UploadTypes` and `AnswersInTime`, without a condition on the
  timeouts or on the number of callers. `InTime` says that the age of a request
  and what is left of its stage are within the deadlines of the stages so far. In
  line for the tab list (`Turns`) its age, what is left of the holder's time and one
  fetch for everybody in between are within the turns that it counted when it
  joined. That holds because the line loses only its head and gains only at its end, and
  names nobody twice (`InLine`).
* `RateLimiterProofs`: `TypeCorrect`, and under `EvictionSafe` (what comes in during
  the time after which a bucket is forgotten fills it) `Implementation` and
  `Windows`. The refinement maps a bucket to what `Allow` would find in it; each
  step is a lemma on how that level changes. `Windows` rests on the invariant that
  what a window let through, plus the level, is at most a full bucket and the
  refill. The defaults satisfy `EvictionSafe`: 900 tokens come in for a burst of 30.
* `SheetExportProofs`: `TypeCorrect`, `SuccessInSheet`, `Deduplication` with
  `OneWorkerDeduplicates` for a pool of one, and `RowsBounded`. For the copies of a row the
  strengthening counts, for each row, copies, pending appends of workers whose
  lookup missed, and appends in flight: together at most the workers and what
  was ever abandoned, because a worker joins the pending ones only while there
  is no copy. It needs the sheet to be within the rows the lookup reads.
  `RowsBounded` does not: `RowsInv` counts the rows, the appends that Google may still
  apply (`Late`) and those that the exports under way have left (`Tickets`), which are
  together at most what the exports begun so far may attempt. Both are sets of pairs,
  so that a sum over workers or rows is a cardinality.
* `SheetsCachesProofs`: `TypeCorrect`, `Currency`, `SingleFetch`, `LiveTokens`,
  `NoDeadlock`, `HoldsEnd`, `HoldsBounded`. The
  invariant says who holds which mutex at each place (`Position`), and bounds each
  clock: what was read by the calls since (`ReadClock`, `EntryClock`), and the life of a
  token from below: with the time it has been used and the time its clock is late it is
  more than the margin (`TokenClock`), for chains of any length. What others do to a caller is one lemma, `Others`,
  from the frame that every step keeps. `NoDeadlock` needs to know that a mutex that is
  taken is held by a caller at a place where it holds it (`Holders`): the order in which
  they are taken, list before token, does the rest. `HoldsEnd` is what makes
  `CallsReturn` true, a measure (`Remaining`) that time uses up and no step renews, and
  `HoldsBounded` says how large it is: one call for the token and `FetchTime` for the list.

`QueueLemmas` holds the facts about sending to and receiving from a queue without
repetitions that the channel and the line for the tab list share.

Assumptions are those named in the modules: `NoJob` is no job, workers are finitely
many, times and capacities are naturals with a positive budget, the rate and cost
are positive, `Nobody` is no caller, the TTLs are positive, a token lives longer
than the margin and at least as long as a call, the timeouts of the server are not
zero (Go takes zero for none), and an upload is not one of the other callers; in `WorkerCalls`, `ExportAssumption` and
`OverrunAssumption`.

Only model-checked: liveness under fairness (`AcceptedJobsSettle`,
`ShutdownCompletes`, `SettledJobsExpire`, `MeetsFairness`, `UploadsEnd`, `NoStarvation`,
`ExportsReturn`, `CallsReturn`), which the prover cannot reach since it does not reason
about `ENABLED`, and the runs that expect a violation. Every safety and action property
of a passing run is a theorem.

## Not modelled

* What the prompts and answers of whisper and the LLM say: an attempt succeeds or
  fails, in the request or in `parseResponse`.
* A composition in which the waits for the mutexes of the sheets client come from
  its callers: `WorkerCalls` and `UploadPath` take them as constants. `SheetsCaches`
  shows that they end.
* What a restart leaves behind: nothing is persisted, so every model is about one life
  of the process.
* `ClientIP`, CORS, routing and body limits: stateless header handling.
* The early revocation of a token: nothing clears it on a 401, so it is sent until
  the margin before its expiry.
* Which row is formatted after an append. `updatedRowNumber` takes the first capitals
  followed by digits in the range that Google reports (`client.go:521`), the title of the
  tab included: for a tab called 'Q3 2026' it is row 3, whichever row was appended.
* Floating-point rounding in the limiter, the conversions of `BuildRow`, and the look
  that is applied to a row. Two comments disagree with it: `client.go:581` says
  Arial where the request says Oswald (`client.go:604`), and `client.go:505` and
  `529-530` name a currency format on column C that is not among the requests
  (`client.go:543-546`).
* Rows that somebody inserts by hand between an append and its formatting.
* Start-up: a configuration that does not parse falls back to its default, a Sheets
  client that cannot be made ends the process, and categories that cannot be
  loaded leave the LLM its general prompt for the life of the process.
* Torn reads of Go strings and slices in the unlocked records.
* The whisper and LLM servers, the shell scripts and the images.

## Plan

Done, in this order: the job pipeline, since everything else hangs on it;
polling; the limiter; the export; the caches; their proofs; the upload path; the
worker's calls and their refinement of the pipeline;
the proofs about polling, the calls and the upload path; the bounds on rows, holds
and answers with their proofs, and the pauses of the LLM. Left:

1. `SheetExport` in place of `WorkerCalls`' lookup and append, so that one behaviour
   has both the time they take and what they leave in the sheet.
2. The waits of `WorkerCalls` and `UploadPath` derived from the callers of
   `SheetsCaches` instead of assumed: `HoldsBounded` is the time of one holder, and
   what is missing is the order of those who wait.
3. The dates and amounts of `BuildRow` as functions, with `cellEqual`, against the
   question whether a row that was appended is recognised.
