------------------------------ MODULE JobQueue ------------------------------
(***************************************************************************)
(* The job pipeline of the gateway (internal/transcription): the tail of   *)
(* SubmitJobHandler that saves and enqueues a job, the bounded channel, the *)
(* worker pool that runs processJob, the TTL sweep of the JobStore, and the *)
(* shutdown sequence of main.                                              *)
(*                                                                         *)
(* The fields of a *Job are written without a lock while the store hands   *)
(* out the same pointer, so every write that another goroutine can tell    *)
(* apart is a step of its own.  Time is a Tick; a goroutine that is not    *)
(* waiting for anything takes no time.                                     *)
(***************************************************************************)
EXTENDS Integers, Sequences, FiniteSets, Functions

CONSTANTS
    Jobs,            \* uploads that passed validation and conversion
    Workers,         \* the goroutines started by Start
    NoJob,
    MaxQueueSize,    \* capacity of the channel; 0 is an unbuffered channel
    WhisperTimeout,  \* budget of the context that processJob creates
    LockOverrun,     \* how long the sheets client's mutexes, which ignore the
                     \* context, may keep a worker past its deadline
    JobTTL,
    DrainTimeout,    \* how long main waits for the workers
    SheetsEnabled

ASSUME JobsAssumption == NoJob \notin Jobs
ASSUME WorkersAssumption == IsFiniteSet(Workers)
ASSUME QueueAssumption == MaxQueueSize \in Nat
ASSUME TimeAssumption ==
    /\ WhisperTimeout \in Nat \ {0}
    /\ LockOverrun \in Nat
    /\ JobTTL \in Nat
    /\ DrainTimeout \in Nat
ASSUME SheetsAssumption == SheetsEnabled \in BOOLEAN

VARIABLES
    job,       \* the fields of each *Job, shared by every goroutine
    stored,    \* the jobs in JobStore.jobs
    queue,     \* the buffered channel JobQueue.jobs
    handler,   \* how far the submit request of each job has got
    worker,    \* where each worker stands in processJob
    server,    \* main: serving, draining, closing, exited
    drainLeft  \* what is left of main's wait for the workers

vars == <<job, stored, queue, handler, worker, server, drainLeft>>
-----------------------------------------------------------------------------
Statuses == {"none", "queued", "processing", "done", "failed"}
Results == {"none", "text", "extracted"}

(* error: Error is not empty; wav: WAVData is not nil; age: ticks since    *)
(* UpdatedAt, counted up to the first age at which a sweep may evict.      *)
JobFields == [status : Statuses, result : Results, error : BOOLEAN,
              wav : BOOLEAN, age : 0 .. JobTTL + 1]

Handlers == {"none", "saved", "accepted", "rejecting", "refused"}

(* idle: at worker's select; picked: at line 86 with a job; whisper, llm,  *)
(* export: waiting for that service; whisperFailed, llmFailed: between     *)
(* Status = failed and the writes that follow; marked: between Status =    *)
(* done and UpdatedAt.                                                     *)
Waits == {"whisper", "llm", "export"}
Instants == {"picked", "whisperFailed", "llmFailed", "marked"}
Places == {"idle", "exited"} \cup Waits \cup Instants

WorkerFields == [at : Places, job : Jobs \cup {NoJob},
                 left : (- LockOverrun) .. WhisperTimeout]

Servers == {"serving", "draining", "closing", "exited"}

TypeOK ==
    /\ job \in [Jobs -> JobFields]
    /\ stored \in SUBSET Jobs
    /\ queue \in Seq(Jobs)
    /\ handler \in [Jobs -> Handlers]
    /\ worker \in [Workers -> WorkerFields]
    /\ server \in Servers
    /\ drainLeft \in 0 .. DrainTimeout
-----------------------------------------------------------------------------
Idle == [at |-> "idle", job |-> NoJob, left |-> 0]

Init ==
    /\ job = [j \in Jobs |-> [status |-> "none", result |-> "none",
                              error |-> FALSE, wav |-> FALSE, age |-> 0]]
    /\ stored = {}
    /\ queue = <<>>
    /\ handler = [j \in Jobs |-> "none"]
    /\ worker = [w \in Workers |-> Idle]
    /\ server = "serving"
    /\ drainLeft = DrainTimeout

Running == server # "exited"

(* stopCh is closed by the first thing the signal goroutine does.          *)
Stopped == server # "serving"

Busy(w) == worker[w].job # NoJob
Held(j) == \E w \in Workers : worker[w].job = j
Queued(j) == j \in Range(queue)
Accepted(j) == handler[j] = "accepted"

(* Plausible bugs in the sweep: any old record, or only successful ones.   *)
ExpiredInAnyStatus(j) == job[j].age > JobTTL
ExpiredWhenDone(j) == job[j].status = "done" /\ job[j].age > JobTTL

Settled(j) == job[j].status \in {"done", "failed"}
Expired(j) == Settled(j) /\ job[j].age > JobTTL

Save(j) == stored' = stored \cup {j}
-----------------------------------------------------------------------------
(* SubmitJobHandler, from the allocation of the job on.  Requests are      *)
(* served until the process ends, so also while the workers drain.         *)

Submit(j) ==
    /\ Running
    /\ handler[j] = "none"
    /\ job' = [job EXCEPT ![j] = [status |-> "queued", result |-> "none",
                                  error |-> FALSE, wav |-> TRUE, age |-> 0]]
    /\ Save(j)
    /\ handler' = [handler EXCEPT ![j] = "saved"]
    /\ UNCHANGED <<queue, worker, server, drainLeft>>

EnqueueBuffered(j) ==
    /\ Running
    /\ handler[j] = "saved"
    /\ Len(queue) < MaxQueueSize
    /\ queue' = Append(queue, j)
    /\ handler' = [handler EXCEPT ![j] = "accepted"]
    /\ UNCHANGED <<job, stored, worker, server, drainLeft>>

(* A worker parked in its select receives straight from the sender.  Once  *)
(* stopCh is closed no worker is parked any more.                          *)
EnqueueHandoff(j, w) ==
    /\ ~Stopped
    /\ handler[j] = "saved"
    /\ queue = <<>>
    /\ worker[w].at = "idle"
    /\ worker' = [worker EXCEPT ![w].at = "picked", ![w].job = j]
    /\ handler' = [handler EXCEPT ![j] = "accepted"]
    /\ UNCHANGED <<job, stored, queue, server, drainLeft>>

(* A plausible bug: Enqueue returns true from its default branch.          *)
EnqueueDropped(j) ==
    /\ Running
    /\ handler[j] = "saved"
    /\ Len(queue) = MaxQueueSize
    /\ handler' = [handler EXCEPT ![j] = "accepted"]
    /\ UNCHANGED <<job, stored, queue, worker, server, drainLeft>>

(* An idle worker need not have reached its select yet, so an unbuffered   *)
(* channel may refuse a job while a worker is idle.                        *)
EnqueueRejected(j) ==
    /\ Running
    /\ handler[j] = "saved"
    /\ Len(queue) = MaxQueueSize
    /\ job' = [job EXCEPT ![j].status = "failed"]
    /\ handler' = [handler EXCEPT ![j] = "rejecting"]
    /\ UNCHANGED <<stored, queue, worker, server, drainLeft>>

(* The refused job keeps its audio until the store forgets it.             *)
RejectJob(j) ==
    /\ Running
    /\ handler[j] = "rejecting"
    /\ job' = [job EXCEPT ![j].error = TRUE, ![j].age = 0]
    /\ Save(j)
    /\ handler' = [handler EXCEPT ![j] = "refused"]
    /\ UNCHANGED <<queue, worker, server, drainLeft>>

Enqueue(j) ==
    \/ EnqueueBuffered(j)
    \/ \E w \in Workers : EnqueueHandoff(j, w)
    \/ EnqueueRejected(j)
-----------------------------------------------------------------------------
(* worker: when both stopCh is closed and a job waits, select picks either. *)

Dequeue(w) ==
    /\ Running
    /\ worker[w].at = "idle"
    /\ queue # <<>>
    /\ worker' = [worker EXCEPT ![w].at = "picked", ![w].job = Head(queue)]
    /\ queue' = Tail(queue)
    /\ UNCHANGED <<job, stored, handler, server, drainLeft>>

WorkerStop(w) ==
    /\ Running
    /\ Stopped
    /\ worker[w].at = "idle"
    /\ worker' = [worker EXCEPT ![w].at = "exited"]
    /\ UNCHANGED <<job, stored, queue, handler, server, drainLeft>>

(* processJob, step by step.                                               *)

Go(w, from, to) ==
    /\ Running
    /\ worker[w].at = from
    /\ worker' = [worker EXCEPT ![w].at = to]
    /\ UNCHANGED <<queue, handler, server, drainLeft>>

Return(w, from) ==
    /\ Running
    /\ worker[w].at = from
    /\ worker' = [worker EXCEPT ![w] = Idle]
    /\ UNCHANGED <<queue, handler, server, drainLeft>>

StartJob(w) ==
    /\ Running
    /\ worker[w].at = "picked"
    /\ job' = [job EXCEPT ![worker[w].job].status = "processing",
                          ![worker[w].job].age = 0]
    /\ Save(worker[w].job)
    /\ worker' = [worker EXCEPT ![w].at = "whisper", ![w].left = WhisperTimeout]
    /\ UNCHANGED <<queue, handler, server, drainLeft>>

(* Plausible bugs: the failure branch does not drop the audio; it returns  *)
(* without settling the job.                                               *)
TranscribeFailsWithAudio(w) ==
    /\ Go(w, "whisper", "whisperFailed")
    /\ job' = [job EXCEPT ![worker[w].job].age = 0,
                          ![worker[w].job].status = "failed"]
    /\ UNCHANGED stored

TranscribeFailsUnsettled(w) ==
    /\ Return(w, "whisper")
    /\ job' = [job EXCEPT ![worker[w].job].wav = FALSE,
                          ![worker[w].job].age = 0]
    /\ UNCHANGED stored

TranscribeOK(w) ==
    /\ Go(w, "whisper", "llm")
    /\ worker[w].left > 0
    /\ job' = [job EXCEPT ![worker[w].job].wav = FALSE,
                          ![worker[w].job].age = 0,
                          ![worker[w].job].result = "text"]
    /\ UNCHANGED stored

(* A plausible bug: the error is logged and not stored.                    *)
ReportWhisperFailureUnset(w) ==
    /\ Return(w, "whisperFailed")
    /\ Save(worker[w].job)
    /\ UNCHANGED job

TranscribeFails(w) ==
    /\ Go(w, "whisper", "whisperFailed")
    /\ job' = [job EXCEPT ![worker[w].job].wav = FALSE,
                          ![worker[w].job].age = 0,
                          ![worker[w].job].status = "failed"]
    /\ UNCHANGED stored

ReportWhisperFailure(w) ==
    /\ Return(w, "whisperFailed")
    /\ job' = [job EXCEPT ![worker[w].job].error = TRUE]
    /\ Save(worker[w].job)

(* A plausible bug: a failed extraction is taken as best effort.           *)
ExtractFailsIgnored(w) ==
    /\ Go(w, "llm", "export")
    /\ UNCHANGED <<job, stored>>

ExtractOK(w) ==
    /\ Go(w, "llm", "export")
    /\ worker[w].left > 0
    /\ job' = [job EXCEPT ![worker[w].job].result = "extracted"]
    /\ UNCHANGED stored

(* A plausible bug: the return after the failure is missing.               *)
ReportExtractionFailureAndGoOn(w) ==
    /\ Go(w, "llmFailed", "export")
    /\ job' = [job EXCEPT ![worker[w].job].error = TRUE,
                          ![worker[w].job].age = 0]
    /\ Save(worker[w].job)

ExtractFails(w) ==
    /\ Go(w, "llm", "llmFailed")
    /\ job' = [job EXCEPT ![worker[w].job].status = "failed"]
    /\ UNCHANGED stored

ReportExtractionFailure(w) ==
    /\ Return(w, "llmFailed")
    /\ job' = [job EXCEPT ![worker[w].job].error = TRUE,
                          ![worker[w].job].age = 0]
    /\ Save(worker[w].job)

(* The sheet append may succeed or fail: either way the job is done.       *)
MarkDone(w) ==
    /\ Go(w, "export", "marked")
    /\ job' = [job EXCEPT ![worker[w].job].status = "done"]
    /\ UNCHANGED stored

FinishJob(w) ==
    /\ Return(w, "marked")
    /\ job' = [job EXCEPT ![worker[w].job].age = 0]
    /\ Save(worker[w].job)
-----------------------------------------------------------------------------
(* One pass of StartCleanup.  It still may run once after cleanupStop is   *)
(* closed, when the ticker is ready too.                                   *)
Sweep ==
    /\ Running
    /\ \E j \in stored : Expired(j)
    /\ stored' = {j \in stored : ~Expired(j)}
    /\ UNCHANGED <<job, queue, handler, worker, server, drainLeft>>

(* A plausible bug: the calls are not given the job's context.             *)
MayWaitWithoutContext(w) ==
    \/ worker[w].at \in {"idle", "exited", "whisper", "llm"}
    \/ worker[w].at = "export" /\ SheetsEnabled

(* A call to whisper or the LLM returns when the context ends; a worker in *)
(* AppendRowWithRetry can be past its deadline only on a mutex.            *)
MayWait(w) ==
    \/ worker[w].at \in {"idle", "exited"}
    \/ worker[w].at \in {"whisper", "llm"} /\ worker[w].left > 0
    \/ worker[w].at = "export" /\ SheetsEnabled /\ worker[w].left > - LockOverrun

Older(j) == IF job[j].age > JobTTL THEN job[j].age ELSE job[j].age + 1

(* The clock advances, unless a handler or main has something to do.       *)
Elapse ==
    /\ server \in {"serving", "draining"}
    /\ server = "draining" => drainLeft > 0
    /\ \A j \in Jobs : handler[j] \notin {"saved", "rejecting"}
    /\ job' = [j \in Jobs |-> IF j \in stored THEN [job[j] EXCEPT !.age = Older(j)]
                                              ELSE job[j]]
    /\ worker' = [w \in Workers |-> IF Busy(w) THEN [worker[w] EXCEPT !.left = @ - 1]
                                               ELSE worker[w]]
    /\ drainLeft' = IF server = "draining" THEN drainLeft - 1 ELSE drainLeft
    /\ UNCHANGED <<stored, queue, handler, server>>

Tick == (\A w \in Workers : MayWait(w)) /\ Elapse
-----------------------------------------------------------------------------
(* main: SIGINT or SIGTERM closes stopCh; main then waits for the workers  *)
(* or for DrainTimeout, stops the sweep and the listener, and returns.     *)

Drained == \A w \in Workers : worker[w].at = "exited"

Advance(from, to) ==
    /\ server = from
    /\ server' = to
    /\ UNCHANGED <<job, stored, queue, handler, worker, drainLeft>>

(* Plausible bugs: main does not wait; it waits for an empty queue.        *)
CloseAtOnce == Advance("draining", "closing")
CloseWhenEmpty == Drained /\ queue = <<>> /\ Advance("draining", "closing")

Signal == Advance("serving", "draining")

Close ==
    /\ Drained \/ drainLeft = 0
    /\ Advance("draining", "closing")

Exit == Advance("closing", "exited")

(* SIGKILL, or a crash: what docker does ten seconds after its SIGTERM.    *)
Killed == Running /\ Advance(server, "exited")

Terminated == ~Running /\ UNCHANGED vars
-----------------------------------------------------------------------------
HandlerStep(j) == Enqueue(j) \/ RejectJob(j)

WorkerStep(w) ==
    \/ StartJob(w)
    \/ TranscribeOK(w) \/ TranscribeFails(w) \/ ReportWhisperFailure(w)
    \/ ExtractOK(w) \/ ExtractFails(w) \/ ReportExtractionFailure(w)
    \/ MarkDone(w) \/ FinishJob(w)

Next ==
    \/ \E j \in Jobs : Submit(j) \/ HandlerStep(j)
    \/ \E w \in Workers : Dequeue(w) \/ WorkerStop(w) \/ WorkerStep(w)
    \/ Sweep
    \/ Tick
    \/ Signal \/ Close \/ Exit \/ Killed
    \/ Terminated

Spec == Init /\ [][Next]_vars

(* What the scheduler and the deadlines force: a handler finishes, an idle *)
(* worker takes a job or stops, a call returns when its context has ended, *)
(* the clock, the sweep's ticker and main's own steps happen.  Nothing     *)
(* makes a service answer, a client submit or a signal arrive.             *)
Returns(w) ==
    \/ StartJob(w) \/ ReportWhisperFailure(w) \/ ReportExtractionFailure(w) \/ FinishJob(w)
    \/ worker[w].left = 0 /\ (TranscribeFails(w) \/ ExtractFails(w))
    \/ (~SheetsEnabled \/ worker[w].left = - LockOverrun) /\ MarkDone(w)

Fairness ==
    /\ \A j \in Jobs : WF_vars(HandlerStep(j))
    /\ \A w \in Workers : WF_vars(Dequeue(w) \/ WorkerStop(w)) /\ WF_vars(Returns(w))
    /\ WF_vars(Tick) /\ WF_vars(Sweep) /\ WF_vars(Close) /\ WF_vars(Exit)

FairSpec == Spec /\ Fairness
-----------------------------------------------------------------------------
(* A job is never processed twice and never dropped: the channel holds no  *)
(* job twice, no two workers hold the same job, nobody holds a queued job, *)
(* a job that was not accepted is not in the hands of the queue, and an    *)
(* accepted job that has not settled is either queued or held (Enqueue,    *)
(* worker, processJob).                                                    *)
OneOwner ==
    /\ IsInjective(queue)
    /\ \A v, w \in Workers : Busy(w) /\ worker[v].job = worker[w].job => v = w
    /\ \A j \in Jobs : ~(Queued(j) /\ Held(j))
    /\ \A j \in Jobs : Queued(j) \/ Held(j) => Accepted(j)
    /\ \A j \in Jobs : Accepted(j) /\ ~Settled(j) => Queued(j) \/ Held(j)

TTLCovers == WhisperTimeout + LockOverrun <= JobTTL

(* When the TTL is at least the longest a job can be processed, the sweep  *)
(* never evicts a job that is queued or in a worker's hands, although it   *)
(* reads Status and UpdatedAt while processJob is between the two writes.  *)
RetainedWhileOwned ==
    TTLCovers => \A j \in Jobs : Queued(j) \/ Held(j) => j \in stored

(* The audio of accepted jobs in memory never exceeds the channel and the  *)
(* worker pool: every path of processJob past Transcribe drops WAVData.    *)
AcceptedAudioBounded ==
    Cardinality({j \in Jobs : Accepted(j) /\ job[j].wav})
        <= MaxQueueSize + Cardinality(Workers)

(* Once the goroutine that settles a job has let go of it, the record is   *)
(* complete: failed exactly when it carries an error, done only with an    *)
(* extraction, and it holds audio only if it was refused.                  *)
SettledOutcome ==
    \A j \in Jobs : ~Held(j) /\ handler[j] # "rejecting" =>
        /\ job[j].status = "failed" <=> job[j].error
        /\ job[j].status = "done" => job[j].result = "extracted"
        /\ Settled(j) /\ job[j].wav => handler[j] = "refused"

(* A shutdown that did not run into its timeout loses accepted jobs only   *)
(* before any worker has started them.                                     *)
CleanDrain ==
    server = "closing" /\ drainLeft > 0 =>
        \A j \in Jobs : Accepted(j) => job[j].status \in {"queued", "done", "failed"}

(* The comment on Stop: workers drain the queue and then exit.             *)
WorkersDrainBeforeExit ==
    [][\A w \in Workers : WorkerStop(w) => queue = <<>>]_vars

(* What a client that holds a job ID sees of it.                           *)
Stage(j) ==
    IF ~Accepted(j) THEN "absent"
    ELSE IF ~Running THEN "lost"
    ELSE IF j \notin stored THEN "expired"
    ELSE job[j].status

stage == [j \in Jobs |-> Stage(j)]

Lifecycle == INSTANCE JobLifecycle WITH Jobs <- Jobs, stage <- stage

(* When the TTL covers the processing time, accepted jobs go through the   *)
(* stages of JobLifecycle and no others: no settled job changes its mind,  *)
(* none is forgotten early and none comes back after it was forgotten.     *)
ImplementsLifecycle == Lifecycle!Spec

(* As long as no shutdown begins, every accepted job settles, however      *)
(* whisper, the LLM and the sheet behave.                                  *)
AcceptedJobsSettle ==
    \A j \in Jobs : Accepted(j) ~> (Settled(j) /\ ~Held(j)) \/ server # "serving"

(* A signal ends the process, even if no worker ever comes back.           *)
ShutdownCompletes == server = "draining" ~> server = "exited"

(* Every settled record, that of a refused job and its audio included, is  *)
(* forgotten in the end: the store cannot grow for ever.                   *)
SettledJobsExpire ==
    \A j \in Jobs : Settled(j) ~> j \notin stored \/ server # "serving"
=============================================================================
