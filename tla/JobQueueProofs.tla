--------------------------- MODULE JobQueueProofs ---------------------------
(***************************************************************************)
(* Proofs about JobQueue for any number of jobs and workers, any capacity  *)
(* and any times.                                                          *)
(***************************************************************************)
EXTENDS JobQueue, QueueLemmas
-----------------------------------------------------------------------------
(* The inductive invariant.  Beside the properties themselves it says where *)
(* a job can be for each status, so that the sweep and the shutdown cannot  *)
(* meet a job in a state the handler or a worker left unfinished.           *)

(* A queued job is still untouched, and the store cannot have evicted it.   *)
QueuedUntouched ==
    \A j \in Jobs : Queued(j) =>
        job[j].status = "queued" /\ ~job[j].error /\ j \in stored

(* What the handler of a job has done so far.                               *)
HandlerPlaces ==
    \A j \in Jobs :
        /\ handler[j] = "none" => job[j].status = "none" /\ ~job[j].error
        /\ handler[j] = "saved" => /\ job[j].status = "queued" /\ ~job[j].error
                                  /\ job[j].age = 0 /\ j \in stored
        /\ handler[j] = "rejecting" => job[j].status = "failed"
        /\ handler[j] = "refused" => job[j].status = "failed"
        /\ handler[j] = "accepted" => job[j].status # "none"

(* What a worker has done so far with the job it holds, whose record is no  *)
(* older than the part of the budget that is used up.                       *)
StatusAt(at) ==
    IF at = "picked" THEN "queued"
    ELSE IF at \in Waits THEN "processing"
    ELSE IF at \in {"whisperFailed", "llmFailed"} THEN "failed"
    ELSE "done"

Holding(w) ==
    LET j == worker[w].job
        at == worker[w].at
    IN  /\ at \notin {"idle", "exited"}
        /\ job[j].status = StatusAt(at)
        /\ ~job[j].error
        /\ at \in {"export", "marked"} => job[j].result = "extracted"
        /\ at \notin {"picked", "whisper"} => ~job[j].wav
        /\ at # "picked" => job[j].age + worker[w].left <= WhisperTimeout

WorkerPlaces ==
    \A w \in Workers : IF Busy(w) THEN Holding(w)
                                  ELSE worker[w].at \in {"idle", "exited"}

IInv ==
    /\ TypeOK
    /\ OneOwner
    /\ QueuedUntouched
    /\ HandlerPlaces
    /\ WorkerPlaces
    /\ RetainedWhileOwned
    /\ SettledOutcome
-----------------------------------------------------------------------------
(* A step of processJob writes one job and one worker, and no other state   *)
(* but the store.                                                           *)
ProcessStep(w) ==
    /\ job' = [job EXCEPT ![worker[w].job] = job'[worker[w].job]]
    /\ worker' = [worker EXCEPT ![w] = worker'[w]]
    /\ stored' \in {stored, stored \cup {worker[w].job}}
    /\ UNCHANGED <<queue, handler, server, drainLeft>>

(* What is known of a job in a worker's hands.                              *)
LEMMA HeldFacts ==
    ASSUME IInv, NEW w \in Workers, worker[w].at \notin {"idle", "exited"}
    PROVE  /\ worker[w].job \in Jobs
           /\ job[worker[w].job] \in JobFields
           /\ worker[w] \in WorkerFields
           /\ Busy(w) /\ Holding(w)
           /\ Accepted(worker[w].job) /\ ~Queued(worker[w].job)
           /\ \A v \in Workers \ {w} : worker[v].job # worker[w].job
<1>1. Busy(w) /\ Holding(w)
  BY DEF IInv, WorkerPlaces, Holding
<1>2. /\ worker[w] \in WorkerFields
      /\ worker[w].job \in Jobs
  BY <1>1 DEF IInv, TypeOK, WorkerFields, Busy
<1>3. job[worker[w].job] \in JobFields
  BY <1>2 DEF IInv, TypeOK
<1>4. Held(worker[w].job)
  BY DEF Held
<1> QED
  BY <1>1, <1>2, <1>3, <1>4 DEF IInv, OneOwner

(* A step of processJob that writes one well-formed job and one well-      *)
(* formed worker keeps the types.                                          *)
LEMMA ProcessStepTypes ==
    ASSUME IInv, NEW w \in Workers, worker[w].at \notin {"idle", "exited"},
           ProcessStep(w),
           job'[worker[w].job] \in JobFields, worker'[w] \in WorkerFields
    PROVE  TypeOK'
<1>1. worker[w].job \in Jobs
  BY HeldFacts
<1>2. job' \in [Jobs -> JobFields]
  BY <1>1 DEF IInv, TypeOK, ProcessStep
<1>3. worker' \in [Workers -> WorkerFields]
  BY DEF IInv, TypeOK, ProcessStep
<1> QED
  BY <1>1, <1>2, <1>3 DEF IInv, TypeOK, ProcessStep

(* A step after which the worker still holds its job.                       *)
LEMMA KeepsJob ==
    ASSUME IInv, NEW w \in Workers, worker[w].at \notin {"idle", "exited"},
           ProcessStep(w),
           job'[worker[w].job] \in JobFields, worker'[w] \in WorkerFields,
           worker'[w].job = worker[w].job, Holding(w)'
    PROVE  IInv'
<1> DEFINE j == worker[w].job
<1>1. TypeOK'
  BY ProcessStepTypes
<1>2. /\ j \in Jobs /\ Busy(w)
      /\ Accepted(j) /\ ~Queued(j)
      /\ \A v \in Workers \ {w} : worker[v].job # j
  BY HeldFacts
<1>3. /\ \A k \in Jobs \ {j} : job'[k] = job[k]
      /\ \A v \in Workers \ {w} : worker'[v] = worker[v]
      /\ stored \subseteq stored'
      /\ queue' = queue /\ handler' = handler
  BY <1>2 DEF IInv, TypeOK, ProcessStep
<1>4. job'[j].status # "none" /\ Held(j)'
  BY DEF Holding, StatusAt, Held
<1>5. \A k \in Jobs : Held(k)' <=> Held(k)
  BY <1>2, <1>3, <1>4 DEF Held
<1>6. OneOwner'
  BY <1>2, <1>3, <1>4, <1>5 DEF IInv, OneOwner, Busy, Queued, Accepted, Settled
<1>7. QueuedUntouched'
  BY <1>2, <1>3 DEF IInv, QueuedUntouched, Queued
<1>8. HandlerPlaces'
  BY <1>2, <1>3, <1>4 DEF IInv, HandlerPlaces, Accepted
<1>9. WorkerPlaces'
  <2> SUFFICES ASSUME NEW v \in Workers
               PROVE  IF Busy(v)' THEN Holding(v)' ELSE worker'[v].at \in {"idle", "exited"}
    BY DEF WorkerPlaces
  <2>1. CASE v = w
    BY <2>1, <1>2 DEF Busy
  <2>2. CASE v # w
    <3>1. worker[v].job \in Jobs \cup {NoJob}
      BY DEF IInv, TypeOK, WorkerFields
    <3> QED
      BY <2>2, <3>1, <1>2, <1>3 DEF IInv, WorkerPlaces, Busy, Holding
  <2> QED
    BY <2>1, <2>2
<1>10. RetainedWhileOwned'
  BY <1>3, <1>5 DEF IInv, RetainedWhileOwned, Queued, TTLCovers
<1>11. SettledOutcome'
  BY <1>2, <1>3, <1>4, <1>5 DEF IInv, SettledOutcome, Settled
<1> QED
  BY <1>1, <1>6, <1>7, <1>8, <1>9, <1>10, <1>11 DEF IInv

(* A step after which the worker has let go of its job.                     *)
LEMMA ReleasesJob ==
    ASSUME IInv, NEW w \in Workers, worker[w].at \notin {"idle", "exited"},
           ProcessStep(w),
           job'[worker[w].job] \in JobFields, worker'[w] = Idle,
           job'[worker[w].job].status \in {"done", "failed"},
           job'[worker[w].job].status = "failed" <=> job'[worker[w].job].error,
           job'[worker[w].job].status = "done"
                => job'[worker[w].job].result = "extracted",
           ~job'[worker[w].job].wav
    PROVE  IInv'
<1> DEFINE j == worker[w].job
<1>1. TypeOK'
  BY ProcessStepTypes, TimeAssumption DEF Idle, WorkerFields, Places
<1>2. /\ j \in Jobs /\ Busy(w)
      /\ Accepted(j) /\ ~Queued(j)
      /\ \A v \in Workers \ {w} : worker[v].job # j
  BY HeldFacts
<1>3. /\ \A k \in Jobs \ {j} : job'[k] = job[k]
      /\ \A v \in Workers \ {w} : worker'[v] = worker[v]
      /\ stored \subseteq stored'
      /\ queue' = queue /\ handler' = handler
  BY <1>2 DEF IInv, TypeOK, ProcessStep
<1>4. worker'[w].job = NoJob /\ worker'[w].at = "idle" /\ NoJob \notin Jobs
  BY JobsAssumption DEF Idle
<1>5. \A k \in Jobs : Held(k)' <=> Held(k) /\ k # j
  BY <1>2, <1>3, <1>4 DEF Held
<1>6. OneOwner'
  BY <1>2, <1>3, <1>4, <1>5 DEF IInv, OneOwner, Busy, Queued, Accepted, Settled
<1>7. QueuedUntouched'
  BY <1>2, <1>3 DEF IInv, QueuedUntouched, Queued
<1>8. HandlerPlaces'
  BY <1>2, <1>3 DEF IInv, HandlerPlaces, Accepted, Settled
<1>9. WorkerPlaces'
  <2> SUFFICES ASSUME NEW v \in Workers
               PROVE  IF Busy(v)' THEN Holding(v)' ELSE worker'[v].at \in {"idle", "exited"}
    BY DEF WorkerPlaces
  <2>1. CASE v = w
    BY <2>1, <1>4 DEF Busy
  <2>2. CASE v # w
    <3>1. worker[v].job \in Jobs \cup {NoJob}
      BY DEF IInv, TypeOK, WorkerFields
    <3> QED
      BY <2>2, <3>1, <1>2, <1>3 DEF IInv, WorkerPlaces, Busy, Holding
  <2> QED
    BY <2>1, <2>2
<1>10. RetainedWhileOwned'
  BY <1>3, <1>5 DEF IInv, RetainedWhileOwned, Queued, TTLCovers
<1>11. SettledOutcome'
  BY <1>2, <1>3, <1>5 DEF IInv, SettledOutcome, Settled
<1> QED
  BY <1>1, <1>6, <1>7, <1>8, <1>9, <1>10, <1>11 DEF IInv
-----------------------------------------------------------------------------
(* Every step of processJob.                                                *)
LEMMA WorkerStepInv ==
    ASSUME IInv, NEW w \in Workers, WorkerStep(w)
    PROVE  IInv'
<1> DEFINE j == worker[w].job
<1> USE TimeAssumption
<1> worker[w].at \notin {"idle", "exited"}
  BY DEF WorkerStep, StartJob, TranscribeOK, TranscribeFails, ReportWhisperFailure,
         ExtractOK, ExtractFails, ReportExtractionFailure, MarkDone, FinishJob, Go, Return
<1> /\ j \in Jobs /\ job[j] \in JobFields /\ worker[w] \in WorkerFields
    /\ Busy(w) /\ Holding(w)
    /\ job \in [Jobs -> JobFields] /\ worker \in [Workers -> WorkerFields]
  BY HeldFacts DEF IInv, TypeOK
<1>1. CASE StartJob(w)
  <2>1. /\ job'[j] = [status |-> "processing", result |-> job[j].result, error |-> job[j].error,
                  wav |-> job[j].wav, age |-> 0]
        /\ worker'[w] = [at |-> "whisper", job |-> j, left |-> WhisperTimeout]
    BY <1>1 DEF StartJob, JobFields, WorkerFields
  <2>2. ProcessStep(w)
    BY <1>1, <2>1 DEF StartJob, ProcessStep, JobFields, WorkerFields, Save
  <2>3. job'[j] \in JobFields /\ worker'[w] \in WorkerFields
    BY <2>1 DEF JobFields, WorkerFields, Statuses, Results, Places, Waits, Instants
  <2>4. Holding(w)'
    BY <1>1, <2>1 DEF StartJob, Holding, StatusAt, Waits, JobFields, WorkerFields
  <2> QED
    BY <2>1, <2>2, <2>3, <2>4, KeepsJob
<1>2. CASE TranscribeOK(w)
  <2>1. /\ job'[j] = [status |-> job[j].status, result |-> "text", error |-> job[j].error,
                  wav |-> FALSE, age |-> 0]
        /\ worker'[w] = [at |-> "llm", job |-> j, left |-> worker[w].left]
    BY <1>2 DEF TranscribeOK, Go, JobFields, WorkerFields
  <2>2. ProcessStep(w)
    BY <1>2, <2>1 DEF TranscribeOK, Go, ProcessStep, JobFields, WorkerFields
  <2>3. job'[j] \in JobFields /\ worker'[w] \in WorkerFields
    BY <2>1 DEF JobFields, WorkerFields, Statuses, Results, Places, Waits, Instants
  <2>4. Holding(w)'
    BY <1>2, <2>1 DEF TranscribeOK, Go, Holding, StatusAt, Waits, JobFields, WorkerFields
  <2> QED
    BY <2>1, <2>2, <2>3, <2>4, KeepsJob
<1>3. CASE TranscribeFails(w)
  <2>1. /\ job'[j] = [status |-> "failed", result |-> job[j].result, error |-> job[j].error,
                  wav |-> FALSE, age |-> 0]
        /\ worker'[w] = [at |-> "whisperFailed", job |-> j, left |-> worker[w].left]
    BY <1>3 DEF TranscribeFails, Go, JobFields, WorkerFields
  <2>2. ProcessStep(w)
    BY <1>3, <2>1 DEF TranscribeFails, Go, ProcessStep, JobFields, WorkerFields
  <2>3. job'[j] \in JobFields /\ worker'[w] \in WorkerFields
    BY <2>1 DEF JobFields, WorkerFields, Statuses, Results, Places, Waits, Instants
  <2>4. Holding(w)'
    BY <1>3, <2>1 DEF TranscribeFails, Go, Holding, StatusAt, Waits, JobFields, WorkerFields
  <2> QED
    BY <2>1, <2>2, <2>3, <2>4, KeepsJob
<1>4. CASE ExtractOK(w)
  <2>1. /\ job'[j] = [status |-> job[j].status, result |-> "extracted", error |-> job[j].error,
                  wav |-> job[j].wav, age |-> job[j].age]
        /\ worker'[w] = [at |-> "export", job |-> j, left |-> worker[w].left]
    BY <1>4 DEF ExtractOK, Go, JobFields, WorkerFields
  <2>2. ProcessStep(w)
    BY <1>4, <2>1 DEF ExtractOK, Go, ProcessStep, JobFields, WorkerFields
  <2>3. job'[j] \in JobFields /\ worker'[w] \in WorkerFields
    BY <2>1 DEF JobFields, WorkerFields, Statuses, Results, Places, Waits, Instants
  <2>4. Holding(w)'
    BY <1>4, <2>1 DEF ExtractOK, Go, Holding, StatusAt, Waits, JobFields, WorkerFields
  <2> QED
    BY <2>1, <2>2, <2>3, <2>4, KeepsJob
<1>5. CASE ExtractFails(w)
  <2>1. /\ job'[j] = [status |-> "failed", result |-> job[j].result, error |-> job[j].error,
                  wav |-> job[j].wav, age |-> job[j].age]
        /\ worker'[w] = [at |-> "llmFailed", job |-> j, left |-> worker[w].left]
    BY <1>5 DEF ExtractFails, Go, JobFields, WorkerFields
  <2>2. ProcessStep(w)
    BY <1>5, <2>1 DEF ExtractFails, Go, ProcessStep, JobFields, WorkerFields
  <2>3. job'[j] \in JobFields /\ worker'[w] \in WorkerFields
    BY <2>1 DEF JobFields, WorkerFields, Statuses, Results, Places, Waits, Instants
  <2>4. Holding(w)'
    BY <1>5, <2>1 DEF ExtractFails, Go, Holding, StatusAt, Waits, JobFields, WorkerFields
  <2> QED
    BY <2>1, <2>2, <2>3, <2>4, KeepsJob
<1>6. CASE MarkDone(w)
  <2>1. /\ job'[j] = [status |-> "done", result |-> job[j].result, error |-> job[j].error,
                  wav |-> job[j].wav, age |-> job[j].age]
        /\ worker'[w] = [at |-> "marked", job |-> j, left |-> worker[w].left]
    BY <1>6 DEF MarkDone, Go, JobFields, WorkerFields
  <2>2. ProcessStep(w)
    BY <1>6, <2>1 DEF MarkDone, Go, ProcessStep, JobFields, WorkerFields
  <2>3. job'[j] \in JobFields /\ worker'[w] \in WorkerFields
    BY <2>1 DEF JobFields, WorkerFields, Statuses, Results, Places, Waits, Instants
  <2>4. Holding(w)'
    BY <1>6, <2>1 DEF MarkDone, Go, Holding, StatusAt, Waits, JobFields, WorkerFields
  <2> QED
    BY <2>1, <2>2, <2>3, <2>4, KeepsJob
<1>7. CASE ReportWhisperFailure(w)
  <2>1. /\ job'[j] = [status |-> job[j].status, result |-> job[j].result, error |-> TRUE,
                  wav |-> job[j].wav, age |-> job[j].age]
        /\ worker'[w] = Idle
    BY <1>7 DEF ReportWhisperFailure, Return, JobFields
  <2>2. ProcessStep(w)
    BY <1>7, <2>1 DEF ReportWhisperFailure, Return, ProcessStep, JobFields, Save
  <2>3. job'[j] \in JobFields
    BY <2>1 DEF JobFields
  <2>4. /\ job'[j].status \in {"done", "failed"} /\ ~job'[j].wav
        /\ job'[j].status = "failed" <=> job'[j].error
        /\ job'[j].status = "done" => job'[j].result = "extracted"
    BY <1>7, <2>1 DEF ReportWhisperFailure, Return, Holding, StatusAt, Waits
  <2> worker'[w] \in WorkerFields
    BY <2>1 DEF Idle, WorkerFields, Places
  <2> QED
    BY <2>1, <2>2, <2>3, <2>4, ReleasesJob
<1>8. CASE ReportExtractionFailure(w)
  <2>1. /\ job'[j] = [status |-> job[j].status, result |-> job[j].result, error |-> TRUE,
                  wav |-> job[j].wav, age |-> 0]
        /\ worker'[w] = Idle
    BY <1>8 DEF ReportExtractionFailure, Return, JobFields
  <2>2. ProcessStep(w)
    BY <1>8, <2>1 DEF ReportExtractionFailure, Return, ProcessStep, JobFields, Save
  <2>3. job'[j] \in JobFields
    BY <2>1 DEF JobFields
  <2>4. /\ job'[j].status \in {"done", "failed"} /\ ~job'[j].wav
        /\ job'[j].status = "failed" <=> job'[j].error
        /\ job'[j].status = "done" => job'[j].result = "extracted"
    BY <1>8, <2>1 DEF ReportExtractionFailure, Return, Holding, StatusAt, Waits
  <2> worker'[w] \in WorkerFields
    BY <2>1 DEF Idle, WorkerFields, Places
  <2> QED
    BY <2>1, <2>2, <2>3, <2>4, ReleasesJob
<1>9. CASE FinishJob(w)
  <2>1. /\ job'[j] = [status |-> job[j].status, result |-> job[j].result, error |-> job[j].error,
                  wav |-> job[j].wav, age |-> 0]
        /\ worker'[w] = Idle
    BY <1>9 DEF FinishJob, Return, JobFields
  <2>2. ProcessStep(w)
    BY <1>9, <2>1 DEF FinishJob, Return, ProcessStep, JobFields, Save
  <2>3. job'[j] \in JobFields
    BY <2>1 DEF JobFields
  <2>4. /\ job'[j].status \in {"done", "failed"} /\ ~job'[j].wav
        /\ job'[j].status = "failed" <=> job'[j].error
        /\ job'[j].status = "done" => job'[j].result = "extracted"
    BY <1>9, <2>1 DEF FinishJob, Return, Holding, StatusAt, Waits
  <2> worker'[w] \in WorkerFields
    BY <2>1 DEF Idle, WorkerFields, Places
  <2> QED
    BY <2>1, <2>2, <2>3, <2>4, ReleasesJob
<1> QED
  BY <1>1, <1>2, <1>3, <1>4, <1>5, <1>6, <1>7, <1>8, <1>9 DEF WorkerStep
-----------------------------------------------------------------------------
(* A step of the submit handler on a job that is not in the queue's hands.  *)
LEMMA HandlerWrites ==
    ASSUME IInv, NEW j \in Jobs, Submit(j) \/ EnqueueRejected(j) \/ RejectJob(j)
    PROVE  IInv'
<1> USE TimeAssumption
<1>1. /\ job \in [Jobs -> JobFields] /\ job[j] \in JobFields
      /\ handler \in [Jobs -> Handlers]
      /\ ~Accepted(j) /\ ~Queued(j) /\ ~Held(j)
      /\ \A w \in Workers : worker[w].job # j
  BY DEF IInv, TypeOK, OneOwner, Accepted, Submit, EnqueueRejected, RejectJob, Held
<1>2. /\ job' = [job EXCEPT ![j] = job'[j]]
      /\ handler' = [handler EXCEPT ![j] = handler'[j]]
      /\ UNCHANGED <<queue, worker, server, drainLeft>>
      /\ stored' \in {stored, stored \cup {j}}
  BY <1>1 DEF Submit, EnqueueRejected, RejectJob, JobFields, Save
<1>3. /\ job'[j] \in JobFields
      /\ \/ /\ handler'[j] = "saved" /\ job'[j].status = "queued" /\ ~job'[j].error
            /\ job'[j].age = 0 /\ j \in stored'
         \/ handler'[j] = "rejecting" /\ job'[j].status = "failed"
         \/ handler'[j] = "refused" /\ job'[j].status = "failed" /\ job'[j].error
  <2>1. CASE Submit(j)
    BY <1>1, <2>1 DEF Submit, Save, JobFields, Statuses, Results
  <2>2. CASE EnqueueRejected(j)
    <3>1. job'[j] = [status |-> "failed", result |-> job[j].result, error |-> job[j].error,
                     wav |-> job[j].wav, age |-> job[j].age]
      BY <1>1, <2>2 DEF EnqueueRejected, JobFields
    <3> QED
      BY <1>1, <2>2, <3>1 DEF EnqueueRejected, JobFields, Statuses
  <2>3. CASE RejectJob(j)
    <3>1. job'[j] = [status |-> job[j].status, result |-> job[j].result, error |-> TRUE,
                     wav |-> job[j].wav, age |-> 0]
      BY <1>1, <2>3 DEF RejectJob, JobFields
    <3>2. handler'[j] = "refused" /\ job[j].status = "failed"
      BY <1>1, <2>3 DEF RejectJob, IInv, HandlerPlaces
    <3> QED
      BY <1>1, <3>1, <3>2 DEF JobFields
  <2> QED
    BY <2>1, <2>2, <2>3
<1>4. /\ \A k \in Jobs \ {j} : job'[k] = job[k] /\ handler'[k] = handler[k]
      /\ stored \subseteq stored' /\ queue' = queue /\ worker' = worker
      /\ ~Accepted(j)'
  BY <1>1, <1>2, <1>3 DEF Accepted
<1>5. TypeOK'
  BY <1>1, <1>2, <1>3 DEF IInv, TypeOK, Handlers
<1>6. OneOwner'
  BY <1>1, <1>4 DEF IInv, OneOwner, Busy, Queued, Held, Accepted, Settled
<1>7. QueuedUntouched'
  BY <1>1, <1>4 DEF IInv, QueuedUntouched, Queued
<1>8. HandlerPlaces'
  BY <1>3, <1>4 DEF IInv, HandlerPlaces
<1>9. WorkerPlaces'
  <2> SUFFICES ASSUME NEW w \in Workers
               PROVE  IF Busy(w)' THEN Holding(w)' ELSE worker'[w].at \in {"idle", "exited"}
    BY DEF WorkerPlaces
  <2>1. worker[w].job \in Jobs \cup {NoJob}
    BY DEF IInv, TypeOK, WorkerFields
  <2> QED
    BY <1>1, <1>4, <2>1 DEF IInv, WorkerPlaces, Busy, Holding
<1>10. RetainedWhileOwned'
  BY <1>4 DEF IInv, RetainedWhileOwned, Queued, Held, TTLCovers
<1>11. SettledOutcome'
  BY <1>1, <1>3, <1>4 DEF IInv, SettledOutcome, Settled, Held
<1> QED
  BY <1>5, <1>6, <1>7, <1>8, <1>9, <1>10, <1>11 DEF IInv

(* A job that is sent to the channel is queued and nowhere else (Enqueue). *)
LEMMA EnqueueBufferedInv ==
    ASSUME IInv, NEW j \in Jobs, EnqueueBuffered(j)
    PROVE  IInv'
<1>1. /\ job[j].status = "queued" /\ ~job[j].error /\ j \in stored
      /\ ~Accepted(j) /\ ~Queued(j) /\ ~Held(j)
      /\ queue \in Seq(Jobs) /\ IsInjective(queue)
  BY DEF IInv, TypeOK, HandlerPlaces, OneOwner, Accepted, EnqueueBuffered
<1>2. /\ queue' \in Seq(Jobs) /\ IsInjective(queue')
      /\ \A k \in Jobs : Queued(k)' <=> Queued(k) \/ k = j
  BY <1>1, SendFacts DEF EnqueueBuffered, Queued
<1>3. /\ UNCHANGED <<job, stored, worker, server, drainLeft>>
      /\ handler' \in [Jobs -> Handlers]
      /\ handler'[j] = "accepted"
      /\ \A k \in Jobs \ {j} : handler'[k] = handler[k]
  BY DEF EnqueueBuffered, IInv, TypeOK, Handlers
<1>4. TypeOK'
  BY <1>2, <1>3 DEF IInv, TypeOK
<1>5. OneOwner'
  BY <1>1, <1>2, <1>3 DEF IInv, OneOwner, Busy, Held, Accepted, Settled
<1>6. QueuedUntouched'
  BY <1>1, <1>2, <1>3 DEF IInv, QueuedUntouched
<1>7. HandlerPlaces'
  BY <1>1, <1>3 DEF IInv, HandlerPlaces
<1>8. WorkerPlaces'
  BY <1>3 DEF IInv, WorkerPlaces, Busy, Holding
<1>9. RetainedWhileOwned'
  BY <1>1, <1>2, <1>3 DEF IInv, RetainedWhileOwned, Held, TTLCovers
<1>10. SettledOutcome'
  BY <1>1, <1>3 DEF IInv, SettledOutcome, Settled, Held
<1> QED
  BY <1>4, <1>5, <1>6, <1>7, <1>8, <1>9, <1>10 DEF IInv

(* A worker takes a job nobody holds: from the channel or from a sender.    *)
LEMMA TakesJob ==
    ASSUME IInv, NEW j \in Jobs, NEW w \in Workers, worker[w].at = "idle",
           worker' = [worker EXCEPT ![w].at = "picked", ![w].job = j],
           UNCHANGED <<job, stored, server, drainLeft>>,
           job[j].status = "queued", ~job[j].error, j \in stored, ~Held(j),
           handler' \in [Jobs -> Handlers], handler'[j] = "accepted",
           \A k \in Jobs \ {j} : handler'[k] = handler[k],
           queue' \in Seq(Jobs), IsInjective(queue'),
           \A k \in Jobs : Queued(k)' <=> Queued(k) /\ k # j
    PROVE  IInv'
<1>1. /\ worker[w] \in WorkerFields /\ worker \in [Workers -> WorkerFields]
      /\ ~Busy(w)
  BY DEF IInv, TypeOK, WorkerPlaces, Holding
<1>2. /\ worker'[w] = [at |-> "picked", job |-> j, left |-> worker[w].left]
      /\ worker' = [worker EXCEPT ![w] = worker'[w]]
      /\ \A v \in Workers \ {w} : worker'[v] = worker[v]
  BY <1>1 DEF WorkerFields
<1>3. \A k \in Jobs : Held(k)' <=> Held(k) \/ k = j
  BY <1>1, <1>2, JobsAssumption DEF Held, Busy
<1>4. TypeOK'
  <2>1. worker'[w] \in WorkerFields
    BY <1>1, <1>2 DEF WorkerFields, Places, Instants
  <2> QED
    BY <1>1, <1>2, <2>1 DEF IInv, TypeOK
<1>5. OneOwner'
  BY <1>1, <1>2, <1>3 DEF IInv, OneOwner, Busy, Held, Accepted, Settled
<1>6. QueuedUntouched'
  BY DEF IInv, QueuedUntouched
<1>7. HandlerPlaces'
  BY DEF IInv, HandlerPlaces
<1>8. WorkerPlaces'
  BY <1>1, <1>2, JobsAssumption DEF IInv, WorkerPlaces, Busy, Holding, StatusAt
<1>9. RetainedWhileOwned'
  BY <1>3 DEF IInv, RetainedWhileOwned, TTLCovers
<1>10. SettledOutcome'
  BY <1>3 DEF IInv, SettledOutcome, Settled
<1> QED
  BY <1>4, <1>5, <1>6, <1>7, <1>8, <1>9, <1>10 DEF IInv

(* A job that is handed to a parked worker is held by that worker only.    *)
LEMMA EnqueueHandoffInv ==
    ASSUME IInv, NEW j \in Jobs, NEW w \in Workers, EnqueueHandoff(j, w)
    PROVE  IInv'
<1>1. /\ job[j].status = "queued" /\ ~job[j].error /\ j \in stored
      /\ ~Accepted(j) /\ ~Queued(j) /\ ~Held(j)
      /\ queue \in Seq(Jobs) /\ IsInjective(queue)
  BY DEF IInv, TypeOK, HandlerPlaces, OneOwner, Accepted, EnqueueHandoff
<1>2. /\ handler' \in [Jobs -> Handlers] /\ handler'[j] = "accepted"
      /\ \A k \in Jobs \ {j} : handler'[k] = handler[k]
      /\ queue' = queue
      /\ \A k \in Jobs : Queued(k)' <=> Queued(k) /\ k # j
  BY <1>1 DEF EnqueueHandoff, IInv, TypeOK, Handlers, Queued
<1> QED
  BY <1>1, <1>2, TakesJob DEF EnqueueHandoff

(* A received job moves from the channel to one worker (worker).           *)
LEMMA DequeueInv ==
    ASSUME IInv, NEW w \in Workers, Dequeue(w)
    PROVE  IInv'
<1> DEFINE j == Head(queue)
<1>1. /\ j \in Jobs /\ Queued(j)
      /\ queue' \in Seq(Jobs) /\ IsInjective(queue')
      /\ \A k \in Jobs : Queued(k)' <=> Queued(k) /\ k # j
  BY ReceiveFacts DEF Dequeue, IInv, TypeOK, OneOwner, Queued
<1>2. /\ job[j].status = "queued" /\ ~job[j].error /\ j \in stored
      /\ ~Held(j) /\ handler[j] = "accepted"
  BY <1>1 DEF IInv, QueuedUntouched, OneOwner, Accepted
<1>3. handler' \in [Jobs -> Handlers] /\ handler' = handler
  BY DEF Dequeue, IInv, TypeOK
<1> QED
  BY <1>1, <1>2, <1>3, TakesJob DEF Dequeue

(* A worker stops only while it holds no job (worker).                     *)
LEMMA WorkerStopInv ==
    ASSUME IInv, NEW w \in Workers, WorkerStop(w)
    PROVE  IInv'
<1>1. worker[w] \in WorkerFields /\ worker \in [Workers -> WorkerFields]
  BY DEF IInv, TypeOK
<1>2. /\ worker'[w] = [at |-> "exited", job |-> worker[w].job, left |-> worker[w].left]
      /\ worker' = [worker EXCEPT ![w] = worker'[w]]
      /\ \A v \in Workers \ {w} : worker'[v] = worker[v]
      /\ \A v \in Workers : worker'[v].job = worker[v].job
  BY <1>1 DEF WorkerStop, WorkerFields
<1>3. UNCHANGED <<job, stored, queue, handler, server, drainLeft>>
  BY DEF WorkerStop
<1>4. TypeOK'
  <2>1. worker'[w] \in WorkerFields
    BY <1>1, <1>2 DEF WorkerFields, Places
  <2> QED
    BY <1>1, <1>2, <1>3, <2>1 DEF IInv, TypeOK
<1>5. OneOwner'
  BY <1>2, <1>3 DEF IInv, OneOwner, Busy, Queued, Held, Accepted, Settled
<1>6. WorkerPlaces'
  BY <1>2, <1>3 DEF IInv, WorkerPlaces, Busy, Holding, WorkerStop
<1>7. QueuedUntouched' /\ HandlerPlaces' /\ RetainedWhileOwned' /\ SettledOutcome'
  BY <1>2, <1>3 DEF IInv, QueuedUntouched, HandlerPlaces, RetainedWhileOwned,
                    SettledOutcome, Queued, Held, Settled, TTLCovers
<1> QED
  BY <1>4, <1>5, <1>6, <1>7 DEF IInv

(* The heart of RetainedWhileOwned: no job in anyone's hands is old enough. *)
LEMMA OwnedNotExpired ==
    ASSUME IInv, TTLCovers, NEW j \in Jobs, Queued(j) \/ Held(j)
    PROVE  ~Expired(j)
<1>1. CASE Queued(j)
  BY <1>1 DEF IInv, QueuedUntouched, Expired, Settled
<1>2. CASE Held(j)
  <2>1. PICK w \in Workers : worker[w].job = j
    BY <1>2 DEF Held
  <2>2. /\ worker[w] \in WorkerFields /\ job[j] \in JobFields
        /\ Busy(w) /\ Holding(w)
    BY <2>1, JobsAssumption DEF IInv, TypeOK, WorkerPlaces, Busy
  <2>3. CASE worker[w].at = "picked"
    BY <2>1, <2>2, <2>3 DEF Holding, StatusAt, Expired, Settled
  <2>4. CASE worker[w].at # "picked"
    <3>1. job[j].age + worker[w].left <= WhisperTimeout
      BY <2>1, <2>2, <2>4 DEF Holding
    <3>2. job[j].age \in Int /\ worker[w].left \in Int /\ worker[w].left >= - LockOverrun
      BY <2>2, TimeAssumption DEF WorkerFields, JobFields
    <3> QED
      BY <3>1, <3>2, TimeAssumption DEF TTLCovers, Expired
  <2> QED
    BY <2>3, <2>4
<1> QED
  BY <1>1, <1>2

(* The sweep evicts no job that is queued or held, if the TTL covers the   *)
(* processing time (StartCleanup).                                         *)
LEMMA SweepInv ==
    ASSUME IInv, Sweep
    PROVE  IInv'
<1>1. /\ stored' = {j \in stored : ~Expired(j)}
      /\ UNCHANGED <<job, queue, handler, worker, server, drainLeft>>
  BY DEF Sweep
<1>2. TypeOK'
  BY <1>1 DEF IInv, TypeOK
<1>3. OneOwner' /\ SettledOutcome'
  BY <1>1 DEF IInv, OneOwner, SettledOutcome, Busy, Queued, Held, Accepted, Settled
<1>4. QueuedUntouched' /\ HandlerPlaces'
  BY <1>1 DEF IInv, QueuedUntouched, HandlerPlaces, Queued, Expired, Settled
<1>5. WorkerPlaces'
  BY <1>1 DEF IInv, WorkerPlaces, Busy, Holding
<1>6. RetainedWhileOwned'
  BY <1>1, OwnedNotExpired DEF IInv, RetainedWhileOwned, Queued, Held, TTLCovers
<1> QED
  BY <1>2, <1>3, <1>4, <1>5, <1>6 DEF IInv

(* Time ages every stored record and uses up the budget of every busy      *)
(* worker alike.                                                           *)
LEMMA TickInv ==
    ASSUME IInv, Tick
    PROVE  IInv'
<1> USE TimeAssumption
<1>1. /\ UNCHANGED <<stored, queue, handler, server>>
      /\ job \in [Jobs -> JobFields] /\ worker \in [Workers -> WorkerFields]
  BY DEF IInv, TypeOK, Tick, Elapse
<1>2. ASSUME NEW j \in Jobs
      PROVE  /\ job'[j] \in JobFields
             /\ job'[j].status = job[j].status /\ job'[j].result = job[j].result
             /\ job'[j].error = job[j].error /\ job'[j].wav = job[j].wav
             /\ job'[j].age \in Int /\ job'[j].age <= job[j].age + 1
  <2>1. job[j] \in JobFields
    BY <1>1
  <2>2. Older(j) \in 0 .. JobTTL + 1 /\ Older(j) <= job[j].age + 1
    BY <2>1 DEF Older, JobFields
  <2>3. job'[j] \in {job[j], [job[j] EXCEPT !.age = Older(j)]}
    BY <1>1 DEF Tick, Elapse
  <2>4. CASE job'[j] = job[j]
    BY <2>1, <2>4 DEF JobFields
  <2>5. CASE job'[j] = [job[j] EXCEPT !.age = Older(j)]
    BY <2>1, <2>2, <2>5 DEF JobFields
  <2> QED
    BY <2>3, <2>4, <2>5
<1>3. ASSUME NEW w \in Workers
      PROVE  /\ worker'[w] \in WorkerFields
             /\ worker'[w].at = worker[w].at /\ worker'[w].job = worker[w].job
             /\ Busy(w) => worker'[w].left = worker[w].left - 1
             /\ worker[w].at # "picked"
  <2>1. worker[w] \in WorkerFields /\ MayWait(w)
    BY <1>1 DEF Tick, Elapse
  <2>2. CASE Busy(w)
    <3>1. worker[w].at \in {"whisper", "llm", "export"} /\ worker[w].left > - LockOverrun
      BY <2>1, <2>2 DEF IInv, WorkerPlaces, Holding, MayWait, WorkerFields
    <3>2. worker'[w] = [worker[w] EXCEPT !.left = worker[w].left - 1]
      BY <1>1, <2>2 DEF Tick, Elapse
    <3> QED
      BY <2>1, <3>1, <3>2 DEF WorkerFields
  <2>3. CASE ~Busy(w)
    BY <1>1, <2>1, <2>3 DEF Tick, Elapse, MayWait
  <2> QED
    BY <2>2, <2>3
<1>4. TypeOK'
  <2>1. job' \in [Jobs -> JobFields]
    BY <1>2 DEF Tick, Elapse
  <2>2. worker' \in [Workers -> WorkerFields]
    BY <1>3 DEF Tick, Elapse
  <2>3. drainLeft' \in 0 .. DrainTimeout
    BY DEF Tick, Elapse, IInv, TypeOK
  <2> QED
    BY <1>1, <2>1, <2>2, <2>3 DEF IInv, TypeOK
<1>5. OneOwner'
  BY <1>1, <1>2, <1>3 DEF IInv, OneOwner, Busy, Queued, Held, Accepted, Settled
<1>6. QueuedUntouched'
  BY <1>1, <1>2 DEF IInv, QueuedUntouched, Queued
<1>7. HandlerPlaces'
  BY <1>1, <1>2 DEF IInv, HandlerPlaces, Tick, Elapse
<1>8. WorkerPlaces'
  <2> SUFFICES ASSUME NEW w \in Workers
               PROVE  IF Busy(w)' THEN Holding(w)' ELSE worker'[w].at \in {"idle", "exited"}
    BY DEF WorkerPlaces
  <2>1. Busy(w)' <=> Busy(w)
    BY <1>3 DEF Busy
  <2>2. CASE ~Busy(w)
    BY <1>3, <2>1, <2>2 DEF IInv, WorkerPlaces
  <2>3. CASE Busy(w)
    <3>1. /\ Holding(w) /\ worker[w] \in WorkerFields
          /\ worker[w].job \in Jobs /\ job[worker[w].job] \in JobFields
      BY <1>1, <2>3 DEF IInv, WorkerPlaces, WorkerFields, Busy
    <3>2. job'[worker[w].job].age + worker'[w].left <= WhisperTimeout
      BY <1>2, <1>3, <2>3, <3>1 DEF Holding, WorkerFields, JobFields
    <3> QED
      BY <1>2, <1>3, <2>1, <2>3, <3>1, <3>2 DEF Holding
  <2> QED
    BY <2>2, <2>3
<1>9. RetainedWhileOwned'
  BY <1>1, <1>3 DEF IInv, RetainedWhileOwned, Queued, Held, TTLCovers
<1>10. SettledOutcome'
  BY <1>1, <1>2, <1>3 DEF IInv, SettledOutcome, Settled, Held
<1> QED
  BY <1>4, <1>5, <1>6, <1>7, <1>8, <1>9, <1>10 DEF IInv

(* The steps of main touch no job.                                         *)
LEMMA ServerStepInv ==
    ASSUME IInv, server' \in Servers,
           UNCHANGED <<job, stored, queue, handler, worker, drainLeft>>
    PROVE  IInv'
<1>1. TypeOK'
  BY DEF IInv, TypeOK
<1>2. OneOwner' /\ QueuedUntouched' /\ HandlerPlaces' /\ SettledOutcome'
  BY DEF IInv, OneOwner, QueuedUntouched, HandlerPlaces, SettledOutcome,
         Busy, Queued, Held, Accepted, Settled
<1>3. WorkerPlaces' /\ RetainedWhileOwned'
  BY DEF IInv, WorkerPlaces, RetainedWhileOwned, Busy, Holding, Queued, Held, TTLCovers
<1> QED
  BY <1>1, <1>2, <1>3 DEF IInv
-----------------------------------------------------------------------------
(* Before the first request no job exists.                                 *)
THEOREM InitInv == Init => IInv
<1> SUFFICES ASSUME Init PROVE IInv
  OBVIOUS
<1> USE TimeAssumption, JobsAssumption
<1>1. TypeOK
  BY DEF Init, TypeOK, Idle, JobFields, Statuses, Results, Handlers, WorkerFields,
         Places, Servers
<1>2. /\ \A j \in Jobs : ~Queued(j) /\ ~Held(j) /\ ~Accepted(j)
      /\ \A w \in Workers : ~Busy(w)
      /\ IsInjective(queue)
  BY DEF Init, Queued, Held, Accepted, Busy, Idle, Range, IsInjective
<1>3. OneOwner /\ QueuedUntouched /\ RetainedWhileOwned
  BY <1>2 DEF OneOwner, QueuedUntouched, RetainedWhileOwned
<1>4. HandlerPlaces /\ SettledOutcome
  BY DEF Init, HandlerPlaces, SettledOutcome, Settled
<1>5. WorkerPlaces
  BY <1>2 DEF Init, WorkerPlaces, Idle
<1> QED
  BY <1>1, <1>3, <1>4, <1>5 DEF IInv

(* Every step of the pipeline preserves the inductive invariant.           *)
THEOREM NextInv == IInv /\ [Next]_vars => IInv'
<1> SUFFICES ASSUME IInv, [Next]_vars PROVE IInv'
  OBVIOUS
<1>1. CASE \E j \in Jobs : Submit(j) \/ HandlerStep(j)
  BY <1>1, HandlerWrites, EnqueueBufferedInv, EnqueueHandoffInv DEF HandlerStep, Enqueue
<1>2. CASE \E w \in Workers : Dequeue(w) \/ WorkerStop(w) \/ WorkerStep(w)
  BY <1>2, DequeueInv, WorkerStopInv, WorkerStepInv
<1>3. CASE Sweep
  BY <1>3, SweepInv
<1>4. CASE Tick
  BY <1>4, TickInv
<1>5. CASE Signal \/ Close \/ Exit \/ Killed
  BY <1>5, ServerStepInv DEF Signal, Close, Exit, Killed, Advance, Servers
<1>6. CASE Terminated \/ UNCHANGED vars
  <2>1. server' \in Servers /\ UNCHANGED <<job, stored, queue, handler, worker, drainLeft>>
    BY <1>6 DEF Terminated, vars, IInv, TypeOK
  <2> QED
    BY <2>1, ServerStepInv
<1> QED
  BY <1>1, <1>2, <1>3, <1>4, <1>5, <1>6 DEF Next
-----------------------------------------------------------------------------
(* Every reachable state satisfies the inductive invariant.                 *)
THEOREM Invariance == Spec => []IInv
<1>1. Init => IInv
  BY InitInv
<1>2. IInv /\ [Next]_vars => IInv'
  BY NextInv
<1> QED
  BY <1>1, <1>2, PTL DEF Spec

(* Variables keep their types; the budget of a held job never falls below   *)
(* what the mutexes may cost (processJob, StartCleanup).                    *)
THEOREM TypeCorrect == Spec => []TypeOK
<1>1. IInv => TypeOK
  BY DEF IInv
<1> QED
  BY <1>1, Invariance, PTL

(* No job is processed twice or dropped by the queue and the workers, for   *)
(* any capacity, the unbuffered channel included, and any worker pool.      *)
THEOREM Ownership == Spec => []OneOwner
<1>1. IInv => OneOwner
  BY DEF IInv
<1> QED
  BY <1>1, Invariance, PTL

(* If WhisperTimeout + LockOverrun <= JobTTL, the sweep never evicts a job  *)
(* that is queued or being processed.                                       *)
THEOREM Retention == Spec => []RetainedWhileOwned
<1>1. IInv => RetainedWhileOwned
  BY DEF IInv
<1> QED
  BY <1>1, Invariance, PTL

(* Every job that has been let go of has a complete record.                 *)
THEOREM Outcomes == Spec => []SettledOutcome
<1>1. IInv => SettledOutcome
  BY DEF IInv
<1> QED
  BY <1>1, Invariance, PTL
-----------------------------------------------------------------------------
(* After a drain that did not time out, every worker has exited.            *)
DrainInv == server = "closing" /\ drainLeft > 0 => Drained

(* A shutdown that did not run into its timeout abandons only jobs that no  *)
(* worker has started (main, worker).                                       *)
THEOREM CleanShutdown == Spec => []CleanDrain
<1>1. Init => DrainInv
  BY DEF Init, DrainInv
<1>2. IInv /\ DrainInv /\ [Next]_vars => DrainInv'
  <2> SUFFICES ASSUME IInv, DrainInv, [Next]_vars, server' = "closing", drainLeft' > 0
               PROVE  Drained'
    BY DEF DrainInv
  <2>1. CASE Close
    BY <2>1 DEF Close, Advance, Drained
  <2>2. CASE ~Close
    <3>1. server = "closing" /\ drainLeft' = drainLeft
      BY <2>2 DEF Next, vars, Submit, HandlerStep, Enqueue, EnqueueBuffered, EnqueueHandoff,
            EnqueueRejected, RejectJob, Dequeue, WorkerStop, WorkerStep, StartJob,
            TranscribeOK, TranscribeFails, ReportWhisperFailure, ExtractOK, ExtractFails,
            ReportExtractionFailure, MarkDone, FinishJob, Go, Return, Sweep, Tick, Elapse,
            Signal, Exit, Killed, Terminated, Advance
    <3>2. Drained
      BY <3>1 DEF DrainInv
    <3>3. worker' = worker
      BY <3>1, <3>2, <2>2 DEF Drained, Stopped, Next, vars, Submit, HandlerStep, Enqueue,
            EnqueueBuffered, EnqueueHandoff, EnqueueRejected, RejectJob, Dequeue,
            WorkerStop, WorkerStep, StartJob, TranscribeOK, TranscribeFails,
            ReportWhisperFailure, ExtractOK, ExtractFails, ReportExtractionFailure,
            MarkDone, FinishJob, Go, Return, Sweep, Tick, Elapse, Signal, Exit, Killed,
            Terminated, Advance
    <3> QED
      BY <3>2, <3>3 DEF Drained
  <2> QED
    BY <2>1, <2>2
<1>3. IInv /\ DrainInv => CleanDrain
  <2> SUFFICES ASSUME IInv, DrainInv, server = "closing", drainLeft > 0,
                      NEW j \in Jobs, Accepted(j)
               PROVE  job[j].status \in {"queued", "done", "failed"}
    BY DEF CleanDrain
  <2>1. ~Held(j)
    BY JobsAssumption DEF DrainInv, Drained, Held, IInv, WorkerPlaces, Holding, Busy
  <2> QED
    BY <2>1 DEF IInv, OneOwner, QueuedUntouched, Settled
<1> QED
  BY <1>1, <1>2, <1>3, Invariance, PTL DEF Spec
-----------------------------------------------------------------------------
(* The channel never holds more than its capacity.                         *)
QueueBounded == Len(queue) <= MaxQueueSize

LEMMA QueueStaysBounded ==
    ASSUME IInv, QueueBounded, [Next]_vars
    PROVE  QueueBounded'
<1> USE QueueAssumption
<1>1. queue \in Seq(Jobs)
  BY DEF IInv, TypeOK
<1>2. CASE \E j \in Jobs : EnqueueBuffered(j)
  BY <1>1, <1>2 DEF EnqueueBuffered, QueueBounded
<1>3. CASE \E w \in Workers : Dequeue(w)
  BY <1>1, <1>3 DEF Dequeue, QueueBounded
<1>4. CASE UNCHANGED queue
  BY <1>4 DEF QueueBounded
<1> QED
  BY <1>2, <1>3, <1>4
  DEF Next, vars, Submit, HandlerStep, Enqueue, EnqueueHandoff, EnqueueRejected, RejectJob,
      WorkerStop, WorkerStep, StartJob, TranscribeOK, TranscribeFails, ReportWhisperFailure,
      ExtractOK, ExtractFails, ReportExtractionFailure, MarkDone, FinishJob, Go, Return,
      Sweep, Tick, Elapse, Signal, Close, Exit, Killed, Terminated, Advance

(* The channel is a surjection from its slots, the pool one from itself.   *)
LEMMA OwnedAreFew ==
    ASSUME IInv, QueueBounded
    PROVE  /\ IsFiniteSet(Range(queue)) /\ Cardinality(Range(queue)) <= MaxQueueSize
           /\ IsFiniteSet({worker[w].job : w \in Workers})
           /\ Cardinality({worker[w].job : w \in Workers}) <= Cardinality(Workers)
<1> DEFINE R == Range(queue)
           H == {worker[w].job : w \in Workers}
           f == [w \in Workers |-> worker[w].job]
<1>1. queue \in Seq(Jobs) /\ Len(queue) \in Nat /\ DOMAIN queue = 1 .. Len(queue)
  BY DEF IInv, TypeOK
<1>2. IsFiniteSet(1 .. Len(queue)) /\ Cardinality(1 .. Len(queue)) = Len(queue)
  BY <1>1, FS_Interval
<1>3. queue \in Surjection(1 .. Len(queue), R)
  BY <1>1 DEF Surjection, Range
<1>4. IsFiniteSet(R) /\ Cardinality(R) <= Len(queue)
  BY <1>2, <1>3, FS_Surjection
<1>5. f \in Surjection(Workers, H)
  BY DEF Surjection
<1>6. IsFiniteSet(H) /\ Cardinality(H) <= Cardinality(Workers)
  BY <1>5, FS_Surjection, WorkersAssumption
<1> QED
  BY <1>1, <1>4, <1>6, FS_CardinalityType, QueueAssumption DEF QueueBounded

(* A job that still has its audio and was accepted is queued or held.      *)
LEMMA AudioIsOwned ==
    ASSUME IInv
    PROVE  {j \in Jobs : Accepted(j) /\ job[j].wav}
             \subseteq Range(queue) \cup {worker[w].job : w \in Workers}
<1> SUFFICES ASSUME NEW j \in Jobs, Accepted(j), job[j].wav
             PROVE  Queued(j) \/ Held(j)
  BY DEF Queued, Held
<1>1. CASE Settled(j)
  BY <1>1 DEF IInv, SettledOutcome, Accepted
<1>2. CASE ~Settled(j)
  BY <1>2 DEF IInv, OneOwner
<1> QED
  BY <1>1, <1>2

(* However many uploads there are, the audio of accepted jobs takes no     *)
(* more memory than the channel and the workers have places (Enqueue,      *)
(* processJob).                                                            *)
THEOREM AudioBounded == Spec => []AcceptedAudioBounded
<1>1. Init => QueueBounded
  BY QueueAssumption DEF Init, QueueBounded
<1>2. IInv /\ QueueBounded /\ [Next]_vars => QueueBounded'
  BY QueueStaysBounded
<1>3. IInv /\ QueueBounded => AcceptedAudioBounded
  <2> SUFFICES ASSUME IInv, QueueBounded
               PROVE  AcceptedAudioBounded
    OBVIOUS
  <2> DEFINE A == {j \in Jobs : Accepted(j) /\ job[j].wav}
             R == Range(queue)
             H == {worker[w].job : w \in Workers}
  <2>1. /\ IsFiniteSet(R) /\ Cardinality(R) <= MaxQueueSize
        /\ IsFiniteSet(H) /\ Cardinality(H) <= Cardinality(Workers)
    BY OwnedAreFew
  <2>2. A \subseteq R \cup H
    BY AudioIsOwned
  <2> HIDE DEF A, R, H
  <2>3. /\ IsFiniteSet(R \cup H) /\ IsFiniteSet(R \cap H)
        /\ Cardinality(R \cup H) = Cardinality(R) + Cardinality(H) - Cardinality(R \cap H)
    BY <2>1, FS_Union, FS_Intersection
  <2>4. /\ Cardinality(R) \in Nat /\ Cardinality(H) \in Nat /\ Cardinality(R \cap H) \in Nat
        /\ Cardinality(Workers) \in Nat /\ Cardinality(R \cup H) \in Nat
    BY <2>1, <2>3, FS_CardinalityType, WorkersAssumption
  <2>5. IsFiniteSet(A) /\ Cardinality(A) <= Cardinality(R \cup H)
    BY <2>2, <2>3, FS_Subset
  <2>6. Cardinality(A) \in Nat
    BY <2>5, FS_CardinalityType
  <2> QED
    BY <2>1, <2>3, <2>4, <2>5, <2>6, QueueAssumption DEF AcceptedAudioBounded, A
<1> QED
  BY <1>1, <1>2, <1>3, Invariance, PTL DEF Spec
-----------------------------------------------------------------------------
(* JobQueue implements JobLifecycle.                                        *)

(* A step after which one job is in another stage is a move of that job.   *)
LEMMA OneMoves ==
    ASSUME NEW j \in Jobs, NEW from, NEW to,
           Stage(j) = from, Stage(j)' = to,
           \A k \in Jobs \ {j} : Stage(k)' = Stage(k)
    PROVE  Lifecycle!Move(j, from, to)
  BY DEF Lifecycle!Move, stage

(* A step after which every job is in its stage is a stutter.              *)
LEMMA NoneMoves ==
    ASSUME \A k \in Jobs : Stage(k)' = Stage(k)
    PROVE  UNCHANGED stage
  BY DEF stage

(* A submit request moves its job from absent to queued, or moves none.    *)
LEMMA HandlerStages ==
    ASSUME IInv, NEW j \in Jobs, Submit(j) \/ HandlerStep(j)
    PROVE  [Lifecycle!Next]_stage
<1>1. handler \in [Jobs -> Handlers] /\ job \in [Jobs -> JobFields]
  BY DEF IInv, TypeOK
<1>2. CASE Submit(j) \/ EnqueueRejected(j) \/ RejectJob(j)
  <2>1. /\ ~Accepted(j) /\ ~Accepted(j)'
        /\ \A k \in Jobs \ {j} : job'[k] = job[k] /\ handler'[k] = handler[k]
        /\ stored' \in {stored, stored \cup {j}} /\ server' = server
    BY <1>1, <1>2 DEF Submit, EnqueueRejected, RejectJob, Accepted, Save
  <2> QED
    BY <2>1, NoneMoves DEF Stage, Accepted, Running
<1>3. CASE EnqueueBuffered(j) \/ \E w \in Workers : EnqueueHandoff(j, w)
  <2>1. /\ ~Accepted(j) /\ Accepted(j)'
        /\ \A k \in Jobs \ {j} : handler'[k] = handler[k]
        /\ UNCHANGED <<job, stored, server>> /\ Running
        /\ job[j].status = "queued" /\ j \in stored
    BY <1>1, <1>3 DEF EnqueueBuffered, EnqueueHandoff, Accepted, Stopped, Running,
                      IInv, HandlerPlaces
  <2>2. Lifecycle!Move(j, "absent", "queued")
    BY <2>1, OneMoves DEF Stage, Accepted, Running
  <2> QED
    BY <2>2 DEF Lifecycle!Next, Lifecycle!Accept
<1> QED
  BY <1>2, <1>3 DEF HandlerStep, Enqueue

(* A held job is stored, so a step of processJob moves it from the stage    *)
(* its status names to the next.                                            *)
LEMMA WorkerStages ==
    ASSUME IInv, TTLCovers, NEW w \in Workers, WorkerStep(w)
    PROVE  [Lifecycle!Next]_stage
<1>1. worker[w].at \notin {"idle", "exited"}
  BY DEF WorkerStep, StartJob, TranscribeOK, TranscribeFails, ReportWhisperFailure,
         ExtractOK, ExtractFails, ReportExtractionFailure, MarkDone, FinishJob, Go, Return
<1> PICK j \in Jobs : j = worker[w].job
  BY <1>1, HeldFacts
<1>2. /\ job[j] \in JobFields /\ Accepted(j) /\ Holding(w)
      /\ j \in stored
  BY <1>1, HeldFacts DEF IInv, RetainedWhileOwned, Held
<1>3. /\ Running /\ UNCHANGED <<handler, server>> /\ stored' = stored
      /\ \A k \in Jobs \ {j} : job'[k] = job[k]
  <2>1. Running /\ UNCHANGED <<handler, server>>
    BY DEF WorkerStep, StartJob, TranscribeOK, TranscribeFails, ReportWhisperFailure,
           ExtractOK, ExtractFails, ReportExtractionFailure, MarkDone, FinishJob, Go, Return
  <2>2. stored' = stored
    BY <1>2 DEF WorkerStep, StartJob, TranscribeOK, TranscribeFails, ReportWhisperFailure,
           ExtractOK, ExtractFails, ReportExtractionFailure, MarkDone, FinishJob, Save
  <2>3. \A k \in Jobs \ {j} : job'[k] = job[k]
    <3>1. CASE StartJob(w) \/ TranscribeOK(w) \/ TranscribeFails(w)
      BY <3>1 DEF StartJob, TranscribeOK, TranscribeFails, IInv, TypeOK
    <3>2. CASE ExtractOK(w) \/ ExtractFails(w) \/ MarkDone(w)
      BY <3>2 DEF ExtractOK, ExtractFails, MarkDone, IInv, TypeOK
    <3>3. CASE ReportWhisperFailure(w) \/ ReportExtractionFailure(w) \/ FinishJob(w)
      BY <3>3 DEF ReportWhisperFailure, ReportExtractionFailure, FinishJob, IInv, TypeOK
    <3> QED
      BY <3>1, <3>2, <3>3 DEF WorkerStep
  <2> QED
    BY <2>1, <2>2, <2>3
<1>4. /\ Stage(j) = job[j].status /\ Stage(j)' = job'[j].status
      /\ \A k \in Jobs \ {j} : Stage(k)' = Stage(k)
  BY <1>2, <1>3 DEF Stage, Accepted, Running
<1>5. job \in [Jobs -> JobFields]
  BY DEF IInv, TypeOK
<1>6. CASE StartJob(w)
  <2>1. job[j].status = "queued" /\ job'[j].status = "processing"
    BY <1>2, <1>5, <1>6 DEF StartJob, Holding, StatusAt, JobFields
  <2> QED
    BY <1>2, <1>4, <2>1, OneMoves DEF Lifecycle!Next, Lifecycle!Start
<1>7. CASE TranscribeFails(w) \/ ExtractFails(w)
  <2>1. job[j].status = "processing" /\ job'[j].status = "failed"
    BY <1>2, <1>5, <1>7 DEF TranscribeFails, ExtractFails, Go, Holding, StatusAt, Waits, JobFields
  <2> QED
    BY <1>2, <1>4, <2>1, OneMoves DEF Lifecycle!Next, Lifecycle!Fail
<1>8. CASE MarkDone(w)
  <2>1. job[j].status = "processing" /\ job'[j].status = "done"
    BY <1>2, <1>5, <1>8 DEF MarkDone, Go, Holding, StatusAt, Waits, JobFields
  <2> QED
    BY <1>2, <1>4, <2>1, OneMoves DEF Lifecycle!Next, Lifecycle!Succeed
<1>9. CASE TranscribeOK(w) \/ ExtractOK(w) \/ ReportWhisperFailure(w)
           \/ ReportExtractionFailure(w) \/ FinishJob(w)
  <2>1. job'[j].status = job[j].status
    BY <1>2, <1>5, <1>9 DEF TranscribeOK, ExtractOK, ReportWhisperFailure,
          ReportExtractionFailure, FinishJob, Go, Return, JobFields
  <2> QED
    BY <1>4, <2>1, NoneMoves
<1> QED
  BY <1>6, <1>7, <1>8, <1>9 DEF WorkerStep

(* The sweep forgets settled jobs only.                                    *)
LEMMA SweepStages ==
    ASSUME IInv, Sweep
    PROVE  [Lifecycle!Next]_stage
<1> DEFINE S == {j \in Jobs : Accepted(j) /\ j \in stored /\ Expired(j)}
<1>1. /\ Running /\ UNCHANGED <<job, handler, server>>
      /\ stored' = {j \in stored : ~Expired(j)}
  BY DEF Sweep
<1>2. S \in SUBSET {j \in Jobs : Lifecycle!Settled(j)}
  BY <1>1 DEF Lifecycle!Settled, stage, Stage, Expired, Settled
<1>3. \A j \in Jobs : Stage(j)' = IF j \in S THEN "expired" ELSE Stage(j)
  BY <1>1 DEF Stage, Accepted, Running
<1>4. stage' = [j \in Jobs |-> IF j \in S THEN "expired" ELSE stage[j]]
  BY <1>3 DEF stage
<1>5. Lifecycle!Expire
  BY <1>2, <1>4 DEF Lifecycle!Expire
<1> QED
  BY <1>5 DEF Lifecycle!Next

(* The end of the process loses every accepted job.                        *)
LEMMA ExitStages ==
    ASSUME IInv, Running, server' = "exited", UNCHANGED <<job, stored, handler>>
    PROVE  Lifecycle!Next
<1>1. \A j \in Jobs : /\ Stage(j) = "absent" <=> ~Accepted(j)
                     /\ Stage(j)' = IF Accepted(j) THEN "lost" ELSE "absent"
  BY DEF Stage, Accepted, Running, IInv, TypeOK, JobFields, Statuses
<1>2. stage' = [j \in Jobs |-> IF stage[j] = "absent" THEN "absent" ELSE "lost"]
  BY <1>1 DEF stage
<1> QED
  BY <1>2 DEF Lifecycle!Next, Lifecycle!Lose

(* Every step of the pipeline is a step of JobLifecycle or a stutter.      *)
LEMMA StepStages ==
    ASSUME IInv, TTLCovers, [Next]_vars
    PROVE  [Lifecycle!Next]_stage
<1>1. CASE \E j \in Jobs : Submit(j) \/ HandlerStep(j)
  BY <1>1, HandlerStages
<1>2. CASE \E w \in Workers : WorkerStep(w)
  BY <1>2, WorkerStages
<1>3. CASE Sweep
  BY <1>3, SweepStages
<1>4. CASE Exit \/ Killed
  BY <1>4, ExitStages DEF Exit, Killed, Advance, Running
<1>5. CASE Tick
  <2>1. \A j \in Jobs : job'[j].status = job[j].status
    BY <1>5 DEF Tick, Elapse, IInv, TypeOK, JobFields
  <2> QED
    BY <1>5, <2>1, NoneMoves DEF Tick, Elapse, Stage, Accepted, Running
<1>6. CASE \/ \E w \in Workers : Dequeue(w) \/ WorkerStop(w)
           \/ Signal \/ Close \/ Terminated \/ UNCHANGED vars
  <2>1. /\ UNCHANGED <<job, stored, handler>>
        /\ Running' <=> Running
    BY <1>6 DEF Dequeue, WorkerStop, Signal, Close, Terminated, vars, Advance, Running
  <2> QED
    BY <2>1, NoneMoves DEF Stage, Accepted
<1> QED
  BY <1>1, <1>2, <1>3, <1>4, <1>5, <1>6 DEF Next

(* If the TTL covers the processing time, JobQueue implements JobLifecycle. *)
THEOREM Implementation ==
    ASSUME TTLCovers
    PROVE  Spec => ImplementsLifecycle
<1>1. Init => Lifecycle!Init
  BY DEF Init, Lifecycle!Init, stage, Stage, Accepted
<1>2. IInv /\ [Next]_vars => [Lifecycle!Next]_stage
  BY StepStages
<1> QED
  BY <1>1, <1>2, Invariance, PTL DEF Spec, ImplementsLifecycle, Lifecycle!Spec
=============================================================================
