--------------------------- MODULE JobPollingProofs ---------------------------
(***************************************************************************)
(* Proofs about JobPolling for any number of jobs, workers and clients,    *)
(* any capacity and any times.                                             *)
(***************************************************************************)
EXTENDS JobPolling, JobQueueProofs

(* The order in which a record takes on its statuses.                      *)
Later(s, t) ==
    \/ s = t
    \/ s = "none"
    \/ s = "queued" /\ t \in {"processing", "done", "failed", "missing"}
    \/ s = "processing" /\ t \in {"done", "failed", "missing"}
    \/ s \in {"done", "failed"} /\ t = "missing"

(* Nothing of a record that is gone was still to come.                     *)
Forgotten == \A j \in Jobs : Accepted(j) /\ j \notin stored => Settled(j)

(* What a request in flight and the last answer say of the record.         *)
TrueDraft(r) ==
    /\ r.at # "idle" => r.job \in Jobs /\ Accepted(r.job)
    /\ r.at \in {"status", "result"} =>
         r.draft.status \in Statuses /\ Later(r.draft.status, job[r.job].status)
    /\ r.at = "result" /\ r.draft.status = "done" => r.draft.result = "extracted"

TrueAnswer(r) ==
    /\ r.answer.status # "none" => r.job \in Jobs /\ Accepted(r.job)
    /\ r.answer.status = "done" => r.answer.result = "extracted" /\ ~r.answer.error
    /\ r.answer.status = "missing" => Settled(r.job)

PollInv ==
    /\ IInv
    /\ Forgotten
    /\ PollerTypeOK
    /\ \A p \in Pollers : TrueDraft(poller[p]) /\ TrueAnswer(poller[p])

(* How the last answer relates to what may come: what it takes to show     *)
(* that the next one does not go back.                                     *)
InOrder(r) ==
    /\ r.answer.status \notin {"none", "missing"} =>
         Later(r.answer.status, job[r.job].status)
    /\ r.at \in {"status", "result"} => Later(r.answer.status, r.draft.status)
    /\ r.answer.status = "missing" => r.at = "idle" /\ r.job \notin stored

OrderInv == \A p \in Pollers : InOrder(poller[p])
-----------------------------------------------------------------------------
LEMMA LaterRank ==
    ASSUME NEW s \in Statuses404, NEW t \in Statuses404, Later(s, t)
    PROVE  Rank[t] > Rank[s] \/ t = s
  BY DEF Later, Rank, Statuses404, Statuses

LEMMA LaterTransitive ==
    ASSUME NEW s, NEW t, NEW u, Later(s, t), Later(t, u), t # "none"
    PROVE  Later(s, u)
  BY DEF Later

(* No step of the pipeline takes the status of a record back.              *)
LEMMA StatusMoves ==
    ASSUME IInv, [Next]_vars, NEW j \in Jobs
    PROVE  Later(job[j].status, job'[j].status)
<1> USE DEF Later
<1>1. job \in [Jobs -> JobFields] /\ worker \in [Workers -> WorkerFields]
  BY DEF IInv, TypeOK
<1>2. CASE \E i \in Jobs : Submit(i) \/ HandlerStep(i)
  <2>1. PICK i \in Jobs : Submit(i) \/ HandlerStep(i)
    BY <1>2
  <2>2. /\ handler[i] = "none" => job[i].status = "none"
        /\ handler[i] = "saved" => job[i].status = "queued"
    BY DEF IInv, HandlerPlaces
  <2>3. CASE Submit(i)
    BY <1>1, <2>2, <2>3 DEF Submit, JobFields
  <2>4. CASE HandlerStep(i)
    <3>1. CASE EnqueueRejected(i)
      BY <1>1, <2>2, <3>1 DEF EnqueueRejected, JobFields
    <3>2. CASE RejectJob(i)
      BY <1>1, <3>2 DEF RejectJob, JobFields
    <3>3. CASE EnqueueBuffered(i) \/ \E w \in Workers : EnqueueHandoff(i, w)
      BY <3>3 DEF EnqueueBuffered, EnqueueHandoff
    <3> QED
      BY <2>4, <3>1, <3>2, <3>3 DEF HandlerStep, Enqueue
  <2> QED
    BY <2>1, <2>3, <2>4
<1>3. CASE \E w \in Workers : WorkerStep(w)
  <2>1. PICK w \in Workers : WorkerStep(w)
    BY <1>3
  <2>2. worker[w].at \notin {"idle", "exited"}
    BY <2>1 DEF WorkerStep, StartJob, TranscribeOK, TranscribeFails, ReportWhisperFailure,
                ExtractOK, ExtractFails, ReportExtractionFailure, MarkDone, FinishJob, Go, Return
  <2>3. job[worker[w].job].status = StatusAt(worker[w].at)
    BY <2>2 DEF IInv, WorkerPlaces, Holding
  <2> QED
    BY <1>1, <2>1, <2>3
    DEF WorkerStep, StartJob, TranscribeOK, TranscribeFails, ReportWhisperFailure, ExtractOK,
        ExtractFails, ReportExtractionFailure, MarkDone, FinishJob, Go, Return, StatusAt,
        Waits, JobFields
<1>4. CASE Tick
  BY <1>1, <1>4 DEF Tick, Elapse, JobFields
<1>5. CASE UNCHANGED job
  BY <1>5
<1> QED
  BY <1>2, <1>3, <1>4, <1>5
  DEF Next, vars, Dequeue, WorkerStop, Sweep, Signal, Close, Exit, Killed, Terminated, Advance

(* An accepted job stays accepted.                                         *)
LEMMA StaysAccepted ==
    ASSUME [Next]_vars, IInv, NEW j \in Jobs, Accepted(j)
    PROVE  Accepted(j)'
<1>1. handler \in [Jobs -> Handlers]
  BY DEF IInv, TypeOK
<1> QED
  BY <1>1
  DEF Accepted, Next, vars, Submit, HandlerStep, Enqueue, EnqueueBuffered, EnqueueHandoff,
      EnqueueRejected, RejectJob, Dequeue, WorkerStop, WorkerStep, StartJob, TranscribeOK,
      TranscribeFails, ReportWhisperFailure, ExtractOK, ExtractFails,
      ReportExtractionFailure, MarkDone, FinishJob, Go, Return, Sweep, Tick, Elapse, Signal,
      Close, Exit, Killed, Terminated, Advance

(* The record of a done job is complete, in a worker's hands or not.       *)
LEMMA DoneComplete ==
    ASSUME IInv, NEW j \in Jobs, job[j].status = "done"
    PROVE  job[j].result = "extracted" /\ ~job[j].error
<1>1. CASE Held(j)
  <2>1. PICK w \in Workers : worker[w].job = j
    BY <1>1 DEF Held
  <2>2. Holding(w)
    BY <2>1, JobsAssumption DEF IInv, WorkerPlaces, Busy
  <2>3. worker[w].at \in Places
    BY DEF IInv, TypeOK, WorkerFields
  <2> QED
    BY <2>1, <2>2, <2>3 DEF Holding, StatusAt, Places, Waits, Instants
<1>2. CASE ~Held(j)
  BY <1>2 DEF IInv, SettledOutcome, HandlerPlaces
<1> QED
  BY <1>1, <1>2

(* Only the sweep takes records away, and only settled ones.               *)
LEMMA ForgottenInv ==
    ASSUME IInv, IInv', Forgotten, [Next]_vars
    PROVE  Forgotten'
<1> SUFFICES ASSUME NEW j \in Jobs, Accepted(j)', j \notin stored'
             PROVE  Settled(j)'
  BY DEF Forgotten
<1>1. CASE j \in stored
  <2>1. Sweep
    BY <1>1
    DEF Next, vars, Submit, HandlerStep, Enqueue, EnqueueBuffered, EnqueueHandoff,
        EnqueueRejected, RejectJob, Dequeue, WorkerStop, WorkerStep, StartJob, TranscribeOK,
        TranscribeFails, ReportWhisperFailure, ExtractOK, ExtractFails,
        ReportExtractionFailure, MarkDone, FinishJob, Go, Return, Save, Tick, Elapse, Signal,
        Close, Exit, Killed, Terminated, Advance
  <2> QED
    BY <1>1, <2>1 DEF Sweep, Expired, Settled
<1>2. CASE j \notin stored
  <2>1. CASE Accepted(j)
    <3>1. Settled(j)
      BY <1>2, <2>1 DEF Forgotten
    <3>2. job'[j].status \in Statuses
      BY DEF IInv, TypeOK, JobFields
    <3> QED
      BY <3>1, <3>2, StatusMoves DEF Settled, Later, Statuses
  <2>2. CASE ~Accepted(j)
    <3>1. handler[j] = "saved"
      BY <2>2
      DEF Accepted, IInv, TypeOK, Next, vars, Submit, HandlerStep, Enqueue, EnqueueBuffered,
          EnqueueHandoff, EnqueueRejected, RejectJob, Dequeue, WorkerStop, WorkerStep,
          StartJob, TranscribeOK, TranscribeFails, ReportWhisperFailure, ExtractOK,
          ExtractFails, ReportExtractionFailure, MarkDone, FinishJob, Go, Return, Sweep,
          Tick, Elapse, Signal, Close, Exit, Killed, Terminated, Advance
    <3> QED
      BY <1>2, <3>1 DEF IInv, HandlerPlaces
  <2> QED
    BY <2>1, <2>2
<1> QED
  BY <1>1, <1>2
-----------------------------------------------------------------------------
Clients == [at : {"idle", "found", "status", "result"}, job : Jobs \cup {NoJob},
            draft : Answers, answer : Answers]

(* A client that becomes another record leaves the others alone.           *)
LEMMA OneClient ==
    ASSUME PollerTypeOK, NEW p \in Pollers, NEW n \in Clients,
           poller' = [poller EXCEPT ![p] = n]
    PROVE  /\ PollerTypeOK' /\ poller'[p] = n
           /\ \A q \in Pollers \ {p} : poller'[q] = poller[q]
  BY DEF PollerTypeOK, Clients

(* The pipeline moves on while the clients are where they were.            *)
LEMMA QueueStepInv ==
    ASSUME PollInv, QueueStep
    PROVE  PollInv'
<1>1. IInv' /\ Forgotten'
  BY NextInv, ForgottenInv DEF PollInv, QueueStep
<1>2. poller' = poller /\ PollerTypeOK'
  BY DEF PollInv, QueueStep, PollerTypeOK
<1>3. ASSUME NEW p \in Pollers
      PROVE  TrueDraft(poller[p])' /\ TrueAnswer(poller[p])'
  <2> DEFINE r == poller[p]
             j == r.job
  <2>1. TrueDraft(r) /\ TrueAnswer(r) /\ r' = r
    BY <1>2 DEF PollInv
  <2>2. ASSUME j \in Jobs, Accepted(j)
        PROVE  /\ Accepted(j)' /\ Later(job[j].status, job'[j].status)
               /\ job[j].status # "none" /\ job'[j].status \in Statuses
    <3>1. job[j].status # "none" /\ job'[j].status \in Statuses
      BY <1>1, <2>2 DEF PollInv, IInv, HandlerPlaces, Accepted, TypeOK, JobFields
    <3> QED
      BY <2>2, <3>1, StaysAccepted, StatusMoves DEF PollInv, QueueStep
  <2>3. TrueDraft(r)'
    BY <2>1, <2>2, LaterTransitive DEF TrueDraft
  <2>4. TrueAnswer(r)'
    BY <2>1, <2>2 DEF TrueAnswer, Settled, Later, Statuses
  <2> QED
    BY <2>3, <2>4
<1> QED
  BY <1>1, <1>2, <1>3 DEF PollInv

(* A client's step, which leaves the pipeline and the other clients alone. *)
LEMMA PollStepInv ==
    ASSUME PollInv, NEW p \in Pollers, PollStep(p)
    PROVE  PollInv'
<1> DEFINE r == poller[p]
           j == r.job
<1>1. UNCHANGED vars
  BY DEF PollStep, PollMissing, PollFound, EncodeStatus, EncodeResult, Respond
<1>2. /\ IInv' /\ Forgotten' /\ Forgotten
  <2>1. IInv'
    BY <1>1, NextInv DEF PollInv
  <2> QED
    BY <1>1, <2>1, ForgottenInv DEF PollInv
<1>3. /\ job' = job /\ handler' = handler /\ job \in [Jobs -> JobFields]
      /\ PollerTypeOK /\ TrueDraft(r) /\ TrueAnswer(r)
  BY <1>1 DEF vars, PollInv, IInv, TypeOK
<1>4. /\ r.at \in {"idle", "found", "status", "result"} /\ r.job \in Jobs \cup {NoJob}
      /\ r.draft \in Answers /\ r.answer \in Answers
  BY <1>3 DEF PollerTypeOK
<1>5. ASSUME PollerTypeOK', TrueDraft(poller'[p]), TrueAnswer(poller'[p]),
             \A q \in Pollers \ {p} : poller'[q] = poller[q]
      PROVE  PollInv'
  <2>1. \A q \in Pollers : TrueDraft(poller'[q]) /\ TrueAnswer(poller'[q])
    BY <1>5 DEF PollInv
  <2>2. \A q \in Pollers : TrueDraft(poller[q])' /\ TrueAnswer(poller[q])'
    BY <1>3, <2>1 DEF TrueDraft, TrueAnswer, Settled, Accepted
  <2> QED
    BY <1>2, <1>5, <2>2 DEF PollInv
<1>6. ASSUME NEW i \in Jobs, PollMissing(p, i)
      PROVE  PollInv'
  <2> DEFINE a == [NoAnswer EXCEPT !.status = "missing"]
  <2>1. a \in Answers /\ a.status = "missing"
    BY DEF NoAnswer, Answers, Statuses404, Results
  <2> HIDE DEF a
  <2>2. /\ poller'[p].at = "idle" /\ poller'[p].job = i /\ poller'[p].answer = a
        /\ poller'[p].draft = r.draft
    BY <1>3, <1>6 DEF PollMissing, PollerTypeOK, a
  <2>3. PollerTypeOK' /\ \A q \in Pollers \ {p} : poller'[q] = poller[q]
    BY <1>3, <1>6, <2>1 DEF PollMissing, PollerTypeOK, a
  <2>4. Accepted(i) /\ Settled(i)
    BY <1>2, <1>6 DEF PollMissing, Forgotten
  <2> QED
    BY <1>5, <2>1, <2>2, <2>3, <2>4 DEF TrueDraft, TrueAnswer
<1>7. ASSUME NEW i \in Jobs, PollFound(p, i)
      PROVE  PollInv'
  <2>1. /\ poller'[p].at = "found" /\ poller'[p].job = i
        /\ poller'[p].answer = r.answer
        /\ r.job \in {i, NoJob} /\ Accepted(i)
    BY <1>3, <1>7 DEF PollFound, PollerTypeOK
  <2>2. PollerTypeOK' /\ \A q \in Pollers \ {p} : poller'[q] = poller[q]
    BY <1>3, <1>7 DEF PollFound, PollerTypeOK
  <2> QED
    BY <1>3, <1>5, <2>1, <2>2, JobsAssumption DEF TrueDraft, TrueAnswer
<1>8. CASE EncodeStatus(p)
  <2>1. j \in Jobs /\ Accepted(j) /\ job[j].status \in Statuses
    BY <1>3, <1>8 DEF EncodeStatus, TrueDraft, JobFields
  <2>2. /\ poller'[p].at = "status" /\ poller'[p].job = j
        /\ poller'[p].answer = r.answer
        /\ poller'[p].draft.status = job[j].status
    BY <1>3, <1>8 DEF EncodeStatus, PollerTypeOK, Answers
  <2>3. PollerTypeOK' /\ \A q \in Pollers \ {p} : poller'[q] = poller[q]
    <3> DEFINE d == [r.draft EXCEPT !.status = job[j].status]
               n == [r EXCEPT !.at = "status", !.draft = d]
    <3>1. d \in Answers
      BY <1>4, <2>1 DEF Answers, Statuses404
    <3>2. r \in Clients
      BY <1>3 DEF PollerTypeOK, Clients
    <3>3. poller' = [poller EXCEPT ![p] = n]
      BY <1>8, Zenon DEF EncodeStatus
    <3> HIDE DEF d
    <3>4. n \in Clients
      BY <3>1, <3>2 DEF Clients
    <3> QED
      BY <1>3, <3>3, <3>4, OneClient
  <2> QED
    BY <1>3, <1>5, <2>1, <2>2, <2>3 DEF TrueDraft, TrueAnswer, Later
<1>9. CASE EncodeResult(p)
  <2>1. /\ j \in Jobs /\ Accepted(j) /\ job[j].result \in Results
        /\ Later(r.draft.status, job[j].status) /\ r.draft.status \in Statuses
    BY <1>3, <1>9 DEF EncodeResult, TrueDraft, JobFields
  <2>2. /\ poller'[p].at = "result" /\ poller'[p].job = j
        /\ poller'[p].answer = r.answer
        /\ poller'[p].draft.status = r.draft.status
        /\ poller'[p].draft.result = job[j].result
    BY <1>3, <1>9 DEF EncodeResult, PollerTypeOK, Answers
  <2>3. PollerTypeOK' /\ \A q \in Pollers \ {p} : poller'[q] = poller[q]
    <3> DEFINE d == [r.draft EXCEPT !.result = job[j].result]
               n == [r EXCEPT !.at = "result", !.draft = d]
    <3>1. d \in Answers
      BY <1>4, <2>1 DEF Answers
    <3>2. r \in Clients
      BY <1>3 DEF PollerTypeOK, Clients
    <3>3. poller' = [poller EXCEPT ![p] = n]
      BY <1>9, Zenon DEF EncodeResult
    <3> HIDE DEF d
    <3>4. n \in Clients
      BY <3>1, <3>2 DEF Clients
    <3> QED
      BY <1>3, <3>3, <3>4, OneClient
  <2>4. r.draft.status = "done" => job[j].status = "done"
    BY <1>3, <2>1 DEF Later, JobFields, Statuses
  <2>5. r.draft.status = "done" => job[j].result = "extracted"
    BY <2>1, <2>4, DoneComplete DEF PollInv
  <2> QED
    BY <1>3, <1>5, <2>1, <2>2, <2>3, <2>5 DEF TrueDraft, TrueAnswer
<1>10. CASE Respond(p)
  <2> DEFINE a == [r.draft EXCEPT !.error = job[j].error]
  <2>1. /\ j \in Jobs /\ Accepted(j) /\ job[j].error \in BOOLEAN
        /\ Later(r.draft.status, job[j].status) /\ r.draft.status \in Statuses
        /\ r.draft.status = "done" => r.draft.result = "extracted"
    BY <1>3, <1>10 DEF Respond, TrueDraft, JobFields
  <2>2. /\ a \in Answers /\ a.status = r.draft.status /\ a.result = r.draft.result
        /\ a.error = job[j].error
    BY <1>4, <2>1 DEF Answers
  <2> HIDE DEF a
  <2>3. /\ poller'[p].at = "idle" /\ poller'[p].job = j /\ poller'[p].answer = a
    BY <1>3, <1>10 DEF Respond, PollerTypeOK, a
  <2>4. NoAnswer \in Answers
    BY DEF NoAnswer, Answers, Statuses404, Statuses, Results
  <2>5. PollerTypeOK' /\ \A q \in Pollers \ {p} : poller'[q] = poller[q]
    <3> DEFINE n == [r EXCEPT !.at = "idle", !.draft = NoAnswer, !.answer = a]
    <3>1. r \in Clients
      BY <1>3 DEF PollerTypeOK, Clients
    <3>2. poller' = [poller EXCEPT ![p] = n]
      BY <1>10, Zenon DEF Respond, a
    <3>3. n \in Clients
      BY <2>2, <2>4, <3>1 DEF Clients
    <3> QED
      BY <1>3, <3>2, <3>3, OneClient
  <2>6. r.draft.status = "done" => ~job[j].error
    <3>1. r.draft.status = "done" => job[j].status = "done"
      BY <1>3, <2>1 DEF Later, JobFields, Statuses
    <3> QED
      BY <2>1, <3>1, DoneComplete DEF PollInv
  <2>7. a.status # "missing"
    BY <2>1, <2>2 DEF Statuses
  <2> QED
    BY <1>5, <2>1, <2>2, <2>3, <2>5, <2>6, <2>7 DEF TrueDraft, TrueAnswer
<1> QED
  BY <1>6, <1>7, <1>8, <1>9, <1>10 DEF PollStep
-----------------------------------------------------------------------------
LEMMA PollInitInv == PollInit => PollInv /\ OrderInv
<1> SUFFICES ASSUME PollInit
             PROVE  PollInv /\ OrderInv
  OBVIOUS
<1>1. IInv
  BY InitInv DEF PollInit
<1>2. Forgotten
  BY DEF PollInit, Init, Forgotten, Accepted
<1>3. NoAnswer \in Answers /\ NoAnswer.status = "none"
  BY DEF NoAnswer, Answers, Statuses404, Statuses, Results
<1>4. PollerTypeOK
  BY <1>3 DEF PollInit, PollerTypeOK
<1>5. \A p \in Pollers : poller[p].at = "idle" /\ poller[p].answer.status = "none"
  BY <1>3 DEF PollInit
<1> QED
  BY <1>1, <1>2, <1>4, <1>5 DEF PollInv, OrderInv, InOrder, TrueDraft, TrueAnswer

LEMMA PollNextInv == PollInv /\ [PollNext]_pollVars => PollInv'
<1> SUFFICES ASSUME PollInv, [PollNext]_pollVars
             PROVE  PollInv'
  OBVIOUS
<1>1. CASE PollNext
  BY <1>1, QueueStepInv, PollStepInv DEF PollNext
<1>2. CASE UNCHANGED pollVars
  <2>1. [Next]_vars /\ poller' = poller /\ UNCHANGED vars
    BY <1>2 DEF pollVars
  <2>2. IInv' /\ Forgotten'
    BY <2>1, NextInv, ForgottenInv DEF PollInv
  <2> QED
    BY <2>1, <2>2
    DEF PollInv, vars, PollerTypeOK, TrueDraft, TrueAnswer, Settled, Accepted
<1> QED
  BY <1>1, <1>2

(* What a client has read of a record is still true of it, or has become   *)
(* more.                                                                   *)
THEOREM PollInvariance == PollSpec => []PollInv
<1>1. PollInit => PollInv
  BY PollInitInv
<1>2. PollInv /\ [PollNext]_pollVars => PollInv'
  BY PollNextInv
<1> QED
  BY <1>1, <1>2, PTL DEF PollSpec

(* Requests and answers keep their types (JobStatusHandler).               *)
THEOREM PollerTypes == PollSpec => []PollerTypeOK
<1>1. PollInv => PollerTypeOK
  BY DEF PollInv
<1> QED
  BY <1>1, PollInvariance, PTL

(* Although the record is encoded while a worker writes it, a response     *)
(* that says done has the extraction and no error.                         *)
THEOREM DoneIsComplete == PollSpec => []DoneCarriesExtraction
<1>1. PollInv => DoneCarriesExtraction
  BY DEF PollInv, TrueAnswer, DoneCarriesExtraction
<1> QED
  BY <1>1, PollInvariance, PTL

(* Within one life of the process a 404 is only answered for a job that    *)
(* has settled, even where the TTL is shorter than the processing time.    *)
THEOREM MissingIsFinal == PollSpec => []MissingMeansSettled
<1>1. PollInv => MissingMeansSettled
  BY DEF PollInv, TrueAnswer, MissingMeansSettled
<1> QED
  BY <1>1, PollInvariance, PTL
-----------------------------------------------------------------------------
(* A settled record that is gone is not saved again, if the TTL covers the *)
(* processing time: no worker still holds the job.                         *)
LEMMA StaysForgotten ==
    ASSUME TTLCovers, IInv, [Next]_vars, NEW j \in Jobs, Accepted(j), j \notin stored
    PROVE  j \notin stored'
<1>1. ~Held(j)
  BY DEF IInv, RetainedWhileOwned
<1>2. CASE \E i \in Jobs : Submit(i) \/ HandlerStep(i)
  BY <1>2 DEF Accepted, Submit, HandlerStep, Enqueue, EnqueueBuffered, EnqueueHandoff,
              EnqueueRejected, RejectJob, Save
<1>3. CASE \E w \in Workers : WorkerStep(w)
  BY <1>1, <1>3 DEF Held, WorkerStep, StartJob, TranscribeOK, TranscribeFails,
     ReportWhisperFailure, ExtractOK, ExtractFails, ReportExtractionFailure, MarkDone,
     FinishJob, Save
<1>4. CASE Sweep
  BY <1>4 DEF Sweep
<1>5. CASE UNCHANGED stored
  BY <1>5
<1> QED
  BY <1>2, <1>3, <1>4, <1>5
  DEF Next, vars, Dequeue, WorkerStop, Tick, Elapse, Signal, Close, Exit, Killed, Terminated,
      Advance

LEMMA OrderQueueStep ==
    ASSUME TTLCovers, PollInv, OrderInv, [Next]_vars, UNCHANGED poller
    PROVE  OrderInv'
<1> SUFFICES ASSUME NEW p \in Pollers
             PROVE  InOrder(poller[p])'
  BY DEF OrderInv
<1> DEFINE r == poller[p]
           j == r.job
<1>1. InOrder(r) /\ TrueAnswer(r) /\ r' = r
  BY DEF OrderInv, PollInv
<1>2. ASSUME j \in Jobs, Accepted(j)
      PROVE  /\ Later(job[j].status, job'[j].status) /\ job[j].status # "none"
             /\ j \notin stored => j \notin stored'
  BY <1>2, StatusMoves, StaysForgotten DEF PollInv, IInv, HandlerPlaces, Accepted
<1> QED
  BY <1>1, <1>2, LaterTransitive DEF InOrder, TrueAnswer

LEMMA OrderPollStep ==
    ASSUME PollInv, OrderInv, NEW p \in Pollers, PollStep(p)
    PROVE  /\ OrderInv'
           /\ \A q \in Pollers : Later(poller[q].answer.status, poller'[q].answer.status)
<1> DEFINE r == poller[p]
           j == r.job
<1>1. /\ UNCHANGED vars
      /\ \A q \in Pollers \ {p} : poller'[q] = poller[q]
  BY DEF PollStep, PollMissing, PollFound, EncodeStatus, EncodeResult, Respond, PollInv,
         PollerTypeOK
<1>2. /\ job' = job /\ handler' = handler /\ stored' = stored /\ job \in [Jobs -> JobFields]
      /\ PollerTypeOK /\ InOrder(r) /\ TrueDraft(r) /\ TrueAnswer(r)
      /\ r.answer \in Answers /\ r.draft \in Answers
  BY <1>1 DEF vars, PollInv, OrderInv, IInv, TypeOK, PollerTypeOK
<1>3. ASSUME InOrder(poller'[p]), Later(r.answer.status, poller'[p].answer.status)
      PROVE  /\ OrderInv'
             /\ \A q \in Pollers : Later(poller[q].answer.status, poller'[q].answer.status)
  <2>1. \A q \in Pollers : InOrder(poller'[q])
    BY <1>1, <1>3 DEF OrderInv
  <2>2. OrderInv'
    BY <1>2, <2>1 DEF OrderInv, InOrder
  <2>3. \A q \in Pollers : Later(poller[q].answer.status, poller'[q].answer.status)
    BY <1>1, <1>3 DEF Later
  <2> QED
    BY <2>2, <2>3
<1>4. r.answer.status \in Statuses404
  BY <1>2 DEF Answers
<1>5. ASSUME NEW i \in Jobs, PollMissing(p, i)
      PROVE  InOrder(poller'[p]) /\ Later(r.answer.status, poller'[p].answer.status)
  <2>1. /\ poller'[p].at = "idle" /\ poller'[p].job = i /\ i \notin stored
        /\ poller'[p].answer.status = "missing"
    BY <1>2, <1>5 DEF PollMissing, PollerTypeOK, NoAnswer
  <2> QED
    BY <1>4, <2>1 DEF InOrder, Later, Statuses404, Statuses
<1>6. ASSUME NEW i \in Jobs, PollFound(p, i)
      PROVE  InOrder(poller'[p]) /\ Later(r.answer.status, poller'[p].answer.status)
  <2>1. /\ poller'[p].at = "found" /\ poller'[p].job = i /\ poller'[p].answer = r.answer
        /\ r.job \in {i, NoJob} /\ i \in stored
    BY <1>2, <1>6 DEF PollFound, PollerTypeOK
  <2>2. r.answer.status # "none" => r.job = i
    BY <1>2, <2>1, JobsAssumption DEF TrueAnswer
  <2> QED
    BY <1>2, <2>1, <2>2 DEF InOrder, Later
<1>7. CASE EncodeStatus(p)
  <2>1. j \in Jobs /\ Accepted(j) /\ job[j].status \in Statuses
    BY <1>2, <1>7 DEF EncodeStatus, TrueDraft, JobFields
  <2>2. /\ poller'[p].at = "status" /\ poller'[p].job = j
        /\ poller'[p].answer = r.answer
        /\ poller'[p].draft.status = job[j].status
    BY <1>2, <1>7 DEF EncodeStatus, PollerTypeOK, Answers
  <2>3. r.answer.status # "missing"
    BY <1>2, <1>7 DEF EncodeStatus, InOrder
  <2>4. InOrder(poller'[p]) /\ Later(r.answer.status, poller'[p].answer.status)
    BY <1>2, <2>1, <2>2, <2>3 DEF InOrder, Later
  <2> QED
    BY <1>3, <2>4
<1>8. CASE EncodeResult(p)
  <2>1. /\ poller'[p].at = "result" /\ poller'[p].job = j
        /\ poller'[p].answer = r.answer
        /\ poller'[p].draft.status = r.draft.status
    BY <1>2, <1>8 DEF EncodeResult, PollerTypeOK, Answers
  <2>4. InOrder(poller'[p]) /\ Later(r.answer.status, poller'[p].answer.status)
    BY <1>2, <1>8, <2>1 DEF EncodeResult, InOrder, Later
  <2> QED
    BY <1>3, <2>4
<1>9. CASE Respond(p)
  <2>1. /\ poller'[p].at = "idle" /\ poller'[p].job = j
        /\ poller'[p].answer.status = r.draft.status
    BY <1>2, <1>9 DEF Respond, PollerTypeOK, Answers
  <2>2. /\ r.draft.status \in Statuses /\ Later(r.draft.status, job[j].status)
        /\ Later(r.answer.status, r.draft.status)
    BY <1>2, <1>9 DEF Respond, TrueDraft, InOrder
  <2>4. InOrder(poller'[p]) /\ Later(r.answer.status, poller'[p].answer.status)
    BY <2>1, <2>2 DEF InOrder, Statuses
  <2> QED
    BY <1>3, <2>4
<1> QED
  BY <1>3, <1>5, <1>6, <1>7, <1>8, <1>9 DEF PollStep

(* If the TTL covers the processing time, no client sees a job go back,    *)
(* change its outcome or return after a 404.                               *)
THEOREM AnswersInOrder ==
    ASSUME TTLCovers
    PROVE  PollSpec => AnswersNeverRegress
<1>1. PollInit => OrderInv
  BY PollInitInv
<1>2. ASSUME PollInv, OrderInv, [PollNext]_pollVars
      PROVE  /\ OrderInv'
             /\ \A q \in Pollers : Later(poller[q].answer.status, poller'[q].answer.status)
  <2>1. CASE [Next]_vars /\ UNCHANGED poller
    BY <1>2, <2>1, OrderQueueStep DEF Later
  <2>2. CASE \E p \in Pollers : PollStep(p)
    BY <1>2, <2>2, OrderPollStep
  <2> QED
    BY <1>2, <2>1, <2>2 DEF PollNext, QueueStep, pollVars
<1>3. PollInv /\ OrderInv /\ [PollNext]_pollVars => OrderInv'
  BY <1>2
<1>4. ASSUME PollInv, PollInv', OrderInv, [PollNext]_pollVars, NEW p \in Pollers
      PROVE  \/ Rank[poller'[p].answer.status] > Rank[poller[p].answer.status]
             \/ poller'[p].answer.status = poller[p].answer.status
  <2>1. poller[p].answer.status \in Statuses404 /\ poller'[p].answer.status \in Statuses404
    BY <1>4 DEF PollInv, PollerTypeOK, Answers
  <2> QED
    BY <1>2, <1>4, <2>1, LaterRank
<1>5. PollInv /\ PollInv' /\ OrderInv /\ [PollNext]_pollVars =>
        [\A p \in Pollers :
           poller'[p].answer # poller[p].answer =>
              \/ Rank[poller'[p].answer.status] > Rank[poller[p].answer.status]
              \/ poller'[p].answer.status = poller[p].answer.status]_poller
  BY <1>4
<1> QED
  BY <1>1, <1>3, <1>5, PollInvariance, PTL DEF PollSpec, AnswersNeverRegress
===============================================================================
