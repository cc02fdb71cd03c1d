----------------------------- MODULE JobPolling -----------------------------
(***************************************************************************)
(* Clients polling GET /jobs/{id} while the pipeline of JobQueue runs.     *)
(* JobStatusHandler takes the *Job out of the store under its lock and     *)
(* then encodes the live record without one, field by field in the order   *)
(* of the struct: Status, Result, Error.  Between two fields the handler   *)
(* of the job or its worker may write.                                     *)
(***************************************************************************)
EXTENDS JobQueue

CONSTANT Pollers     \* clients, each following one job

VARIABLE poller      \* each client's request in flight, and its last answer

pollVars == <<vars, poller>>

Statuses404 == Statuses \cup {"missing"}

Answers == [status : Statuses404, result : Results, error : BOOLEAN]

NoAnswer == [status |-> "none", result |-> "none", error |-> FALSE]

(* draft is what has been encoded so far; answer is the last response.     *)
PollerTypeOK ==
    poller \in [Pollers -> [at : {"idle", "found", "status", "result"},
                            job : Jobs \cup {NoJob},
                            draft : Answers, answer : Answers]]

PollInit ==
    /\ Init
    /\ poller = [p \in Pollers |-> [at |-> "idle", job |-> NoJob,
                                    draft |-> NoAnswer, answer |-> NoAnswer]]
-----------------------------------------------------------------------------
(* The client knows the ID from the 202.                                   *)
PollMissing(p, j) ==
    /\ Running
    /\ poller[p].at = "idle" /\ poller[p].job \in {j, NoJob}
    /\ Accepted(j)
    /\ j \notin stored
    /\ poller' = [poller EXCEPT ![p].job = j,
                                ![p].answer = [NoAnswer EXCEPT !.status = "missing"]]
    /\ UNCHANGED vars

PollFound(p, j) ==
    /\ Running
    /\ poller[p].at = "idle" /\ poller[p].job \in {j, NoJob}
    /\ Accepted(j)
    /\ j \in stored
    /\ poller' = [poller EXCEPT ![p].job = j, ![p].at = "found"]
    /\ UNCHANGED vars

EncodeStatus(p) ==
    /\ Running
    /\ poller[p].at = "found"
    /\ poller' = [poller EXCEPT ![p].at = "status",
                                ![p].draft.status = job[poller[p].job].status]
    /\ UNCHANGED vars

(* A plausible bug: the status is encoded under the name of the result.    *)
EncodeStatusTwice(p) ==
    /\ Running
    /\ poller[p].at = "status"
    /\ poller' = [poller EXCEPT ![p].at = "result",
                                ![p].draft.result = job[poller[p].job].status]
    /\ UNCHANGED vars

(* Result is set to a record with the text, whose Extraction is filled in  *)
(* later: one read of the pair sees every outcome of reading them apart.   *)
EncodeResult(p) ==
    /\ Running
    /\ poller[p].at = "status"
    /\ poller' = [poller EXCEPT ![p].at = "result",
                                ![p].draft.result = job[poller[p].job].result]
    /\ UNCHANGED vars

Respond(p) ==
    /\ Running
    /\ poller[p].at = "result"
    /\ poller' = [poller EXCEPT
                    ![p].at = "idle",
                    ![p].draft = NoAnswer,
                    ![p].answer = [poller[p].draft EXCEPT !.error = job[poller[p].job].error]]
    /\ UNCHANGED vars

PollStep(p) ==
    \/ \E j \in Jobs : PollMissing(p, j) \/ PollFound(p, j)
    \/ EncodeStatus(p) \/ EncodeResult(p) \/ Respond(p)

QueueStep == Next /\ UNCHANGED poller

PollNext == QueueStep \/ \E p \in Pollers : PollStep(p)

PollSpec == PollInit /\ [][PollNext]_pollVars
-----------------------------------------------------------------------------
(* A response that says done carries the extraction: processJob stores the *)
(* extraction before the status, and the encoder reads them in the other   *)
(* order.                                                                  *)
DoneCarriesExtraction ==
    \A p \in Pollers : poller[p].answer.status = "done" =>
        poller[p].answer.result = "extracted" /\ ~poller[p].answer.error

(* The README on a job whose extraction fails for good: it is marked       *)
(* failed with the error.  A client would expect both in one response.     *)
FailedExtractionCarriesError ==
    \A p \in Pollers :
        poller[p].answer.status = "failed" /\ poller[p].answer.result = "text"
            => poller[p].answer.error

(* 404 is answered only for a job that has settled, so a client that polls *)
(* may take it as final, as long as the process lives: one that docker has *)
(* started again answers 404 for every job of the last one.                *)
MissingMeansSettled ==
    \A p \in Pollers : poller[p].answer.status = "missing" => Settled(poller[p].job)

Rank == [s \in Statuses404 |-> CASE s = "none"       -> 0
                                 [] s = "queued"     -> 1
                                 [] s = "processing" -> 2
                                 [] s \in {"done", "failed"} -> 3
                                 [] s = "missing"    -> 4]

(* From one response to the next a job never goes back, and done and       *)
(* failed are final until the record is forgotten.                         *)
AnswersNeverRegress ==
    [][\A p \in Pollers :
         poller'[p].answer # poller[p].answer =>
            \/ Rank[poller'[p].answer.status] > Rank[poller[p].answer.status]
            \/ poller'[p].answer.status = poller[p].answer.status]_poller
=============================================================================
