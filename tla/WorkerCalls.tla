---------------------------- MODULE WorkerCalls ----------------------------
(***************************************************************************)
(* JobQueue with the calls that processJob waits for spelt out: whisper    *)
(* (internal/whisper), the LLM with its retries (internal/llm) and the     *)
(* append to the sheet with its retries and its formatting (client.go,     *)
(* AppendRowWithRetry, AppendRow, applyRowFormats).  Each request ends at  *)
(* the timeout of its client or with the context of the job, whichever is  *)
(* first; the waits for a mutex of the sheets client ignore the context.   *)
(* What the sheet holds afterwards is SheetExport's part.                  *)
(***************************************************************************)
EXTENDS JobQueue

CONSTANTS
    LLMTimeout,     \* LLM_TIMEOUT_SEC
    LLMRetries,     \* LLM_MAX_RETRIES
    SheetsTimeout,  \* GOOGLE_SHEETS_TIMEOUT_SEC, of each request
    SheetsRetries,  \* GOOGLE_SHEETS_MAX_RETRIES
    TokenWait,      \* the longest waits for the mutexes of the token, of
    TabsWait,       \* the tab list and of the categories
    CatsWait

ASSUME CallsAssumption ==
    /\ LLMTimeout \in Nat \ {0} /\ LLMRetries \in Nat
    /\ SheetsTimeout \in Nat \ {0} /\ SheetsRetries \in Nat
    /\ TokenWait \in Nat /\ TabsWait \in Nat /\ CatsWait \in Nat

(* A worker whose context ends while it waits for the tab list may still   *)
(* have to wait for the categories, and for the token once for them and    *)
(* once for the formatting.                                                *)
ASSUME ExportAssumption == SheetsEnabled
ASSUME OverrunAssumption == TabsWait + CatsWait + 2 * TokenWait <= LockOverrun

VARIABLE call   \* what each worker waits for, in which attempt, how much longer

callVars == <<vars, call>>
-----------------------------------------------------------------------------
Locks == {"lookupToken", "appendToken", "tabsLock", "tabsToken",
          "catsLock", "catsToken", "formatToken"}
Requests == {"whisper", "extract", "lookup", "append", "tabs", "cats", "range", "format"}
Backoffs == {"llmBackoff", "exportBackoff"}
Ops == Locks \cup Requests \cup Backoffs \cup {"none"}

(* 1 s, 2 s, 4 s, ...                                                      *)
Backoff(attempt) == 2 ^ (attempt - 1)

(* The longest that an operation takes.  A request with a token includes   *)
(* the exchange for a new one, which fails the same way.                   *)
MaxWait(op, attempt) ==
    CASE op \in {"lookupToken", "appendToken", "tabsToken", "catsToken", "formatToken"} -> TokenWait
      [] op = "tabsLock" -> TabsWait
      [] op = "catsLock" -> CatsWait
      [] op = "whisper" -> WhisperTimeout
      [] op = "extract" -> LLMTimeout
      [] op \in {"lookup", "append", "tabs", "cats", "format"} -> 2 * SheetsTimeout
      [] op = "range" -> SheetsTimeout
      [] op \in Backoffs -> Backoff(attempt)
      [] op = "none" -> 0

Call(op, attempt) == [op |-> op, attempt |-> attempt, left |-> MaxWait(op, attempt)]

NoCall == Call("none", 1)

Begins(w, op, attempt) == call' = [call EXCEPT ![w] = Call(op, attempt)]

(* The context of the job has ended.                                       *)
ContextDone(w) == worker[w].left <= 0

TimerFired(w) == call[w].left = 0

(* What follows on an answer and on a failure: RowMatches, AppendRow,      *)
(* sheetIDFor, TypeCategories, readRange, the batch update.                *)
OnAnswer ==
    [lookup |-> {"appendToken", "return"},
     append |-> {"tabsLock", "return"},
     tabs   |-> {"catsLock", "return"},
     cats   |-> {"range", "formatToken"},
     range  |-> {"range", "formatToken"},
     format |-> {"return"}]

(* Plausible bugs: the categories, or one of the ranges that list them,    *)
(* are asked for until they are there.                                     *)
OnFailureCatsAgain ==
    [lookup |-> {"retry"}, append |-> {"retry"}, tabs |-> {"return"},
     cats |-> {"catsToken"}, range |-> {"range", "formatToken"}, format |-> {"return"}]

OnFailureRangeAgain ==
    [lookup |-> {"retry"}, append |-> {"retry"}, tabs |-> {"return"},
     cats |-> {"formatToken"}, range |-> {"range"}, format |-> {"return"}]

OnFailure ==
    [lookup |-> {"retry"}, append |-> {"retry"}, tabs |-> {"return"},
     cats |-> {"formatToken"}, range |-> {"range", "formatToken"}, format |-> {"return"}]

(* With the mutex held: the cached list or categories, or the request.     *)
OnLocked ==
    [lookupToken |-> {"lookup"}, appendToken |-> {"append"},
     tabsLock    |-> {"catsLock", "return", "tabsToken"}, tabsToken |-> {"tabs"},
     catsLock    |-> {"formatToken", "catsToken"}, catsToken |-> {"cats"},
     formatToken |-> {"format"}]
-----------------------------------------------------------------------------
CallsInit == Init /\ call = [w \in Workers |-> NoCall]

(* Transcribe: one request, whose client has the timeout of the context.   *)
Transcribing(w) == StartJob(w) /\ Begins(w, "whisper", 1)

Transcribed(w) == TranscribeOK(w) /\ Begins(w, "extract", 1)

NotTranscribed(w) == TranscribeFails(w) /\ Begins(w, "none", 1)

(* ExtractWithRetry.                                                       *)
Extracted(w) ==
    /\ call[w].op = "extract" /\ ~TimerFired(w)
    /\ ExtractOK(w)
    /\ Begins(w, "lookupToken", 1)

(* A plausible bug: the loop ends one attempt early.                       *)
LastExtractEarly(w) == call[w].attempt = LLMRetries

LastExtract(w) == call[w].attempt = LLMRetries + 1

AttemptFails(w) ==
    /\ Running /\ call[w].op = "extract" /\ ~LastExtract(w)
    /\ Begins(w, "llmBackoff", call[w].attempt)
    /\ UNCHANGED vars

LastAttemptFails(w) ==
    /\ call[w].op = "extract" /\ LastExtract(w)
    /\ ExtractFails(w)
    /\ Begins(w, "none", 1)

(* The select between the context and the timer: either, when both are.    *)
TriesAgain(w) ==
    /\ Running /\ call[w].op = "llmBackoff" /\ TimerFired(w)
    /\ Begins(w, "extract", call[w].attempt + 1)
    /\ UNCHANGED vars

ExtractionCancelled(w) ==
    /\ call[w].op = "llmBackoff" /\ ContextDone(w)
    /\ ExtractFails(w)
    /\ Begins(w, "none", 1)
-----------------------------------------------------------------------------
(* AppendRowWithRetry.                                                     *)
ExportMoves(w, nexts) ==
    /\ Running
    /\ \E op \in nexts \ {"retry", "return"} : Begins(w, op, call[w].attempt)
    /\ UNCHANGED vars

ExportEnds(w) == MarkDone(w) /\ Begins(w, "none", 1)

LastExport(w) == call[w].attempt = SheetsRetries + 1

ExportLocked(w) ==
    /\ call[w].op \in Locks
    /\ \/ ExportMoves(w, OnLocked[call[w].op])
       \/ "return" \in OnLocked[call[w].op] /\ ExportEnds(w)

ExportAnswered(w) ==
    /\ call[w].op \in DOMAIN OnAnswer /\ ~TimerFired(w) /\ ~ContextDone(w)
    /\ \/ ExportMoves(w, OnAnswer[call[w].op])
       \/ "return" \in OnAnswer[call[w].op] /\ ExportEnds(w)

ExportFails(w) ==
    /\ call[w].op \in DOMAIN OnFailure
    /\ \/ ExportMoves(w, OnFailure[call[w].op])
       \/ "return" \in OnFailure[call[w].op] /\ ExportEnds(w)
       \/ "retry" \in OnFailure[call[w].op] /\ LastExport(w) /\ ExportEnds(w)
       \/ /\ "retry" \in OnFailure[call[w].op] /\ ~LastExport(w)
          /\ Running /\ Begins(w, "exportBackoff", call[w].attempt) /\ UNCHANGED vars

ExportTriesAgain(w) ==
    /\ Running /\ call[w].op = "exportBackoff" /\ TimerFired(w)
    /\ Begins(w, "lookupToken", call[w].attempt + 1)
    /\ UNCHANGED vars

ExportCancelled(w) ==
    /\ call[w].op = "exportBackoff" /\ ContextDone(w)
    /\ ExportEnds(w)

-----------------------------------------------------------------------------
(* Everything of JobQueue that concerns no call.                           *)
Elsewhere ==
    /\ \/ \E j \in Jobs : Submit(j) \/ HandlerStep(j)
       \/ \E w \in Workers :
            \/ Dequeue(w) \/ WorkerStop(w)
            \/ ReportWhisperFailure(w) \/ ReportExtractionFailure(w) \/ FinishJob(w)
       \/ Sweep \/ Signal \/ Close \/ Exit \/ Killed \/ Terminated
    /\ UNCHANGED call

(* A plausible bug: the requests are not built with the context.           *)
StillWaitsWithoutContext(w) == worker[w].at \in {"idle", "exited"} \/ call[w].left > 0

(* A worker waits as long as its timer runs and, except for a mutex, its   *)
(* context.                                                                *)
StillWaits(w) ==
    \/ worker[w].at \in {"idle", "exited"}
    \/ call[w].left > 0 /\ (call[w].op \in Locks \/ ~ContextDone(w))

CallsTick ==
    /\ \A w \in Workers : StillWaits(w)
    /\ Elapse
    /\ call' = [w \in Workers |-> IF call[w].left > 0 THEN [call[w] EXCEPT !.left = @ - 1]
                                                      ELSE call[w]]

LLMStep(w) ==
    \/ Extracted(w) \/ AttemptFails(w) \/ LastAttemptFails(w)
    \/ TriesAgain(w) \/ ExtractionCancelled(w)

ExportStep(w) ==
    \/ ExportLocked(w) \/ ExportAnswered(w) \/ ExportFails(w)
    \/ ExportTriesAgain(w) \/ ExportCancelled(w)

CallsNext ==
    \/ \E w \in Workers :
         \/ Transcribing(w) \/ Transcribed(w) \/ NotTranscribed(w)
         \/ LLMStep(w) \/ ExportStep(w)
    \/ Elsewhere
    \/ CallsTick

CallsSpec == CallsInit /\ [][CallsNext]_callVars

(* What the timers, the context and the release of the mutexes force; as   *)
(* in JobQueue, nothing makes a service answer.                            *)
Forced(w) ==
    \/ Transcribing(w)
    \/ /\ TimerFired(w) \/ ContextDone(w)
       /\ NotTranscribed(w) \/ AttemptFails(w) \/ LastAttemptFails(w) \/ ExportFails(w)
    \/ TimerFired(w) /\ ExportLocked(w)
    \/ TriesAgain(w) \/ ExtractionCancelled(w) \/ ExportTriesAgain(w) \/ ExportCancelled(w)

NoCallStep(A) == A /\ UNCHANGED call

Settles(w) == ReportWhisperFailure(w) \/ ReportExtractionFailure(w) \/ FinishJob(w)

CallsFairness ==
    /\ \A j \in Jobs : WF_callVars(NoCallStep(HandlerStep(j)))
    /\ \A w \in Workers :
         /\ WF_callVars(NoCallStep(Dequeue(w) \/ WorkerStop(w)))
         /\ WF_callVars(NoCallStep(Settles(w)))
         /\ WF_callVars(Forced(w))
    /\ WF_callVars(CallsTick)
    /\ WF_callVars(NoCallStep(Sweep))
    /\ WF_callVars(NoCallStep(Close)) /\ WF_callVars(NoCallStep(Exit))

FairCallsSpec == CallsSpec /\ CallsFairness
-----------------------------------------------------------------------------
(* The most attempts at either.                                            *)
Attempts == (IF LLMRetries > SheetsRetries THEN LLMRetries ELSE SheetsRetries) + 1

(* A worker makes no more attempts than configured, none of its waits      *)
(* outlasts its timer, and none of what it waits for, retries included,    *)
(* keeps it past the context of its job by more than LockOverrun           *)
(* (processJob, ExtractWithRetry, AppendRowWithRetry).                     *)
CallsTypeOK ==
    /\ TypeOK
    /\ call \in [Workers -> [op : Ops, attempt : 1 .. Attempts, left : Nat]]
    /\ \A w \in Workers : call[w].left <= MaxWait(call[w].op, call[w].attempt)

(* The workers do what JobQueue says of them: with all their timers,       *)
(* retries and waits for a mutex they overrun the context of a job by no   *)
(* more than LockOverrun, on which the TTL of the store has to be set.     *)
ImplementsQueue == Spec

(* The timers give JobQueue the fairness that it assumes: no chain of      *)
(* requests, retries and waits keeps a job for ever.                       *)
MeetsFairness == Fairness

(* The LLM is not given up before it has had all the pauses between its    *)
(* attempts to recover, unless the context has ended (ExtractWithRetry).   *)
GivesUpLate ==
    [][\A w \in Workers :
         ExtractFails(w) =>
             \/ ContextDone(w)
             \/ WhisperTimeout - worker[w].left >= 2 ^ LLMRetries - 1]_callVars
=============================================================================
