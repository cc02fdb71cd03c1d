------------------------- MODULE WorkerCallsProofs -------------------------
(***************************************************************************)
(* Proofs about WorkerCalls for any timeouts, retries and waits for a      *)
(* mutex: the workers of WorkerCalls implement those of JobQueue, so that  *)
(* LockOverrun is the most by which they outlast the context of a job.     *)
(***************************************************************************)
EXTENDS WorkerCalls, JobQueueProofs, FiniteSetTheorems

LLMOps == {"extract", "llmBackoff"}
ExportOps == (Locks \cup Requests \cup {"exportBackoff"}) \ {"whisper", "extract"}

CallRecords == [op : Ops, attempt : 1 .. Attempts, left : Nat]

(* The waits for a mutex that may still follow an operation once the       *)
(* context has ended.                                                      *)
Owed(op) ==
    IF op = "tabsLock" THEN CatsWait + 2 * TokenWait
    ELSE IF op = "catsLock" THEN 2 * TokenWait
    ELSE IF op \in {"catsToken", "cats", "range"} THEN TokenWait
    ELSE 0

Remains(c) == IF c.op \in Locks THEN c.left ELSE 0

(* A call belongs to where its worker stands.                              *)
InPlace(p, c) ==
    /\ c.op = "whisper" <=> p.at = "whisper"
    /\ c.op \in LLMOps <=> p.at = "llm"
    /\ c.op \in ExportOps <=> p.at = "export"

Counted(c) ==
    /\ c.op \in LLMOps => c.attempt <= LLMRetries + 1
    /\ c.op = "llmBackoff" => c.attempt <= LLMRetries
    /\ c.op \in ExportOps => c.attempt <= SheetsRetries + 1
    /\ c.op = "exportBackoff" => c.attempt <= SheetsRetries

(* Enough is left of the overrun for what is still owed.                   *)
OnTime(p, c) ==
    /\ c.op \in {"whisper"} \cup LLMOps => p.left >= 0
    /\ c.op \in ExportOps => p.left + LockOverrun >= Owed(c.op) + Remains(c)
    /\ c.op = "exportBackoff" => p.left >= 0 \/ c.left > 0

(* The pauses between the attempts at an extraction have been waited out:  *)
(* one second less than what the next one takes, after each failure.       *)
Waited(p, c) ==
    /\ c.op = "extract" => WhisperTimeout - p.left >= Backoff(c.attempt) - 1
    /\ c.op = "llmBackoff" => WhisperTimeout - p.left + c.left >= 2 * Backoff(c.attempt) - 1

PausesWaited == \A w \in Workers : Waited(worker[w], call[w])

Fits(p, c) ==
    /\ InPlace(p, c)
    /\ Counted(c)
    /\ OnTime(p, c)
    /\ c.left <= MaxWait(c.op, c.attempt)

CallInv ==
    /\ IInv
    /\ call \in [Workers -> CallRecords]
    /\ \A w \in Workers : Fits(worker[w], call[w])
-----------------------------------------------------------------------------
(* A pause lasts at least a second.                                        *)
LEMMA BackoffPositive ==
    ASSUME NEW k \in Nat \ {0}
    PROVE  Backoff(k) \in Nat /\ Backoff(k) > 0
<1> DEFINE n == k - 1
           S == 1 .. n
<1>1. n \in Nat /\ IsFiniteSet(S) /\ Cardinality(S) = n
  BY FS_Interval
<1>2. IsFiniteSet(SUBSET S) /\ Cardinality(SUBSET S) = 2 ^ n
  BY <1>1, FS_SUBSET
<1>3. 2 ^ n \in Nat
  BY <1>2, FS_CardinalityType
<1>4. {} \in SUBSET S
  OBVIOUS
<1>5. 2 ^ n # 0
  BY <1>2, <1>4, FS_EmptySet
<1> QED
  BY <1>3, <1>5 DEF Backoff

(* Each pause lasts twice as long as the one before it.                    *)
LEMMA PowersDouble ==
    ASSUME NEW n \in Nat
    PROVE  2 ^ (n + 1) = 2 * 2 ^ n
<1> DEFINE S == SUBSET (1 .. n)
           T == {A \in SUBSET (1 .. n + 1) : n + 1 \in A}
           f == [A \in S |-> A \cup {n + 1}]
<1>1. IsFiniteSet(1 .. n) /\ Cardinality(1 .. n) = n
  BY FS_Interval
<1>2. IsFiniteSet(1 .. n + 1) /\ Cardinality(1 .. n + 1) = n + 1
  BY FS_Interval
<1>3. /\ IsFiniteSet(S) /\ Cardinality(S) = 2 ^ n
      /\ Cardinality(SUBSET (1 .. n + 1)) = 2 ^ (n + 1)
  BY <1>1, <1>2, FS_SUBSET
<1>4. SUBSET (1 .. n + 1) = S \cup T /\ S \cap T = {}
  <2>1. ASSUME NEW A \in SUBSET (1 .. n + 1), n + 1 \notin A
        PROVE  A \in S
    BY <2>1
  <2> QED
    BY <2>1
<1>5. ExistsBijection(S, T)
  <2>1. f \in [S -> T]
    OBVIOUS
  <2>2. ASSUME NEW A \in S, NEW B \in S, f[A] = f[B]
        PROVE  A = B
    <3>1. n + 1 \notin A /\ n + 1 \notin B
      OBVIOUS
    <3> QED
      BY <2>2, <3>1
  <2>3. ASSUME NEW B \in T
        PROVE  \E A \in S : f[A] = B
    <3>1. B \ {n + 1} \in S /\ (B \ {n + 1}) \cup {n + 1} = B
      OBVIOUS
    <3> QED
      BY <3>1
  <2> HIDE DEF S, T, f
  <2>4. f \in Bijection(S, T)
    BY <2>1, <2>2, <2>3, Zenon DEF Bijection, Injection, Surjection, IsInjective
  <2> QED
    BY <2>4 DEF ExistsBijection
<1> HIDE DEF S, T
<1>6. IsFiniteSet(T) /\ Cardinality(T) = 2 ^ n
  BY <1>3, <1>5, FS_Bijection
<1>7. Cardinality(S \cup T) = Cardinality(S) + Cardinality(T) - Cardinality({})
  BY <1>3, <1>4, <1>6, FS_Union
<1> DEFINE m == Cardinality(S)
<1>8. Cardinality({}) = 0 /\ m \in Nat
  BY <1>3, FS_EmptySet, FS_CardinalityType
<1>9. Cardinality(T) = m
  BY <1>3, <1>6
<1> HIDE DEF m
<1>10. Cardinality(S \cup T) = 2 * m
  BY <1>7, <1>8, <1>9 DEF m
<1>11. 2 ^ (n + 1) = 2 * m
  BY <1>3, <1>4, <1>10
<1> QED
  BY <1>3, <1>11 DEF m

LEMMA BackoffDoubles ==
    /\ Backoff(1) = 1
    /\ \A k \in Nat \ {0} : Backoff(k + 1) = 2 * Backoff(k)
<1>1. 2 ^ 0 = 1
  <2>1. IsFiniteSet({}) /\ Cardinality({}) = 0
    BY FS_EmptySet
  <2>2. Cardinality(SUBSET {}) = 2 ^ 0
    BY <2>1, FS_SUBSET
  <2>3. SUBSET {} = {{}}
    OBVIOUS
  <2>4. Cardinality({{}}) = 1
    BY FS_Singleton
  <2> QED
    BY <2>2, <2>3, <2>4
<1>2. ASSUME NEW k \in Nat \ {0}
      PROVE  Backoff(k + 1) = 2 * Backoff(k)
  <2> DEFINE n == k - 1
  <2>1. n \in Nat /\ (k + 1) - 1 = n + 1
    OBVIOUS
  <2>2. 2 ^ (n + 1) = 2 * 2 ^ n
    BY <2>1, PowersDouble
  <2>3. Backoff(k + 1) = 2 ^ (n + 1) /\ Backoff(k) = 2 ^ n
    BY <2>1 DEF Backoff
  <2> QED
    BY <2>2, <2>3
<1>3. 1 - 1 = 0
  OBVIOUS
<1> QED
  BY <1>1, <1>2, <1>3 DEF Backoff

LEMMA AttemptsType == Attempts \in Nat \ {0} /\ LLMRetries + 1 <= Attempts /\ SheetsRetries + 1 <= Attempts
  BY CallsAssumption DEF Attempts

(* The waits for a mutex, and none.                                        *)
LEMMA WaitFacts ==
    ASSUME NEW k \in 1 .. Attempts
    PROVE  /\ MaxWait("lookupToken", k) = TokenWait
           /\ MaxWait("appendToken", k) = TokenWait
           /\ MaxWait("tabsLock", k) = TabsWait
           /\ MaxWait("tabsToken", k) = TokenWait
           /\ MaxWait("catsLock", k) = CatsWait
           /\ MaxWait("catsToken", k) = TokenWait
           /\ MaxWait("formatToken", k) = TokenWait
           /\ MaxWait("exportBackoff", k) = Backoff(k)
           /\ MaxWait("none", k) = 0
  BY DEF MaxWait, Backoffs

(* What an operation begins with.                                          *)
LEMMA CallFacts ==
    ASSUME NEW op \in Ops, NEW k \in 1 .. Attempts
    PROVE  /\ Call(op, k) \in CallRecords
           /\ Call(op, k).op = op /\ Call(op, k).attempt = k
           /\ Call(op, k).left = MaxWait(op, k)
           /\ MaxWait(op, k) \in Nat
<1>1. Backoff(k) \in Nat
  BY BackoffPositive, AttemptsType
<1>2. MaxWait(op, k) \in Nat
  BY <1>1, CallsAssumption, TimeAssumption DEF MaxWait, Ops, Locks, Requests, Backoffs
<1> QED
  BY <1>2 DEF Call, CallRecords

LEMMA BeginsFacts ==
    ASSUME CallInv, NEW w \in Workers, NEW op \in Ops, NEW k \in 1 .. Attempts,
           Begins(w, op, k)
    PROVE  /\ call' \in [Workers -> CallRecords]
           /\ call'[w] = Call(op, k)
           /\ \A v \in Workers \ {w} : call'[v] = call[v]
  BY CallFacts DEF CallInv, Begins

(* A worker that begins a call leaves the others alone.                    *)
LEMMA OneBegins ==
    ASSUME CallInv, IInv', NEW w \in Workers, NEW op \in Ops, NEW k \in 1 .. Attempts,
           Begins(w, op, k),
           \A v \in Workers \ {w} : worker'[v] = worker[v],
           InPlace(worker'[w], Call(op, k)),
           Counted(Call(op, k)),
           OnTime(worker'[w], Call(op, k))
    PROVE  CallInv'
<1>1. Fits(worker'[w], Call(op, k))
  BY CallFacts DEF Fits, CallRecords
<1>2. \A v \in Workers : Fits(worker'[v], call'[v])
  BY <1>1, BeginsFacts DEF CallInv
<1> QED
  BY <1>2, BeginsFacts DEF CallInv
-----------------------------------------------------------------------------
(* The clock of WorkerCalls is one that JobQueue allows.                   *)
LEMMA TicksInTime ==
    ASSUME CallInv, CallsTick
    PROVE  Tick
<1> SUFFICES ASSUME NEW w \in Workers
             PROVE  MayWait(w)
  BY DEF CallsTick, Tick
<1> USE TimeAssumption, CallsAssumption, ExportAssumption
<1>1. /\ worker[w] \in WorkerFields /\ call[w] \in CallRecords
      /\ Fits(worker[w], call[w]) /\ StillWaits(w)
  BY DEF CallInv, IInv, TypeOK, CallsTick
<1>2. CASE worker[w].at \in {"idle", "exited"}
  BY <1>2 DEF MayWait
<1>3. CASE /\ call[w].left > 0
           /\ call[w].op \in Locks \/ ~ContextDone(w)
  <2>1. call[w].op \in Ops /\ call[w].left \in Nat
    BY <1>1 DEF CallRecords
  <2>2. worker[w].left \in Int
    BY <1>1 DEF WorkerFields
  <2>3. call[w].op # "none"
    BY <1>1, <1>3, <2>1, WaitFacts DEF Fits, CallRecords
  <2>4. CASE call[w].op \in {"whisper"} \cup LLMOps
    <3>1. worker[w].at \in {"whisper", "llm"}
      BY <1>1, <2>4 DEF Fits, InPlace
    <3>2. worker[w].left > 0
      BY <1>3, <2>2, <2>4 DEF ContextDone, Locks, LLMOps
    <3> QED
      BY <3>1, <3>2 DEF MayWait
  <2>5. CASE call[w].op \in ExportOps
    <3>1. worker[w].at = "export"
      BY <1>1, <2>5 DEF Fits, InPlace
    <3>2. Owed(call[w].op) \in Nat
      BY DEF Owed
    <3>3. worker[w].left > - LockOverrun
      BY <1>1, <1>3, <2>1, <2>2, <2>5, <3>2 DEF Fits, OnTime, Remains, ContextDone
    <3> QED
      BY <3>1, <3>3 DEF MayWait
  <2> QED
    BY <2>1, <2>3, <2>4, <2>5 DEF Ops, LLMOps, ExportOps, Requests, Backoffs
<1> QED
  BY <1>1, <1>2, <1>3 DEF StillWaits

(* Every step of WorkerCalls is one of JobQueue, or none that it sees.     *)
LEMMA StepsOfQueue ==
    ASSUME CallInv, [CallsNext]_callVars
    PROVE  [Next]_vars
<1>1. CASE \E w \in Workers : Transcribing(w) \/ Transcribed(w) \/ NotTranscribed(w)
  BY <1>1 DEF Transcribing, Transcribed, NotTranscribed, Next, WorkerStep
<1>2. CASE \E w \in Workers : LLMStep(w)
  BY <1>2 DEF LLMStep, Extracted, AttemptFails, LastAttemptFails, TriesAgain,
              ExtractionCancelled, Next, WorkerStep
<1>3. CASE \E w \in Workers : ExportStep(w)
  <2>1. PICK w \in Workers : ExportStep(w)
    BY <1>3
  <2>2. MarkDone(w) \/ UNCHANGED vars
    BY <2>1 DEF ExportStep, ExportLocked, ExportAnswered, ExportFails, ExportTriesAgain,
                ExportCancelled, ExportEnds, ExportMoves
  <2> QED
    BY <2>2 DEF Next, WorkerStep
<1>4. CASE Elsewhere
  BY <1>4 DEF Elsewhere, Next, WorkerStep
<1>5. CASE CallsTick
  BY <1>5, TicksInTime DEF Next
<1>6. CASE UNCHANGED callVars
  BY <1>6 DEF callVars
<1> QED
  BY <1>1, <1>2, <1>3, <1>4, <1>5, <1>6 DEF CallsNext
-----------------------------------------------------------------------------
(* Transcribe keeps the invariant.                                         *)
LEMMA TranscribeInv ==
    ASSUME CallInv, IInv', NEW w \in Workers,
           Transcribing(w) \/ Transcribed(w) \/ NotTranscribed(w)
    PROVE  CallInv'
<1> USE TimeAssumption, CallsAssumption
<1>1. /\ worker \in [Workers -> WorkerFields] /\ worker[w] \in WorkerFields
      /\ 1 \in 1 .. Attempts /\ {"whisper", "extract", "none"} \subseteq Ops
  BY AttemptsType DEF CallInv, IInv, TypeOK, Ops, Requests
<1>2. CASE Transcribing(w)
  <2>1. /\ worker'[w].at = "whisper" /\ worker'[w].left = WhisperTimeout
        /\ \A v \in Workers \ {w} : worker'[v] = worker[v]
    BY <1>1, <1>2 DEF Transcribing, StartJob, WorkerFields
  <2>2. /\ InPlace(worker'[w], Call("whisper", 1))
        /\ Counted(Call("whisper", 1))
        /\ OnTime(worker'[w], Call("whisper", 1))
    BY <1>1, <2>1, CallFacts DEF InPlace, Counted, OnTime, LLMOps, ExportOps
  <2> QED
    BY <1>1, <1>2, <2>1, <2>2, OneBegins DEF Transcribing
<1>3. CASE Transcribed(w)
  <2>1. /\ worker'[w].at = "llm" /\ worker'[w].left = worker[w].left
        /\ \A v \in Workers \ {w} : worker'[v] = worker[v]
        /\ worker[w].left > 0
    BY <1>1, <1>3 DEF Transcribed, TranscribeOK, Go, WorkerFields
  <2>2. /\ InPlace(worker'[w], Call("extract", 1))
        /\ Counted(Call("extract", 1))
        /\ OnTime(worker'[w], Call("extract", 1))
    BY <1>1, <2>1, CallFacts DEF InPlace, Counted, OnTime, LLMOps, ExportOps, WorkerFields
  <2> QED
    BY <1>1, <1>3, <2>1, <2>2, OneBegins DEF Transcribed
<1>4. CASE NotTranscribed(w)
  <2>1. /\ worker'[w].at = "whisperFailed"
        /\ \A v \in Workers \ {w} : worker'[v] = worker[v]
    BY <1>1, <1>4 DEF NotTranscribed, TranscribeFails, Go, WorkerFields
  <2>2. /\ InPlace(worker'[w], Call("none", 1))
        /\ Counted(Call("none", 1))
        /\ OnTime(worker'[w], Call("none", 1))
    BY <1>1, <2>1, CallFacts
    DEF InPlace, Counted, OnTime, LLMOps, ExportOps, Locks, Requests
  <2> QED
    BY <1>1, <1>4, <2>1, <2>2, OneBegins DEF NotTranscribed
<1> QED
  BY <1>2, <1>3, <1>4

(* A worker that goes on within its place keeps what JobQueue sees of it.  *)
LEMMA StaysInPlace ==
    ASSUME CallInv, NEW w \in Workers, UNCHANGED vars
    PROVE  IInv' /\ \A v \in Workers : worker'[v] = worker[v]
<1>1. IInv'
  BY NextInv DEF CallInv
<1> QED
  BY <1>1 DEF vars

(* The end of what processJob waits for.                                   *)
LEMMA CallEnds ==
    ASSUME CallInv, IInv', NEW w \in Workers, Begins(w, "none", 1),
           worker'[w].at \in {"llmFailed", "marked"},
           \A v \in Workers \ {w} : worker'[v] = worker[v]
    PROVE  CallInv'
<1>1. 1 \in 1 .. Attempts /\ "none" \in Ops
  BY AttemptsType DEF Ops
<1>2. /\ InPlace(worker'[w], Call("none", 1))
      /\ Counted(Call("none", 1))
      /\ OnTime(worker'[w], Call("none", 1))
  BY <1>1, CallFacts DEF InPlace, Counted, OnTime, LLMOps, ExportOps, Locks, Requests
<1> QED
  BY <1>1, <1>2, OneBegins

LEMMA LLMInv ==
    ASSUME CallInv, IInv', NEW w \in Workers, LLMStep(w)
    PROVE  CallInv'
<1> USE TimeAssumption, CallsAssumption
<1> DEFINE k == call[w].attempt
<1>1. /\ worker \in [Workers -> WorkerFields] /\ worker[w] \in WorkerFields
      /\ call[w] \in CallRecords /\ Fits(worker[w], call[w])
      /\ 1 \in 1 .. Attempts
      /\ {"extract", "llmBackoff", "lookupToken", "none"} \subseteq Ops
      /\ worker[w].left \in Int /\ k \in 1 .. Attempts
  BY AttemptsType
  DEF CallInv, IInv, TypeOK, Ops, Requests, Backoffs, Locks, WorkerFields, CallRecords
<1>2. CASE Extracted(w)
  <2>1. /\ worker'[w].at = "export" /\ worker'[w].left = worker[w].left
        /\ \A v \in Workers \ {w} : worker'[v] = worker[v]
        /\ worker[w].left > 0
    BY <1>1, <1>2 DEF Extracted, ExtractOK, Go, WorkerFields
  <2>2. MaxWait("lookupToken", 1) = TokenWait
    BY <1>1, WaitFacts
  <2>3. /\ InPlace(worker'[w], Call("lookupToken", 1))
        /\ Counted(Call("lookupToken", 1))
    BY <1>1, <2>1, CallFacts DEF InPlace, Counted, LLMOps, ExportOps, Locks
  <2>4. OnTime(worker'[w], Call("lookupToken", 1))
    BY <1>1, <2>1, <2>2, CallFacts, OverrunAssumption DEF OnTime, LLMOps, Owed, Remains
  <2> QED
    BY <1>1, <1>2, <2>1, <2>3, <2>4, OneBegins DEF Extracted
<1>3. CASE AttemptFails(w)
  <2>1. /\ \A v \in Workers : worker'[v] = worker[v]
        /\ call[w].op = "extract" /\ k # LLMRetries + 1
        /\ Begins(w, "llmBackoff", k)
    BY <1>3, StaysInPlace DEF AttemptFails, LastExtract
  <2> DEFINE c == Call("llmBackoff", k)
  <2>5. c.op = "llmBackoff" /\ c.attempt = k /\ k <= LLMRetries
    BY <1>1, <2>1, CallFacts, AttemptsType DEF Fits, Counted, LLMOps
  <2>6. c.op \notin ExportOps \cup Locks
    BY <2>5 DEF ExportOps, Locks, Requests
  <2> HIDE DEF c
  <2>2. InPlace(worker[w], c)
    BY <1>1, <2>1, <2>5, <2>6 DEF Fits, InPlace, LLMOps
  <2>3. Counted(c)
    BY <1>1, <2>5, <2>6 DEF Counted
  <2>4. OnTime(worker[w], c)
    BY <1>1, <2>1, <2>5, <2>6 DEF Fits, OnTime, LLMOps
  <2> USE DEF c
  <2> QED
    BY <1>1, <2>1, <2>2, <2>3, <2>4, OneBegins
<1>4. CASE TriesAgain(w)
  <2>1. /\ \A v \in Workers : worker'[v] = worker[v]
        /\ call[w].op = "llmBackoff"
        /\ Begins(w, "extract", k + 1)
    BY <1>4, StaysInPlace DEF TriesAgain
  <2>2. k + 1 \in 1 .. Attempts /\ k + 1 <= LLMRetries + 1
    BY <1>1, <2>1, AttemptsType DEF Fits, Counted
  <2> DEFINE c == Call("extract", k + 1)
  <2>6. c.op = "extract" /\ c.attempt = k + 1
    BY <1>1, <2>2, CallFacts
  <2>7. c.op \notin ExportOps \cup Locks
    BY <2>6 DEF ExportOps, Locks, Requests
  <2> HIDE DEF c
  <2>3. InPlace(worker[w], c)
    BY <1>1, <2>1, <2>6, <2>7 DEF Fits, InPlace, LLMOps
  <2>4. Counted(c)
    BY <2>2, <2>6, <2>7 DEF Counted
  <2>5. OnTime(worker[w], c)
    BY <1>1, <2>1, <2>6, <2>7 DEF Fits, OnTime, LLMOps
  <2> USE DEF c
  <2> QED
    BY <1>1, <2>1, <2>2, <2>3, <2>4, <2>5, OneBegins
<1>5. CASE LastAttemptFails(w) \/ ExtractionCancelled(w)
  <2>1. /\ worker'[w].at = "llmFailed"
        /\ \A v \in Workers \ {w} : worker'[v] = worker[v]
        /\ Begins(w, "none", 1)
    BY <1>1, <1>5 DEF LastAttemptFails, ExtractionCancelled, ExtractFails, Go, WorkerFields
  <2> QED
    BY <2>1, CallEnds
<1> QED
  BY <1>2, <1>3, <1>4, <1>5 DEF LLMStep

(* AppendRowWithRetry keeps the invariant: what an operation leads to owes *)
(* no more waits than the operation itself, or the context has not ended.  *)
LEMMA MovesInPlace ==
    ASSUME CallInv, NEW w \in Workers, worker[w].at = "export",
           NEW op \in ExportOps, Begins(w, op, call[w].attempt), UNCHANGED vars,
           OnTime(worker[w], Call(op, call[w].attempt)),
           op # "exportBackoff" \/ call[w].attempt <= SheetsRetries
    PROVE  CallInv'
<1> DEFINE k == call[w].attempt
           c == Call(op, k)
<1> USE CallsAssumption
<1>1. /\ op \in Ops /\ op # "none" /\ op \notin LLMOps
      /\ k \in 1 .. Attempts /\ Fits(worker[w], call[w])
      /\ call[w].op \in ExportOps
  BY DEF CallInv, CallRecords, ExportOps, LLMOps, Ops, Locks, Requests, Backoffs, Fits, InPlace
<1>2. c.op = op /\ c.attempt = k /\ k <= SheetsRetries + 1
  BY <1>1, CallFacts DEF Fits, Counted
<1>3. OnTime(worker[w], c)
  OBVIOUS
<1> HIDE DEF c
<1>4. InPlace(worker[w], c)
  BY <1>1, <1>2 DEF InPlace, ExportOps
<1>5. Counted(c)
  BY <1>1, <1>2 DEF Counted, LLMOps
<1> USE DEF c
<1> QED
  BY <1>1, <1>3, <1>4, <1>5, StaysInPlace, OneBegins

(* An operation that owes nothing, begun when the overrun has room for it. *)
LEMMA OnTimeFacts ==
    ASSUME NEW p, NEW op \in ExportOps, NEW k \in 1 .. Attempts, p.left \in Int
    PROVE  /\ op \in Locks /\ p.left + LockOverrun >= Owed(op) + MaxWait(op, k)
                => OnTime(p, Call(op, k))
           /\ op \in Requests /\ p.left + LockOverrun >= Owed(op)
                => OnTime(p, Call(op, k))
           /\ op = "exportBackoff" /\ p.left + LockOverrun >= 0
                => OnTime(p, Call(op, k))
<1> DEFINE c == Call(op, k)
<1> USE CallsAssumption, TimeAssumption
<1>1. /\ c.op = op /\ c.left = MaxWait(op, k) /\ c.left \in Nat
      /\ op \notin {"whisper"} \cup LLMOps
  BY CallFacts DEF ExportOps, LLMOps, Ops, Locks, Requests, Backoffs
<1>2. op = "exportBackoff" => c.left > 0 /\ Owed(op) = 0
  BY <1>1, WaitFacts, BackoffPositive, AttemptsType DEF Owed
<1>3. Owed(op) \in Nat
  BY DEF Owed
<1>4. /\ op \in Locks => Remains(c) = MaxWait(op, k) /\ op # "exportBackoff"
      /\ op \in Requests \cup {"exportBackoff"} => Remains(c) = 0
      /\ op \in Requests => op # "exportBackoff"
  BY <1>1 DEF Remains, Locks, Requests
<1> HIDE DEF c
<1>5. /\ op \in Locks /\ p.left + LockOverrun >= Owed(op) + MaxWait(op, k)
                => OnTime(p, c)
      /\ op \in Requests /\ p.left + LockOverrun >= Owed(op)
                => OnTime(p, c)
      /\ op = "exportBackoff" /\ p.left + LockOverrun >= 0
                => OnTime(p, c)
  BY <1>1, <1>2, <1>3, <1>4 DEF OnTime
<1> QED
  BY <1>5 DEF c

(* What follows on a mutex owes no more than the wait for it did.          *)
LEMMA LockedOwes ==
    ASSUME NEW op \in Locks, NEW n \in OnLocked[op] \ {"retry", "return"},
           NEW k \in 1 .. Attempts
    PROVE  /\ n \in Locks \cup Requests /\ n \in ExportOps
           /\ n \in Locks => Owed(n) + MaxWait(n, k) <= Owed(op)
           /\ n \in Requests => Owed(n) <= Owed(op)
<1> USE CallsAssumption, WaitFacts DEF OnLocked, Owed, ExportOps, Locks, Requests
<1>1. CASE op = "lookupToken"
  BY <1>1
<1>2. CASE op = "appendToken"
  BY <1>2
<1>3. CASE op = "tabsLock"
  BY <1>3
<1>4. CASE op = "tabsToken"
  BY <1>4
<1>5. CASE op = "catsLock"
  BY <1>5
<1>6. CASE op = "catsToken"
  BY <1>6
<1>7. CASE op = "formatToken"
  BY <1>7
<1> QED
  BY <1>1, <1>2, <1>3, <1>4, <1>5, <1>6, <1>7

(* Whatever follows on an answer, the overrun has room for it.             *)
LEMMA AnsweredOwes ==
    ASSUME NEW op \in DOMAIN OnAnswer, NEW n \in OnAnswer[op] \ {"retry", "return"},
           NEW k \in 1 .. Attempts
    PROVE  /\ n \in Locks \cup Requests /\ n \in ExportOps
           /\ n \in Locks => Owed(n) + MaxWait(n, k) <= LockOverrun
           /\ n \in Requests => Owed(n) <= LockOverrun
<1> USE CallsAssumption, OverrunAssumption, TimeAssumption, WaitFacts
    DEF OnAnswer, Owed, ExportOps, Locks, Requests
<1>1. CASE op \in {"lookup", "append"}
  BY <1>1
<1>2. CASE op \in {"tabs", "cats"}
  BY <1>2
<1>3. CASE op \in {"range", "format"}
  BY <1>3
<1> QED
  BY <1>1, <1>2, <1>3

(* What follows on a failure owes no more than the request did.            *)
LEMMA FailedOwes ==
    ASSUME NEW op \in DOMAIN OnFailure, NEW n \in OnFailure[op] \ {"retry", "return"},
           NEW k \in 1 .. Attempts
    PROVE  /\ n \in Locks \cup Requests /\ n \in ExportOps
           /\ n \in Locks => Owed(n) + MaxWait(n, k) <= Owed(op)
           /\ n \in Requests => Owed(n) <= Owed(op)
<1> USE CallsAssumption, WaitFacts DEF OnFailure, Owed, ExportOps, Locks, Requests
<1>1. CASE op \in {"lookup", "append"}
  BY <1>1
<1>2. CASE op \in {"tabs", "cats"}
  BY <1>2
<1>3. CASE op \in {"range", "format"}
  BY <1>3
<1> QED
  BY <1>1, <1>2, <1>3

LEMMA ExportInv ==
    ASSUME CallInv, IInv', NEW w \in Workers, ExportStep(w)
    PROVE  CallInv'
<1> USE TimeAssumption, CallsAssumption, OverrunAssumption
<1> DEFINE k == call[w].attempt
           o == call[w].op
           L == worker[w].left
<1>1. /\ worker \in [Workers -> WorkerFields] /\ worker[w] \in WorkerFields
      /\ call[w] \in CallRecords /\ Fits(worker[w], call[w])
      /\ L \in Int /\ k \in 1 .. Attempts /\ o \in Ops /\ call[w].left \in Nat
  BY DEF CallInv, IInv, TypeOK, WorkerFields, CallRecords
<1>2. CASE ExportEnds(w)
  <2>1. /\ worker'[w].at = "marked"
        /\ \A v \in Workers \ {w} : worker'[v] = worker[v]
        /\ Begins(w, "none", 1)
    BY <1>1, <1>2 DEF ExportEnds, MarkDone, Go, WorkerFields
  <2> QED
    BY <2>1, CallEnds
<1>3. ASSUME o \in ExportOps
      PROVE  /\ worker[w].at = "export"
             /\ L + LockOverrun >= Owed(o)
             /\ o = "exportBackoff" => L >= 0 \/ call[w].left > 0
             /\ k <= SheetsRetries + 1
             /\ Owed(o) \in Nat
  BY <1>1, <1>3 DEF Fits, InPlace, OnTime, Counted, Owed, Remains
<1>4. CASE o \in Locks /\ ExportMoves(w, OnLocked[o])
  <2>1. PICK n \in OnLocked[o] \ {"retry", "return"} : Begins(w, n, k)
    BY <1>4 DEF ExportMoves
  <2>2. o \in ExportOps
    BY <1>4 DEF ExportOps, Locks
  <2>3. /\ n \in ExportOps /\ n # "exportBackoff"
        /\ OnTime(worker[w], Call(n, k))
    <3>1. Owed(n) \in Nat /\ (n \in Locks => MaxWait(n, k) \in Nat)
      BY <1>1, CallFacts DEF Owed, Ops
    <3>2. n # "exportBackoff"
      BY <1>1, <1>4, LockedOwes DEF Locks, Requests
    <3>3. /\ n \in Locks \cup Requests /\ n \in ExportOps
          /\ n \in Locks => Owed(n) + MaxWait(n, k) <= Owed(o)
          /\ n \in Requests => Owed(n) <= Owed(o)
      BY <1>1, <1>4, LockedOwes
    <3>4. /\ n \in Locks => L + LockOverrun >= Owed(n) + MaxWait(n, k)
          /\ n \in Requests => L + LockOverrun >= Owed(n)
      BY <1>1, <1>3, <2>2, <3>1, <3>3
    <3> QED
      BY <1>1, <3>2, <3>3, <3>4, OnTimeFacts
  <2> QED
    BY <1>3, <1>4, <2>1, <2>2, <2>3, MovesInPlace DEF ExportMoves
<1>5. CASE o \in DOMAIN OnAnswer /\ ~ContextDone(w) /\ ExportMoves(w, OnAnswer[o])
  <2>1. PICK n \in OnAnswer[o] \ {"retry", "return"} : Begins(w, n, k)
    BY <1>5 DEF ExportMoves
  <2>2. o \in ExportOps /\ L > 0
    BY <1>1, <1>5 DEF ExportOps, Requests, OnAnswer, ContextDone
  <2>3. /\ n \in ExportOps /\ n # "exportBackoff"
        /\ OnTime(worker[w], Call(n, k))
    <3>1. Owed(n) \in Nat /\ (n \in Locks => MaxWait(n, k) \in Nat)
      BY <1>1, CallFacts DEF Owed, Ops
    <3>2. n # "exportBackoff"
      BY <1>1, <1>5, AnsweredOwes DEF Locks, Requests
    <3> QED
      BY <1>1, <1>5, <2>2, <3>1, <3>2, AnsweredOwes, OnTimeFacts
  <2> QED
    BY <1>3, <1>5, <2>1, <2>2, <2>3, MovesInPlace DEF ExportMoves
<1>6. CASE o \in DOMAIN OnFailure /\ ExportMoves(w, OnFailure[o])
  <2>1. PICK n \in OnFailure[o] \ {"retry", "return"} : Begins(w, n, k)
    BY <1>6 DEF ExportMoves
  <2>2. o \in ExportOps
    BY <1>6 DEF ExportOps, Requests, OnFailure
  <2>3. /\ n \in ExportOps /\ n # "exportBackoff"
        /\ OnTime(worker[w], Call(n, k))
    <3>1. Owed(n) \in Nat /\ (n \in Locks => MaxWait(n, k) \in Nat)
      BY <1>1, CallFacts DEF Owed, Ops
    <3>2. n # "exportBackoff"
      BY <1>1, <1>6, FailedOwes DEF Locks, Requests
    <3> QED
      BY <1>1, <1>3, <1>6, <2>2, <3>1, <3>2, FailedOwes, OnTimeFacts
  <2> QED
    BY <1>3, <1>6, <2>1, <2>2, <2>3, MovesInPlace DEF ExportMoves
<1>7. CASE /\ o \in DOMAIN OnFailure /\ ~LastExport(w)
           /\ Begins(w, "exportBackoff", k) /\ UNCHANGED vars
  <2>1. o \in ExportOps /\ "exportBackoff" \in ExportOps
    BY <1>7 DEF ExportOps, Requests, OnFailure
  <2>2. k <= SheetsRetries
    BY <1>1, <1>3, <1>7, <2>1 DEF LastExport
  <2>3. OnTime(worker[w], Call("exportBackoff", k))
    <3>1. L + LockOverrun >= 0
      BY <1>1, <1>3, <2>1
    <3> QED
      BY <1>1, <2>1, <3>1, OnTimeFacts
  <2> QED
    BY <1>3, <1>7, <2>1, <2>2, <2>3, MovesInPlace
<1>8. CASE ExportTriesAgain(w)
  <2> DEFINE c == Call("lookupToken", k + 1)
  <2>1. /\ o = "exportBackoff" /\ o \in ExportOps /\ "lookupToken" \in ExportOps
        /\ call[w].left = 0 /\ Begins(w, "lookupToken", k + 1) /\ UNCHANGED vars
        /\ "lookupToken" \in Locks /\ "lookupToken" \in Ops
    BY <1>8 DEF ExportTriesAgain, TimerFired, ExportOps, Locks, Ops
  <2>2. k + 1 \in 1 .. Attempts /\ k + 1 <= SheetsRetries + 1 /\ L >= 0
    BY <1>1, <1>3, <2>1, AttemptsType DEF Fits, Counted
  <2>3. OnTime(worker[w], c)
    <3>1. Owed("lookupToken") = 0 /\ MaxWait("lookupToken", k + 1) = TokenWait
      BY <2>2, WaitFacts DEF Owed
    <3> QED
      BY <1>1, <2>1, <2>2, <3>1, OnTimeFacts
  <2>4. c.op = "lookupToken" /\ c.attempt = k + 1
    BY <2>1, <2>2, CallFacts
  <2> HIDE DEF c
  <2>5. InPlace(worker[w], c) /\ Counted(c)
    BY <1>3, <2>1, <2>2, <2>4 DEF InPlace, Counted, LLMOps
  <2> USE DEF c
  <2> QED
    BY <2>1, <2>2, <2>3, <2>5, StaysInPlace, OneBegins
<1>9. \/ ExportEnds(w)
      \/ o \in Locks /\ ExportMoves(w, OnLocked[o])
      \/ o \in DOMAIN OnAnswer /\ ~ContextDone(w) /\ ExportMoves(w, OnAnswer[o])
      \/ o \in DOMAIN OnFailure /\ ExportMoves(w, OnFailure[o])
      \/ /\ o \in DOMAIN OnFailure /\ ~LastExport(w)
         /\ Begins(w, "exportBackoff", k) /\ UNCHANGED vars
      \/ ExportTriesAgain(w)
  BY DEF ExportStep, ExportLocked, ExportAnswered, ExportFails, ExportCancelled
<1> QED
  BY <1>2, <1>4, <1>5, <1>6, <1>7, <1>8, <1>9
-----------------------------------------------------------------------------
(* A worker that is at no call may go wherever there is none.              *)
NoCallPlaces == {"idle", "exited"} \cup Instants

LEMMA OutOfCalls ==
    ASSUME NEW p, NEW q, NEW c, Fits(p, c),
           q = p \/ (p.at \in NoCallPlaces /\ q.at \in NoCallPlaces)
    PROVE  Fits(q, c)
<1>1. CASE p.at \in NoCallPlaces /\ q.at \in NoCallPlaces
  <2>1. c.op # "whisper" /\ c.op \notin LLMOps /\ c.op \notin ExportOps
    BY <1>1 DEF Fits, InPlace, NoCallPlaces, Instants
  <2>2. c.op # "exportBackoff"
    BY <2>1 DEF ExportOps
  <2> QED
    BY <1>1, <2>1, <2>2 DEF Fits, InPlace, OnTime, NoCallPlaces, Instants
<1> QED
  BY <1>1

LEMMA ElsewherePlaces ==
    ASSUME CallInv, IInv', Elsewhere, NEW v \in Workers
    PROVE  \/ worker'[v] = worker[v]
           \/ worker[v].at \in NoCallPlaces /\ worker'[v].at \in NoCallPlaces
<1>1. worker \in [Workers -> WorkerFields] /\ worker' \in [Workers -> WorkerFields]
  BY DEF CallInv, IInv, TypeOK
<1> USE <1>1 DEF NoCallPlaces, Instants
<1>2. CASE \E j \in Jobs : Submit(j) \/ HandlerStep(j)
  <2>1. CASE \E j \in Jobs, w \in Workers : EnqueueHandoff(j, w)
    BY <2>1 DEF EnqueueHandoff, WorkerFields
  <2>2. CASE UNCHANGED worker
    BY <2>2
  <2> QED
    BY <1>2, <2>1, <2>2 DEF Submit, HandlerStep, Enqueue, EnqueueBuffered, EnqueueRejected,
                            RejectJob
<1>3. CASE \E w \in Workers : Dequeue(w) \/ WorkerStop(w)
  BY <1>3 DEF Dequeue, WorkerStop, WorkerFields
<1>4. CASE \E w \in Workers : \/ ReportWhisperFailure(w) \/ ReportExtractionFailure(w)
                              \/ FinishJob(w)
  BY <1>4 DEF ReportWhisperFailure, ReportExtractionFailure, FinishJob, Return, Idle,
              WorkerFields
<1>5. CASE Sweep \/ Signal \/ Close \/ Exit \/ Killed \/ Terminated
  BY <1>5 DEF Sweep, Signal, Close, Exit, Killed, Terminated, Advance, vars
<1> QED
  BY <1>2, <1>3, <1>4, <1>5 DEF Elsewhere

LEMMA ElsewhereInv ==
    ASSUME CallInv, IInv', Elsewhere
    PROVE  CallInv'
<1>1. UNCHANGED call
  BY DEF Elsewhere
<1> QED
  BY <1>1, ElsewherePlaces, OutOfCalls DEF CallInv

(* A second off the timer of a call and off the budget of its job.         *)
LEMMA SecondPasses ==
    ASSUME NEW p \in WorkerFields, NEW q \in WorkerFields, NEW c \in CallRecords, Fits(p, c),
           q.at = p.at, q.left \in {p.left, p.left - 1},
           c.left > 0, c.op \in Locks \/ p.left > 0
    PROVE  Fits(q, [c EXCEPT !.left = @ - 1])
<1> USE CallsAssumption, TimeAssumption, OverrunAssumption
<1> DEFINE d == [c EXCEPT !.left = @ - 1]
<1>1. /\ d.op = c.op /\ d.attempt = c.attempt /\ d.left = c.left - 1
      /\ c.op \in Ops /\ c.attempt \in 1 .. Attempts /\ c.left \in Nat
      /\ MaxWait(c.op, c.attempt) \in Nat
  BY CallFacts DEF CallRecords
<1>2. p.left \in Int /\ q.left \in Int
  BY DEF WorkerFields
<1> HIDE DEF d
<1>3. InPlace(q, d) /\ Counted(d)
  BY <1>1 DEF Fits, InPlace, Counted
<1>4. d.left <= MaxWait(d.op, d.attempt)
  BY <1>1 DEF Fits
<1>5. Owed(c.op) \in Nat /\ (c.op \in Ops \ Locks => Owed(c.op) <= LockOverrun)
  BY <1>1 DEF Owed, Locks
<1>6. OnTime(q, d)
  <2>1. CASE c.op \in Locks
    <3>1. c.op \in ExportOps /\ c.op # "exportBackoff" /\ c.op \notin {"whisper"} \cup LLMOps
      BY <2>1 DEF ExportOps, Locks, LLMOps
    <3>2. Remains(d) = Remains(c) - 1 /\ Remains(c) \in Nat
      BY <1>1, <2>1 DEF Remains
    <3> QED
      BY <1>1, <1>2, <1>5, <3>1, <3>2 DEF Fits, OnTime
  <2>2. CASE c.op \notin Locks
    <3>1. q.left >= 0 /\ Remains(d) = 0
      BY <1>1, <1>2, <2>2 DEF Remains
    <3> QED
      BY <1>1, <1>2, <1>5, <2>2, <3>1 DEF OnTime
  <2> QED
    BY <2>1, <2>2
<1> QED
  BY <1>3, <1>4, <1>6 DEF Fits, d

LEMMA CallsTickInv ==
    ASSUME CallInv, IInv', CallsTick
    PROVE  CallInv'
<1>1. /\ worker \in [Workers -> WorkerFields] /\ worker' \in [Workers -> WorkerFields]
      /\ call \in [Workers -> CallRecords]
  BY DEF CallInv, IInv, TypeOK
<1>2. \A w \in Workers : call'[w] = IF call[w].left > 0 THEN [call[w] EXCEPT !.left = @ - 1]
                                                        ELSE call[w]
  BY DEF CallsTick
<1>3. call' \in [Workers -> CallRecords]
  BY <1>1 DEF CallsTick, CallRecords
<1>4. ASSUME NEW w \in Workers
      PROVE  Fits(worker'[w], call'[w])
  <2>1. worker'[w] = IF Busy(w) THEN [worker[w] EXCEPT !.left = @ - 1] ELSE worker[w]
    BY DEF CallsTick, Elapse
  <2>2. worker'[w].at = worker[w].at /\ worker'[w].left \in {worker[w].left, worker[w].left - 1}
    BY <1>1, <2>1 DEF WorkerFields
  <2>3. Fits(worker[w], call[w]) /\ StillWaits(w)
    BY DEF CallInv, CallsTick
  <2>4. CASE worker[w].at \in {"idle", "exited"}
    <3>1. call[w].op = "none"
      BY <1>1, <2>3, <2>4
      DEF Fits, InPlace, CallRecords, Ops, LLMOps, ExportOps, Locks, Requests, Backoffs
    <3>2. call[w].left <= 0 /\ call[w].left \in Nat
      BY <1>1, <2>3, <3>1, WaitFacts DEF Fits, CallRecords
    <3>3. ~(call[w].left > 0)
      BY <3>2
    <3>4. call'[w] = call[w]
      BY <1>2, <3>3, Zenon
    <3> QED
      BY <2>2, <2>3, <2>4, <3>4, OutOfCalls DEF NoCallPlaces
  <2>5. CASE call[w].left > 0 /\ (call[w].op \in Locks \/ ~ContextDone(w))
    <3>1. call[w].op \in Locks \/ worker[w].left > 0
      BY <1>1, <2>5 DEF ContextDone, WorkerFields
    <3>2. call'[w] = [call[w] EXCEPT !.left = @ - 1]
      BY <1>2, <2>5
    <3> QED
      BY <1>1, <2>2, <2>3, <2>5, <3>1, <3>2, SecondPasses
  <2> QED
    BY <2>3, <2>4, <2>5 DEF StillWaits
<1> QED
  BY <1>3, <1>4 DEF CallInv
-----------------------------------------------------------------------------
LEMMA CallsInitInv == CallsInit => CallInv
<1> SUFFICES ASSUME CallsInit
             PROVE  CallInv
  OBVIOUS
<1>1. IInv /\ 1 \in 1 .. Attempts /\ "none" \in Ops
  BY InitInv, AttemptsType DEF CallsInit, Ops
<1>2. /\ call \in [Workers -> CallRecords]
      /\ \A w \in Workers : call[w] = Call("none", 1)
  BY <1>1, CallFacts DEF CallsInit, NoCall
<1>3. ASSUME NEW w \in Workers
      PROVE  Fits(worker[w], Call("none", 1))
  <2>1. worker[w].at = "idle"
    BY DEF CallsInit, Init, Idle
  <2> DEFINE c == Call("none", 1)
  <2>2. c.op = "none" /\ c.attempt = 1 /\ c.left = MaxWait("none", 1) /\ c.left \in Nat
    BY <1>1, CallFacts
  <2>3. c.op \notin ExportOps \cup LLMOps \cup {"whisper", "exportBackoff"}
    BY <2>2 DEF ExportOps, LLMOps, Locks, Requests
  <2> HIDE DEF c
  <2>4. Fits(worker[w], c)
    BY <2>1, <2>2, <2>3 DEF Fits, InPlace, Counted, OnTime, LLMOps
  <2> QED
    BY <2>4 DEF c
<1> QED
  BY <1>1, <1>2, <1>3 DEF CallInv

(* Every step of the calls preserves the inductive invariant.              *)
LEMMA CallsNextInv == CallInv /\ [CallsNext]_callVars => CallInv'
<1> SUFFICES ASSUME CallInv, [CallsNext]_callVars
             PROVE  CallInv'
  OBVIOUS
<1>1. IInv'
  BY StepsOfQueue, NextInv DEF CallInv
<1>2. CASE \E w \in Workers : Transcribing(w) \/ Transcribed(w) \/ NotTranscribed(w)
  BY <1>1, <1>2, TranscribeInv
<1>3. CASE \E w \in Workers : LLMStep(w)
  BY <1>1, <1>3, LLMInv
<1>4. CASE \E w \in Workers : ExportStep(w)
  BY <1>1, <1>4, ExportInv
<1>5. CASE Elsewhere
  BY <1>1, <1>5, ElsewhereInv
<1>6. CASE CallsTick
  BY <1>1, <1>6, CallsTickInv
<1>7. CASE UNCHANGED callVars
  <2>1. call' = call /\ worker' = worker
    BY <1>7 DEF callVars, vars
  <2> QED
    BY <1>1, <2>1 DEF CallInv
<1> QED
  BY <1>2, <1>3, <1>4, <1>5, <1>6, <1>7 DEF CallsNext

(* Every call fits the place of its worker and what is left of its job's   *)
(* budget (Transcribe, ExtractWithRetry, AppendRowWithRetry).              *)
THEOREM CallsInvariance == CallsSpec => []CallInv
<1>1. CallsInit => CallInv
  BY CallsInitInv
<1>2. CallInv /\ [CallsNext]_callVars => CallInv'
  BY CallsNextInv
<1> QED
  BY <1>1, <1>2, PTL DEF CallsSpec

(* No request outlives its timer, and neither service is tried more often  *)
(* than configured (NewClient, ExtractWithRetry, AppendRowWithRetry).      *)
THEOREM CallsTypes == CallsSpec => []CallsTypeOK
<1>1. CallInv => CallsTypeOK
  BY DEF CallInv, CallsTypeOK, IInv, CallRecords, Fits
<1> QED
  BY <1>1, CallsInvariance, PTL

(* Whatever the timeouts, retries and waits for a mutex, the workers do    *)
(* what JobQueue says of them: LockOverrun is all that they can add to the *)
(* budget of a job.                                                        *)
THEOREM CallsImplementQueue == CallsSpec => ImplementsQueue
<1>1. CallsInit => Init
  BY DEF CallsInit
<1>2. CallInv /\ [CallsNext]_callVars => [Next]_vars
  BY StepsOfQueue
<1> QED
  BY <1>1, <1>2, CallsInvariance, PTL DEF CallsSpec, ImplementsQueue, Spec

-----------------------------------------------------------------------------
(* Only Transcribe and ExtractWithRetry touch a worker that extracts, and  *)
(* the clock.                                                              *)
LEMMA ExtractionSteps ==
    ASSUME CallInv, [CallsNext]_callVars, NEW w \in Workers
    PROVE  \/ worker'[w] = worker[w] /\ call'[w] = call[w]
           \/ worker[w].at # "llm" /\ worker'[w].at # "llm"
           \/ Transcribed(w) \/ LLMStep(w) \/ CallsTick
<1>1. /\ IInv' /\ CallInv' /\ 1 \in 1 .. Attempts
      /\ worker \in [Workers -> WorkerFields] /\ worker' \in [Workers -> WorkerFields]
      /\ call \in [Workers -> CallRecords]
  BY CallsNextInv, AttemptsType DEF CallInv, IInv, TypeOK
<1>2. ASSUME NEW v \in Workers, v # w,
             Transcribing(v) \/ Transcribed(v) \/ NotTranscribed(v) \/ LLMStep(v) \/ ExportStep(v)
      PROVE  worker'[w] = worker[w] /\ call'[w] = call[w]
  <2>1. \/ UNCHANGED vars
        \/ StartJob(v) \/ TranscribeOK(v) \/ TranscribeFails(v) \/ ExtractOK(v) \/ ExtractFails(v)
        \/ MarkDone(v)
    BY <1>2 DEF Transcribing, Transcribed, NotTranscribed, LLMStep, Extracted, AttemptFails,
                LastAttemptFails, TriesAgain, ExtractionCancelled, ExportStep, ExportLocked,
                ExportAnswered, ExportFails, ExportTriesAgain, ExportCancelled, ExportEnds,
                ExportMoves
  <2>2. worker'[w] = worker[w]
    BY <1>1, <1>2, <2>1 DEF vars, StartJob, TranscribeOK, TranscribeFails, ExtractOK,
                            ExtractFails, MarkDone, Go
  <2>3. \E op, k : Begins(v, op, k)
    BY <1>2 DEF Transcribing, Transcribed, NotTranscribed, LLMStep, Extracted, AttemptFails,
                LastAttemptFails, TriesAgain, ExtractionCancelled, ExportStep, ExportLocked,
                ExportAnswered, ExportFails, ExportTriesAgain, ExportCancelled, ExportEnds,
                ExportMoves
  <2>4. call'[w] = call[w]
    BY <1>1, <1>2, <2>3 DEF Begins
  <2> QED
    BY <2>2, <2>4
<1>3. CASE Transcribing(w)
  BY <1>1, <1>3 DEF Transcribing, StartJob, WorkerFields
<1>4. CASE NotTranscribed(w)
  BY <1>1, <1>4 DEF NotTranscribed, TranscribeFails, Go, WorkerFields
<1>5. CASE ExportStep(w)
  <2>1. CASE ExportEnds(w)
    BY <1>1, <2>1 DEF ExportEnds, MarkDone, Go, WorkerFields
  <2>2. CASE UNCHANGED vars
    <3>1. call[w].op \in ExportOps
      BY <1>5, <2>2
      DEF ExportStep, ExportLocked, ExportAnswered, ExportFails, ExportTriesAgain,
          ExportCancelled, OnAnswer, OnFailure, ExportOps, Locks, Requests
    <3>2. worker[w].at = "export" /\ worker'[w] = worker[w]
      BY <2>2, <3>1 DEF CallInv, Fits, InPlace, vars
    <3> QED
      BY <3>2
  <2> QED
    BY <1>5, <2>1, <2>2 DEF ExportStep, ExportLocked, ExportAnswered, ExportFails,
                            ExportTriesAgain, ExportCancelled, ExportMoves
<1>6. CASE Elsewhere
  <2>1. call' = call
    BY <1>6 DEF Elsewhere
  <2> QED
    BY <1>1, <1>6, <2>1, ElsewherePlaces DEF NoCallPlaces, Instants
<1>7. CASE UNCHANGED callVars
  BY <1>7 DEF callVars, vars
<1> QED
  BY <1>2, <1>3, <1>4, <1>5, <1>6, <1>7 DEF CallsNext

(* Transcribe begins the first attempt; a failure is followed by a pause   *)
(* that lasts twice the previous one; an attempt follows when it is over.  *)
LEMMA PausesNext == CallInv /\ PausesWaited /\ [CallsNext]_callVars => PausesWaited'
<1> SUFFICES ASSUME CallInv, PausesWaited, [CallsNext]_callVars, NEW w \in Workers
             PROVE  Waited(worker'[w], call'[w])
  BY DEF PausesWaited
<1> DEFINE k == call[w].attempt
           L == worker[w].left
<1>1. /\ worker \in [Workers -> WorkerFields] /\ worker' \in [Workers -> WorkerFields]
      /\ call[w] \in CallRecords /\ Fits(worker[w], call[w]) /\ Waited(worker[w], call[w])
      /\ Fits(worker'[w], call'[w])
  BY CallsNextInv DEF CallInv, IInv, TypeOK, PausesWaited
<1>2. /\ worker[w] \in WorkerFields /\ worker'[w] \in WorkerFields
      /\ L \in Int /\ L <= WhisperTimeout /\ WhisperTimeout \in Int
      /\ k \in 1 .. Attempts /\ call[w].left \in Nat /\ 1 \in 1 .. Attempts
      /\ {"extract", "llmBackoff"} \subseteq Ops
  BY <1>1, TimeAssumption, AttemptsType
  DEF WorkerFields, CallRecords, Ops, Requests, Backoffs
<1>3. /\ Backoff(k) \in Nat /\ Backoff(1) = 1 /\ Backoff(k + 1) = 2 * Backoff(k)
  BY <1>2, AttemptsType, BackoffPositive, BackoffDoubles
<1>4. CASE worker'[w] = worker[w] /\ call'[w] = call[w]
  BY <1>1, <1>4
<1>5. CASE worker'[w].at # "llm"
  BY <1>1, <1>5 DEF Waited, Fits, InPlace, LLMOps
<1>6. CASE Transcribed(w)
  <2>1. worker'[w].left = L
    BY <1>1, <1>6 DEF Transcribed, TranscribeOK, Go, WorkerFields
  <2>2. call'[w].op = "extract" /\ call'[w].attempt = 1
    BY <1>2, <1>6, BeginsFacts, CallFacts DEF Transcribed
  <2> QED
    BY <1>2, <1>3, <2>1, <2>2 DEF Waited
<1>7. CASE Extracted(w) \/ LastAttemptFails(w) \/ ExtractionCancelled(w)
  <2>1. worker'[w].at # "llm"
    BY <1>1, <1>7 DEF Extracted, LastAttemptFails, ExtractionCancelled, ExtractOK, ExtractFails,
                      Go, WorkerFields
  <2> QED
    BY <1>5, <2>1
<1>8. CASE AttemptFails(w)
  <2>1. worker'[w].left = L /\ call[w].op = "extract"
    BY <1>8 DEF AttemptFails, vars
  <2>2. /\ call'[w].op = "llmBackoff" /\ call'[w].attempt = k
        /\ call'[w].left = MaxWait("llmBackoff", k)
    BY <1>2, <1>8, BeginsFacts, CallFacts DEF AttemptFails
  <2>3. MaxWait("llmBackoff", k) = Backoff(k)
    BY DEF MaxWait, Backoffs
  <2> QED
    BY <1>1, <1>2, <1>3, <2>1, <2>2, <2>3 DEF Waited
<1>9. CASE TriesAgain(w)
  <2>1. worker'[w].left = L /\ call[w].op = "llmBackoff" /\ call[w].left = 0
    BY <1>9 DEF TriesAgain, TimerFired, vars
  <2>2. k <= LLMRetries /\ k + 1 \in 1 .. Attempts
    BY <1>1, <1>2, <2>1, AttemptsType, CallsAssumption DEF Fits, Counted
  <2>3. call'[w].op = "extract" /\ call'[w].attempt = k + 1
    BY <1>2, <1>9, <2>2, BeginsFacts, CallFacts DEF TriesAgain
  <2> QED
    BY <1>1, <1>2, <1>3, <2>1, <2>3 DEF Waited
<1>10. CASE CallsTick /\ worker'[w].at = "llm"
  <2>1. worker'[w] = IF Busy(w) THEN [worker[w] EXCEPT !.left = @ - 1] ELSE worker[w]
    BY <1>10 DEF CallsTick, Elapse
  <2>2. worker[w].at = "llm"
    BY <1>1, <1>10, <2>1 DEF WorkerFields
  <2>3. Busy(w)
    BY <2>2 DEF CallInv, IInv, WorkerPlaces, Instants, Waits, Busy
  <2>4. worker'[w].left = L - 1
    BY <1>1, <2>1, <2>3 DEF WorkerFields
  <2>5. call[w].left > 0
    BY <1>10, <2>2 DEF CallsTick, StillWaits
  <2>6. call'[w] = [call[w] EXCEPT !.left = @ - 1]
    BY <1>10, <2>5 DEF CallsTick
  <2>7. /\ call'[w].op = call[w].op /\ call'[w].attempt = k
        /\ call'[w].left = call[w].left - 1
    BY <1>1, <2>6 DEF CallRecords
  <2> QED
    BY <1>1, <1>2, <1>3, <2>4, <2>7 DEF Waited
<1> QED
  BY <1>4, <1>5, <1>6, <1>7, <1>8, <1>9, <1>10, ExtractionSteps DEF LLMStep

(* The LLM is given up only when the context of the job has ended or when  *)
(* all its pauses, 2^LLMRetries - 1 seconds of them, have passed           *)
(* (ExtractWithRetry), whatever the timeouts and however many retries.     *)
THEOREM LLMGetsItsPauses == CallsSpec => GivesUpLate
<1>1. CallsInit => PausesWaited
  <2>1. CallsInit => \A w \in Workers : call[w].op = "none"
    BY DEF CallsInit, NoCall, Call
  <2> QED
    BY <2>1 DEF PausesWaited, Waited
<1>2. CallInv /\ PausesWaited /\ [CallsNext]_callVars =>
        [\A w \in Workers :
           ExtractFails(w) =>
               \/ ContextDone(w)
               \/ WhisperTimeout - worker[w].left >= 2 ^ LLMRetries - 1]_callVars
  <2> SUFFICES ASSUME CallInv, PausesWaited, [CallsNext]_callVars,
                      NEW w \in Workers, ExtractFails(w), ~ContextDone(w)
               PROVE  WhisperTimeout - worker[w].left >= 2 ^ LLMRetries - 1
    OBVIOUS
  <2>1. worker \in [Workers -> WorkerFields] /\ call[w] \in CallRecords
    BY DEF CallInv, IInv, TypeOK
  <2>2. worker[w].at = "llm" /\ worker'[w].at = "llmFailed"
    BY <2>1 DEF ExtractFails, Go, WorkerFields
  <2>3. ~Transcribed(w) /\ ~Extracted(w) /\ ~AttemptFails(w) /\ ~TriesAgain(w)
    BY <2>1, <2>2
    DEF Transcribed, TranscribeOK, Extracted, ExtractOK, AttemptFails, TriesAgain, Go,
        WorkerFields, vars
  <2>4. ~CallsTick
    <3>1. CallsTick => worker'[w].at = worker[w].at
      BY <2>1 DEF CallsTick, Elapse, WorkerFields
    <3> QED
      BY <2>2, <3>1
  <2>5. LastAttemptFails(w)
    BY <2>2, <2>3, <2>4, ExtractionSteps DEF LLMStep, ExtractionCancelled
  <2>6. call[w].op = "extract" /\ call[w].attempt = LLMRetries + 1
    BY <2>5 DEF LastAttemptFails, LastExtract
  <2>7. WhisperTimeout - worker[w].left >= Backoff(LLMRetries + 1) - 1
    BY <2>6 DEF PausesWaited, Waited
  <2>8. (LLMRetries + 1) - 1 = LLMRetries
    BY CallsAssumption
  <2> QED
    BY <2>7, <2>8 DEF Backoff
<1> QED
  BY <1>1, <1>2, PausesNext, CallsInvariance, PTL DEF CallsSpec, GivesUpLate
-----------------------------------------------------------------------------
(* A job in the hands of a worker is still in the store, however long its  *)
(* calls take, if the TTL covers the timeout and the waits.                *)
THEOREM CallsRetain == CallsSpec => []RetainedWhileOwned
<1>1. ImplementsQueue => []RetainedWhileOwned
  BY Retention DEF ImplementsQueue
<1> QED
  BY <1>1, CallsImplementQueue, PTL

(* What JobQueue promises, its workers keep with their calls spelt out:    *)
(* every job has one owner, its record is complete once it has settled,    *)
(* the audio in memory is bounded and a clean shutdown loses only jobs     *)
(* that nobody had started (Enqueue, processJob, main).                    *)
THEOREM CallsKeepPromises ==
    CallsSpec => [](OneOwner /\ SettledOutcome /\ AcceptedAudioBounded /\ CleanDrain)
<1>1. ImplementsQueue =>
        []OneOwner /\ []SettledOutcome /\ []AcceptedAudioBounded /\ []CleanDrain
  BY Ownership, Outcomes, AudioBounded, CleanShutdown DEF ImplementsQueue
<1> QED
  BY <1>1, CallsImplementQueue, PTL

(* And the life of a job is that of JobLifecycle, however whisper, the LLM *)
(* and the sheet behave, if the TTL covers the timeout and the waits.      *)
THEOREM CallsKeepLifecycle ==
    ASSUME TTLCovers
    PROVE  CallsSpec => ImplementsLifecycle
<1>1. ImplementsQueue => ImplementsLifecycle
  BY Implementation DEF ImplementsQueue
<1> QED
  BY <1>1, CallsImplementQueue, PTL
=============================================================================
