----------------------------- MODULE UploadPath -----------------------------
(***************************************************************************)
(* An upload on its way to a job: reading and validating the request       *)
(* (internal/audio/validator.go), the conversion by ffmpeg (converter.go), *)
(* the check of the tab it names (SubmitJobHandler, tabInfos) and the      *)
(* answer, against the deadlines of the server (main).  The deadline for   *)
(* the answer does not stop the handler: it only loses what is written     *)
(* after it.  What becomes of the job is JobQueue's part.                  *)
(***************************************************************************)
EXTENDS Integers, Sequences, Functions

CONSTANTS
    Uploads,         \* requests to POST /jobs
    Others,          \* other users of the tab list: GET /sheets, the workers
    Files,           \* recordings, each the set of the signatures it shows
    Allowed,         \* ALLOWED_FORMATS
    KnownTabs,       \* the tabs of the spreadsheet
    Tabs,            \* what the sheet field may say
    NoTab,           \* the field is empty
    ReadTimeout,     \* READ_TIMEOUT_SEC
    WriteTimeout,    \* WRITE_TIMEOUT_SEC
    ConvertTimeout,  \* CONVERT_TIMEOUT_SEC
    FetchTime        \* the longest that tabsMu is held: a token and a list

ASSUME CallersAssumption == Uploads \cap Others = {}
ASSUME TabsAssumption == KnownTabs \subseteq Tabs /\ NoTab \notin Tabs
ASSUME TimeAssumption ==   \* with a timeout of zero the server sets no deadline
    /\ ReadTimeout \in Nat \ {0}
    /\ WriteTimeout \in Nat \ {0}
    /\ ConvertTimeout \in Nat
    /\ FetchTime \in Nat

VARIABLES
    upload,   \* each request
    line,     \* who holds tabsMu (its head) and who waits for it, in order:
              \* sync.Mutex hands over to the first once it has waited 1 ms
    held,     \* what is left of the time that the holder may take
    cached,   \* the tab list is in the cache and not too old
    enabled,  \* main made a Sheets client
    running

vars == <<upload, line, held, cached, enabled, running>>
-----------------------------------------------------------------------------
(* The signature of each format; WAVE stands for RIFF with WAVE after it.  *)
SupportedFormats ==
    [wav |-> "WAVE", mp3 |-> "FFFB", ogg |-> "OggS", opus |-> "OggS",
     m4a |-> "ftyp", flac |-> "fLaC"]

(* DetectFormat returns whichever of these the map yields first.           *)
DetectFormat(file) ==
    {name \in DOMAIN SupportedFormats : SupportedFormats[name] \in file}

IsFormatAllowed(name) == name \in Allowed

(* What can be wrong with a request before its audio is looked at, and the *)
(* status that it is answered.                                             *)
Flaws == [notMultipart |-> 400, bodyTooLarge |-> 413, badForm |-> 400,
          noFile |-> 400, badName |-> 400, fileTooLarge |-> 413]

Codes == {202, 400, 413, 415, 422, 500, 503, 504}

Places == {"idle", "reading", "converting", "tabs", "enqueue", "done"}

(* left: the time that the stage may still take; age: since the header;    *)
(* heard: the client has the answer.  turns is an observer: how many hold  *)
(* tabsMu until the upload is through with it, itself included.            *)
UploadFields ==
    [at : Places, file : Files \cup {{}}, tab : Tabs \cup {NoTab},
     left : 0 .. ReadTimeout + ConvertTimeout, age : Nat, turns : Nat,
     connected : BOOLEAN, code : Codes \cup {0}, heard : BOOLEAN]

TypeOK ==
    /\ upload \in [Uploads -> UploadFields]
    /\ line \in Seq(Uploads \cup Others)
    /\ held \in 0 .. FetchTime
    /\ cached \in BOOLEAN
    /\ enabled \in BOOLEAN
    /\ running \in BOOLEAN

Request(place, f, t) ==
    [at |-> place, file |-> f, tab |-> t, left |-> ReadTimeout, age |-> 0,
     turns |-> 0, connected |-> TRUE, code |-> 0, heard |-> FALSE]

Init ==
    /\ upload = [u \in Uploads |-> Request("idle", {}, NoTab)]
    /\ line = <<>>
    /\ held = 0
    /\ cached = FALSE
    /\ enabled \in BOOLEAN
    /\ running = TRUE
-----------------------------------------------------------------------------
At(u, place) == running /\ upload[u].at = place

Holds(c) == line # <<>> /\ Head(line) = c

(* A plausible bug: a failed fetch is tried once more under the lock.      *)
JoinRetrying(c) ==
    /\ line' = Append(line, c)
    /\ held' = IF line = <<>> THEN 2 * FetchTime ELSE held

Join(c) ==
    /\ line' = Append(line, c)
    /\ held' = IF line = <<>> THEN FetchTime ELSE held

Leave ==
    /\ line' = Tail(line)
    /\ held' = FetchTime

Settings == <<enabled, running>>

NotListing == UNCHANGED <<line, held, cached, Settings>>

Go(u, from, to) ==
    /\ At(u, from)
    /\ upload' = [upload EXCEPT ![u].at = to, ![u].left = 0]

(* Whatever is written after the deadline, or to nobody, is lost.  The     *)
(* timers of an answered request are cleared: nothing reads them again.    *)
Answer(u, from, code) ==
    /\ At(u, from)
    /\ upload' = [upload EXCEPT
         ![u].at = "done", ![u].code = code,
         ![u].heard = upload[u].connected /\ upload[u].age < WriteTimeout,
         ![u].left = 0, ![u].age = 0, ![u].turns = 0, ![u].tab = NoTab]
-----------------------------------------------------------------------------
(* The header has been read: both deadlines of the connection are set.     *)
Arrive(u) ==
    /\ At(u, "idle")
    /\ \E f \in Files, t \in Tabs \cup {NoTab} :
          upload' = [upload EXCEPT ![u] = Request("reading", f, t)]
    /\ NotListing

(* The client closes the connection, which ends the request's context.     *)
Disconnect(u) ==
    /\ running
    /\ upload[u].at \notin {"idle", "done"}
    /\ upload[u].connected
    /\ upload' = [upload EXCEPT ![u].connected = FALSE]
    /\ NotListing

(* ValidateAndParseFile: the body does not arrive, the request is refused  *)
(* for a flaw, or its format is or is not one that is allowed.             *)
ReadFails(u) ==
    /\ Answer(u, "reading", 400)
    /\ upload[u].left = 0 \/ ~upload[u].connected
    /\ NotListing

RefuseFlawed(u) ==
    /\ \E flaw \in DOMAIN Flaws : Answer(u, "reading", Flaws[flaw])
    /\ NotListing

RefuseFormat(u) ==
    /\ Answer(u, "reading", 415)
    /\ \/ DetectFormat(upload[u].file) = {}
       \/ \E name \in DetectFormat(upload[u].file) : ~IsFormatAllowed(name)
    /\ NotListing

TakeFormat(u) ==
    /\ At(u, "reading")
    /\ \E name \in DetectFormat(upload[u].file) : IsFormatAllowed(name)
    /\ upload' = [upload EXCEPT ![u].at = "converting", ![u].left = ConvertTimeout]
    /\ NotListing

AskForTab(u) ==
    /\ At(u, "converting")
    /\ upload' = [upload EXCEPT ![u].at = "tabs", ![u].left = 0,
                                ![u].turns = Len(line) + 1]

(* Convert runs ffmpeg under a deadline of its own: a client that has gone *)
(* does not stop it.                                                       *)
ConvertOK(u) ==
    /\ upload[u].left > 0
    /\ \/ upload[u].tab = NoTab /\ Go(u, "converting", "enqueue") /\ UNCHANGED <<line, held>>
       \/ upload[u].tab # NoTab /\ enabled /\ AskForTab(u) /\ Join(u)
    /\ UNCHANGED <<cached, Settings>>

RefuseTab(u) ==
    /\ upload[u].left > 0 /\ upload[u].tab # NoTab /\ ~enabled
    /\ Answer(u, "converting", 400)
    /\ NotListing

(* 500: no temporary file; 422: ffmpeg fails or yields nothing.            *)
ConvertFails(u) ==
    /\ \E code \in {422, 500} : Answer(u, "converting", code)
    /\ NotListing

(* A plausible bug: a conversion that timed out is tried again.            *)
ConvertTriedAgain(u) ==
    /\ upload[u].left = 0
    /\ At(u, "converting") /\ upload' = [upload EXCEPT ![u].left = ConvertTimeout]
    /\ NotListing

ConvertTimesOut(u) ==
    /\ upload[u].left = 0
    /\ Answer(u, "converting", 504)
    /\ NotListing
-----------------------------------------------------------------------------
(* TabExists, by whoever holds tabsMu: a list in the cache is used, else   *)
(* one is fetched; if that fails the tab is not checked at all.            *)
JudgeTab(u) ==
    IF upload[u].tab \in KnownTabs THEN Go(u, "tabs", "enqueue") ELSE Answer(u, "tabs", 400)

TabsHit(u) ==
    /\ Holds(u) /\ cached
    /\ JudgeTab(u)
    /\ Leave
    /\ UNCHANGED <<cached, Settings>>

TabsFetched(u) ==
    /\ Holds(u) /\ ~cached /\ held > 0 /\ upload[u].connected
    /\ JudgeTab(u)
    /\ Leave
    /\ cached' = TRUE
    /\ UNCHANGED Settings

(* A plausible bug: the error path returns without the unlock.             *)
TabsUncheckedLocked(u) ==
    /\ Holds(u) /\ ~cached
    /\ Go(u, "tabs", "enqueue")
    /\ UNCHANGED <<line, held, cached, Settings>>

TabsUnchecked(u) ==
    /\ Holds(u) /\ ~cached
    /\ Go(u, "tabs", "enqueue")
    /\ Leave
    /\ UNCHANGED <<cached, Settings>>

Judged(u) == TabsHit(u) \/ TabsFetched(u) \/ TabsUnchecked(u)

(* The other users of the list, and its age.                               *)
OtherAsks(c) ==
    /\ running /\ enabled
    /\ c \notin Range(line)
    /\ Join(c)
    /\ UNCHANGED <<upload, cached, Settings>>

OtherServed(c) ==
    /\ running
    /\ Holds(c)
    /\ Leave
    /\ cached' \in {cached, TRUE}
    /\ UNCHANGED <<upload, Settings>>

TabsExpire ==
    /\ running /\ cached
    /\ cached' = FALSE
    /\ UNCHANGED <<upload, line, held, Settings>>

(* Save and Enqueue; the queue may be full.                                *)
Accept(u) == Answer(u, "enqueue", 202) /\ NotListing

QueueFull(u) == Answer(u, "enqueue", 503) /\ NotListing
-----------------------------------------------------------------------------
(* No stage outlasts its deadline, and what waits for nothing takes no     *)
(* time.                                                                   *)
MayWait(u) ==
    \/ upload[u].at \in {"idle", "tabs", "done"}
    \/ upload[u].at = "reading" /\ upload[u].left > 0 /\ upload[u].connected
    \/ upload[u].at = "converting" /\ upload[u].left > 0

Less(n) == IF n > 0 THEN n - 1 ELSE 0

Elapsed(u) ==
    IF upload[u].at \in {"idle", "done"} THEN upload[u]
    ELSE [upload[u] EXCEPT !.left = Less(@), !.age = @ + 1]

Tick ==
    /\ running
    /\ \A u \in Uploads : MayWait(u)
    /\ line # <<>> => held > 0
    /\ upload' = [u \in Uploads |-> Elapsed(u)]
    /\ held' = IF line = <<>> THEN held ELSE held - 1
    /\ UNCHANGED <<line, cached, Settings>>

(* The process ends: main returns as soon as Shutdown has been called, and *)
(* does not wait for the requests in flight.                               *)
Exit ==
    /\ running
    /\ running' = FALSE
    /\ UNCHANGED <<upload, line, held, cached, enabled>>

Terminated == ~running /\ UNCHANGED vars

Next ==
    \/ \E u \in Uploads :
         \/ Arrive(u) \/ Disconnect(u)
         \/ ReadFails(u) \/ RefuseFlawed(u) \/ RefuseFormat(u) \/ TakeFormat(u)
         \/ ConvertOK(u) \/ RefuseTab(u) \/ ConvertFails(u) \/ ConvertTimesOut(u)
         \/ Judged(u)
         \/ Accept(u) \/ QueueFull(u)
    \/ \E c \in Others : OtherAsks(c) \/ OtherServed(c)
    \/ TabsExpire
    \/ Tick
    \/ Exit
    \/ Terminated

Spec == Init /\ [][Next]_vars

(* The deadlines, the clock and the mutex are what a handler can count on: *)
(* not that the body arrives, that ffmpeg ends or that Google answers.     *)
Forced(u) ==
    \/ ReadFails(u) \/ ConvertTimesOut(u)
    \/ TabsHit(u) \/ (held = 0 /\ TabsUnchecked(u))
    \/ Accept(u) \/ QueueFull(u)

Fairness ==
    /\ WF_vars(Tick)
    /\ \A u \in Uploads : WF_vars(Forced(u))
    /\ \A c \in Others : WF_vars(held = 0 /\ OtherServed(c))

FairSpec == Spec /\ Fairness
-----------------------------------------------------------------------------
(* Whatever the services do, a handler that has not answered has spent no  *)
(* more than the deadlines of its stages and a fetch for every caller that *)
(* was before it at tabsMu, and for itself: no error path and no caller    *)
(* that comes later makes it wait longer (SubmitJobHandler, Convert,       *)
(* tabInfos).                                                              *)
AnsweredInTime ==
    \A u \in Uploads : upload[u].at \notin {"idle", "done"} =>
        upload[u].age <= ReadTimeout + ConvertTimeout + upload[u].turns * FetchTime

(* The test plan expects of an upload a 202 with a job_id to go on with:   *)
(* a client that stays hears of the job that runs for it.                  *)
AcceptedHeard ==
    \A u \in Uploads : upload[u].code = 202 /\ upload[u].connected => upload[u].heard

(* Every upload comes to an end, whether or not its body arrives, ffmpeg   *)
(* ends or Google answers, and however many others want the tab list.      *)
UploadsEnd ==
    \A u \in Uploads : upload[u].at # "idle" ~> upload[u].at = "done" \/ ~running
=============================================================================
