---------------------------- MODULE SheetExport ----------------------------
(***************************************************************************)
(* Exporting extracted rows to one tab (internal/sheets): the workers run  *)
(* AppendRowWithRetry, which looks for an equal row, appends if there is   *)
(* none, and tries again after any failure.  Google's side is the sheet    *)
(* itself and the appends it has not applied yet: a call that fails at the *)
(* gateway may still take effect, then or later.                           *)
(***************************************************************************)
EXTENDS Integers, Sequences, FiniteSets, Functions

CONSTANTS
    Workers,
    Rows,           \* row values, equal as cellEqual has it
    Full,           \* the rows whose last cell, Comments, is not empty: the
                    \* API leaves trailing empty cells out of what it returns
    LookupRows,     \* how many appended rows the range A1:D1000 takes in
    MaxRetries,     \* GOOGLE_SHEET_MAX_RETRIES
    MaxExports      \* bound on the number of exports

ASSUME WorkersAssumption == IsFiniteSet(Workers)
ASSUME RowsAssumption == Full \subseteq Rows
ASSUME CountAssumption ==
    /\ LookupRows \in Nat
    /\ MaxRetries \in Nat
    /\ MaxExports \in Nat

VARIABLES
    export,     \* each worker's call of AppendRowWithRetry
    sheet,      \* the rows of the tab, in the order they were appended
    inFlight,   \* per row, the appends Google may apply although the call
                \* that sent them has returned with an error
    abandoned,  \* per row, how many appends were ever given up that way
    begun       \* the number of exports begun

vars == <<export, sheet, inFlight, abandoned, begun>>

Places == {"idle", "lookup", "append", "appended", "failed"}
Outcomes == {"none", "ok", "error"}

(* expired: the context of the job has ended.                              *)
Exports == [at : Places, row : Rows, attempt : 1 .. MaxRetries + 1,
            expired : BOOLEAN, outcome : Outcomes]

TypeOK ==
    /\ export \in [Workers -> Exports]
    /\ sheet \in Seq(Rows)
    /\ inFlight \in [Rows -> Nat]
    /\ abandoned \in [Rows -> Nat]
    /\ begun \in Nat

Init ==
    /\ export \in [Workers -> {[at |-> "idle", row |-> r, attempt |-> 1,
                                expired |-> FALSE, outcome |-> "none"] : r \in Rows}]
    /\ sheet = <<>>
    /\ inFlight = [r \in Rows |-> 0]
    /\ abandoned = [r \in Rows |-> 0]
    /\ begun = 0
-----------------------------------------------------------------------------
(* RowMatches finds a row among the first rows of the tab, if the row it   *)
(* reads back is as long as the one it wants.                              *)
Found(r) ==
    /\ r \in Full
    /\ \E i \in DOMAIN sheet : i <= LookupRows /\ sheet[i] = r

LastAttempt(w) == export[w].attempt = MaxRetries + 1

Begin(w, r) ==
    /\ export[w].at = "idle"
    /\ begun < MaxExports
    /\ export' = [export EXCEPT ![w] = [at |-> "lookup", row |-> r, attempt |-> 1,
                                        expired |-> FALSE, outcome |-> "none"]]
    /\ begun' = begun + 1
    /\ UNCHANGED <<sheet, inFlight, abandoned>>

Go(w, from, to) ==
    /\ export[w].at = from
    /\ export' = [export EXCEPT ![w].at = to]
    /\ UNCHANGED begun

Return(w, from, outcome) ==
    /\ export[w].at = from
    /\ export' = [export EXCEPT ![w].at = "idle", ![w].outcome = outcome]
    /\ UNCHANGED begun

LookupMatch(w) ==
    /\ Return(w, "lookup", "ok")
    /\ ~export[w].expired
    /\ Found(export[w].row)
    /\ UNCHANGED <<sheet, inFlight, abandoned>>

LookupMiss(w) ==
    /\ Go(w, "lookup", "append")
    /\ ~export[w].expired
    /\ ~Found(export[w].row)
    /\ UNCHANGED <<sheet, inFlight, abandoned>>

LookupFails(w) ==
    /\ Go(w, "lookup", "failed")
    /\ UNCHANGED <<sheet, inFlight, abandoned>>

(* Google applies the append of a call that is still waiting for it.       *)
Apply(w) ==
    /\ Go(w, "append", "appended")
    /\ sheet' = Append(sheet, export[w].row)
    /\ UNCHANGED <<inFlight, abandoned>>

(* The formatting that follows is best effort and cannot fail the export.  *)
AppendOK(w) ==
    /\ Return(w, "appended", "ok")
    /\ ~export[w].expired
    /\ UNCHANGED <<sheet, inFlight, abandoned>>

(* The row is in the sheet, and the answer is lost or comes too late.      *)
AppendLost(w) ==
    /\ Go(w, "appended", "failed")
    /\ UNCHANGED <<sheet, inFlight, abandoned>>

AppendFails(w) ==
    /\ Go(w, "append", "failed")
    /\ UNCHANGED <<sheet, inFlight, abandoned>>

(* The call times out while Google still has the append before it.         *)
AppendAbandoned(w) ==
    /\ Go(w, "append", "failed")
    /\ inFlight' = [inFlight EXCEPT ![export[w].row] = @ + 1]
    /\ abandoned' = [abandoned EXCEPT ![export[w].row] = @ + 1]
    /\ UNCHANGED sheet

ApplyLate(r) ==
    /\ inFlight[r] > 0
    /\ inFlight' = [inFlight EXCEPT ![r] = @ - 1]
    /\ sheet' = Append(sheet, r)
    /\ UNCHANGED <<export, abandoned, begun>>

(* Plausible bugs in Retry: not looking again, not counting, one too many.  *)
RetryBlind(w) ==
    /\ Go(w, "failed", "append")
    /\ ~LastAttempt(w)
    /\ UNCHANGED <<sheet, inFlight, abandoned>>

RetryUncounted(w) ==
    /\ Go(w, "failed", "lookup")
    /\ UNCHANGED <<sheet, inFlight, abandoned>>

RetryOnceMore(w) ==
    /\ export[w].at = "failed"
    /\ export[w].attempt <= MaxRetries + 1
    /\ export' = [export EXCEPT ![w].at = "lookup", ![w].attempt = @ + 1]
    /\ UNCHANGED <<sheet, inFlight, abandoned, begun>>

(* When the wait and the context have both ended, select picks either.     *)
Retry(w) ==
    /\ export[w].at = "failed"
    /\ ~LastAttempt(w)
    /\ export' = [export EXCEPT ![w].at = "lookup", ![w].attempt = @ + 1]
    /\ UNCHANGED <<sheet, inFlight, abandoned, begun>>

(* A plausible bug: the best-effort export reports success at the end.     *)
GiveUpQuietly(w) ==
    /\ Return(w, "failed", "ok")
    /\ LastAttempt(w) \/ export[w].expired
    /\ UNCHANGED <<sheet, inFlight, abandoned>>

GiveUp(w) ==
    /\ Return(w, "failed", "error")
    /\ LastAttempt(w) \/ export[w].expired
    /\ UNCHANGED <<sheet, inFlight, abandoned>>

Expire(w) ==
    /\ export[w].at # "idle"
    /\ ~export[w].expired
    /\ export' = [export EXCEPT ![w].expired = TRUE]
    /\ UNCHANGED <<sheet, inFlight, abandoned, begun>>

Fails(w) == LookupFails(w) \/ AppendFails(w) \/ AppendLost(w) \/ AppendAbandoned(w)

(* No export is left to begin: the bound, not the code, stops here.        *)
Finished ==
    /\ begun = MaxExports
    /\ \A w \in Workers : export[w].at = "idle"
    /\ UNCHANGED vars

Next ==
    \/ \E w \in Workers :
         \/ \E r \in Rows : Begin(w, r)
         \/ LookupMatch(w) \/ LookupMiss(w)
         \/ Apply(w) \/ AppendOK(w)
         \/ Fails(w)
         \/ Retry(w) \/ GiveUp(w)
         \/ Expire(w)
    \/ \E r \in Rows : ApplyLate(r)
    \/ Finished

Spec == Init /\ [][Next]_vars

(* Google need never answer.  The context ends, a call returns when it has *)
(* ended, and so does the wait between two attempts.                       *)
Fairness ==
    \A w \in Workers :
        /\ WF_vars(Expire(w))
        /\ WF_vars(export[w].expired /\ Fails(w))
        /\ WF_vars(Retry(w) \/ GiveUp(w))

FairSpec == Spec /\ Fairness
-----------------------------------------------------------------------------
Copies(r) == Cardinality({i \in DOMAIN sheet : sheet[i] = r})

(* An export that reports success has its row in the sheet, whatever was   *)
(* lost on the way (AppendRowWithRetry).                                   *)
ReportedInSheet ==
    \A w \in Workers : export[w].outcome = "ok" => export[w].row \in Range(sheet)

(* A row that can be found is in the sheet at most once for each worker    *)
(* and each append that was given up while Google still had it: with the   *)
(* one worker of the default configuration, duplicates come only from late *)
(* appends, however often the row is submitted (RowMatches, AppendRow).    *)
CopiesBounded ==
    Len(sheet) <= LookupRows =>
        \A r \in Full : Copies(r) <= Cardinality(Workers) + abandoned[r]

(* No export adds more rows than it may make attempts, whatever answers    *)
(* were lost or came late and whether or not the lookup can see the row:   *)
(* also a row with an empty last cell, or beyond the range that is read,   *)
(* is repeated only as often (AppendRowWithRetry).                         *)
RowsPerExport == Len(sheet) <= begun * (MaxRetries + 1)

(* Every export returns, also when Google never answers, so that the       *)
(* worker that runs it is never stuck on the sheet.                        *)
ExportsReturn == \A w \in Workers : export[w].at # "idle" ~> export[w].at = "idle"

(* The README: re-submitting the same recording never duplicates a row.    *)
NeverDuplicates == \A r \in Rows : Copies(r) <= 1
=============================================================================
