------------------------- MODULE SheetExportProofs -------------------------
(***************************************************************************)
(* Proofs about SheetExport for any finite set of workers, any rows and    *)
(* any number of retries.                                                  *)
(***************************************************************************)
EXTENDS SheetExport, FiniteSetTheorems, SequenceTheorems, TLAPS

(* The workers whose lookup found nothing and whose append Google may      *)
(* still apply while they wait for it.                                     *)
Pending(r) == {w \in Workers : export[w].at = "append" /\ export[w].row = r}

(* Once its append was applied, a worker's row is in the sheet, even if    *)
(* the answer is lost.                                                     *)
AppliedInSheet ==
    \A w \in Workers : export[w].at = "appended" => export[w].row \in Range(sheet)

(* Every copy of a row, and every append that may become one, belongs to a *)
(* worker that looked before the first copy was there, or was abandoned.   *)
AppendsBounded ==
    Len(sheet) <= LookupRows =>
        \A r \in Full :
            /\ inFlight[r] <= abandoned[r]
            /\ Copies(r) + Cardinality(Pending(r)) + inFlight[r]
                 <= Cardinality(Workers) + abandoned[r]

IInv == TypeOK /\ ReportedInSheet /\ AppliedInSheet /\ AppendsBounded
-----------------------------------------------------------------------------
(* What an applied append does to the rows of the sheet.                   *)
LEMMA AppendRange ==
    ASSUME NEW s \in Seq(Rows), NEW q \in Rows
    PROVE  /\ Append(s, q) \in Seq(Rows)
           /\ Len(Append(s, q)) = Len(s) + 1
           /\ Range(Append(s, q)) = Range(s) \cup {q}
<1>1. /\ Append(s, q) \in Seq(Rows)
      /\ DOMAIN Append(s, q) = 1 .. Len(s) + 1
      /\ Len(Append(s, q)) = Len(s) + 1
      /\ DOMAIN s = 1 .. Len(s)
      /\ Len(s) \in Nat
  OBVIOUS
<1>2. /\ \A i \in 1 .. Len(s) : Append(s, q)[i] = s[i]
      /\ Append(s, q)[Len(s) + 1] = q
  OBVIOUS
<1> QED
  BY <1>1, <1>2 DEF Range

(* The copies of a row can be counted.                                     *)
LEMMA CopiesNat ==
    ASSUME TypeOK, NEW r
    PROVE  /\ IsFiniteSet({i \in DOMAIN sheet : sheet[i] = r})
           /\ Copies(r) \in Nat
<1>1. DOMAIN sheet = 1 .. Len(sheet) /\ Len(sheet) \in Nat
  BY DEF TypeOK
<1>2. IsFiniteSet(1 .. Len(sheet))
  BY <1>1, FS_Interval
<1>3. {i \in DOMAIN sheet : sheet[i] = r} \in SUBSET (1 .. Len(sheet))
  BY <1>1
<1>4. IsFiniteSet({i \in DOMAIN sheet : sheet[i] = r})
  BY <1>2, <1>3, FS_Subset
<1> QED
  BY <1>4, FS_CardinalityType DEF Copies

(* An applied append adds one copy of its row and none of any other.       *)
LEMMA CopiesAppend ==
    ASSUME TypeOK, NEW q \in Rows, NEW r, sheet' = Append(sheet, q)
    PROVE  Copies(r)' = Copies(r) + (IF q = r THEN 1 ELSE 0)
<1> DEFINE S == {i \in DOMAIN sheet : sheet[i] = r}
           T == {i \in DOMAIN Append(sheet, q) : Append(sheet, q)[i] = r}
<1>1. /\ DOMAIN Append(sheet, q) = 1 .. Len(sheet) + 1
      /\ DOMAIN sheet = 1 .. Len(sheet)
      /\ Len(sheet) \in Nat
  BY DEF TypeOK
<1>2. /\ \A i \in 1 .. Len(sheet) : Append(sheet, q)[i] = sheet[i]
      /\ Append(sheet, q)[Len(sheet) + 1] = q
  BY DEF TypeOK
<1>3. Copies(r)' = Cardinality(T)
  BY DEF Copies
<1>4. IsFiniteSet(S) /\ Copies(r) = Cardinality(S) /\ Copies(r) \in Nat
  BY CopiesNat DEF Copies
<1>5. CASE q = r
  <2>1. T = S \cup {Len(sheet) + 1} /\ Len(sheet) + 1 \notin S
    BY <1>1, <1>2, <1>5
  <2>2. Cardinality(T) = Cardinality(S) + 1
    BY <1>4, <2>1, FS_AddElement
  <2> QED
    BY <1>3, <1>4, <1>5, <2>2
<1>6. CASE q # r
  <2>1. T = S
    BY <1>1, <1>2, <1>6
  <2>2. Copies(r)' = Copies(r)
    <3> HIDE DEF S, T
    <3> QED
      BY <1>3, <1>4, <2>1
  <2> QED
    BY <1>4, <1>6, <2>2
<1> QED
  BY <1>5, <1>6

(* A lookup that reads the whole sheet and finds nothing saw no copy.      *)
LEMMA NoCopies ==
    ASSUME TypeOK, NEW r \in Full, ~Found(r), Len(sheet) <= LookupRows
    PROVE  Copies(r) = 0
<1>1. DOMAIN sheet = 1 .. Len(sheet) /\ Len(sheet) \in Nat /\ LookupRows \in Nat
  BY CountAssumption DEF TypeOK
<1>2. {i \in DOMAIN sheet : sheet[i] = r} = {}
  BY <1>1 DEF Found
<1> QED
  BY <1>2, FS_EmptySet DEF Copies

(* No more appends of a row are pending than there are workers.            *)
LEMMA PendingNat ==
    ASSUME NEW r
    PROVE  /\ IsFiniteSet(Pending(r))
           /\ Cardinality(Pending(r)) \in Nat
           /\ Cardinality(Workers) \in Nat
           /\ Cardinality(Pending(r)) <= Cardinality(Workers)
<1>1. Pending(r) \in SUBSET Workers
  BY DEF Pending
<1>2. IsFiniteSet(Pending(r)) /\ Cardinality(Pending(r)) <= Cardinality(Workers)
  BY <1>1, WorkersAssumption, FS_Subset
<1> QED
  BY <1>2, WorkersAssumption, FS_CardinalityType
-----------------------------------------------------------------------------
(* A step of one worker, whatever it does to its own call.                 *)
Moves(w) ==
    /\ export' \in [Workers -> Exports]
    /\ \A v \in Workers \ {w} : export'[v] = export[v]

(* One worker's call is replaced by another well-formed one.               *)
LEMMA MovesTo ==
    ASSUME TypeOK, NEW w \in Workers, NEW x \in Exports, export' = [export EXCEPT ![w] = x]
    PROVE  Moves(w) /\ export'[w] = x
BY DEF TypeOK, Moves

(* A worker that stays within its export keeps its row and its outcome.    *)
LEMMA GoMoves ==
    ASSUME TypeOK, NEW w \in Workers, NEW from, NEW to \in Places, Go(w, from, to)
    PROVE  /\ Moves(w)
           /\ export[w].at = from
           /\ export'[w].at = to
           /\ export'[w].row = export[w].row
           /\ export'[w].outcome = export[w].outcome
           /\ begun' = begun
<1> DEFINE e == export[w]
<1>1. e \in Exports
  BY DEF TypeOK
<1>2. export' = [export EXCEPT ![w] = [e EXCEPT !.at = to]]
  BY DEF Go
<1>3. /\ [e EXCEPT !.at = to] \in Exports
      /\ [e EXCEPT !.at = to].at = to
      /\ [e EXCEPT !.at = to].row = e.row
      /\ [e EXCEPT !.at = to].outcome = e.outcome
  BY <1>1 DEF Exports
<1>4. Moves(w) /\ export'[w] = [e EXCEPT !.at = to]
  BY <1>2, <1>3, MovesTo
<1> QED
  BY <1>3, <1>4 DEF Go

(* A worker that returns keeps its row.                                    *)
LEMMA ReturnMoves ==
    ASSUME TypeOK, NEW w \in Workers, NEW from, NEW outcome \in Outcomes,
           Return(w, from, outcome)
    PROVE  /\ Moves(w)
           /\ export[w].at = from
           /\ export'[w].at = "idle"
           /\ export'[w].row = export[w].row
           /\ export'[w].outcome = outcome
           /\ begun' = begun
<1> DEFINE e == export[w]
<1>1. e \in Exports
  BY DEF TypeOK
<1> DEFINE f == [at |-> "idle", row |-> e.row, attempt |-> e.attempt,
                 expired |-> e.expired, outcome |-> outcome]
<1>2. export'[w] = f
  BY <1>1 DEF Return, Exports, TypeOK
<1>3. export' = [export EXCEPT ![w] = f]
  BY <1>2 DEF Return, TypeOK
<1>4. f \in Exports
  BY <1>1 DEF Exports, Places
<1>5. Moves(w)
  BY <1>3, <1>4, MovesTo
<1> QED
  BY <1>2, <1>5 DEF Return

(* Beginning, retrying and expiring leave the outcome as it is or clear it. *)
LEMMA OtherMoves ==
    ASSUME TypeOK, NEW w \in Workers,
           (\E r \in Rows : Begin(w, r)) \/ Retry(w) \/ Expire(w)
    PROVE  /\ Moves(w)
           /\ begun' \in Nat
           /\ UNCHANGED <<sheet, inFlight, abandoned>>
           /\ export'[w].at = "append" <=> export[w].at = "append"
           /\ export'[w].at = "append" => export'[w].row = export[w].row
           /\ export'[w].at = "appended" =>
                export[w].at = "appended" /\ export'[w].row = export[w].row
           /\ export'[w].outcome = "ok" =>
                export[w].outcome = "ok" /\ export'[w].row = export[w].row
<1> DEFINE e == export[w]
<1>1. e \in Exports /\ MaxRetries \in Nat /\ begun \in Nat
  BY CountAssumption DEF TypeOK
<1>2. ASSUME NEW r \in Rows, Begin(w, r)
      PROVE  /\ export' = [export EXCEPT ![w] = [at |-> "lookup", row |-> r, attempt |-> 1,
                                                 expired |-> FALSE, outcome |-> "none"]]
             /\ [at |-> "lookup", row |-> r, attempt |-> 1,
                 expired |-> FALSE, outcome |-> "none"] \in Exports
             /\ e.at = "idle"
             /\ begun' = begun + 1
             /\ UNCHANGED <<sheet, inFlight, abandoned>>
  BY <1>1, <1>2 DEF Begin, Exports, Places, Outcomes
<1>3. ASSUME Retry(w)
      PROVE  /\ export' = [export EXCEPT ![w] = [at |-> "lookup", row |-> e.row,
                                                 attempt |-> e.attempt + 1,
                                                 expired |-> e.expired, outcome |-> e.outcome]]
             /\ [at |-> "lookup", row |-> e.row, attempt |-> e.attempt + 1,
                 expired |-> e.expired, outcome |-> e.outcome] \in Exports
             /\ e.at = "failed"
             /\ begun' = begun
             /\ UNCHANGED <<sheet, inFlight, abandoned>>
  <2>1. e.attempt + 1 \in 1 .. MaxRetries + 1
    BY <1>1, <1>3 DEF Retry, LastAttempt, Exports
  <2>2. export' = [export EXCEPT ![w] = [at |-> "lookup", row |-> e.row,
                                         attempt |-> e.attempt + 1,
                                         expired |-> e.expired, outcome |-> e.outcome]]
    <3>1. export'[w] = [at |-> "lookup", row |-> e.row, attempt |-> e.attempt + 1,
                        expired |-> e.expired, outcome |-> e.outcome]
      BY <1>1, <1>3 DEF Retry, Exports, TypeOK
    <3> QED
      BY <1>3, <3>1 DEF Retry, TypeOK
  <2>3. [at |-> "lookup", row |-> e.row, attempt |-> e.attempt + 1,
         expired |-> e.expired, outcome |-> e.outcome] \in Exports
    BY <1>1, <2>1 DEF Exports, Places
  <2> QED
    BY <1>3, <2>2, <2>3 DEF Retry
<1>4. ASSUME Expire(w)
      PROVE  /\ export' = [export EXCEPT ![w] = [at |-> e.at, row |-> e.row,
                                                 attempt |-> e.attempt,
                                                 expired |-> TRUE, outcome |-> e.outcome]]
             /\ [at |-> e.at, row |-> e.row, attempt |-> e.attempt,
                 expired |-> TRUE, outcome |-> e.outcome] \in Exports
             /\ begun' = begun
             /\ UNCHANGED <<sheet, inFlight, abandoned>>
  <2>1. export' = [export EXCEPT ![w] = [at |-> e.at, row |-> e.row, attempt |-> e.attempt,
                                         expired |-> TRUE, outcome |-> e.outcome]]
    <3>1. export'[w] = [at |-> e.at, row |-> e.row, attempt |-> e.attempt,
                        expired |-> TRUE, outcome |-> e.outcome]
      BY <1>1, <1>4 DEF Expire, Exports, TypeOK
    <3> QED
      BY <1>4, <3>1 DEF Expire, TypeOK
  <2>2. [at |-> e.at, row |-> e.row, attempt |-> e.attempt,
         expired |-> TRUE, outcome |-> e.outcome] \in Exports
    BY <1>1 DEF Exports
  <2> QED
    BY <1>4, <2>1, <2>2 DEF Expire
<1>5. CASE \E r \in Rows : Begin(w, r)
  <2>1. PICK r \in Rows : Begin(w, r)
    BY <1>5
  <2>2. Moves(w) /\ export'[w] = [at |-> "lookup", row |-> r, attempt |-> 1,
                                  expired |-> FALSE, outcome |-> "none"]
    BY <1>2, <2>1, MovesTo
  <2> QED
    BY <1>1, <1>2, <2>1, <2>2
<1>6. CASE Retry(w)
  <2>1. Moves(w) /\ export'[w] = [at |-> "lookup", row |-> e.row,
                                  attempt |-> e.attempt + 1,
                                  expired |-> e.expired, outcome |-> e.outcome]
    BY <1>3, <1>6, MovesTo
  <2> QED
    BY <1>1, <1>3, <1>6, <2>1
<1>7. CASE Expire(w)
  <2>1. Moves(w) /\ export'[w] = [at |-> e.at, row |-> e.row, attempt |-> e.attempt,
                                  expired |-> TRUE, outcome |-> e.outcome]
    BY <1>4, <1>7, MovesTo
  <2> QED
    BY <1>1, <1>4, <1>7, <2>1
<1> QED
  BY <1>5, <1>6, <1>7
-----------------------------------------------------------------------------
(* A worker whose append is no longer pending frees a place for its row.   *)
LEMMA PendingLeaves ==
    ASSUME NEW w \in Workers, Moves(w), export[w].at = "append", export'[w].at # "append",
           NEW r
    PROVE  IF export[w].row = r
           THEN Cardinality(Pending(r))' = Cardinality(Pending(r)) - 1
           ELSE Cardinality(Pending(r))' = Cardinality(Pending(r))
<1>1. CASE export[w].row = r
  <2>1. Pending(r)' = Pending(r) \ {w} /\ w \in Pending(r)
    BY <1>1 DEF Pending, Moves
  <2>2. Cardinality(Pending(r) \ {w}) = Cardinality(Pending(r)) - 1
    BY <2>1, PendingNat, FS_RemoveElement
  <2> QED
    BY <1>1, <2>1, <2>2
<1>2. CASE export[w].row # r
  <2>1. Pending(r)' = Pending(r)
    BY <1>2 DEF Pending, Moves
  <2> QED
    BY <1>2, <2>1
<1> QED
  BY <1>1, <1>2

(* Every step of a call that changes neither the sheet nor what is in      *)
(* flight preserves the invariant: a worker starts to append only what its *)
(* lookup did not find, and reports only what is in the sheet.             *)
LEMMA CallStepInv ==
    ASSUME IInv, NEW w \in Workers, Moves(w), begun' \in Nat,
           UNCHANGED <<sheet, inFlight, abandoned>>,
           export'[w].at = "append" =>
               \/ export[w].at = "append" /\ export'[w].row = export[w].row
               \/ ~Found(export'[w].row),
           export'[w].at = "appended" =>
               export[w].at = "appended" /\ export'[w].row = export[w].row,
           export'[w].outcome = "ok" => export'[w].row \in Range(sheet)
    PROVE  IInv'
<1>1. TypeOK'
  BY DEF IInv, TypeOK, Moves
<1>2. ReportedInSheet' /\ AppliedInSheet'
  BY DEF IInv, ReportedInSheet, AppliedInSheet, Moves, Range
<1>3. AppendsBounded'
  <2> SUFFICES ASSUME Len(sheet) <= LookupRows, NEW r \in Full
               PROVE  /\ inFlight[r] <= abandoned[r]
                      /\ Copies(r) + Cardinality(Pending(r)') + inFlight[r]
                           <= Cardinality(Workers) + abandoned[r]
    BY DEF AppendsBounded, Copies, Pending
  <2>1. /\ inFlight[r] <= abandoned[r] /\ inFlight[r] \in Nat /\ abandoned[r] \in Nat
        /\ Copies(r) + Cardinality(Pending(r)) + inFlight[r]
             <= Cardinality(Workers) + abandoned[r]
    BY RowsAssumption DEF IInv, AppendsBounded, TypeOK
  <2>2. Copies(r) \in Nat
    BY CopiesNat DEF IInv
  <2>3. /\ Pending(r)' \in SUBSET Workers
        /\ IsFiniteSet(Workers) /\ Cardinality(Workers) \in Nat
    BY WorkersAssumption, FS_CardinalityType DEF Pending
  <2>4. Cardinality(Pending(r)') \in Nat /\ Cardinality(Pending(r)') <= Cardinality(Workers)
    BY <2>3, FS_Subset, FS_CardinalityType
  <2>5. CASE ~Found(r)
    <3>1. Copies(r) = 0
      BY <2>5, NoCopies DEF IInv
    <3> QED
      BY <2>1, <2>3, <2>4, <3>1
  <2>6. CASE Found(r)
    <3>1. Pending(r)' \in SUBSET Pending(r)
      BY <2>6 DEF Pending, Moves
    <3>2. Cardinality(Pending(r)') <= Cardinality(Pending(r)) /\ Cardinality(Pending(r)) \in Nat
      BY <3>1, PendingNat, FS_Subset
    <3> QED
      BY <2>1, <2>2, <2>3, <2>4, <3>2
  <2> QED
    BY <2>5, <2>6
<1> QED
  BY <1>1, <1>2, <1>3 DEF IInv

(* Apply turns a pending append into a copy.                               *)
LEMMA ApplyInv ==
    ASSUME IInv, NEW w \in Workers, Apply(w)
    PROVE  IInv'
<1> DEFINE q == export[w].row
<1>1. /\ Moves(w) /\ export[w].at = "append" /\ export'[w].at = "appended"
      /\ export'[w].row = q /\ export'[w].outcome = export[w].outcome
      /\ begun' = begun
      /\ sheet' = Append(sheet, q) /\ UNCHANGED <<inFlight, abandoned>>
  BY GoMoves DEF Apply, IInv, Places
<1>2. q \in Rows /\ sheet \in Seq(Rows)
  BY DEF IInv, TypeOK, Exports
<1>3. /\ sheet' \in Seq(Rows)
      /\ Len(sheet') = Len(sheet) + 1
      /\ Range(sheet') = Range(sheet) \cup {q}
  BY <1>1, <1>2, AppendRange
<1>4. TypeOK'
  BY <1>1, <1>3 DEF IInv, TypeOK, Moves
<1>5. ReportedInSheet' /\ AppliedInSheet'
  BY <1>1, <1>3 DEF IInv, ReportedInSheet, AppliedInSheet, Moves, Range
<1>6. AppendsBounded'
  <2> SUFFICES ASSUME Len(sheet') <= LookupRows, NEW r \in Full
               PROVE  /\ inFlight[r] <= abandoned[r]
                      /\ Copies(r)' + Cardinality(Pending(r))' + inFlight[r]
                           <= Cardinality(Workers) + abandoned[r]
    BY <1>1 DEF AppendsBounded
  <2>1. Len(sheet) <= LookupRows
    BY <1>2, <1>3, CountAssumption
  <2>2. /\ inFlight[r] <= abandoned[r] /\ inFlight[r] \in Nat /\ abandoned[r] \in Nat
        /\ Copies(r) + Cardinality(Pending(r)) + inFlight[r]
             <= Cardinality(Workers) + abandoned[r]
    BY <2>1, RowsAssumption DEF IInv, AppendsBounded, TypeOK
  <2>3. Copies(r) \in Nat /\ Cardinality(Pending(r)) \in Nat /\ Cardinality(Workers) \in Nat
    BY CopiesNat, PendingNat DEF IInv
  <2>4. Copies(r)' = Copies(r) + (IF q = r THEN 1 ELSE 0)
    BY <1>1, <1>2, CopiesAppend DEF IInv
  <2>5. CASE q = r
    <3>1. Cardinality(Pending(r))' = Cardinality(Pending(r)) - 1
      BY <1>1, <2>5, PendingLeaves
    <3> QED
      BY <2>2, <2>3, <2>4, <2>5, <3>1
  <2>6. CASE q # r
    <3>1. Cardinality(Pending(r))' = Cardinality(Pending(r))
      BY <1>1, <2>6, PendingLeaves
    <3> QED
      BY <2>2, <2>3, <2>4, <2>6, <3>1
  <2> QED
    BY <2>5, <2>6
<1> QED
  BY <1>4, <1>5, <1>6 DEF IInv

(* AppendAbandoned turns a pending append into one in flight, and counts   *)
(* it.                                                                     *)
LEMMA AppendAbandonedInv ==
    ASSUME IInv, NEW w \in Workers, AppendAbandoned(w)
    PROVE  IInv'
<1> DEFINE q == export[w].row
<1>1. /\ Moves(w) /\ export[w].at = "append" /\ export'[w].at = "failed"
      /\ export'[w].row = q /\ export'[w].outcome = export[w].outcome
      /\ begun' = begun
      /\ inFlight' = [inFlight EXCEPT ![q] = inFlight[q] + 1]
      /\ abandoned' = [abandoned EXCEPT ![q] = abandoned[q] + 1]
      /\ UNCHANGED sheet
  BY GoMoves DEF AppendAbandoned, IInv, Places
<1>2. q \in Rows
  BY DEF IInv, TypeOK, Exports
<1>3. TypeOK'
  BY <1>1, <1>2 DEF IInv, TypeOK, Moves
<1>4. ReportedInSheet' /\ AppliedInSheet'
  BY <1>1 DEF IInv, ReportedInSheet, AppliedInSheet, Moves, Range
<1>5. AppendsBounded'
  <2> SUFFICES ASSUME Len(sheet) <= LookupRows, NEW r \in Full
               PROVE  /\ inFlight'[r] <= abandoned'[r]
                      /\ Copies(r) + Cardinality(Pending(r))' + inFlight'[r]
                           <= Cardinality(Workers) + abandoned'[r]
    BY <1>1 DEF AppendsBounded, Copies
  <2>1. /\ inFlight[r] <= abandoned[r] /\ inFlight[r] \in Nat /\ abandoned[r] \in Nat
        /\ Copies(r) + Cardinality(Pending(r)) + inFlight[r]
             <= Cardinality(Workers) + abandoned[r]
    BY RowsAssumption DEF IInv, AppendsBounded, TypeOK
  <2>2. Copies(r) \in Nat /\ Cardinality(Pending(r)) \in Nat /\ Cardinality(Workers) \in Nat
    BY CopiesNat, PendingNat DEF IInv
  <2>3. CASE q = r
    <3>1. inFlight'[r] = inFlight[r] + 1 /\ abandoned'[r] = abandoned[r] + 1
      BY <1>1, <1>2, <2>3 DEF IInv, TypeOK
    <3>2. Cardinality(Pending(r))' = Cardinality(Pending(r)) - 1
      BY <1>1, <2>3, PendingLeaves
    <3> QED
      BY <2>1, <2>2, <3>1, <3>2
  <2>4. CASE q # r
    <3>1. inFlight'[r] = inFlight[r] /\ abandoned'[r] = abandoned[r]
      BY <1>1, <2>4, RowsAssumption DEF IInv, TypeOK
    <3>2. Cardinality(Pending(r))' = Cardinality(Pending(r))
      BY <1>1, <2>4, PendingLeaves
    <3> QED
      BY <2>1, <2>2, <3>1, <3>2
  <2> QED
    BY <2>3, <2>4
<1> QED
  BY <1>3, <1>4, <1>5 DEF IInv

(* ApplyLate turns an append in flight into a copy.                        *)
LEMMA ApplyLateInv ==
    ASSUME IInv, NEW q \in Rows, ApplyLate(q)
    PROVE  IInv'
<1>1. /\ inFlight[q] > 0
      /\ inFlight' = [inFlight EXCEPT ![q] = inFlight[q] - 1]
      /\ sheet' = Append(sheet, q) /\ UNCHANGED <<export, abandoned, begun>>
  BY DEF ApplyLate
<1>2. sheet \in Seq(Rows) /\ inFlight[q] \in Nat
  BY DEF IInv, TypeOK
<1>3. /\ sheet' \in Seq(Rows)
      /\ Len(sheet') = Len(sheet) + 1
      /\ Range(sheet') = Range(sheet) \cup {q}
  BY <1>1, <1>2, AppendRange
<1>4. TypeOK'
  BY <1>1, <1>2, <1>3 DEF IInv, TypeOK
<1>5. ReportedInSheet' /\ AppliedInSheet'
  BY <1>1, <1>3 DEF IInv, ReportedInSheet, AppliedInSheet
<1>6. AppendsBounded'
  <2> SUFFICES ASSUME Len(sheet') <= LookupRows, NEW r \in Full
               PROVE  /\ inFlight'[r] <= abandoned[r]
                      /\ Copies(r)' + Cardinality(Pending(r)) + inFlight'[r]
                           <= Cardinality(Workers) + abandoned[r]
    BY <1>1 DEF AppendsBounded, Pending
  <2>1. Len(sheet) <= LookupRows
    BY <1>2, <1>3, CountAssumption
  <2>2. /\ inFlight[r] <= abandoned[r] /\ inFlight[r] \in Nat /\ abandoned[r] \in Nat
        /\ Copies(r) + Cardinality(Pending(r)) + inFlight[r]
             <= Cardinality(Workers) + abandoned[r]
    BY <2>1, RowsAssumption DEF IInv, AppendsBounded, TypeOK
  <2>3. Copies(r) \in Nat /\ Cardinality(Pending(r)) \in Nat /\ Cardinality(Workers) \in Nat
    BY CopiesNat, PendingNat DEF IInv
  <2>4. Copies(r)' = Copies(r) + (IF q = r THEN 1 ELSE 0)
    BY <1>1, CopiesAppend DEF IInv
  <2>5. inFlight'[r] = inFlight[r] - (IF q = r THEN 1 ELSE 0)
    BY <1>1, <2>2, RowsAssumption DEF IInv, TypeOK
  <2> QED
    BY <1>1, <1>2, <2>2, <2>3, <2>4, <2>5
<1> QED
  BY <1>4, <1>5, <1>6 DEF IInv
-----------------------------------------------------------------------------
(* Nothing is in the sheet or under way at first.                          *)
THEOREM InitInv == Init => IInv
<1> SUFFICES ASSUME Init PROVE IInv
  OBVIOUS
<1>1. TypeOK
  <2>1. ASSUME NEW r \in Rows
        PROVE  [at |-> "idle", row |-> r, attempt |-> 1,
                expired |-> FALSE, outcome |-> "none"] \in Exports
    BY CountAssumption DEF Exports, Places, Outcomes
  <2>2. export \in [Workers -> Exports]
    BY <2>1 DEF Init
  <2> QED
    BY <2>2 DEF Init, TypeOK
<1>2. ReportedInSheet /\ AppliedInSheet
  BY DEF Init, ReportedInSheet, AppliedInSheet
<1>3. ASSUME NEW r \in Full
      PROVE  /\ inFlight[r] = 0 /\ abandoned[r] = 0
             /\ Copies(r) = 0 /\ Cardinality(Pending(r)) = 0
             /\ Cardinality(Workers) \in Nat
  <2>1. {i \in DOMAIN sheet : sheet[i] = r} = {} /\ Pending(r) = {}
    BY DEF Init, Pending
  <2>2. Cardinality({}) = 0
    BY FS_EmptySet
  <2>3. Cardinality(Workers) \in Nat
    BY PendingNat
  <2> QED
    BY <2>1, <2>2, <2>3, RowsAssumption DEF Init, Copies
<1>4. AppendsBounded
  BY <1>3 DEF AppendsBounded
<1> QED
  BY <1>1, <1>2, <1>4 DEF IInv

(* Every step preserves the inductive invariant.                           *)
THEOREM NextInv == IInv /\ [Next]_vars => IInv'
<1> SUFFICES ASSUME IInv, [Next]_vars PROVE IInv'
  OBVIOUS
<1> USE DEF Places, Outcomes
<1>0. TypeOK /\ begun \in Nat
  BY DEF IInv, TypeOK
<1>1. ASSUME NEW w \in Workers, (\E r \in Rows : Begin(w, r)) \/ Retry(w) \/ Expire(w)
      PROVE  IInv'
  <2>1. export[w].outcome = "ok" => export[w].row \in Range(sheet)
    BY DEF IInv, ReportedInSheet
  <2> QED
    BY <1>0, <1>1, <2>1, OtherMoves, CallStepInv
<1>2. ASSUME NEW w \in Workers, LookupMatch(w) PROVE IInv'
  <2>1. Found(export[w].row) => export[w].row \in Range(sheet)
    BY DEF Found, Range
  <2>2. Return(w, "lookup", "ok") /\ UNCHANGED <<sheet, inFlight, abandoned>>
    BY <1>2 DEF LookupMatch
  <2> QED
    BY <1>0, <1>2, <2>1, <2>2, ReturnMoves, CallStepInv DEF LookupMatch
<1>3. ASSUME NEW w \in Workers, LookupMiss(w) PROVE IInv'
  <2>1. Go(w, "lookup", "append") /\ UNCHANGED <<sheet, inFlight, abandoned>>
    BY <1>3 DEF LookupMiss
  <2>2. export[w].outcome = "ok" => export[w].row \in Range(sheet)
    BY DEF IInv, ReportedInSheet
  <2> QED
    BY <1>0, <1>3, <2>1, <2>2, GoMoves, CallStepInv DEF LookupMiss
<1>4. ASSUME NEW w \in Workers, LookupFails(w) \/ AppendFails(w) \/ AppendLost(w)
      PROVE  IInv'
  <2>1. PICK from : Go(w, from, "failed") /\ UNCHANGED <<sheet, inFlight, abandoned>>
    BY <1>4 DEF LookupFails, AppendFails, AppendLost
  <2>2. export[w].outcome = "ok" => export[w].row \in Range(sheet)
    BY DEF IInv, ReportedInSheet
  <2> QED
    BY <1>0, <2>1, <2>2, GoMoves, CallStepInv
<1>5. ASSUME NEW w \in Workers, AppendOK(w) PROVE IInv'
  <2>1. Return(w, "appended", "ok") /\ UNCHANGED <<sheet, inFlight, abandoned>>
    BY <1>5 DEF AppendOK
  <2>2. export[w].at = "appended" => export[w].row \in Range(sheet)
    BY DEF IInv, AppliedInSheet
  <2> QED
    BY <1>0, <2>1, <2>2, ReturnMoves, CallStepInv
<1>6. ASSUME NEW w \in Workers, GiveUp(w) PROVE IInv'
  <2>1. Return(w, "failed", "error") /\ UNCHANGED <<sheet, inFlight, abandoned>>
    BY <1>6 DEF GiveUp
  <2> QED
    BY <1>0, <2>1, ReturnMoves, CallStepInv
<1>7. CASE UNCHANGED vars
  BY <1>7 DEF vars, IInv, TypeOK, ReportedInSheet, AppliedInSheet, AppendsBounded, Copies, Pending
<1> QED
  BY <1>1, <1>2, <1>3, <1>4, <1>5, <1>6, <1>7, ApplyInv, AppendAbandonedInv, ApplyLateInv
     DEF Next, Fails, Finished

(* The invariant holds in every state the exports reach.                   *)
THEOREM Invariance == Spec => []IInv
BY InitInv, NextInv, PTL DEF Spec

(* Exports are well formed, and no export makes more attempts than it may  *)
(* (AppendRowWithRetry).                                                   *)
THEOREM TypeCorrect == Spec => []TypeOK
<1>1. IInv => TypeOK
  BY DEF IInv
<1> QED
  BY <1>1, Invariance, PTL

(* An export that reports success has its row in the sheet.                *)
THEOREM SuccessInSheet == Spec => []ReportedInSheet
<1>1. IInv => ReportedInSheet
  BY DEF IInv
<1> QED
  BY <1>1, Invariance, PTL

(* However many workers, rows, retries and lost answers there are, a row   *)
(* that can be found is in the sheet at most once for each worker and each *)
(* abandoned append (RowMatches, AppendRow).                               *)
THEOREM Deduplication == Spec => []CopiesBounded
<1>1. IInv => CopiesBounded
  <2> SUFFICES ASSUME IInv, Len(sheet) <= LookupRows, NEW r \in Full
               PROVE  Copies(r) <= Cardinality(Workers) + abandoned[r]
    BY DEF CopiesBounded
  <2>1. /\ inFlight[r] \in Nat /\ abandoned[r] \in Nat
        /\ Copies(r) + Cardinality(Pending(r)) + inFlight[r]
             <= Cardinality(Workers) + abandoned[r]
    BY RowsAssumption DEF IInv, AppendsBounded, TypeOK
  <2>2. Copies(r) \in Nat /\ Cardinality(Pending(r)) \in Nat /\ Cardinality(Workers) \in Nat
    BY CopiesNat, PendingNat DEF IInv
  <2> QED
    BY <2>1, <2>2
<1> QED
  BY <1>1, Invariance, PTL

(* With the one worker of the default configuration, a row that can be     *)
(* found is in the sheet once, unless an append of it was given up while   *)
(* Google had it (AppendRowWithRetry).                                     *)
THEOREM OneWorkerDeduplicates ==
    ASSUME Cardinality(Workers) = 1
    PROVE  Spec => [](Len(sheet) <= LookupRows =>
                        \A r \in Full : abandoned[r] = 0 => Copies(r) <= 1)
<1>1. CopiesBounded =>
        (Len(sheet) <= LookupRows => \A r \in Full : abandoned[r] = 0 => Copies(r) <= 1)
  BY DEF CopiesBounded
<1> QED
  BY <1>1, Deduplication, PTL
-----------------------------------------------------------------------------
(* How many appends an export may still get applied: one for this attempt, *)
(* if it has not been, and one for each that may follow.                   *)
Left(w) ==
    IF export[w].at \in {"lookup", "append"} THEN MaxRetries + 2 - export[w].attempt
    ELSE IF export[w].at \in {"appended", "failed"} THEN MaxRetries + 1 - export[w].attempt
    ELSE 0

lefts == [w \in Workers |-> Left(w)]

(* They are counted as pairs of a worker and a number, and the appends     *)
(* that Google may apply late as pairs of a row and a number.              *)
Tickets(left) == {t \in Workers \X (1 .. MaxRetries + 1) : t[2] <= left[t[1]]}

Late(flying) == {t \in Rows \X (Nat \ {0}) : t[2] <= flying[t[1]]}

RowsInv ==
    /\ IsFiniteSet(Late(inFlight))
    /\ Len(sheet) + Cardinality(Late(inFlight)) + Cardinality(Tickets(lefts))
         <= begun * (MaxRetries + 1)

LEMMA TicketsFinite ==
    ASSUME NEW f
    PROVE  IsFiniteSet(Tickets(f)) /\ Cardinality(Tickets(f)) \in Nat
<1>1. IsFiniteSet(1 .. MaxRetries + 1)
  BY CountAssumption, FS_Interval
<1>2. IsFiniteSet(Workers \X (1 .. MaxRetries + 1))
  BY <1>1, WorkersAssumption, FS_Product
<1>3. Tickets(f) \in SUBSET (Workers \X (1 .. MaxRetries + 1))
  BY DEF Tickets
<1> QED
  BY <1>2, <1>3, FS_Subset, FS_CardinalityType

LEMMA TicketsFewer ==
    ASSUME NEW f \in [Workers -> 0 .. MaxRetries + 1], NEW g \in [Workers -> 0 .. MaxRetries + 1],
           \A w \in Workers : g[w] <= f[w]
    PROVE  /\ Cardinality(Tickets(g)) <= Cardinality(Tickets(f))
           /\ (\E w \in Workers : g[w] < f[w]) =>
                Cardinality(Tickets(g)) + 1 <= Cardinality(Tickets(f))
<1> USE CountAssumption
<1>1. Tickets(g) \in SUBSET Tickets(f)
  BY DEF Tickets
<1>2. Cardinality(Tickets(g)) <= Cardinality(Tickets(f))
  BY <1>1, TicketsFinite, FS_Subset
<1>3. ASSUME NEW w \in Workers, g[w] < f[w]
      PROVE  Cardinality(Tickets(g)) + 1 <= Cardinality(Tickets(f))
  <2> DEFINE t == <<w, f[w]>>
  <2>1. t \in Tickets(f) /\ t \notin Tickets(g)
    BY <1>3 DEF Tickets
  <2> HIDE DEF t
  <2>2. Tickets(g) \in SUBSET (Tickets(f) \ {t})
    BY <1>1, <2>1
  <2>3. /\ IsFiniteSet(Tickets(f) \ {t})
        /\ Cardinality(Tickets(f) \ {t}) = Cardinality(Tickets(f)) - 1
    BY <2>1, TicketsFinite, FS_RemoveElement
  <2>4. Cardinality(Tickets(g)) <= Cardinality(Tickets(f) \ {t})
    BY <2>2, <2>3, FS_Subset
  <2> QED
    BY <2>3, <2>4, TicketsFinite
<1> QED
  BY <1>2, <1>3

(* A new export may get one append applied for each of its attempts.       *)
LEMMA TicketsBegin ==
    ASSUME NEW f \in [Workers -> 0 .. MaxRetries + 1], NEW w \in Workers,
           NEW g, g = [f EXCEPT ![w] = MaxRetries + 1]
    PROVE  Cardinality(Tickets(g)) <= Cardinality(Tickets(f)) + (MaxRetries + 1)
<1> USE CountAssumption
<1> DEFINE A == {w} \X (1 .. MaxRetries + 1)
<1>1. /\ IsFiniteSet({w}) /\ Cardinality({w}) = 1
      /\ IsFiniteSet(1 .. MaxRetries + 1) /\ Cardinality(1 .. MaxRetries + 1) = MaxRetries + 1
  <2>1. IsFiniteSet({w}) /\ Cardinality({w}) = 1
    BY FS_Singleton, Zenon
  <2>2. 1 \in Int /\ MaxRetries + 1 \in Int /\ ~(1 > MaxRetries + 1)
    OBVIOUS
  <2>3. /\ IsFiniteSet(1 .. MaxRetries + 1)
        /\ Cardinality(1 .. MaxRetries + 1) = (MaxRetries + 1) - 1 + 1
    BY <2>2, FS_Interval
  <2> QED
    BY <2>1, <2>3
<1>2. IsFiniteSet(A) /\ Cardinality(A) = MaxRetries + 1
  <2> DEFINE one == {w}
             all == 1 .. MaxRetries + 1
  <2> HIDE DEF one, all
  <2>1. /\ IsFiniteSet(one \X all)
        /\ Cardinality(one \X all) = Cardinality(one) * Cardinality(all)
    BY <1>1, FS_Product, Zenon DEF one, all
  <2>2. Cardinality(one) = 1 /\ Cardinality(all) = MaxRetries + 1
    BY <1>1 DEF one, all
  <2>3. Cardinality(one) * Cardinality(all) = MaxRetries + 1
    BY <2>2
  <2> QED
    BY <2>1, <2>3 DEF one, all
<1>3. Tickets(g) \in SUBSET (Tickets(f) \cup A)
  BY DEF Tickets
<1> HIDE DEF A
<1>4. /\ IsFiniteSet(Tickets(f) \cup A)
      /\ Cardinality(Tickets(f) \cup A)
           = Cardinality(Tickets(f)) + Cardinality(A) - Cardinality(Tickets(f) \cap A)
  BY <1>2, TicketsFinite, FS_Union
<1>5. Cardinality(Tickets(f) \cap A) \in Nat
  BY <1>2, FS_Intersection, FS_CardinalityType
<1>6. Cardinality(Tickets(g)) <= Cardinality(Tickets(f) \cup A)
  BY <1>3, <1>4, FS_Subset
<1> QED
  BY <1>2, <1>4, <1>5, <1>6, TicketsFinite

(* An append that is given up while Google has it, and one applied late.   *)
LEMMA LateChanges ==
    ASSUME NEW f \in [Rows -> Nat], NEW r \in Rows, IsFiniteSet(Late(f)), NEW g \in [Rows -> Nat]
    PROVE  /\ g = [f EXCEPT ![r] = @ + 1] =>
                IsFiniteSet(Late(g)) /\ Cardinality(Late(g)) = Cardinality(Late(f)) + 1
           /\ f[r] > 0 /\ g = [f EXCEPT ![r] = @ - 1] =>
                IsFiniteSet(Late(g)) /\ Cardinality(Late(g)) = Cardinality(Late(f)) - 1
<1>1. CASE g = [f EXCEPT ![r] = @ + 1]
  <2> DEFINE t == <<r, f[r] + 1>>
  <2>1. Late(g) = Late(f) \cup {t} /\ t \notin Late(f)
    BY <1>1 DEF Late
  <2> HIDE DEF t
  <2>2. IsFiniteSet(Late(g)) /\ Cardinality(Late(g)) = Cardinality(Late(f)) + 1
    BY <2>1, FS_AddElement
  <2>3. g[r] = f[r] + 1 /\ f[r] \in Nat
    BY <1>1
  <2> QED
    BY <2>2, <2>3
<1>2. CASE f[r] > 0 /\ g = [f EXCEPT ![r] = @ - 1]
  <2> DEFINE t == <<r, f[r]>>
  <2>1. Late(g) = Late(f) \ {t} /\ t \in Late(f)
    BY <1>2 DEF Late
  <2> HIDE DEF t
  <2>2. IsFiniteSet(Late(g)) /\ Cardinality(Late(g)) = Cardinality(Late(f)) - 1
    BY <2>1, FS_RemoveElement
  <2>3. g[r] = f[r] - 1 /\ f[r] \in Nat
    BY <1>2
  <2> QED
    BY <2>2, <2>3
<1> QED
  BY <1>1, <1>2

LEMMA LeftTyped ==
    ASSUME TypeOK
    PROVE  lefts \in [Workers -> 0 .. MaxRetries + 1]
<1>1. ASSUME NEW w \in Workers
      PROVE  Left(w) \in 0 .. MaxRetries + 1
  BY CountAssumption DEF TypeOK, Exports, Left
<1> QED
  BY <1>1 DEF lefts

(* A step within an attempt does not count as one.                         *)
LEMMA GoKeepsAttempt ==
    ASSUME TypeOK, NEW w \in Workers, NEW from, NEW to, Go(w, from, to)
    PROVE  export'[w].attempt = export[w].attempt
<1> DEFINE e == export[w]
<1>1. e \in Exports /\ export'[w] = [e EXCEPT !.at = to]
  BY DEF TypeOK, Go
<1> HIDE DEF e
<1>2. [e EXCEPT !.at = to].attempt = e.attempt
  BY <1>1 DEF Exports
<1> QED
  BY <1>1, <1>2 DEF e

(* What a step of one worker leaves the others.                            *)
LEMMA LeftOthers ==
    ASSUME NEW w \in Workers, Moves(w)
    PROVE  \A v \in Workers \ {w} : lefts'[v] = lefts[v]
  BY DEF Moves, lefts, Left

(* No step of an export gets it more appends than it had left: each that   *)
(* Google applies, or keeps, is one of them.                               *)
LEMMA RowsNext == IInv /\ RowsInv /\ [Next]_vars => RowsInv'
<1> SUFFICES ASSUME IInv, RowsInv, [Next]_vars
             PROVE  RowsInv'
  OBVIOUS
<1> USE CountAssumption DEF Places, Outcomes
<1> DEFINE M == MaxRetries + 1
           T == Cardinality(Tickets(lefts))
           F == Cardinality(Late(inFlight))
<1>1. /\ TypeOK /\ TypeOK'
      /\ lefts \in [Workers -> 0 .. M] /\ lefts' \in [Workers -> 0 .. M]
  <2>1. TypeOK /\ TypeOK'
    BY NextInv DEF IInv
  <2>2. ASSUME NEW w \in Workers
        PROVE  Left(w)' \in 0 .. M
    <3>1. export'[w].attempt \in 1 .. MaxRetries + 1
      BY <2>1 DEF TypeOK, Exports
    <3> QED
      BY <3>1 DEF Left
  <2> QED
    BY <2>1, <2>2, LeftTyped DEF lefts
<1>2. /\ T \in Nat /\ F \in Nat /\ Len(sheet) \in Nat /\ begun \in Nat /\ M \in Nat
      /\ IsFiniteSet(Late(inFlight)) /\ Len(sheet) + F + T <= begun * M
      /\ begun * M \in Nat
  BY <1>1, TicketsFinite, FS_CardinalityType DEF RowsInv, TypeOK
<1>3. ASSUME \A w \in Workers : lefts'[w] <= lefts[w], UNCHANGED <<sheet, inFlight, begun>>
      PROVE  RowsInv'
  <2>1. Cardinality(Tickets(lefts')) <= T /\ Cardinality(Tickets(lefts')) \in Nat
    BY <1>1, <1>3, TicketsFewer, TicketsFinite
  <2> QED
    BY <1>2, <1>3, <2>1 DEF RowsInv
<1>4. ASSUME NEW w \in Workers, Moves(w), lefts'[w] <= lefts[w],
             UNCHANGED <<sheet, inFlight, begun>>
      PROVE  RowsInv'
  <2>1. \A v \in Workers : lefts'[v] <= lefts[v]
    BY <1>1, <1>4, LeftOthers
  <2> QED
    BY <1>3, <1>4, <2>1
<1>5. ASSUME NEW w \in Workers, Moves(w), lefts'[w] < lefts[w], begun' = begun,
             IsFiniteSet(Late(inFlight')),
             Len(sheet') + Cardinality(Late(inFlight')) = Len(sheet) + F + 1
      PROVE  RowsInv'
  <2>1. \A v \in Workers : lefts'[v] <= lefts[v]
    BY <1>1, <1>5, LeftOthers
  <2>2. Cardinality(Tickets(lefts')) + 1 <= T /\ Cardinality(Tickets(lefts')) \in Nat
    BY <1>1, <1>5, <2>1, TicketsFewer, TicketsFinite
  <2> QED
    BY <1>2, <1>5, <2>2 DEF RowsInv
<1>6. ASSUME NEW w \in Workers
      PROVE  export[w] \in Exports /\ export[w].attempt \in 1 .. M
  BY <1>1, <1>6 DEF TypeOK, Exports
<1>7. ASSUME NEW w \in Workers, NEW r \in Rows, Begin(w, r)
      PROVE  RowsInv'
  <2>1. Moves(w) /\ begun' = begun + 1 /\ UNCHANGED <<sheet, inFlight>>
    BY <1>1, <1>7, OtherMoves DEF Begin
  <2>2. export'[w].at = "lookup" /\ export'[w].attempt = 1
    BY <1>1, <1>7 DEF Begin, TypeOK
  <2>3. lefts'[w] = M
    BY <2>2 DEF lefts, Left
  <2>4. lefts' = [lefts EXCEPT ![w] = M]
    BY <1>1, <2>1, <2>3, LeftOthers
  <2>5. Cardinality(Tickets(lefts')) <= T + M /\ Cardinality(Tickets(lefts')) \in Nat
    BY <1>1, <2>4, TicketsBegin, TicketsFinite
  <2>6. (begun + 1) * M = begun * M + M
    BY <1>2
  <2> HIDE DEF M
  <2> QED
    BY <1>2, <2>1, <2>5, <2>6 DEF RowsInv, M
<1>8. ASSUME NEW w \in Workers, LookupMatch(w) \/ AppendOK(w) \/ GiveUp(w)
      PROVE  RowsInv'
  <2>1. /\ Moves(w) /\ export'[w].at = "idle" /\ UNCHANGED <<sheet, inFlight, begun>>
    BY <1>1, <1>8, ReturnMoves DEF LookupMatch, AppendOK, GiveUp
  <2>2. lefts'[w] = 0
    BY <2>1 DEF lefts, Left
  <2> QED
    BY <1>1, <1>4, <2>1, <2>2
<1>9. ASSUME NEW w \in Workers,
             \/ LookupMiss(w) \/ LookupFails(w) \/ AppendLost(w) \/ AppendFails(w)
             \/ Retry(w) \/ Expire(w)
      PROVE  RowsInv'
  <2>1. Moves(w) /\ UNCHANGED <<sheet, inFlight, begun>>
    BY <1>1, <1>9, GoMoves, OtherMoves
    DEF LookupMiss, LookupFails, AppendLost, AppendFails, Retry, Expire
  <2>2. Left(w)' <= Left(w)
    <3>1. CASE Retry(w)
      BY <1>1, <1>6, <3>1 DEF Retry, Left, TypeOK
    <3>2. CASE Expire(w)
      BY <1>1, <1>6, <3>2 DEF Expire, Left, TypeOK, Exports
    <3>3. CASE LookupMiss(w) \/ LookupFails(w) \/ AppendLost(w) \/ AppendFails(w)
      <4>1. export'[w].attempt = export[w].attempt
        BY <1>1, <3>3, GoKeepsAttempt DEF LookupMiss, LookupFails, AppendLost, AppendFails
      <4>2. \/ export[w].at = "lookup" /\ export'[w].at \in {"append", "failed"}
            \/ export[w].at \in {"appended", "append"} /\ export'[w].at = "failed"
        BY <1>1, <3>3, GoMoves DEF LookupMiss, LookupFails, AppendLost, AppendFails
      <4> QED
        BY <1>6, <4>1, <4>2 DEF Left
    <3> QED
      BY <1>9, <3>1, <3>2, <3>3
  <2> QED
    BY <1>4, <2>1, <2>2 DEF lefts
<1>10. ASSUME NEW w \in Workers, Apply(w) \/ AppendAbandoned(w)
       PROVE  RowsInv'
  <2>1. /\ Moves(w) /\ begun' = begun /\ export[w].at = "append"
        /\ export'[w].at \in {"appended", "failed"}
    BY <1>1, <1>10, GoMoves DEF Apply, AppendAbandoned
  <2>2. export'[w].attempt = export[w].attempt
    BY <1>1, <1>10, GoKeepsAttempt DEF Apply, AppendAbandoned
  <2>3. lefts'[w] < lefts[w]
    BY <1>6, <2>1, <2>2 DEF lefts, Left
  <2>4. export[w].row \in Rows
    BY <1>6 DEF Exports
  <2>5. /\ IsFiniteSet(Late(inFlight'))
        /\ Len(sheet') + Cardinality(Late(inFlight')) = Len(sheet) + F + 1
    <3>1. CASE Apply(w)
      BY <1>1, <1>2, <2>4, <3>1, AppendRange DEF Apply, TypeOK
    <3>2. CASE AppendAbandoned(w)
      <4>1. /\ inFlight' = [inFlight EXCEPT ![export[w].row] = @ + 1] /\ sheet' = sheet
            /\ inFlight \in [Rows -> Nat] /\ inFlight' \in [Rows -> Nat]
        BY <1>1, <3>2 DEF AppendAbandoned, TypeOK
      <4>2. IsFiniteSet(Late(inFlight')) /\ Cardinality(Late(inFlight')) = F + 1
        BY <1>2, <2>4, <4>1, LateChanges
      <4> QED
        BY <1>2, <4>1, <4>2
    <3> QED
      BY <1>10, <3>1, <3>2
  <2> QED
    BY <1>5, <2>1, <2>3, <2>5
<1>11. ASSUME NEW r \in Rows, ApplyLate(r)
       PROVE  RowsInv'
  <2>1. /\ inFlight[r] > 0 /\ inFlight' = [inFlight EXCEPT ![r] = @ - 1]
        /\ inFlight \in [Rows -> Nat] /\ inFlight' \in [Rows -> Nat]
        /\ UNCHANGED <<export, begun>>
    BY <1>1, <1>11 DEF ApplyLate, TypeOK
  <2>2. IsFiniteSet(Late(inFlight')) /\ Cardinality(Late(inFlight')) = F - 1
    BY <1>2, <2>1, LateChanges
  <2>3. Len(sheet') = Len(sheet) + 1
    BY <1>1, <1>11, AppendRange DEF ApplyLate, TypeOK
  <2>4. lefts' = lefts
    BY <2>1 DEF lefts, Left
  <2> QED
    BY <1>2, <2>1, <2>2, <2>3, <2>4 DEF RowsInv
<1>12. CASE UNCHANGED vars
  BY <1>12 DEF vars, RowsInv, lefts, Left
<1> QED
  BY <1>7, <1>8, <1>9, <1>10, <1>11, <1>12 DEF Next, Fails, Finished

(* However many answers are lost or late, and whatever the lookup can see, *)
(* an export adds no more rows than it may make attempts                   *)
(* (AppendRowWithRetry).                                                   *)
THEOREM RowsBounded == Spec => []RowsPerExport
<1>1. Init => RowsInv
  <2> SUFFICES ASSUME Init
               PROVE  RowsInv
    OBVIOUS
  <2>1. Late(inFlight) = {} /\ Tickets(lefts) = {}
    BY DEF Init, Late, Tickets, lefts, Left
  <2>2. IsFiniteSet({}) /\ Cardinality({}) = 0
    BY FS_EmptySet
  <2>3. Len(sheet) = 0 /\ begun = 0
    BY DEF Init
  <2> QED
    BY <2>1, <2>2, <2>3, CountAssumption DEF RowsInv
<1>2. IInv /\ RowsInv => RowsPerExport
  <2> SUFFICES ASSUME IInv, RowsInv
               PROVE  RowsPerExport
    OBVIOUS
  <2>1. /\ Cardinality(Late(inFlight)) \in Nat /\ Cardinality(Tickets(lefts)) \in Nat
        /\ Len(sheet) \in Nat /\ begun * (MaxRetries + 1) \in Nat
    BY TicketsFinite, FS_CardinalityType, CountAssumption DEF IInv, TypeOK, RowsInv
  <2> QED
    BY <2>1 DEF RowsInv, RowsPerExport
<1> QED
  BY <1>1, <1>2, RowsNext, Invariance, PTL DEF Spec
=============================================================================
