--------------------------- MODULE UploadPathProofs ---------------------------
(***************************************************************************)
(* Proofs about UploadPath for any uploads and other users of the tab      *)
(* list, any formats and any timeouts.                                     *)
(***************************************************************************)
EXTENDS UploadPath, QueueLemmas

Everybody == Uploads \cup Others

(* The age that a request may reach before it is answered.                 *)
Due(r) == ReadTimeout + ConvertTimeout + r.turns * FetchTime

(* What a request has spent and may still spend in its stage is within the *)
(* deadlines of the stages so far.                                         *)
InTime(r) ==
    /\ r.at = "reading" => r.age + r.left <= ReadTimeout
    /\ r.at = "converting" => r.age + r.left <= ReadTimeout + ConvertTimeout
    /\ r.at = "enqueue" => r.age <= Due(r)

(* Who is in line for tabsMu has a turn to spare for everybody before it.  *)
Turns ==
    \A i \in 1 .. Len(line) : line[i] \in Uploads =>
        upload[line[i]].age + held + (i - 1) * FetchTime <= Due(upload[line[i]])

InLine ==
    /\ IsInjective(line)
    /\ \A u \in Uploads : u \in Range(line) <=> upload[u].at = "tabs"

UploadInv ==
    /\ TypeOK
    /\ InLine
    /\ \A u \in Uploads : InTime(upload[u])
    /\ Turns
-----------------------------------------------------------------------------
(* Every place further back costs one more turn.                           *)
LEMMA TurnFacts ==
    ASSUME NEW i \in Nat
    PROVE  /\ i * FetchTime \in Nat /\ (i + 1) * FetchTime \in Nat
           /\ (i + 1) * FetchTime = i * FetchTime + FetchTime
  BY TimeAssumption

LEMMA DueFacts ==
    ASSUME NEW r \in UploadFields
    PROVE  Due(r) \in Nat /\ Due(r) >= ReadTimeout + ConvertTimeout
<1> DEFINE X == r.turns * FetchTime
<1>1. X \in Nat
  BY TimeAssumption DEF UploadFields
<1>2. Due(r) = ReadTimeout + ConvertTimeout + X
  BY DEF Due
<1> HIDE DEF X
<1> QED
  BY <1>1, <1>2, TimeAssumption

(* What the steps of one request need to know of it.                       *)
LEMMA UploadFacts ==
    ASSUME UploadInv, NEW u \in Uploads
    PROVE  /\ TypeOK /\ upload \in [Uploads -> UploadFields] /\ upload[u] \in UploadFields
           /\ upload[u].age \in Nat /\ upload[u].left \in Nat /\ upload[u].turns \in Nat
           /\ InTime(upload[u])
  BY TimeAssumption DEF UploadInv, TypeOK, UploadFields

(* An answer ends the request and touches no other.                        *)
LEMMA AnswerFacts ==
    ASSUME TypeOK, NEW u \in Uploads, NEW from, NEW code \in Codes, Answer(u, from, code)
    PROVE  /\ upload' \in [Uploads -> UploadFields]
           /\ upload[u].at = from /\ upload'[u].at = "done"
           /\ \A v \in Uploads \ {u} : upload'[v] = upload[v]
<1> DEFINE heard == upload[u].connected /\ upload[u].age < WriteTimeout
           r == [upload[u] EXCEPT !.at = "done", !.code = code, !.heard = heard,
                                  !.left = 0, !.age = 0, !.turns = 0, !.tab = NoTab]
<1>1. upload' = [upload EXCEPT ![u] = r] /\ upload[u].at = from
  BY Zenon DEF Answer, At
<1>2. upload \in [Uploads -> UploadFields] /\ upload[u] \in UploadFields
  BY DEF TypeOK
<1>3. heard \in BOOLEAN
  OBVIOUS
<1> HIDE DEF heard
<1>4. r \in UploadFields
  <2>1. /\ "done" \in Places /\ code \in Codes \cup {0} /\ NoTab \in Tabs \cup {NoTab}
        /\ 0 \in 0 .. ReadTimeout + ConvertTimeout
    BY TimeAssumption DEF Places
  <2> QED
    BY <1>2, <1>3, <2>1 DEF UploadFields
<1>5. r.at = "done"
  BY <1>2 DEF UploadFields
<1> HIDE DEF r
<1> QED
  BY <1>1, <1>2, <1>4, <1>5

(* Going on changes where the request is, and stops its timer.             *)
LEMMA GoFacts ==
    ASSUME TypeOK, NEW u \in Uploads, NEW from, NEW to \in Places, Go(u, from, to)
    PROVE  /\ upload' \in [Uploads -> UploadFields]
           /\ upload[u].at = from /\ upload'[u].at = to
           /\ upload'[u].age = upload[u].age /\ Due(upload'[u]) = Due(upload[u])
           /\ \A v \in Uploads \ {u} : upload'[v] = upload[v]
<1> DEFINE r == [upload[u] EXCEPT !.at = to, !.left = 0]
<1>1. upload \in [Uploads -> UploadFields] /\ upload[u] \in UploadFields
  BY DEF TypeOK
<1>2. 0 \in 0 .. ReadTimeout + ConvertTimeout
  BY TimeAssumption
<1>3. /\ r \in UploadFields /\ r.at = to /\ r.age = upload[u].age
      /\ r.turns = upload[u].turns
  BY <1>1, <1>2 DEF UploadFields
<1>4. upload' = [upload EXCEPT ![u] = r] /\ upload[u].at = from
  BY Zenon DEF Go, At
<1> HIDE DEF r
<1> QED
  BY <1>1, <1>3, <1>4 DEF Due

(* A step of one request that is in no line, or keeps its place there.     *)
LEMMA OneUpload ==
    ASSUME UploadInv, NEW u \in Uploads, NotListing,
           upload' \in [Uploads -> UploadFields],
           \A v \in Uploads \ {u} : upload'[v] = upload[v],
           (upload[u].at = "tabs") <=> (upload'[u].at = "tabs"),
           upload[u].at = "tabs" =>
             upload'[u].age = upload[u].age /\ upload'[u].turns = upload[u].turns,
           InTime(upload'[u])
    PROVE  UploadInv'
<1>1. TypeOK' /\ line' = line /\ held' = held
  BY DEF UploadInv, TypeOK, NotListing, Settings
<1>2. InLine'
  BY <1>1 DEF UploadInv, InLine
<1>3. \A v \in Uploads : InTime(upload[v])'
  <2>1. \A v \in Uploads : InTime(upload'[v])
    BY DEF UploadInv
  <2> QED
    BY <2>1 DEF InTime, Due
<1>4. Turns'
  <2> SUFFICES ASSUME NEW i \in 1 .. Len(line), line[i] \in Uploads
               PROVE  upload'[line[i]].age + held + (i - 1) * FetchTime
                        <= Due(upload'[line[i]])
    BY <1>1 DEF Turns, Due
  <2>1. line[i] \in Range(line)
    BY DEF Range, UploadInv, TypeOK
  <2>2. /\ upload'[line[i]].age = upload[line[i]].age
        /\ Due(upload'[line[i]]) = Due(upload[line[i]])
    BY <2>1 DEF UploadInv, InLine, Due
  <2> QED
    BY <2>2 DEF UploadInv, Turns
<1> QED
  BY <1>1, <1>2, <1>3, <1>4 DEF UploadInv

(* The line gets longer by c, who is given a turn for everybody in it.     *)
LEMMA JoinInv ==
    ASSUME UploadInv, NEW c \in Everybody, c \notin Range(line), Join(c),
           upload' \in [Uploads -> UploadFields], cached' \in BOOLEAN,
           UNCHANGED Settings,
           \A v \in Uploads \ {c} : upload'[v] = upload[v],
           c \in Uploads => /\ upload'[c].at = "tabs"
                            /\ upload'[c].age <= ReadTimeout + ConvertTimeout
                            /\ upload'[c].turns = Len(line) + 1
    PROVE  UploadInv'
<1> USE TimeAssumption
<1>1. /\ line \in Seq(Everybody) /\ Len(line) \in Nat /\ held \in 0 .. FetchTime
      /\ IsInjective(line)
  BY DEF UploadInv, TypeOK, Everybody, InLine
<1>2. /\ line' = Append(line, c)
      /\ line' \in Seq(Everybody)
      /\ Range(line') = Range(line) \cup {c}
      /\ IsInjective(line')
  BY <1>1, SendFacts DEF Join
<1>3. held' \in 0 .. FetchTime /\ (line # <<>> => held' = held)
  BY <1>1 DEF Join
<1>4. TypeOK'
  BY <1>2, <1>3 DEF UploadInv, TypeOK, Everybody, Settings
<1>5. InLine'
  BY <1>2 DEF UploadInv, InLine
<1>6. \A v \in Uploads : InTime(upload[v])'
  <2>1. \A v \in Uploads : InTime(upload'[v])
    BY DEF UploadInv, InTime
  <2> QED
    BY <2>1 DEF InTime, Due
<1>7. Turns'
  <2> SUFFICES ASSUME NEW i \in 1 .. Len(line'), line'[i] \in Uploads
               PROVE  upload'[line'[i]].age + held' + (i - 1) * FetchTime
                        <= Due(upload'[line'[i]])
    BY DEF Turns, Due
  <2>1. CASE i \in 1 .. Len(line)
    <3>1. line'[i] = line[i] /\ line[i] \in Range(line) /\ line # <<>>
      BY <1>1, <1>2, <2>1 DEF Range
    <3>2. upload'[line[i]] = upload[line[i]] /\ held' = held
      BY <1>3, <3>1
    <3>3. upload[line[i]].age + held + (i - 1) * FetchTime <= Due(upload[line[i]])
      BY <2>1, <3>1 DEF UploadInv, Turns
    <3> QED
      BY <3>1, <3>2, <3>3
  <2>2. CASE i = Len(line) + 1
    <3> DEFINE X == Len(line) * FetchTime
    <3>1. line'[i] = c /\ c \in Uploads
      BY <1>1, <1>2, <2>2
    <3>2. X \in Nat /\ (Len(line) + 1) * FetchTime = X + FetchTime /\ (i - 1) * FetchTime = X
      BY <1>1, <2>2, TurnFacts
    <3>3. Due(upload'[c]) = ReadTimeout + ConvertTimeout + (X + FetchTime)
      BY <3>1, <3>2 DEF Due
    <3>4. upload'[c].age \in Nat /\ upload'[c].age <= ReadTimeout + ConvertTimeout
      BY <3>1 DEF UploadFields
    <3> HIDE DEF X
    <3>5. upload'[c].age + held' + X <= Due(upload'[c])
      BY <1>3, <3>2, <3>3, <3>4
    <3> QED
      BY <3>1, <3>2, <3>5
  <2> QED
    BY <1>1, <1>2, <2>1, <2>2
<1> QED
  BY <1>4, <1>5, <1>6, <1>7 DEF UploadInv

(* The first of the line, c, leaves it and everybody moves up.             *)
LEMMA LeaveInv ==
    ASSUME UploadInv, NEW c, Holds(c), Leave,
           upload' \in [Uploads -> UploadFields], cached' \in BOOLEAN,
           UNCHANGED Settings,
           \A v \in Uploads \ {c} : upload'[v] = upload[v],
           c \in Uploads => upload'[c].at # "tabs" /\ InTime(upload'[c])
    PROVE  UploadInv'
<1> USE TimeAssumption
<1>1. /\ line \in Seq(Everybody) /\ line # <<>> /\ Len(line) \in Nat \ {0}
      /\ held \in 0 .. FetchTime /\ IsInjective(line) /\ c = Head(line)
  BY DEF UploadInv, TypeOK, Everybody, InLine, Holds
<1>2. /\ line' = Tail(line) /\ held' = FetchTime
      /\ line' \in Seq(Everybody)
      /\ Range(line') = Range(line) \ {c}
      /\ IsInjective(line')
  BY <1>1, ReceiveFacts DEF Leave
<1>3. TypeOK'
  BY <1>2 DEF UploadInv, TypeOK, Everybody, Settings
<1>4. InLine'
  BY <1>2 DEF UploadInv, InLine
<1>5. \A v \in Uploads : InTime(upload[v])'
  <2>1. \A v \in Uploads : InTime(upload'[v])
    BY DEF UploadInv
  <2> QED
    BY <2>1 DEF InTime, Due
<1>6. Turns'
  <2> SUFFICES ASSUME NEW i \in 1 .. Len(line'), line'[i] \in Uploads
               PROVE  upload'[line'[i]].age + held' + (i - 1) * FetchTime
                        <= Due(upload'[line'[i]])
    BY DEF Turns, Due
  <2>1. /\ i + 1 \in 1 .. Len(line) /\ line'[i] = line[i + 1] /\ i - 1 \in Nat
        /\ line'[i] \in Range(line')
    <3>1. /\ Len(line') = Len(line) - 1
          /\ \A k \in 1 .. Len(line) - 1 : line'[k] = line[k + 1]
      BY <1>1, <1>2
    <3>2. i \in 1 .. Len(line) - 1 /\ DOMAIN line' = 1 .. Len(line')
      BY <1>2, <3>1
    <3> QED
      BY <1>1, <3>1, <3>2 DEF Range
  <2> DEFINE v == line[i + 1]
             X == (i - 1) * FetchTime
  <2>2. v # c /\ v \in Uploads /\ upload'[v] = upload[v]
    BY <1>2, <2>1
  <2>3. upload[v] \in UploadFields /\ upload[v].age \in Nat /\ Due(upload[v]) \in Nat
    BY <2>2, UploadFacts, DueFacts
  <2>4. upload[v].age + held + ((i + 1) - 1) * FetchTime <= Due(upload[v])
    BY <2>1 DEF UploadInv, Turns
  <2>5. X \in Nat /\ ((i + 1) - 1) * FetchTime = X + FetchTime
    <3>1. (i + 1) - 1 = (i - 1) + 1
      BY <2>1
    <3> QED
      BY <2>1, <3>1, TurnFacts
  <2> HIDE DEF v, X
  <2>6. upload[v].age + FetchTime + X <= Due(upload[v])
    BY <1>1, <2>3, <2>4, <2>5
  <2> QED
    BY <1>2, <2>1, <2>2, <2>6 DEF v, X
<1> QED
  BY <1>3, <1>4, <1>5, <1>6 DEF UploadInv
-----------------------------------------------------------------------------
(* The steps that answer outside of the line.                              *)
LEMMA AnsweringInv ==
    ASSUME UploadInv, NEW u \in Uploads,
           \/ ReadFails(u) \/ RefuseFlawed(u) \/ RefuseFormat(u) \/ RefuseTab(u)
           \/ ConvertFails(u) \/ ConvertTimesOut(u) \/ Accept(u) \/ QueueFull(u)
    PROVE  UploadInv'
<1>1. ASSUME NEW from \in Places \ {"tabs"}, NEW code \in Codes, Answer(u, from, code),
             NotListing
      PROVE  UploadInv'
  <2>1. /\ upload' \in [Uploads -> UploadFields]
        /\ upload[u].at = from /\ upload'[u].at = "done"
        /\ \A v \in Uploads \ {u} : upload'[v] = upload[v]
    BY <1>1, AnswerFacts, UploadFacts
  <2>2. InTime(upload'[u])
    BY <2>1 DEF InTime
  <2> QED
    BY <1>1, <2>1, <2>2, OneUpload
<1>2. CASE RefuseFlawed(u)
  <2>1. \A flaw \in DOMAIN Flaws : Flaws[flaw] \in Codes
    BY DEF Flaws, Codes
  <2> QED
    BY <1>1, <1>2, <2>1 DEF RefuseFlawed, Places
<1> QED
  BY <1>1, <1>2
  DEF ReadFails, RefuseFormat, RefuseTab, ConvertFails, ConvertTimesOut, Accept, QueueFull,
      Places, Codes

(* A request begins, or its client goes.                                   *)
LEMMA ArriveInv ==
    ASSUME UploadInv, NEW u \in Uploads, Arrive(u) \/ Disconnect(u)
    PROVE  UploadInv'
<1> USE TimeAssumption
<1>1. CASE Arrive(u)
  <2>1. PICK f \in Files, t \in Tabs \cup {NoTab} :
          upload' = [upload EXCEPT ![u] = Request("reading", f, t)]
    BY <1>1 DEF Arrive
  <2> DEFINE r == Request("reading", f, t)
  <2>2. /\ r \in UploadFields /\ r.at = "reading" /\ r.left = ReadTimeout /\ r.age = 0
    BY DEF Request, UploadFields, Places
  <2> HIDE DEF r
  <2>3. /\ upload' \in [Uploads -> UploadFields] /\ upload'[u] = r
        /\ \A v \in Uploads \ {u} : upload'[v] = upload[v]
    BY <2>1, <2>2, UploadFacts DEF r
  <2>4. InTime(r)
    BY <2>2 DEF InTime
  <2>5. upload[u].at = "idle" /\ NotListing
    BY <1>1 DEF Arrive, At
  <2> QED
    BY <2>2, <2>3, <2>4, <2>5, OneUpload
<1>2. CASE Disconnect(u)
  <2> DEFINE r == [upload[u] EXCEPT !.connected = FALSE]
  <2>1. /\ r \in UploadFields /\ r.at = upload[u].at /\ r.left = upload[u].left
        /\ r.age = upload[u].age /\ r.turns = upload[u].turns
    BY UploadFacts DEF UploadFields
  <2>2. upload' = [upload EXCEPT ![u] = r] /\ NotListing
    BY <1>2, Zenon DEF Disconnect
  <2> HIDE DEF r
  <2>3. /\ upload' \in [Uploads -> UploadFields] /\ upload'[u] = r
        /\ \A v \in Uploads \ {u} : upload'[v] = upload[v]
    BY <2>1, <2>2, UploadFacts
  <2>4. InTime(r)
    BY <2>1, UploadFacts DEF InTime, Due
  <2> QED
    BY <2>1, <2>2, <2>3, <2>4, OneUpload
<1> QED
  BY <1>1, <1>2

(* The conversion begins with all of its time.                             *)
LEMMA TakeFormatInv ==
    ASSUME UploadInv, NEW u \in Uploads, TakeFormat(u)
    PROVE  UploadInv'
<1> USE TimeAssumption
<1> DEFINE r == [upload[u] EXCEPT !.at = "converting", !.left = ConvertTimeout]
<1>1. upload[u].at = "reading" /\ NotListing /\ upload' = [upload EXCEPT ![u] = r]
  BY Zenon DEF TakeFormat, At
<1>2. ConvertTimeout \in 0 .. ReadTimeout + ConvertTimeout
  OBVIOUS
<1>3. /\ r \in UploadFields /\ r.at = "converting" /\ r.left = ConvertTimeout
      /\ r.age = upload[u].age
  BY <1>2, UploadFacts DEF UploadFields, Places
<1> HIDE DEF r
<1>4. /\ upload' \in [Uploads -> UploadFields] /\ upload'[u] = r
      /\ \A v \in Uploads \ {u} : upload'[v] = upload[v]
  BY <1>1, <1>3, UploadFacts
<1>5. upload[u].age <= ReadTimeout
  BY <1>1, UploadFacts DEF InTime
<1>6. InTime(r)
  BY <1>3, <1>5, UploadFacts DEF InTime
<1> QED
  BY <1>1, <1>3, <1>4, <1>6, OneUpload

(* A converted upload goes on to the queue or to the check of its tab.     *)
LEMMA ConvertOKInv ==
    ASSUME UploadInv, NEW u \in Uploads, ConvertOK(u)
    PROVE  UploadInv'
<1> USE TimeAssumption
<1>1. upload[u].at = "converting" /\ cached' = cached /\ UNCHANGED Settings
  BY DEF ConvertOK, Go, AskForTab, At
<1>2. upload[u].age \in Nat /\ upload[u].age <= ReadTimeout + ConvertTimeout
  BY <1>1, UploadFacts DEF InTime
<1>3. CASE Go(u, "converting", "enqueue") /\ UNCHANGED <<line, held>>
  <2>1. /\ upload' \in [Uploads -> UploadFields] /\ upload'[u].at = "enqueue"
        /\ upload'[u].age = upload[u].age
        /\ \A v \in Uploads \ {u} : upload'[v] = upload[v]
    BY <1>3, GoFacts, UploadFacts DEF Places
  <2>2. Due(upload'[u]) \in Nat /\ Due(upload'[u]) >= ReadTimeout + ConvertTimeout
    BY <2>1, DueFacts
  <2>3. InTime(upload'[u])
    BY <1>2, <2>1, <2>2 DEF InTime
  <2> QED
    BY <1>1, <1>3, <2>1, <2>3, OneUpload DEF NotListing
<1>4. CASE AskForTab(u) /\ Join(u)
  <2> DEFINE r == [upload[u] EXCEPT !.at = "tabs", !.left = 0, !.turns = Len(line) + 1]
  <2>1. upload' = [upload EXCEPT ![u] = r]
    BY <1>4, Zenon DEF AskForTab
  <2>2. Len(line) + 1 \in Nat /\ 0 \in 0 .. ReadTimeout + ConvertTimeout /\ "tabs" \in Places
    BY DEF UploadInv, TypeOK, Places
  <2>3. /\ r \in UploadFields /\ r.at = "tabs" /\ r.age = upload[u].age
        /\ r.turns = Len(line) + 1
    BY <2>2, UploadFacts DEF UploadFields
  <2> HIDE DEF r
  <2>4. /\ upload' \in [Uploads -> UploadFields] /\ upload'[u] = r
        /\ \A v \in Uploads \ {u} : upload'[v] = upload[v]
    BY <2>1, <2>3, UploadFacts
  <2>5. u \in Everybody /\ u \notin Range(line) /\ cached' \in BOOLEAN
    BY <1>1 DEF UploadInv, InLine, Everybody, TypeOK
  <2> QED
    BY <1>1, <1>2, <1>4, <2>3, <2>4, <2>5, JoinInv
<1> QED
  BY <1>3, <1>4 DEF ConvertOK

(* Whoever is first in line has its tab judged and leaves.                 *)
LEMMA JudgedInv ==
    ASSUME UploadInv, NEW u \in Uploads, Judged(u)
    PROVE  UploadInv'
<1>1. /\ Holds(u) /\ Leave /\ UNCHANGED Settings
      /\ Go(u, "tabs", "enqueue") \/ Answer(u, "tabs", 400)
      /\ cached' \in BOOLEAN
  BY DEF Judged, TabsHit, TabsFetched, TabsUnchecked, JudgeTab, UploadInv, TypeOK
<1>2. CASE Go(u, "tabs", "enqueue")
  <2>1. /\ upload' \in [Uploads -> UploadFields] /\ upload'[u].at = "enqueue"
        /\ upload'[u].age = upload[u].age /\ Due(upload'[u]) = Due(upload[u])
        /\ \A v \in Uploads \ {u} : upload'[v] = upload[v]
    BY <1>2, UploadFacts, GoFacts DEF Places
  <2>2. 1 \in 1 .. Len(line) /\ line[1] = u /\ held \in Nat
    BY <1>1, TimeAssumption DEF Holds, UploadInv, TypeOK
  <2>3. upload[u].age + held + (1 - 1) * FetchTime <= Due(upload[u])
    BY <2>2 DEF UploadInv, Turns
  <2>4. (1 - 1) * FetchTime = 0
    BY TimeAssumption
  <2>5. upload[u].age \in Nat /\ Due(upload[u]) \in Nat
    BY UploadFacts, DueFacts
  <2>6. upload[u].age <= Due(upload[u])
    BY <2>2, <2>3, <2>4, <2>5
  <2>7. InTime(upload'[u])
    BY <2>1, <2>6 DEF InTime
  <2> QED
    BY <1>1, <2>1, <2>7, LeaveInv
<1>3. CASE Answer(u, "tabs", 400)
  <2>1. /\ upload' \in [Uploads -> UploadFields] /\ upload'[u].at = "done"
        /\ \A v \in Uploads \ {u} : upload'[v] = upload[v]
    BY <1>3, AnswerFacts, UploadFacts DEF Codes
  <2>2. InTime(upload'[u])
    BY <2>1 DEF InTime
  <2> QED
    BY <1>1, <2>1, <2>2, LeaveInv
<1> QED
  BY <1>1, <1>2, <1>3

(* The other users of the list, its age and the end of the process.        *)
LEMMA OthersInv ==
    ASSUME UploadInv,
           \/ \E c \in Others : OtherAsks(c) \/ OtherServed(c)
           \/ TabsExpire \/ Exit \/ Terminated \/ UNCHANGED vars
    PROVE  UploadInv'
<1>1. upload \in [Uploads -> UploadFields] /\ cached \in BOOLEAN
  BY DEF UploadInv, TypeOK
<1>2. ASSUME NEW c \in Others, OtherAsks(c)
      PROVE  UploadInv'
  <2>1. /\ c \in Everybody /\ c \notin Uploads /\ c \notin Range(line) /\ Join(c)
        /\ upload' = upload /\ cached' = cached /\ UNCHANGED Settings
    BY <1>2, CallersAssumption DEF OtherAsks, Everybody
  <2> QED
    BY <1>1, <2>1, JoinInv
<1>3. ASSUME NEW c \in Others, OtherServed(c)
      PROVE  UploadInv'
  <2>1. /\ c \notin Uploads /\ Holds(c) /\ Leave
        /\ upload' = upload /\ cached' \in BOOLEAN /\ UNCHANGED Settings
    BY <1>1, <1>3, CallersAssumption DEF OtherServed
  <2> QED
    BY <1>1, <2>1, LeaveInv
<1>4. CASE TabsExpire \/ Exit \/ Terminated \/ UNCHANGED vars
  <2>1. /\ upload' = upload /\ line' = line /\ held' = held
        /\ cached' \in BOOLEAN /\ enabled' = enabled /\ running' \in BOOLEAN
    BY <1>1, <1>4 DEF TabsExpire, Exit, Terminated, vars, Settings, UploadInv, TypeOK
  <2>2. TypeOK' /\ InLine' /\ Turns'
    BY <2>1 DEF UploadInv, TypeOK, InLine, Turns, Due
  <2>3. \A u \in Uploads : InTime(upload[u])'
    BY <2>1 DEF UploadInv, InTime, Due
  <2> QED
    BY <2>2, <2>3 DEF UploadInv
<1> QED
  BY <1>2, <1>3, <1>4

(* A second passes: every request that is in a stage, or waits its turn,   *)
(* has it to spare.                                                        *)
LEMMA UploadTickInv ==
    ASSUME UploadInv, Tick
    PROVE  UploadInv'
<1> USE TimeAssumption
<1>1. /\ upload \in [Uploads -> UploadFields] /\ line' = line
      /\ upload' = [u \in Uploads |-> Elapsed(u)]
      /\ line # <<>> => held > 0 /\ held' = held - 1
      /\ line = <<>> => held' = held
      /\ held \in 0 .. FetchTime /\ UNCHANGED <<cached, Settings>>
  BY DEF UploadInv, TypeOK, Tick
<1>2. ASSUME NEW u \in Uploads
      PROVE  /\ upload'[u] \in UploadFields /\ upload'[u].at = upload[u].at
             /\ upload[u].at = "tabs" => /\ upload'[u].age = upload[u].age + 1
                                         /\ upload'[u].turns = upload[u].turns
             /\ InTime(upload'[u])
  <2> DEFINE r == upload[u]
             d == [r EXCEPT !.left = Less(@), !.age = @ + 1]
  <2>1. /\ r \in UploadFields /\ r.age \in Nat /\ r.left \in Nat
        /\ InTime(r) /\ MayWait(u) /\ r.at \in Places
    BY UploadFacts DEF UploadFields, Tick
  <2>2. CASE r.at \in {"idle", "done"}
    <3>1. upload'[u] = r
      BY <1>1, <2>2 DEF Elapsed
    <3> QED
      BY <2>1, <2>2, <3>1
  <2>3. CASE r.at \in {"reading", "converting", "tabs"}
    <3>1. upload'[u] = d
      BY <1>1, <2>3 DEF Elapsed
    <3>2. Less(r.left) \in 0 .. ReadTimeout + ConvertTimeout /\ r.age + 1 \in Nat
      BY <2>1 DEF Less, UploadFields
    <3>3. /\ d \in UploadFields /\ d.at = r.at /\ d.left = Less(r.left)
          /\ d.age = r.age + 1 /\ d.turns = r.turns
      BY <2>1, <3>2 DEF UploadFields
    <3> HIDE DEF d
    <3>4. r.at \in {"reading", "converting"} => d.left = r.left - 1
      BY <2>1, <3>3 DEF MayWait, Less
    <3>5. InTime(d)
      BY <2>1, <2>3, <3>3, <3>4 DEF InTime
    <3> QED
      BY <3>1, <3>3, <3>5
  <2> QED
    BY <2>1, <2>2, <2>3 DEF Places, MayWait
<1>3. upload' \in [Uploads -> UploadFields]
  BY <1>1, <1>2
<1>4. TypeOK'
  BY <1>1, <1>3 DEF UploadInv, TypeOK, Settings
<1>5. InLine'
  BY <1>1, <1>2 DEF UploadInv, InLine
<1>6. \A u \in Uploads : InTime(upload[u])'
  <2>1. \A u \in Uploads : InTime(upload'[u])
    BY <1>2
  <2> QED
    BY <2>1 DEF InTime, Due
<1>7. Turns'
  <2> SUFFICES ASSUME NEW i \in 1 .. Len(line), line[i] \in Uploads
               PROVE  upload'[line[i]].age + held' + (i - 1) * FetchTime
                        <= Due(upload'[line[i]])
    BY <1>1 DEF Turns, Due
  <2> DEFINE X == (i - 1) * FetchTime
             u == line[i]
  <2>1. X \in Int
    OBVIOUS
  <2>2. line # <<>> /\ u \in Range(line)
    BY DEF UploadInv, TypeOK, Range
  <2>3. upload[u].at = "tabs" /\ upload[u].age + held + X <= Due(upload[u])
    BY <2>2 DEF UploadInv, InLine, Turns
  <2>4. upload[u].age \in Nat /\ Due(upload[u]) \in Nat
    BY UploadFacts, DueFacts
  <2>5. upload'[u].age = upload[u].age + 1 /\ Due(upload'[u]) = Due(upload[u])
    BY <1>2, <2>3 DEF Due
  <2> HIDE DEF X
  <2>6. upload'[u].age + held' + X <= Due(upload'[u])
    BY <1>1, <2>1, <2>2, <2>3, <2>4, <2>5
  <2> QED
    BY <2>6 DEF X
<1> QED
  BY <1>4, <1>5, <1>6, <1>7 DEF UploadInv
-----------------------------------------------------------------------------
LEMMA UploadInitInv == Init => UploadInv
<1> SUFFICES ASSUME Init
             PROVE  UploadInv
  OBVIOUS
<1> USE TimeAssumption
<1> DEFINE r == Request("idle", {}, NoTab)
<1>1. r \in UploadFields /\ r.at = "idle"
  BY DEF Request, UploadFields, Places
<1> HIDE DEF r
<1>2. \A u \in Uploads : upload[u] = r
  BY DEF Init, r
<1>3. upload \in [Uploads -> UploadFields]
  BY <1>1 DEF Init, r
<1>4. TypeOK
  <2>1. line \in Seq(Uploads \cup Others) /\ held \in 0 .. FetchTime
    BY DEF Init
  <2>2. cached \in BOOLEAN /\ enabled \in BOOLEAN /\ running \in BOOLEAN
    BY Zenon DEF Init
  <2> QED
    BY <1>3, <2>1, <2>2 DEF TypeOK
<1>5. InLine /\ Turns
  BY <1>1, <1>2 DEF Init, InLine, Turns, IsInjective, Range
<1>6. InTime(r)
  BY <1>1 DEF InTime
<1> QED
  BY <1>2, <1>4, <1>5, <1>6 DEF UploadInv

LEMMA UploadNextInv == UploadInv /\ [Next]_vars => UploadInv'
<1> SUFFICES ASSUME UploadInv, [Next]_vars
             PROVE  UploadInv'
  OBVIOUS
<1>1. CASE \E u \in Uploads : \/ ReadFails(u) \/ RefuseFlawed(u) \/ RefuseFormat(u)
                              \/ RefuseTab(u) \/ ConvertFails(u) \/ ConvertTimesOut(u)
                              \/ Accept(u) \/ QueueFull(u)
  BY <1>1, AnsweringInv
<1>2. CASE \E u \in Uploads : Arrive(u) \/ Disconnect(u)
  BY <1>2, ArriveInv
<1>3. CASE \E u \in Uploads : TakeFormat(u) \/ ConvertOK(u) \/ Judged(u)
  BY <1>3, TakeFormatInv, ConvertOKInv, JudgedInv
<1>4. CASE \/ \E c \in Others : OtherAsks(c) \/ OtherServed(c)
           \/ TabsExpire \/ Exit \/ Terminated \/ UNCHANGED vars
  BY <1>4, OthersInv
<1>5. CASE Tick
  BY <1>5, UploadTickInv
<1> QED
  BY <1>1, <1>2, <1>3, <1>4, <1>5 DEF Next

(* What every request in flight has spent is paid for by its stages and by *)
(* the turns it was given at tabsMu.                                       *)
THEOREM UploadInvariance == Spec => []UploadInv
<1>1. Init => UploadInv
  BY UploadInitInv
<1>2. UploadInv /\ [Next]_vars => UploadInv'
  BY UploadNextInv
<1> QED
  BY <1>1, <1>2, PTL DEF Spec

(* The deadlines stay within their timeouts, and tabsMu is never held for  *)
(* longer than one fetch (tabInfos).                                       *)
THEOREM UploadTypes == Spec => []TypeOK
<1>1. UploadInv => TypeOK
  BY DEF UploadInv
<1> QED
  BY <1>1, UploadInvariance, PTL

(* Under any timeouts and with any number of uploads and other callers, a  *)
(* handler that has not answered has spent no more than its stages and one *)
(* fetch per turn at tabsMu (SubmitJobHandler, Convert, tabInfos).         *)
THEOREM AnswersInTime == Spec => []AnsweredInTime
<1>1. UploadInv => AnsweredInTime
  <2> SUFFICES ASSUME UploadInv, NEW u \in Uploads, upload[u].at \notin {"idle", "done"}
               PROVE  upload[u].age <= Due(upload[u])
    BY DEF AnsweredInTime, Due
  <2> USE TimeAssumption
  <2> DEFINE r == upload[u]
  <2>1. /\ r.at \in {"reading", "converting", "tabs", "enqueue"}
        /\ r.left \in Nat /\ r.age \in Nat /\ InTime(r)
    BY UploadFacts DEF UploadFields, Places
  <2>2. Due(r) \in Nat /\ Due(r) >= ReadTimeout + ConvertTimeout
    BY UploadFacts, DueFacts
  <2>3. CASE r.at \in {"reading", "converting", "enqueue"}
    BY <2>1, <2>2, <2>3 DEF InTime
  <2>4. CASE r.at = "tabs"
    <3>1. PICK i \in 1 .. Len(line) : line[i] = u
      BY <2>4 DEF UploadInv, InLine, TypeOK, Range
    <3>2. r.age + held + (i - 1) * FetchTime <= Due(r)
      BY <3>1 DEF UploadInv, Turns
    <3>3. held \in Nat /\ i - 1 \in Nat
      BY <3>1 DEF UploadInv, TypeOK
    <3>4. (i - 1) * FetchTime \in Nat
      BY <3>3
    <3> QED
      BY <2>1, <2>2, <3>2, <3>3, <3>4
  <2> QED
    BY <2>1, <2>3, <2>4
<1> QED
  BY <1>1, UploadInvariance, PTL
===============================================================================
