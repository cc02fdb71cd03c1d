---------------------------- MODULE SheetsCaches ----------------------------
(***************************************************************************)
(* What the sheets client remembers (internal/sheets): the tabs, the       *)
(* categories and the access token, each under a mutex that is held over   *)
(* the HTTP calls that fetch it.  Callers are the request handlers and the *)
(* workers; their contexts can end a call to Google, but not the wait for  *)
(* a mutex.                                                                *)
(***************************************************************************)
EXTENDS Integers

CONSTANTS
    Callers,
    Nobody,         \* who holds a mutex that is free
    Tabs,
    NoTab,
    TabsTTL,        \* tabsCacheTTL
    CatsTTL,        \* the hour that categories are kept
    TokenLife,      \* expires_in
    Margin,         \* the minute before expiry in which a token is not used
    CallTime,       \* the timeout of the HTTP client
    MaxRanges       \* bound on the ranges that the dropdowns of a tab name

ASSUME NobodyAssumption == Nobody \notin Callers
ASSUME NoTabAssumption == NoTab \notin Tabs
ASSUME TimeAssumption ==
    /\ TabsTTL \in Nat \ {0}
    /\ CatsTTL \in Nat \ {0}
    /\ CallTime \in Nat
    /\ Margin \in Nat
    /\ TokenLife \in Nat
    /\ TokenLife > Margin
    /\ TokenLife >= CallTime
    /\ MaxRanges \in Nat

VARIABLES
    call,       \* what each caller asked for, and how far it is
    http,       \* its current call to Google, and its access token
    ranges,     \* how many ranges it has yet to read
    answer,     \* the list it was given: whose it is, and how old
    lock,       \* who holds tabsMu, catsMu and the mutex of the token
    cache,
    token

vars == <<call, http, ranges, answer, lock, cache, token>>

Caches == {"tabs", "cats"}
TTL == [tabs |-> TabsTTL, cats |-> CatsTTL]

(* tabs is what Tabs, TabExists and sheetIDFor ask.  plain is a call that  *)
(* needs a token and no list: RowMatches, AppendRow and the formatting.    *)
Questions == [kind : {"cats"}, tab : Tabs] \cup [kind : {"tabs", "plain"}, tab : {NoTab}]

Resting == {"idle", "answered"}
Fetching == {"fetch", "range"}
Calling == {"exchange"} \cup Fetching
Places == Resting \cup {"queued", "wantToken"} \cup Calling

(* left: the time until the call times out.  read: the time since Google   *)
(* served it, or the first of a list's calls.  tok: what is left of the    *)
(* life of the caller's token, at Google.  used is an observer: the time   *)
(* since the caller was given that token.                                  *)
Https ==
    [left : 0 .. CallTime, served : BOOLEAN, read : Nat, tok : 0 .. TokenLife, used : Nat]
NoCall == [left |-> 0, served |-> FALSE, read |-> 0, tok |-> 0, used |-> 0]

(* The clock of an entry, age, starts when the answer has arrived.         *)
Entries == [has : BOOLEAN, of : Tabs \cup {NoTab}, age : Nat, read : Nat]
NoEntry == [has |-> FALSE, of |-> NoTab, age |-> 0, read |-> 0]

TypeOK ==
    /\ call \in [Callers -> [at : Places, ask : Questions]]
    /\ http \in [Callers -> Https]
    /\ ranges \in [Callers -> 0 .. MaxRanges]
    /\ answer \in [Callers -> [of : Tabs \cup {NoTab}, read : Nat]]
    /\ lock \in [{"tabs", "cats", "token"} -> Callers \cup {Nobody}]
    /\ cache \in [Caches -> Entries]
    /\ token \in [life : 0 .. TokenLife, valid : 0 .. TokenLife]

NoQuestion == [kind |-> "plain", tab |-> NoTab]
NoAnswer == [of |-> NoTab, read |-> 0]

Init ==
    /\ call = [p \in Callers |-> [at |-> "idle", ask |-> NoQuestion]]
    /\ http = [p \in Callers |-> NoCall]
    /\ ranges = [p \in Callers |-> 0]
    /\ answer = [p \in Callers |-> NoAnswer]
    /\ lock = [m \in {"tabs", "cats", "token"} |-> Nobody]
    /\ cache = [c \in Caches |-> NoEntry]
    /\ token = [life |-> 0, valid |-> 0]
-----------------------------------------------------------------------------
At(p) == call[p].at
Kind(p) == call[p].ask.kind

Fresh(c) == cache[c].has /\ cache[c].age < TTL[c]

Go(p, from, to) ==
    /\ At(p) = from
    /\ call' = [call EXCEPT ![p].at = to]

(* The deferred unlocks of whatever p still holds.                         *)
Unlocked(p) == [m \in DOMAIN lock |-> IF lock[m] = p THEN Nobody ELSE lock[m]]

Ask(p, q) ==
    /\ At(p) \in Resting
    /\ call' = [call EXCEPT ![p] =
         [at |-> IF q.kind \in Caches THEN "queued" ELSE "wantToken", ask |-> q]]
    /\ answer' = [answer EXCEPT ![p] = NoAnswer]
    /\ UNCHANGED <<http, ranges, lock, cache, token>>

(* Plausible bugs in Hit and Miss: the entry lives on with every use, and  *)
(* the entry is not looked at again once the mutex is held.                *)
HitProlongs(p) ==
    LET c == Kind(p) IN
    /\ Go(p, "queued", "answered")
    /\ lock[c] = Nobody
    /\ Fresh(c)
    /\ answer' = [answer EXCEPT ![p] = [of |-> cache[c].of, read |-> cache[c].read]]
    /\ cache' = [cache EXCEPT ![c].age = 0]
    /\ UNCHANGED <<http, ranges, lock, token>>

MissUnchecked(p) ==
    /\ Go(p, "queued", "wantToken")
    /\ lock[Kind(p)] = Nobody
    /\ lock' = [lock EXCEPT ![Kind(p)] = p]
    /\ UNCHANGED <<http, ranges, answer, cache, token>>

(* The category cache is asked for no tab in particular.                   *)
Hit(p) ==
    LET c == Kind(p) IN
    /\ Go(p, "queued", "answered")
    /\ lock[c] = Nobody
    /\ Fresh(c)
    /\ answer' = [answer EXCEPT ![p] = [of |-> cache[c].of, read |-> cache[c].read]]
    /\ UNCHANGED <<http, ranges, lock, cache, token>>

Miss(p) ==
    /\ Go(p, "queued", "wantToken")
    /\ lock[Kind(p)] = Nobody
    /\ ~Fresh(Kind(p))
    /\ lock' = [lock EXCEPT ![Kind(p)] = p]
    /\ UNCHANGED <<http, ranges, answer, cache, token>>

(* No time passes between the check of the token and the request.          *)
Send(p, tok) == http' = [http EXCEPT ![p] = [NoCall EXCEPT !.left = CallTime, !.tok = tok]]

(* The next request of a list goes out with the same token, unchecked.     *)
SendNext(p) == http' = [http EXCEPT ![p].left = CallTime, ![p].served = FALSE]

(* A plausible bug: a token is used to the end of its life.                *)
TokenHitNoMargin(p) ==
    /\ Go(p, "wantToken", "fetch")
    /\ lock["token"] = Nobody
    /\ token.life > 0
    /\ Send(p, token.valid)
    /\ UNCHANGED <<ranges, answer, lock, cache, token>>

TokenHit(p) ==
    /\ Go(p, "wantToken", "fetch")
    /\ lock["token"] = Nobody
    /\ token.life > Margin
    /\ Send(p, token.valid)
    /\ UNCHANGED <<ranges, answer, lock, cache, token>>

TokenMiss(p) ==
    /\ Go(p, "wantToken", "exchange")
    /\ lock["token"] = Nobody
    /\ token.life <= Margin
    /\ Send(p, 0)
    /\ lock' = [lock EXCEPT !["token"] = p]
    /\ UNCHANGED <<ranges, answer, cache, token>>

(* Google issues the token, or reads the sheet, before the answer arrives. *)
Serve(p) ==
    /\ At(p) \in {"exchange", "fetch"}
    /\ At(p) = "fetch" => http[p].tok > 0
    /\ ~http[p].served
    /\ http' = [http EXCEPT ![p].served = TRUE]
    /\ UNCHANGED <<call, ranges, answer, lock, cache, token>>

ExchangeOK(p) ==
    LET tok == TokenLife - http[p].read IN
    /\ Go(p, "exchange", "fetch")
    /\ http[p].served
    /\ token' = [life |-> TokenLife, valid |-> tok]
    /\ lock' = [lock EXCEPT !["token"] = Nobody]
    /\ Send(p, tok)
    /\ UNCHANGED <<ranges, answer, cache>>

PlainOK(p) ==
    /\ Kind(p) = "plain"
    /\ Go(p, "fetch", "idle")
    /\ http[p].served
    /\ http' = [http EXCEPT ![p] = NoCall]
    /\ UNCHANGED <<ranges, answer, lock, cache, token>>

(* The list is complete: it is kept, unless it is nil, and given out.      *)
Store(p, has) ==
    /\ cache' = [cache EXCEPT ![Kind(p)] =
         IF has THEN [has |-> TRUE, of |-> call[p].ask.tab, age |-> 0, read |-> http[p].read]
                ELSE NoEntry]
    /\ answer' = [answer EXCEPT ![p] = [of |-> call[p].ask.tab, read |-> http[p].read]]
    /\ lock' = [lock EXCEPT ![Kind(p)] = Nobody]
    /\ http' = [http EXCEPT ![p] = NoCall]
    /\ ranges' = [ranges EXCEPT ![p] = 0]
    /\ UNCHANGED token

(* An empty list of tabs is not nil.                                       *)
TabsOK(p) ==
    /\ Kind(p) = "tabs"
    /\ Go(p, "fetch", "answered")
    /\ http[p].served
    /\ Store(p, TRUE)

(* The dropdowns name values, and ranges to read with the same token.      *)
CatsOK(p, found) ==
    /\ Kind(p) = "cats"
    /\ Go(p, "fetch", "answered")
    /\ http[p].served
    /\ Store(p, found)

CatsRanges(p, n) ==
    /\ Kind(p) = "cats"
    /\ Go(p, "fetch", "range")
    /\ http[p].served
    /\ ranges' = [ranges EXCEPT ![p] = n]
    /\ SendNext(p)
    /\ UNCHANGED <<answer, lock, cache, token>>

(* A plausible bug: a range that could not be read is asked for again.     *)
NextRangeAgain(p) ==
    /\ Go(p, "range", "range")
    /\ ranges[p] > 1
    /\ ranges' \in {ranges, [ranges EXCEPT ![p] = @ - 1]}
    /\ SendNext(p)
    /\ UNCHANGED <<answer, lock, cache, token>>

(* One readRange, and the next.  If it fails, what it would have given is  *)
(* left out; whether anything was found is settled when the last is done.  *)
NextRange(p) ==
    /\ Go(p, "range", "range")
    /\ ranges[p] > 1
    /\ ranges' = [ranges EXCEPT ![p] = @ - 1]
    /\ SendNext(p)
    /\ UNCHANGED <<answer, lock, cache, token>>

LastRange(p, found) ==
    /\ Go(p, "range", "answered")
    /\ ranges[p] = 1
    /\ Store(p, found)

(* A plausible bug: an error path leaves the mutexes locked.               *)
FailLocked(p) ==
    /\ At(p) \in {"exchange", "fetch"}
    /\ call' = [call EXCEPT ![p] = [at |-> "idle", ask |-> NoQuestion]]
    /\ http' = [http EXCEPT ![p] = NoCall]
    /\ UNCHANGED <<ranges, answer, lock, cache, token>>

(* The call fails, times out or is cancelled.  What is cached stays.       *)
Fail(p) ==
    /\ At(p) \in {"exchange", "fetch"}
    /\ call' = [call EXCEPT ![p] = [at |-> "idle", ask |-> NoQuestion]]
    /\ http' = [http EXCEPT ![p] = NoCall]
    /\ lock' = Unlocked(p)
    /\ UNCHANGED <<ranges, answer, cache, token>>

(* Every clock moves.  An entry is not looked at once it has expired.      *)
Less(n) == IF n > 0 THEN n - 1 ELSE 0

Aged(c) == IF cache[c].has /\ cache[c].age < TTL[c]
           THEN [cache[c] EXCEPT !.age = @ + 1, !.read = @ + 1] ELSE cache[c]

Elapsed(p) ==
    IF At(p) \in Calling
    THEN [left |-> http[p].left - 1, served |-> http[p].served,
          read |-> http[p].read + (IF http[p].served \/ At(p) = "range" THEN 1 ELSE 0),
          tok |-> Less(http[p].tok),
          used |-> http[p].used + (IF At(p) \in Fetching THEN 1 ELSE 0)]
    ELSE http[p]

(* A plausible bug, as with a client that has no timeout.                  *)
NeverTimedOut(p) == FALSE

TimedOut(p) == At(p) \in Calling /\ http[p].left = 0

Tick ==
    /\ \A p \in Callers : ~TimedOut(p)
    /\ http' = [p \in Callers |-> Elapsed(p)]
    /\ cache' = [c \in Caches |-> Aged(c)]
    /\ token' = [life |-> Less(token.life), valid |-> Less(token.valid)]
    /\ UNCHANGED <<call, ranges, answer, lock>>

Acquire(p) == Hit(p) \/ Miss(p)

AcquireToken(p) == TokenHit(p) \/ TokenMiss(p)

ReadRange(p) == NextRange(p) \/ \E found \in BOOLEAN : LastRange(p, found)

Next ==
    \/ \E p \in Callers :
         \/ \E q \in Questions : Ask(p, q)
         \/ Acquire(p) \/ AcquireToken(p)
         \/ Serve(p)
         \/ ExchangeOK(p) \/ PlainOK(p) \/ TabsOK(p)
         \/ \E found \in BOOLEAN : CatsOK(p, found)
         \/ \E n \in 1 .. MaxRanges : CatsRanges(p, n)
         \/ ReadRange(p)
         \/ Fail(p)
    \/ Tick

Spec == Init /\ [][Next]_vars

(* Google need never answer.  A mutex is not taken past a waiter forever:  *)
(* sync.Mutex hands over to the first one after a millisecond.             *)
Fairness ==
    /\ WF_vars(Tick)
    /\ \A p \in Callers :
         /\ SF_vars(Acquire(p) \/ AcquireToken(p))
         /\ WF_vars(http[p].left = 0 /\ (Fail(p) \/ ReadRange(p)))

FairSpec == Spec /\ Fairness
-----------------------------------------------------------------------------
(* How long calls in a row can take, and how long Google's values can be   *)
(* underway: a list of categories takes a call, and one for each range.    *)
CallsTime(n) == n * CallTime

FetchTime(c) == IF c = "tabs" THEN CallTime ELSE CallsTime(MaxRanges + 1)

(* A list that is handed out was what the sheet said at most the TTL and   *)
(* the time of its fetch ago, whoever fetched it and however often it is   *)
(* asked for (tabInfos, TypeCategories).                                   *)
AnswersCurrent ==
    \A p \in Callers :
        At(p) = "answered" /\ Kind(p) \in Caches =>
            answer[p].read < TTL[Kind(p)] + FetchTime(Kind(p))

(* Callers that wait while a list is fetched do not fetch it again: Google *)
(* is asked only while there is no list to give out.                       *)
FetchOnlyWhenStale ==
    \A p \in Callers :
        At(p) \in {"wantToken"} \cup Calling /\ Kind(p) \in Caches => ~Fresh(Kind(p))

(* The margin, less the time by which a token's clock may be late, is how  *)
(* long a token that was checked once is good for the requests it is sent  *)
(* with: a chain of range reads sends an expired token only after that,    *)
(* whatever is refreshed meanwhile (token, TypeCategories, readRange).     *)
TokensValid ==
    \A p \in Callers :
        At(p) \in Fetching /\ http[p].used + CallTime <= Margin => http[p].tok > 0

(* The mutex that a caller is about to take, and whether it must wait.     *)
Wants(p) == IF At(p) = "queued" THEN Kind(p) ELSE "token"

Blocked(p) == At(p) \in {"queued", "wantToken"} /\ lock[Wants(p)] # Nobody

(* There is no circular wait and no forgotten unlock: whoever holds the    *)
(* mutex that a caller waits for is in a call to Google, or takes the      *)
(* mutex of the token, and whoever holds that one is in an exchange        *)
(* (tabInfos, TypeCategories, token, and their error paths).               *)
HoldersProceed ==
    \A p \in Callers : Blocked(p) =>
        LET holder == lock[Wants(p)] IN
        \/ At(holder) \in Calling
        \/ /\ Wants(p) \in Caches /\ At(holder) = "wantToken"
           /\ Blocked(holder) => At(lock["token"]) = "exchange"

(* How much longer the calls to Google that a caller has begun can last,   *)
(* with those that may have to follow.                                     *)
Remaining(p) ==
    http[p].left +
        CASE At(p) = "exchange" -> FetchTime(IF Kind(p) = "cats" THEN "cats" ELSE "tabs")
          [] At(p) = "fetch"    -> IF Kind(p) = "cats" THEN CallsTime(MaxRanges) ELSE 0
          [] At(p) = "range"    -> CallsTime(ranges[p] - 1)

(* The calls that are made with a mutex held use up a time that was fixed  *)
(* when the first of them began, however they end and whatever the others  *)
(* do: none is made twice (token, tabInfos, TypeCategories, readRange).    *)
HoldsRunOut ==
    [][\A p \in Callers : At(p) \in Calling /\ At(p)' \in Calling =>
         Remaining(p)' <= Remaining(p) - (IF Tick THEN 1 ELSE 0)]_vars

(* Nobody waits forever for a mutex, although it is held over calls that   *)
(* may all fail, and callers that keep coming back compete for it.         *)
CallsReturn == \A p \in Callers : At(p) \notin Resting ~> At(p) \in Resting

(* The comment on TypeCategories: it returns the values for the given tab. *)
CategoriesOfTab ==
    \A p \in Callers :
        At(p) = "answered" /\ Kind(p) = "cats" => answer[p].of = call[p].ask.tab
=============================================================================
