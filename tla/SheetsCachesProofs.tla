------------------------- MODULE SheetsCachesProofs -------------------------
(***************************************************************************)
(* Proofs about the caches of the sheets client, for any number of callers *)
(* and any lifetimes and timeouts.                                         *)
(***************************************************************************)
EXTENDS SheetsCaches, TLAPS

(* A caller that has missed, until it returns.                             *)
Working(p) == At(p) \in {"wantToken"} \cup Calling

(* What a caller's place says about the mutexes and about its question.    *)
Position(p) ==
    /\ At(p) = "queued" => Kind(p) \in Caches
    /\ At(p) = "exchange" => lock["token"] = p
    /\ At(p) = "range" => Kind(p) = "cats" /\ ranges[p] >= 1
    /\ Working(p) /\ Kind(p) \in Caches => lock[Kind(p)] = p /\ ~Fresh(Kind(p))

(* What Google served is no older than the calls since took.               *)
ReadClock(p) ==
    /\ At(p) \in {"exchange", "fetch"} => http[p].read + http[p].left <= CallTime
    /\ At(p) = "range" =>
         http[p].read + http[p].left + CallsTime(ranges[p] - 1)
             <= CallsTime(MaxRanges + 1)

(* What is left of a token's life and what the caller has used of it leave *)
(* the margin covered, but for the time of the exchange.                   *)
TokenClock(p) ==
    At(p) \in Fetching => http[p].tok + http[p].used + CallTime > Margin

(* An answer's age, from its entry's.                                      *)
AnswerClock(p) ==
    At(p) = "answered" /\ Kind(p) \in Caches =>
        answer[p].read < TTL[Kind(p)] + FetchTime(Kind(p))

EntryClock(c) == cache[c].has => cache[c].read <= cache[c].age + FetchTime(c)

CachedTokenClock == token.life <= token.valid + CallTime

IInv ==
    /\ TypeOK
    /\ \A p \in Callers : Position(p)
    /\ \A p \in Callers : ReadClock(p)
    /\ \A p \in Callers : TokenClock(p)
    /\ \A p \in Callers : AnswerClock(p)
    /\ \A c \in Caches : EntryClock(c)
    /\ CachedTokenClock
-----------------------------------------------------------------------------
(* Arithmetic on the time that calls in a row take.                        *)
LEMMA CallsTimes ==
    ASSUME NEW n \in Nat
    PROVE  /\ CallsTime(n) \in Nat
           /\ CallsTime(n + 1) = CallsTime(n) + CallTime
           /\ CallsTime(0) = 0
BY TimeAssumption, SMT DEF CallsTime

LEMMA CallsTimeMonotone ==
    ASSUME NEW m \in Nat, NEW n \in Nat, m <= n
    PROVE  CallsTime(m) <= CallsTime(n)
<1>1. PICK d \in Nat : n = m + d
  BY SMT
<1>2. CallsTime(n) = CallsTime(m) + d * CallTime
  BY <1>1, TimeAssumption, SMT DEF CallsTime
<1>3. d * CallTime \in Nat
  BY TimeAssumption, SMT
<1> QED
  BY <1>2, <1>3, CallsTimes, SMT
-----------------------------------------------------------------------------
(* The places, one by one.                                                 *)
LEMMA AllPlaces ==
    Places = {"idle", "answered", "queued", "wantToken", "exchange", "fetch", "range"}
BY DEF Places, Resting, Calling, Fetching

(* Moving on leaves the questions as they are.                             *)
LEMMA GoTyped ==
    ASSUME TypeOK, NEW p \in Callers, NEW from, NEW to \in Places, Go(p, from, to)
    PROVE  call' \in [Callers -> [at : Places, ask : Questions]]
BY DEF TypeOK, Go

(* Sending a request leaves the calls well formed.                         *)
LEMMA SendTyped ==
    ASSUME TypeOK, NEW p \in Callers, NEW tok \in 0 .. TokenLife, Send(p, tok)
    PROVE  http' \in [Callers -> Https]
<1> DEFINE r == [NoCall EXCEPT !.left = CallTime, !.tok = tok]
<1>1. r \in Https
  <2>1. CallTime \in 0 .. CallTime /\ 0 \in 0 .. CallTime /\ 0 \in Nat
    BY TimeAssumption
  <2> QED
    BY <2>1 DEF NoCall, Https
<1>2. http \in [Callers -> Https] /\ http' = [http EXCEPT ![p] = r]
  BY DEF TypeOK, Send
<1> HIDE DEF r
<1> QED
  BY <1>1, <1>2

LEMMA SendNextTyped ==
    ASSUME TypeOK, NEW p \in Callers, SendNext(p)
    PROVE  http' \in [Callers -> Https]
<1> DEFINE r == [http[p] EXCEPT !.left = CallTime, !.served = FALSE]
<1>1. http \in [Callers -> Https] /\ http[p] \in Https
  BY DEF TypeOK
<1>2. r \in Https
  <2>1. CallTime \in 0 .. CallTime
    BY TimeAssumption
  <2> QED
    BY <1>1, <2>1 DEF Https
<1>3. http' = [http EXCEPT ![p] = r]
  BY Zenon DEF SendNext
<1> HIDE DEF r
<1> QED
  BY <1>1, <1>2, <1>3

(* So does giving out a list.                                              *)
LEMMA StoreTyped ==
    ASSUME TypeOK, NEW p \in Callers, NEW has \in BOOLEAN, Kind(p) \in Caches,
           Store(p, has)
    PROVE  /\ http' \in [Callers -> Https]
           /\ ranges' \in [Callers -> 0 .. MaxRanges]
           /\ answer' \in [Callers -> [of : Tabs \cup {NoTab}, read : Nat]]
           /\ lock' \in [{"tabs", "cats", "token"} -> Callers \cup {Nobody}]
           /\ cache' \in [Caches -> Entries]
           /\ token' = token
<1>1. call[p].ask.tab \in Tabs \cup {NoTab} /\ http[p].read \in Nat
  BY DEF TypeOK, Questions, Https
<1>2. NoCall \in Https /\ 0 \in 0 .. MaxRanges
  BY TimeAssumption DEF NoCall, Https
<1>3. cache' \in [Caches -> Entries]
  BY <1>1 DEF Store, TypeOK, Entries, NoEntry, Kind
<1>4. lock' \in [{"tabs", "cats", "token"} -> Callers \cup {Nobody}]
  BY DEF Store, TypeOK, Caches, Kind
<1> QED
  BY <1>1, <1>2, <1>3, <1>4 DEF Store, TypeOK

(* No step takes the state out of its types.                               *)
LEMMA TypeStep ==
    ASSUME TypeOK, \A p \in Callers : Position(p) /\ ReadClock(p), [Next]_vars
    PROVE  TypeOK'
<1>0. CASE UNCHANGED vars
  BY <1>0 DEF vars, TypeOK
<1>1. ASSUME NEW p \in Callers, NEW q \in Questions, Ask(p, q)  PROVE TypeOK'
  <2>1. call' \in [Callers -> [at : Places, ask : Questions]]
    BY <1>1, AllPlaces DEF Ask, TypeOK
  <2> QED
    BY <1>1, <2>1 DEF Ask, TypeOK, NoAnswer
<1>2. ASSUME NEW p \in Callers, Hit(p)  PROVE TypeOK'
  <2>1. Kind(p) \in Caches
    BY <1>2 DEF Hit, Position, Go
  <2>2. cache[Kind(p)].of \in Tabs \cup {NoTab} /\ cache[Kind(p)].read \in Nat
    BY <2>1 DEF TypeOK, Entries
  <2> QED
    BY <1>2, <2>1, <2>2, GoTyped, AllPlaces DEF Hit, TypeOK
<1>3. ASSUME NEW p \in Callers, Miss(p)  PROVE TypeOK'
  BY <1>3, GoTyped, AllPlaces DEF Miss, TypeOK
<1>4. ASSUME NEW p \in Callers, TokenHit(p)  PROVE TypeOK'
  <2>1. http' \in [Callers -> Https]
    BY <1>4, SendTyped DEF TokenHit, TypeOK
  <2> QED
    BY <1>4, <2>1, GoTyped, AllPlaces DEF TokenHit, TypeOK
<1>5. ASSUME NEW p \in Callers, TokenMiss(p)  PROVE TypeOK'
  <2>1. http' \in [Callers -> Https]
    BY <1>5, SendTyped, TimeAssumption DEF TokenMiss
  <2> QED
    BY <1>5, <2>1, GoTyped, AllPlaces DEF TokenMiss, TypeOK
<1>6. ASSUME NEW p \in Callers, Serve(p)  PROVE TypeOK'
  BY <1>6 DEF Serve, TypeOK, Https
<1>7. ASSUME NEW p \in Callers, ExchangeOK(p)  PROVE TypeOK'
  <2>1. TokenLife - http[p].read \in 0 .. TokenLife
    BY <1>7, TimeAssumption DEF ExchangeOK, Go, ReadClock, TypeOK, Https
  <2>2. http' \in [Callers -> Https]
    BY <1>7, <2>1, SendTyped DEF ExchangeOK
  <2> QED
    BY <1>7, <2>1, <2>2, TimeAssumption, GoTyped, AllPlaces DEF ExchangeOK, TypeOK
<1>8. ASSUME NEW p \in Callers, PlainOK(p)  PROVE TypeOK'
  BY <1>8, TimeAssumption, GoTyped, AllPlaces DEF PlainOK, TypeOK, NoCall, Https
<1>9. ASSUME NEW p \in Callers, TabsOK(p)  PROVE TypeOK'
  BY <1>9, StoreTyped, GoTyped, AllPlaces DEF TabsOK, TypeOK, Caches
<1>10. ASSUME NEW p \in Callers, NEW found \in BOOLEAN, CatsOK(p, found)
       PROVE  TypeOK'
  BY <1>10, StoreTyped, GoTyped, AllPlaces DEF CatsOK, TypeOK, Caches
<1>11. ASSUME NEW p \in Callers, NEW n \in 1 .. MaxRanges,
              CatsRanges(p, n)
       PROVE  TypeOK'
  <2>1. http' \in [Callers -> Https]
    BY <1>11, SendNextTyped DEF CatsRanges
  <2>2. ranges' \in [Callers -> 0 .. MaxRanges]
    BY <1>11, TimeAssumption DEF CatsRanges, TypeOK
  <2> QED
    BY <1>11, <2>1, <2>2, GoTyped, AllPlaces DEF CatsRanges, TypeOK
<1>12. ASSUME NEW p \in Callers, NextRange(p)
       PROVE  TypeOK'
  <2>1. http' \in [Callers -> Https]
    BY <1>12, SendNextTyped DEF NextRange
  <2>2. ranges[p] - 1 \in 0 .. MaxRanges
    BY <1>12, TimeAssumption DEF NextRange, TypeOK
  <2>3. ranges' \in [Callers -> 0 .. MaxRanges]
    BY <1>12, <2>2 DEF NextRange, TypeOK
  <2> QED
    BY <1>12, <2>1, <2>3, GoTyped, AllPlaces DEF NextRange, TypeOK
<1>13. ASSUME NEW p \in Callers, NEW found \in BOOLEAN, LastRange(p, found)
       PROVE  TypeOK'
  <2>1. Kind(p) \in Caches
    BY <1>13 DEF LastRange, Go, Position, Caches, TypeOK
  <2> QED
    BY <1>13, <2>1, StoreTyped, GoTyped, AllPlaces DEF LastRange, TypeOK
<1>14. ASSUME NEW p \in Callers, Fail(p)  PROVE TypeOK'
  <2>1. NoCall \in Https /\ NoQuestion \in Questions
    BY TimeAssumption DEF NoCall, Https, NoQuestion, Questions
  <2>2. lock' \in [{"tabs", "cats", "token"} -> Callers \cup {Nobody}]
    BY <1>14 DEF Fail, Unlocked, TypeOK
  <2> QED
    BY <1>14, <2>1, <2>2, AllPlaces DEF Fail, TypeOK
<1>15. CASE Tick
  <2>1. http' \in [Callers -> Https]
    <3>1. ASSUME NEW p \in Callers  PROVE Elapsed(p) \in Https
      <4>1. CASE At(p) \notin Calling
        BY <4>1 DEF Elapsed, TypeOK
      <4>2. CASE At(p) \in Calling
        <5>1. http[p].left > 0
          BY <1>15, <4>2 DEF Tick, TimedOut, TypeOK, Https
        <5> QED
          BY <4>2, <5>1, TimeAssumption DEF Elapsed, TypeOK, Https, Less
      <4> QED
        BY <4>1, <4>2
    <3> QED
      BY <1>15, <3>1 DEF Tick
  <2>2. cache' \in [Caches -> Entries]
    <3>1. ASSUME NEW c \in Caches  PROVE Aged(c) \in Entries
      <4>1. cache[c] \in Entries
        BY DEF TypeOK
      <4>2. CASE cache[c].has /\ cache[c].age < TTL[c]
        <5>1. cache[c].age + 1 \in Nat /\ cache[c].read + 1 \in Nat
          BY <4>1 DEF Entries
        <5>2. Aged(c) = [[cache[c] EXCEPT !.age = cache[c].age + 1]
                                   EXCEPT !.read = cache[c].read + 1]
          BY <4>1, <4>2 DEF Aged, Entries
        <5>3. [cache[c] EXCEPT !.age = cache[c].age + 1] \in Entries
          BY <4>1, <5>1 DEF Entries
        <5> QED
          BY <5>1, <5>2, <5>3 DEF Entries
      <4>3. CASE ~(cache[c].has /\ cache[c].age < TTL[c])
        BY <4>1, <4>3 DEF Aged
      <4> QED
        BY <4>2, <4>3
    <3> QED
      BY <1>15, <3>1 DEF Tick
  <2>3. token' \in [life : 0 .. TokenLife, valid : 0 .. TokenLife]
    BY <1>15, TimeAssumption DEF Tick, Less, TypeOK
  <2> QED
    BY <1>15, <2>1, <2>2, <2>3 DEF Tick, TypeOK
<1> QED
  BY <1>0, <1>1, <1>2, <1>3, <1>4, <1>5, <1>6, <1>7, <1>8, <1>9, <1>10, <1>11, <1>12,
     <1>13, <1>14, <1>15
  DEF Next, Acquire, AcquireToken, ReadRange
-----------------------------------------------------------------------------
(* What the parts of a step do.                                            *)
LEMMA GoEffect ==
    ASSUME TypeOK, NEW p \in Callers, NEW from, NEW to, Go(p, from, to)
    PROVE  /\ At(p) = from
           /\ call'[p].at = to
           /\ call'[p].ask = call[p].ask
           /\ \A r \in Callers \ {p} : call'[r] = call[r]
BY DEF TypeOK, Go, At

LEMMA SendEffect ==
    ASSUME TypeOK, NEW p \in Callers, NEW tok, Send(p, tok)
    PROVE  /\ http'[p].left = CallTime
           /\ http'[p].read = 0
           /\ http'[p].tok = tok
           /\ http'[p].used = 0
           /\ \A r \in Callers \ {p} : http'[r] = http[r]
BY DEF TypeOK, Send, NoCall

LEMMA SendNextEffect ==
    ASSUME TypeOK, NEW p \in Callers, SendNext(p)
    PROVE  /\ http'[p].left = CallTime
           /\ http'[p].read = http[p].read
           /\ http'[p].tok = http[p].tok
           /\ http'[p].used = http[p].used
           /\ \A r \in Callers \ {p} : http'[r] = http[r]
BY DEF TypeOK, SendNext, Https

LEMMA StoreEffect ==
    ASSUME TypeOK, NEW p \in Callers, NEW has \in BOOLEAN, Kind(p) \in Caches,
           Store(p, has)
    PROVE  /\ answer'[p].read = http[p].read
           /\ lock'[Kind(p)] = Nobody
           /\ cache'[Kind(p)].has => cache'[Kind(p)].age = 0 /\ cache'[Kind(p)].read = http[p].read
           /\ \A m \in {"tabs", "cats", "token"} \ {Kind(p)} : lock'[m] = lock[m]
           /\ \A c \in Caches \ {Kind(p)} : cache'[c] = cache[c]
           /\ \A r \in Callers \ {p} :
                http'[r] = http[r] /\ ranges'[r] = ranges[r] /\ answer'[r] = answer[r]
           /\ token' = token
<1>1. lock'[Kind(p)] = Nobody
  BY DEF Store, TypeOK, Caches
<1>2. \A m \in {"tabs", "cats", "token"} \ {Kind(p)} : lock'[m] = lock[m]
  BY DEF Store, TypeOK
<1>3. \A c \in Caches \ {Kind(p)} : cache'[c] = cache[c]
  BY DEF Store, TypeOK
<1>4. cache'[Kind(p)].has => cache'[Kind(p)].age = 0 /\ cache'[Kind(p)].read = http[p].read
  BY DEF Store, TypeOK, NoEntry
<1> QED
  BY <1>1, <1>2, <1>3, <1>4 DEF Store, TypeOK

(* What a caller leaves alone: other callers, the mutexes they hold, and   *)
(* the lists it does not hold the mutex of.                                *)
Frame(p) ==
    /\ \A r \in Callers \ {p} :
         /\ call'[r] = call[r]
         /\ http'[r] = http[r]
         /\ ranges'[r] = ranges[r]
         /\ answer'[r] = answer[r]
    /\ \A m \in {"tabs", "cats", "token"} :
         lock'[m] = lock[m] \/ lock[m] \in {p, Nobody}
    /\ \A c \in Caches : cache'[c] = cache[c] \/ lock[c] = p

(* Whatever a caller does leaves the invariant true of the others.         *)
LEMMA Others ==
    ASSUME TypeOK, NEW p \in Callers, NEW r \in Callers, r # p, Frame(p),
           Position(r), ReadClock(r), TokenClock(r), AnswerClock(r)
    PROVE  Position(r)' /\ ReadClock(r)' /\ TokenClock(r)' /\ AnswerClock(r)'
<1>1. call'[r] = call[r] /\ http'[r] = http[r] /\ ranges'[r] = ranges[r] /\ answer'[r] = answer[r]
  BY DEF Frame
<1>2. At(r)' = At(r) /\ Kind(r)' = Kind(r)
  BY <1>1 DEF At, Kind
<1>3. Position(r)'
  <2>1. ASSUME NEW m \in {"tabs", "cats", "token"}, lock[m] = r  PROVE lock'[m] = r
    BY <2>1, NobodyAssumption DEF Frame
  <2>2. ASSUME NEW c \in Caches, lock[c] = r  PROVE cache'[c] = cache[c]
    BY <2>2 DEF Frame
  <2>3. Working(r)' = Working(r)
    BY <1>2 DEF Working
  <2>4. ASSUME Working(r), Kind(r) \in Caches
        PROVE  lock'[Kind(r)] = r /\ ~Fresh(Kind(r)) /\ cache'[Kind(r)] = cache[Kind(r)]
    BY <2>1, <2>2, <2>4 DEF Position, Caches
  <2>5. At(r) = "exchange" => lock'["token"] = r
    BY <2>1 DEF Position
  <2> QED
    BY <1>1, <1>2, <2>3, <2>4, <2>5 DEF Position, Fresh
<1>4. ReadClock(r)' /\ TokenClock(r)' /\ AnswerClock(r)'
  BY <1>1, <1>2 DEF ReadClock, TokenClock, AnswerClock
<1> QED
  BY <1>3, <1>4
-----------------------------------------------------------------------------
(* What a caller owes the invariant when it makes a step.                  *)
Own(p) ==
    /\ Frame(p)
    /\ Position(p)'
    /\ ReadClock(p)'
    /\ TokenClock(p)'
    /\ AnswerClock(p)'
    /\ \A c \in Caches : EntryClock(c)'
    /\ CachedTokenClock'

LEMMA Lifetimes ==
    ASSUME NEW c \in Caches
    PROVE  TTL[c] \in Nat \ {0} /\ FetchTime(c) \in Nat /\ CallTime <= FetchTime(c)
<1>1. CallsTime(MaxRanges + 1) \in Nat /\ CallTime <= CallsTime(MaxRanges + 1)
  <2>1. CallsTime(MaxRanges) \in Nat
    BY CallsTimes, TimeAssumption
  <2>2. CallsTime(MaxRanges + 1) = CallsTime(MaxRanges) + CallTime
    BY CallsTimes, TimeAssumption
  <2> QED
    BY <2>1, <2>2, TimeAssumption
<1>2. CASE c = "tabs"
  BY <1>2, TimeAssumption DEF TTL, FetchTime
<1>3. CASE c = "cats"
  BY <1>1, <1>3, TimeAssumption DEF TTL, FetchTime
<1> QED
  BY <1>2, <1>3 DEF Caches

(* Asking a question, at rest.                                             *)
LEMMA AskOwn ==
    ASSUME IInv, NEW p \in Callers, NEW q \in Questions, Ask(p, q)
    PROVE  Own(p)
<1>1. call'[p].at \in {"queued", "wantToken"} /\ call'[p].ask = q
  BY DEF Ask, IInv, TypeOK
<1>2. call'[p].at = "queued" <=> q.kind \in Caches
  BY DEF Ask, IInv, TypeOK
<1>3. Frame(p)
  BY DEF Ask, Frame, IInv, TypeOK
<1>4. cache' = cache /\ token' = token
  BY DEF Ask
<1> QED
  BY <1>1, <1>2, <1>3, <1>4
  DEF Own, IInv, Position, ReadClock, TokenClock, AnswerClock, EntryClock,
      CachedTokenClock, At, Kind, Working, Calling, Fetching

(* Being given the cached list.                                            *)
LEMMA HitOwn ==
    ASSUME IInv, NEW p \in Callers, Hit(p)
    PROVE  Own(p)
<1>1. TypeOK /\ Kind(p) \in Caches
  BY DEF Hit, Go, IInv, Position
<1>2. /\ call'[p].at = "answered" /\ call'[p].ask = call[p].ask
      /\ \A r \in Callers \ {p} : call'[r] = call[r]
  BY <1>1, GoEffect DEF Hit
<1>3. answer'[p].read = cache[Kind(p)].read
  BY <1>1 DEF Hit, TypeOK
<1>4. Frame(p)
  BY <1>1, <1>2 DEF Hit, Frame, TypeOK
<1>5. cache[Kind(p)].read < TTL[Kind(p)] + FetchTime(Kind(p))
  <2>1. cache[Kind(p)].read <= cache[Kind(p)].age + FetchTime(Kind(p))
    BY <1>1 DEF Hit, Fresh, IInv, EntryClock
  <2>2. cache[Kind(p)].age < TTL[Kind(p)]
    BY <1>1 DEF Hit, Fresh
  <2>3. cache[Kind(p)].read \in Nat /\ cache[Kind(p)].age \in Nat
    BY <1>1 DEF TypeOK, Entries
  <2> QED
    BY <1>1, <2>1, <2>2, <2>3, Lifetimes
<1>6. AnswerClock(p)'
  BY <1>2, <1>3, <1>5 DEF AnswerClock, At, Kind
<1>7. UNCHANGED <<cache, token>>
  BY DEF Hit
<1> QED
  BY <1>2, <1>4, <1>6, <1>7
  DEF Own, IInv, Position, ReadClock, TokenClock, EntryClock,
      CachedTokenClock, At, Working, Calling, Fetching

(* Taking the mutex of a list that is to be fetched.                       *)
LEMMA MissOwn ==
    ASSUME IInv, NEW p \in Callers, Miss(p)
    PROVE  Own(p)
<1>1. TypeOK /\ Kind(p) \in Caches
  BY DEF Miss, Go, IInv, Position
<1>2. /\ call'[p].at = "wantToken" /\ call'[p].ask = call[p].ask
      /\ \A r \in Callers \ {p} : call'[r] = call[r]
  BY <1>1, GoEffect DEF Miss
<1>3. lock'[Kind(p)] = p /\ UNCHANGED <<cache, token>> /\ ~Fresh(Kind(p))
  BY <1>1 DEF Miss, TypeOK, Caches
<1>4. Frame(p)
  BY <1>1, <1>2 DEF Miss, Frame, TypeOK
<1>5. Position(p)'
  BY <1>2, <1>3 DEF Position, Kind, At, Fresh
<1> QED
  BY <1>2, <1>3, <1>4, <1>5
  DEF Own, IInv, ReadClock, TokenClock, AnswerClock, EntryClock, CachedTokenClock, At, Fetching

(* A token that passes the check lives on for the margin, but for the time *)
(* by which its clock may be late.                                         *)
LEMMA TokenHitOwn ==
    ASSUME IInv, NEW p \in Callers, TokenHit(p)
    PROVE  Own(p)
<1>1. TypeOK
  BY DEF IInv
<1>2. /\ At(p) = "wantToken" /\ call'[p].at = "fetch" /\ call'[p].ask = call[p].ask
      /\ \A r \in Callers \ {p} : call'[r] = call[r]
  BY <1>1, GoEffect DEF TokenHit
<1>3. /\ http'[p].left = CallTime /\ http'[p].read = 0 /\ http'[p].tok = token.valid
      /\ http'[p].used = 0
      /\ \A r \in Callers \ {p} : http'[r] = http[r]
  BY <1>1, SendEffect DEF TokenHit
<1>4. UNCHANGED <<ranges, answer, lock, cache, token>>
  BY DEF TokenHit
<1>5. Frame(p)
  BY <1>2, <1>3, <1>4 DEF Frame
<1>6. Position(p)'
  BY <1>2, <1>4 DEF Position, IInv, Working, Calling, Fetching, Kind, At, Fresh
<1>7. ReadClock(p)'
  BY <1>2, <1>3, TimeAssumption DEF ReadClock, At
<1>8. TokenClock(p)'
  <2>1. token.life > Margin /\ token.life <= token.valid + CallTime
    BY DEF TokenHit, IInv, CachedTokenClock
  <2>2. token.valid + 0 + CallTime > Margin
    BY <1>1, <2>1, TimeAssumption DEF TypeOK
  <2> QED
    BY <1>2, <1>3, <2>2 DEF TokenClock, At
<1> QED
  BY <1>2, <1>4, <1>5, <1>6, <1>7, <1>8
  DEF Own, IInv, AnswerClock, EntryClock, CachedTokenClock, At

(* Taking the mutex of the token.                                          *)
LEMMA TokenMissOwn ==
    ASSUME IInv, NEW p \in Callers, TokenMiss(p)
    PROVE  Own(p)
<1>1. TypeOK
  BY DEF IInv
<1>2. /\ At(p) = "wantToken" /\ call'[p].at = "exchange" /\ call'[p].ask = call[p].ask
      /\ \A r \in Callers \ {p} : call'[r] = call[r]
  BY <1>1, GoEffect DEF TokenMiss
<1>3. /\ http'[p].left = CallTime /\ http'[p].read = 0
      /\ \A r \in Callers \ {p} : http'[r] = http[r]
  BY <1>1, SendEffect DEF TokenMiss
<1>4. UNCHANGED <<ranges, answer, cache, token>> /\ lock["token"] = Nobody
  BY DEF TokenMiss
<1>5. /\ lock'["token"] = p
      /\ \A m \in {"tabs", "cats", "token"} : m # "token" => lock'[m] = lock[m]
  BY <1>1 DEF TokenMiss, TypeOK
<1>6. Frame(p)
  BY <1>2, <1>3, <1>4, <1>5 DEF Frame
<1>7. Position(p)'
  <2>1. Kind(p) \in Caches => lock'[Kind(p)] = lock[Kind(p)]
    BY <1>5 DEF Caches
  <2> QED
    BY <1>2, <1>4, <1>5, <2>1 DEF Position, IInv, Working, Calling, Fetching, Kind, At, Fresh
<1>8. ReadClock(p)'
  BY <1>2, <1>3, TimeAssumption DEF ReadClock, At
<1> QED
  BY <1>2, <1>4, <1>6, <1>7, <1>8
  DEF Own, IInv, TokenClock, AnswerClock, EntryClock, CachedTokenClock, At, Fetching

(* Google acting on a request moves no clock.                              *)
LEMMA ServeOwn ==
    ASSUME IInv, NEW p \in Callers, Serve(p)
    PROVE  Own(p)
<1>1. TypeOK
  BY DEF IInv
<1>2. /\ http'[p].left = http[p].left /\ http'[p].read = http[p].read
      /\ http'[p].tok = http[p].tok /\ http'[p].used = http[p].used
      /\ \A r \in Callers \ {p} : http'[r] = http[r]
  BY <1>1 DEF Serve, TypeOK, Https
<1>3. UNCHANGED <<call, ranges, answer, lock, cache, token>>
  BY DEF Serve
<1>4. Frame(p)
  BY <1>2, <1>3 DEF Frame
<1> QED
  BY <1>2, <1>3, <1>4
  DEF Own, IInv, Position, ReadClock, TokenClock, AnswerClock, EntryClock,
      CachedTokenClock, At, Kind, Working, Fresh, Fetching

(* A new token has lost no more than the time of its exchange.             *)
LEMMA ExchangeOwn ==
    ASSUME IInv, NEW p \in Callers, ExchangeOK(p)
    PROVE  Own(p)
<1> DEFINE tok == TokenLife - http[p].read
<1>1. TypeOK
  BY DEF IInv
<1>2. /\ At(p) = "exchange" /\ call'[p].at = "fetch" /\ call'[p].ask = call[p].ask
      /\ \A r \in Callers \ {p} : call'[r] = call[r]
  BY <1>1, GoEffect DEF ExchangeOK
<1>3. /\ http'[p].left = CallTime /\ http'[p].read = 0 /\ http'[p].tok = tok
      /\ http'[p].used = 0
      /\ \A r \in Callers \ {p} : http'[r] = http[r]
  BY <1>1, SendEffect DEF ExchangeOK
<1>4. UNCHANGED <<ranges, answer, cache>> /\ token' = [life |-> TokenLife, valid |-> tok]
  BY DEF ExchangeOK
<1>5. /\ lock["token"] = p
      /\ \A m \in {"tabs", "cats", "token"} : m # "token" => lock'[m] = lock[m]
  BY <1>1, <1>2 DEF ExchangeOK, TypeOK, IInv, Position
<1>6. Frame(p)
  BY <1>2, <1>3, <1>4, <1>5 DEF Frame
<1>7. Position(p)'
  <2>1. Kind(p) \in Caches => lock'[Kind(p)] = lock[Kind(p)]
    BY <1>5 DEF Caches
  <2> QED
    BY <1>2, <1>4, <2>1 DEF Position, IInv, Working, Calling, Fetching, Kind, At, Fresh
<1>8. ReadClock(p)'
  BY <1>2, <1>3, TimeAssumption DEF ReadClock, At
<1>9. http[p].read \in 0 .. CallTime
  BY <1>1, <1>2, TimeAssumption DEF IInv, ReadClock, TypeOK, Https
<1>10. TokenClock(p)'
  <2>1. tok + 0 + CallTime > Margin
    BY <1>9, TimeAssumption
  <2> QED
    BY <1>2, <1>3, <2>1 DEF TokenClock, At
<1>11. CachedTokenClock'
  BY <1>4, <1>9, TimeAssumption DEF CachedTokenClock
<1> QED
  BY <1>2, <1>4, <1>6, <1>7, <1>8, <1>10, <1>11
  DEF Own, IInv, AnswerClock, EntryClock, At

(* An answer that needs no list changes nothing.                           *)
LEMMA PlainOwn ==
    ASSUME IInv, NEW p \in Callers, PlainOK(p)
    PROVE  Own(p)
<1>1. TypeOK
  BY DEF IInv
<1>2. /\ call'[p].at = "idle"
      /\ \A r \in Callers \ {p} : call'[r] = call[r]
  BY <1>1, GoEffect DEF PlainOK
<1>3. \A r \in Callers \ {p} : http'[r] = http[r]
  BY <1>1 DEF PlainOK, TypeOK
<1>4. UNCHANGED <<ranges, answer, lock, cache, token>>
  BY DEF PlainOK
<1>5. Frame(p)
  BY <1>2, <1>3, <1>4 DEF Frame
<1> QED
  BY <1>2, <1>4, <1>5
  DEF Own, IInv, Position, ReadClock, TokenClock, AnswerClock, EntryClock,
      CachedTokenClock, At, Working, Calling, Fetching

(* A list that is given out is as old as the calls that brought it.        *)
LEMMA StoreOwn ==
    ASSUME IInv, NEW p \in Callers, NEW has \in BOOLEAN, NEW from \in Fetching,
           Kind(p) \in Caches, Go(p, from, "answered"), Store(p, has),
           http[p].read <= FetchTime(Kind(p))
    PROVE  Own(p)
<1>1. TypeOK
  BY DEF IInv
<1>2. /\ At(p) = from /\ call'[p].at = "answered" /\ call'[p].ask = call[p].ask
      /\ \A r \in Callers \ {p} : call'[r] = call[r]
  BY <1>1, GoEffect
<1>3. lock[Kind(p)] = p
  BY <1>2 DEF IInv, Position, Working, Calling
<1>4. /\ answer'[p].read = http[p].read
      /\ cache'[Kind(p)].has => cache'[Kind(p)].age = 0 /\ cache'[Kind(p)].read = http[p].read
      /\ \A m \in {"tabs", "cats", "token"} \ {Kind(p)} : lock'[m] = lock[m]
      /\ \A c \in Caches \ {Kind(p)} : cache'[c] = cache[c]
      /\ \A r \in Callers \ {p} :
           http'[r] = http[r] /\ ranges'[r] = ranges[r] /\ answer'[r] = answer[r]
      /\ token' = token
  BY <1>1, StoreEffect
<1>5. Frame(p)
  BY <1>2, <1>3, <1>4 DEF Frame
<1>6. http[p].read \in Nat
  BY <1>1 DEF TypeOK, Https
<1>7. AnswerClock(p)'
  BY <1>2, <1>4, <1>6, Lifetimes DEF AnswerClock, At, Kind
<1>8. \A c \in Caches : EntryClock(c)'
  <2>1. ASSUME NEW c \in Caches, c # Kind(p)  PROVE EntryClock(c)'
    BY <1>4, <2>1 DEF IInv, EntryClock
  <2>2. cache'[Kind(p)].has =>
            cache'[Kind(p)].read <= cache'[Kind(p)].age + FetchTime(Kind(p))
    BY <1>4, <1>6, Lifetimes
  <2> QED
    BY <2>1, <2>2 DEF EntryClock
<1> QED
  BY <1>2, <1>4, <1>5, <1>7, <1>8
  DEF Own, IInv, Position, ReadClock, TokenClock, CachedTokenClock, At, Working,
      Calling, Fetching

(* The first of the ranges is sent the token of the fetch.                 *)
LEMMA CatsRangesOwn ==
    ASSUME IInv, NEW p \in Callers, NEW n \in 1 .. MaxRanges,
           CatsRanges(p, n)
    PROVE  Own(p)
<1>1. TypeOK /\ Kind(p) = "cats"
  BY DEF IInv, CatsRanges
<1>2. /\ At(p) = "fetch" /\ call'[p].at = "range" /\ call'[p].ask = call[p].ask
      /\ \A r \in Callers \ {p} : call'[r] = call[r]
  BY <1>1, GoEffect DEF CatsRanges
<1>3. /\ http'[p].left = CallTime /\ http'[p].read = http[p].read
      /\ http'[p].tok = http[p].tok /\ http'[p].used = http[p].used
      /\ \A r \in Callers \ {p} : http'[r] = http[r]
  BY <1>1, SendNextEffect DEF CatsRanges
<1>4. UNCHANGED <<answer, lock, cache, token>>
  BY DEF CatsRanges
<1>5. ranges'[p] = n /\ \A r \in Callers \ {p} : ranges'[r] = ranges[r]
  BY <1>1 DEF CatsRanges, TypeOK
<1>6. Frame(p)
  BY <1>2, <1>3, <1>4, <1>5 DEF Frame
<1>7. Position(p)'
  BY <1>1, <1>2, <1>4, <1>5
  DEF Position, IInv, Working, Calling, Fetching, Kind, At, Fresh
<1>8. /\ http[p].left \in 0 .. CallTime /\ http[p].read \in Nat
  BY <1>1 DEF TypeOK, Https
<1>9. /\ n - 1 \in Nat /\ MaxRanges \in Nat
      /\ CallsTime(n - 1) + CallTime <= CallsTime(MaxRanges)
      /\ CallsTime(MaxRanges + 1) = CallsTime(MaxRanges) + CallTime
      /\ CallsTime(n - 1) \in Nat
      /\ CallsTime(MaxRanges) \in Nat
  <2>1. n - 1 \in Nat /\ (n - 1) + 1 = n /\ n \in Nat
        /\ n <= MaxRanges /\ MaxRanges \in Nat
    BY TimeAssumption
  <2>2. CallsTime(n) = CallsTime(n - 1) + CallTime /\ CallsTime(n - 1) \in Nat
    BY <2>1, CallsTimes
  <2>3. CallsTime(n) <= CallsTime(MaxRanges)
    BY <2>1, CallsTimeMonotone
  <2> QED
    BY <2>1, <2>2, <2>3, CallsTimes
<1>10. ReadClock(p)'
  <2>1. http[p].read + http[p].left <= CallTime
    BY <1>2 DEF IInv, ReadClock
  <2> QED
    BY <1>2, <1>3, <1>5, <1>8, <1>9, <2>1, TimeAssumption DEF ReadClock, At
<1>11. TokenClock(p)'
  BY <1>2, <1>3 DEF IInv, TokenClock, At, Fetching
<1> QED
  BY <1>2, <1>4, <1>6, <1>7, <1>10, <1>11
  DEF Own, IInv, AnswerClock, EntryClock, CachedTokenClock, At

(* Each further range has one call less ahead of it.                       *)
LEMMA NextRangeOwn ==
    ASSUME IInv, NEW p \in Callers, NextRange(p)
    PROVE  Own(p)
<1> DEFINE n == ranges[p]
<1>1. TypeOK
  BY DEF IInv
<1>2. /\ At(p) = "range" /\ call'[p].at = "range" /\ call'[p].ask = call[p].ask
      /\ \A r \in Callers \ {p} : call'[r] = call[r]
  BY <1>1, GoEffect DEF NextRange
<1>3. /\ http'[p].left = CallTime /\ http'[p].read = http[p].read
      /\ http'[p].tok = http[p].tok /\ http'[p].used = http[p].used
      /\ \A r \in Callers \ {p} : http'[r] = http[r]
  BY <1>1, SendNextEffect DEF NextRange
<1>4. UNCHANGED <<answer, lock, cache, token>>
  BY DEF NextRange
<1>5. ranges'[p] = n - 1 /\ \A r \in Callers \ {p} : ranges'[r] = ranges[r]
  BY <1>1 DEF NextRange, TypeOK
<1>6. Frame(p)
  BY <1>2, <1>3, <1>4, <1>5 DEF Frame
<1>7. n \in Nat /\ n > 1
  BY <1>1, TimeAssumption DEF NextRange, TypeOK
<1>8. Position(p)'
  <2>1. n - 1 >= 1
    BY <1>7
  <2> QED
    BY <1>2, <1>4, <1>5, <2>1 DEF Position, IInv, Working, Calling, Fetching, Kind, At, Fresh
<1>9. /\ http[p].left \in 0 .. CallTime /\ http[p].read \in Nat
  BY <1>1 DEF TypeOK, Https
<1>10. /\ CallsTime(n - 1) = CallsTime(n - 1 - 1) + CallTime
       /\ CallsTime(n - 1 - 1) \in Nat
  <2>1. n - 1 - 1 \in Nat /\ (n - 1 - 1) + 1 = n - 1
    BY <1>7
  <2> QED
    BY <2>1, CallsTimes
<1>11. CallsTime(MaxRanges + 1) \in Nat
  BY CallsTimes, TimeAssumption
<1>12. ReadClock(p)'
  <2>1. http[p].read + http[p].left + CallsTime(n - 1) <= CallsTime(MaxRanges + 1)
    BY <1>2 DEF IInv, ReadClock
  <2> HIDE DEF n
  <2>2. http[p].read + CallTime + CallsTime(n - 1 - 1) <= CallsTime(MaxRanges + 1)
    BY <1>9, <1>10, <1>11, <2>1, TimeAssumption
  <2> QED
    BY <1>2, <1>3, <1>5, <2>2 DEF ReadClock, At
<1>13. TokenClock(p)'
  BY <1>2, <1>3 DEF IInv, TokenClock, At, Fetching
<1> QED
  BY <1>2, <1>4, <1>6, <1>8, <1>12, <1>13
  DEF Own, IInv, AnswerClock, EntryClock, CachedTokenClock, At

(* The three ways to complete a list.                                      *)
LEMMA ListOwn ==
    ASSUME IInv, NEW p \in Callers, NEW found \in BOOLEAN,
           TabsOK(p) \/ CatsOK(p, found) \/ LastRange(p, found)
    PROVE  Own(p)
<1>1. TypeOK
  BY DEF IInv
<1>2. http[p].left \in 0 .. CallTime /\ http[p].read \in Nat
  BY <1>1 DEF TypeOK, Https
<1>3. At(p) = "fetch" /\ Kind(p) \in Caches => http[p].read <= FetchTime(Kind(p))
  BY <1>2, Lifetimes, TimeAssumption DEF IInv, ReadClock
<1>4. CASE TabsOK(p)
  <2>1. Kind(p) \in Caches /\ At(p) = "fetch"
    BY <1>4 DEF TabsOK, Go, Caches
  <2> QED
    BY <1>3, <1>4, <2>1, StoreOwn DEF TabsOK, Fetching
<1>5. CASE CatsOK(p, found)
  <2>1. Kind(p) \in Caches /\ At(p) = "fetch"
    BY <1>5 DEF CatsOK, Go, Caches
  <2> QED
    BY <1>3, <1>5, <2>1, StoreOwn DEF CatsOK, Fetching
<1>6. CASE LastRange(p, found)
  <2>1. At(p) = "range" /\ Kind(p) = "cats" /\ ranges[p] = 1
    BY <1>6 DEF LastRange, Go, IInv, Position
  <2>2. http[p].read + http[p].left + CallsTime(0) <= CallsTime(MaxRanges + 1)
    BY <2>1 DEF IInv, ReadClock
  <2>3. CallsTime(0) = 0 /\ CallsTime(MaxRanges + 1) \in Nat
    BY CallsTimes, TimeAssumption
  <2>4. http[p].read <= FetchTime(Kind(p))
    BY <1>2, <2>1, <2>2, <2>3, TimeAssumption DEF FetchTime
  <2> QED
    BY <1>6, <2>1, <2>4, StoreOwn DEF LastRange, Fetching, Caches
<1> QED
  BY <1>4, <1>5, <1>6

(* A failure frees no mutex but the caller's own.                          *)
LEMMA FailOwn ==
    ASSUME IInv, NEW p \in Callers, Fail(p)
    PROVE  Own(p)
<1>1. TypeOK
  BY DEF IInv
<1>2. /\ call'[p].at = "idle"
      /\ \A r \in Callers \ {p} : call'[r] = call[r]
  BY <1>1 DEF Fail, TypeOK
<1>3. \A r \in Callers \ {p} : http'[r] = http[r]
  BY <1>1 DEF Fail, TypeOK
<1>4. UNCHANGED <<ranges, answer, cache, token>>
  BY DEF Fail
<1>5. \A m \in {"tabs", "cats", "token"} : lock'[m] = lock[m] \/ lock[m] \in {p, Nobody}
  BY <1>1 DEF Fail, Unlocked, TypeOK
<1>6. Frame(p)
  BY <1>2, <1>3, <1>4, <1>5 DEF Frame
<1> QED
  BY <1>2, <1>4, <1>6
  DEF Own, IInv, Position, ReadClock, TokenClock, AnswerClock, EntryClock,
      CachedTokenClock, At, Working, Calling, Fetching
-----------------------------------------------------------------------------
(* A list that is aged stays what it is, and an expired one does not age.  *)
LEMMA AgedEntry ==
    ASSUME TypeOK, NEW c \in Caches
    PROVE  /\ Fresh(c) => /\ Aged(c).has = cache[c].has
                          /\ Aged(c).age = cache[c].age + 1
                          /\ Aged(c).read = cache[c].read + 1
           /\ ~Fresh(c) => Aged(c) = cache[c]
<1>1. cache[c] \in Entries
  BY DEF TypeOK
<1>2. CASE Fresh(c)
  BY <1>1, <1>2 DEF Fresh, Aged, Entries
<1>3. CASE ~Fresh(c)
  BY <1>3 DEF Fresh, Aged
<1> QED
  BY <1>2, <1>3

(* Time keeps every clock within its bound.                                *)
LEMMA TickStep ==
    ASSUME IInv, Tick
    PROVE  /\ \A p \in Callers :
                Position(p)' /\ ReadClock(p)' /\ TokenClock(p)' /\ AnswerClock(p)'
           /\ \A c \in Caches : EntryClock(c)'
           /\ CachedTokenClock'
<1>1. TypeOK /\ UNCHANGED <<call, ranges, answer, lock>>
  BY DEF IInv, Tick
<1>2. \A p \in Callers : http'[p] = Elapsed(p)
  BY DEF Tick
<1>3. \A c \in Caches : cache'[c] = Aged(c)
  BY DEF Tick
<1>4. ASSUME NEW p \in Callers
      PROVE  Position(p)' /\ ReadClock(p)' /\ TokenClock(p)' /\ AnswerClock(p)'
  <2>1. Position(p)'
    <3>1. ASSUME NEW c \in Caches, ~Fresh(c)  PROVE cache'[c] = cache[c]
      BY <1>1, <1>3, <3>1, AgedEntry
    <3>2. Working(p) /\ Kind(p) \in Caches =>
              ~Fresh(Kind(p)) /\ cache'[Kind(p)] = cache[Kind(p)]
      BY <3>1 DEF IInv, Position
    <3> QED
      BY <1>1, <3>2 DEF IInv, Position, Working, Kind, At, Fresh
  <2>2. /\ http[p].left \in 0 .. CallTime /\ http[p].read \in Nat
        /\ http[p].tok \in 0 .. TokenLife /\ http[p].used \in Nat
    BY <1>1 DEF TypeOK, Https
  <2>3. At(p) \in Calling =>
            /\ http'[p].left = http[p].left - 1
            /\ http'[p].read \in {http[p].read, http[p].read + 1}
            /\ http'[p].tok = Less(http[p].tok)
            /\ At(p) \in Fetching => http'[p].used = http[p].used + 1
    <3>1. CASE At(p) \in Calling
      <4> DEFINE d == IF http[p].served \/ At(p) = "range" THEN 1 ELSE 0
                 t == Less(http[p].tok)
                 w == IF At(p) \in Fetching THEN 1 ELSE 0
      <4>1. http'[p] = [left |-> http[p].left - 1, served |-> http[p].served,
                        read |-> http[p].read + d, tok |-> t,
                        used |-> http[p].used + w]
        BY <1>2, <3>1, Zenon DEF Elapsed
      <4>2. d \in {0, 1}
        OBVIOUS
      <4> HIDE DEF d, t, w
      <4>3. http'[p].left = http[p].left - 1 /\ http'[p].read = http[p].read + d
            /\ http'[p].tok = t /\ http'[p].used = http[p].used + w
        BY <4>1
      <4>4. http'[p].read \in {http[p].read, http[p].read + 1}
        BY <2>2, <4>2, <4>3
      <4> QED
        BY <4>3, <4>4 DEF t, w
    <3> QED
      BY <3>1
  <2>4. At(p) \in Calling => http[p].left > 0
    BY <2>2 DEF Tick, TimedOut
  <2>5. ReadClock(p)'
    <3>1. CASE At(p) \in {"exchange", "fetch"}
      <4>1. http'[p].read + http'[p].left <= CallTime
        BY <2>2, <2>3, <3>1, TimeAssumption DEF IInv, ReadClock, Calling, Fetching
      <4> QED
        BY <1>1, <3>1, <4>1 DEF ReadClock, At
    <3>2. CASE At(p) = "range"
      <4>1. ranges[p] - 1 \in Nat
        BY <1>1, <3>2, TimeAssumption DEF IInv, Position, TypeOK
      <4>2. CallsTime(ranges[p] - 1) \in Nat /\ CallsTime(MaxRanges + 1) \in Nat
        BY <4>1, CallsTimes, TimeAssumption
      <4>3. http[p].read + http[p].left + CallsTime(ranges[p] - 1)
                <= CallsTime(MaxRanges + 1)
        BY <3>2 DEF IInv, ReadClock
      <4>4. http'[p].read + http'[p].left + CallsTime(ranges[p] - 1)
                <= CallsTime(MaxRanges + 1)
        BY <2>2, <2>3, <3>2, <4>2, <4>3, TimeAssumption DEF Calling, Fetching
      <4> QED
        BY <1>1, <3>2, <4>4 DEF ReadClock, At
    <3>3. CASE At(p) \notin {"exchange", "fetch", "range"}
      BY <1>1, <3>3 DEF ReadClock, At
    <3> QED
      BY <3>1, <3>2, <3>3
  <2>6. TokenClock(p)'
    <3>1. CASE At(p) \in Fetching
      <4>1. http[p].tok + http[p].used + CallTime > Margin
        BY <3>1 DEF IInv, TokenClock
      <4>2. http'[p].tok >= http[p].tok - 1 /\ http'[p].tok \in Nat
        BY <2>2, <2>3, <3>1 DEF Less, Calling
      <4>3. http'[p].used = http[p].used + 1
        BY <2>3, <3>1 DEF Calling
      <4>4. http'[p].tok + http'[p].used + CallTime > Margin
        BY <2>2, <4>1, <4>2, <4>3, TimeAssumption
      <4> QED
        BY <4>4 DEF TokenClock
    <3>2. CASE At(p) \notin Fetching
      BY <1>1, <3>2 DEF TokenClock, At
    <3> QED
      BY <3>1, <3>2
  <2>7. AnswerClock(p)'
    BY <1>1 DEF IInv, AnswerClock, At, Kind
  <2> QED
    BY <2>1, <2>5, <2>6, <2>7
<1>5. ASSUME NEW c \in Caches  PROVE EntryClock(c)'
  <2>1. cache[c].age \in Nat /\ cache[c].read \in Nat
    BY <1>1 DEF TypeOK, Entries
  <2>2. CASE Fresh(c)
    BY <1>1, <1>3, <2>1, <2>2, AgedEntry, Lifetimes DEF IInv, EntryClock
  <2>3. CASE ~Fresh(c)
    BY <1>1, <1>3, <2>3, AgedEntry DEF IInv, EntryClock
  <2> QED
    BY <2>2, <2>3
<1>6. CachedTokenClock'
  BY <1>1, TimeAssumption DEF Tick, Less, IInv, CachedTokenClock, TypeOK
<1> QED
  BY <1>4, <1>5, <1>6
-----------------------------------------------------------------------------
(* Every step keeps the invariant.                                         *)
LEMMA IInvStep ==
    ASSUME IInv, [Next]_vars
    PROVE  IInv'
<1>1. TypeOK'
  BY TypeStep DEF IInv
<1>2. CASE UNCHANGED vars
  BY <1>1, <1>2
  DEF vars, IInv, Position, ReadClock, TokenClock, AnswerClock, EntryClock,
      CachedTokenClock, At, Kind, Working, Fresh, Fetching
<1>3. ASSUME NEW p \in Callers, Own(p)  PROVE IInv'
  <2>1. ASSUME NEW r \in Callers, r # p
        PROVE  Position(r)' /\ ReadClock(r)' /\ TokenClock(r)' /\ AnswerClock(r)'
    BY <1>3, <2>1, Others DEF IInv, Own
  <2> QED
    BY <1>1, <1>3, <2>1 DEF IInv, Own
<1>4. CASE Tick
  BY <1>1, <1>4, TickStep DEF IInv
<1>5. ASSUME NEW p \in Callers, NEW q \in Questions, Ask(p, q)  PROVE IInv'
  BY <1>3, <1>5, AskOwn
<1>6. ASSUME NEW p \in Callers, Acquire(p)  PROVE IInv'
  BY <1>3, <1>6, HitOwn, MissOwn DEF Acquire
<1>7. ASSUME NEW p \in Callers, AcquireToken(p)  PROVE IInv'
  BY <1>3, <1>7, TokenHitOwn, TokenMissOwn DEF AcquireToken
<1>8. ASSUME NEW p \in Callers, Serve(p) \/ ExchangeOK(p) \/ PlainOK(p) \/ Fail(p)
      PROVE  IInv'
  BY <1>3, <1>8, ServeOwn, ExchangeOwn, PlainOwn, FailOwn
<1>9. ASSUME NEW p \in Callers, NEW found \in BOOLEAN,
             TabsOK(p) \/ CatsOK(p, found) \/ LastRange(p, found)
      PROVE  IInv'
  BY <1>3, <1>9, ListOwn
<1>10. ASSUME NEW p \in Callers, NextRange(p)
       PROVE  IInv'
  BY <1>3, <1>10, NextRangeOwn
<1>11. ASSUME NEW p \in Callers, NEW n \in 1 .. MaxRanges,
              CatsRanges(p, n)
       PROVE  IInv'
  BY <1>3, <1>11, CatsRangesOwn
<1>12. \A p \in Callers : TabsOK(p) => IInv'
  BY <1>9
<1> QED
  BY <1>2, <1>4, <1>5, <1>6, <1>7, <1>8, <1>9, <1>10, <1>11, <1>12 DEF Next, ReadRange

(* The invariant holds at the start.                                       *)
LEMMA IInvInit ==
    ASSUME Init
    PROVE  IInv
<1>1. TypeOK
  <2>1. NoQuestion \in Questions /\ NoCall \in Https /\ NoEntry \in Entries
    BY TimeAssumption DEF NoQuestion, Questions, NoCall, Https, NoEntry, Entries
  <2> QED
    BY <2>1, AllPlaces, TimeAssumption DEF Init, TypeOK, NoAnswer
<1> QED
  BY <1>1, TimeAssumption
  DEF Init, IInv, Position, ReadClock, TokenClock, AnswerClock, EntryClock,
      CachedTokenClock, At, Working, Calling, Fetching, NoEntry

(* The inductive invariant behind the theorems below.                      *)
THEOREM Invariance == Spec => []IInv
BY IInvInit, IInvStep, PTL DEF Spec

(* Calls, entries and the token stay within their types; in particular no  *)
(* call to Google outlives its timeout.                                    *)
THEOREM TypeCorrect == Spec => []TypeOK
<1>1. IInv => TypeOK
  BY DEF IInv
<1> QED
  BY <1>1, Invariance, PTL

(* A list that is handed out is current within its TTL and the time that   *)
(* it takes to fetch (tabInfos, TypeCategories).                           *)
THEOREM Currency == Spec => []AnswersCurrent
<1>1. IInv => AnswersCurrent
  BY DEF IInv, AnswerClock, AnswersCurrent
<1> QED
  BY <1>1, Invariance, PTL

(* A list is fetched only while there is none to give out, however many    *)
(* callers wait for it (tabInfos, TypeCategories).                         *)
THEOREM SingleFetch == Spec => []FetchOnlyWhenStale
<1>1. IInv => FetchOnlyWhenStale
  BY DEF IInv, Position, Working, FetchOnlyWhenStale
<1> QED
  BY <1>1, Invariance, PTL

(* However many ranges are read with it, a token that was checked once is  *)
(* good until it has been used for the margin, less the time of a call by  *)
(* which its clock may be late (token, TypeCategories, readRange).         *)
THEOREM LiveTokens == Spec => []TokensValid
<1>1. ASSUME IInv  PROVE TokensValid
  <2>1. ASSUME NEW p \in Callers, At(p) \in Fetching, http[p].used + CallTime <= Margin
        PROVE  http[p].tok > 0
    <3>1. http[p].tok \in Nat /\ http[p].used \in Nat
      BY <1>1, TimeAssumption DEF IInv, TypeOK, Https
    <3>2. http[p].tok + http[p].used + CallTime > Margin
      BY <1>1, <2>1 DEF IInv, TokenClock
    <3> QED
      BY <2>1, <3>1, <3>2, TimeAssumption
  <2> QED
    BY <2>1 DEF TokensValid
<1> QED
  BY <1>1, Invariance, PTL
-----------------------------------------------------------------------------
(* A mutex that is held is held by somebody who still has a use for it.    *)
Mutexes == {"tabs", "cats", "token"}

Holder(m) ==
    lock[m] # Nobody =>
        /\ lock[m] \in Callers
        /\ m = "token" => At(lock[m]) = "exchange"
        /\ m \in Caches => Working(lock[m]) /\ Kind(lock[m]) = m

Holders == \A m \in Mutexes : Holder(m)

(* A caller at rest or in a queue holds nothing, and one at work only the  *)
(* mutex of its list and, in an exchange, that of the token.               *)
LEMMA HoldsOnly ==
    ASSUME Holders, NEW p \in Callers, NEW m \in Mutexes, lock[m] = p
    PROVE  /\ m = "token" => At(p) = "exchange"
           /\ m \in Caches => Working(p) /\ Kind(p) = m
           /\ At(p) \in {"wantToken"} \cup Calling
  BY NobodyAssumption DEF Holders, Holder, Mutexes, Caches, Working, Calling

(* Whatever a caller does leaves alone what the others hold.               *)
LEMMA HoldersKept ==
    ASSUME Holders, NEW p \in Callers, Frame(p),
           \A m \in Mutexes : lock'[m] \in {lock[m], p, Nobody},
           \A m \in Mutexes : lock'[m] = p =>
               /\ m = "token" => call'[p].at = "exchange"
               /\ m \in Caches =>
                    call'[p].at \in {"wantToken"} \cup Calling /\ call'[p].ask.kind = m
    PROVE  Holders'
<1> SUFFICES ASSUME NEW m \in Mutexes, lock'[m] # Nobody
             PROVE  /\ lock'[m] \in Callers
                    /\ m = "token" => call'[lock'[m]].at = "exchange"
                    /\ m \in Caches => /\ call'[lock'[m]].at \in {"wantToken"} \cup Calling
                                       /\ call'[lock'[m]].ask.kind = m
  BY DEF Holders, Holder, Working, At, Kind
<1>1. CASE lock'[m] = p
  BY <1>1
<1>2. CASE lock'[m] # p
  <2>1. lock'[m] = lock[m] /\ lock[m] # Nobody /\ lock[m] \in Callers \ {p}
    BY <1>2 DEF Holders, Holder
  <2>2. call'[lock[m]] = call[lock[m]]
    BY <2>1 DEF Frame
  <2> QED
    BY <2>1, <2>2 DEF Holders, Holder, Working, At, Kind
<1> QED
  BY <1>1, <1>2

LEMMA HoldersNext == IInv /\ Holders /\ [Next]_vars => Holders'
<1> SUFFICES ASSUME IInv, Holders, [Next]_vars
             PROVE  Holders'
  OBVIOUS
<1> USE DEF Mutexes
<1>1. TypeOK /\ DOMAIN lock = Mutexes
  BY DEF IInv, TypeOK
<1>2. ASSUME NEW p \in Callers, NEW q \in Questions, Ask(p, q)
      PROVE  Holders'
  <2>1. Frame(p) /\ lock' = lock /\ At(p) \in Resting
    BY <1>2, AskOwn DEF Own, Ask
  <2>2. \A m \in Mutexes : lock'[m] # p
    BY <2>1, HoldsOnly DEF Resting, Calling, Fetching
  <2> QED
    BY <2>1, <2>2, HoldersKept
<1>3. ASSUME NEW p \in Callers, Hit(p)
      PROVE  Holders'
  <2>1. Frame(p) /\ lock' = lock /\ At(p) = "queued"
    BY <1>3, HitOwn DEF Own, Hit, Go
  <2>2. \A m \in Mutexes : lock'[m] # p
    BY <2>1, HoldsOnly DEF Calling, Fetching
  <2> QED
    BY <2>1, <2>2, HoldersKept
<1>4. ASSUME NEW p \in Callers, Miss(p)
      PROVE  Holders'
  <2>1. Frame(p) /\ At(p) = "queued" /\ call'[p].at = "wantToken" /\ call'[p].ask = call[p].ask
    BY <1>1, <1>4, MissOwn, GoEffect DEF Own, Miss
  <2>2. \A m \in Mutexes : lock[m] # p
    BY <2>1, HoldsOnly DEF Calling, Fetching
  <2>3. \A m \in Mutexes : lock'[m] = lock[m] \/ (m = Kind(p) /\ lock'[m] = p)
    BY <1>1, <1>4 DEF Miss
  <2>4. Kind(p) \in Caches
    BY <2>1 DEF IInv, Position
  <2> QED
    BY <2>1, <2>2, <2>3, <2>4, HoldersKept DEF Caches, Kind
<1>5. ASSUME NEW p \in Callers, TokenHit(p)
      PROVE  Holders'
  <2>1. /\ Frame(p) /\ lock' = lock /\ At(p) = "wantToken"
        /\ call'[p].at = "fetch" /\ call'[p].ask = call[p].ask
    BY <1>1, <1>5, TokenHitOwn, GoEffect DEF Own, TokenHit
  <2> QED
    BY <2>1, HoldsOnly, HoldersKept DEF Calling, Fetching, Kind
<1>6. ASSUME NEW p \in Callers, TokenMiss(p)
      PROVE  Holders'
  <2>1. /\ Frame(p) /\ At(p) = "wantToken"
        /\ call'[p].at = "exchange" /\ call'[p].ask = call[p].ask
    BY <1>1, <1>6, TokenMissOwn, GoEffect DEF Own, TokenMiss
  <2>2. \A m \in Mutexes : lock'[m] = lock[m] \/ (m = "token" /\ lock'[m] = p)
    BY <1>1, <1>6 DEF TokenMiss
  <2> QED
    BY <2>1, <2>2, HoldsOnly, HoldersKept DEF Calling, Fetching, Kind, Caches
<1>7. ASSUME NEW p \in Callers, Serve(p)
      PROVE  Holders'
  BY <1>7 DEF Serve, Holders, Holder, Working, At, Kind
<1>8. ASSUME NEW p \in Callers, ExchangeOK(p)
      PROVE  Holders'
  <2>1. /\ Frame(p) /\ call'[p].at = "fetch" /\ call'[p].ask = call[p].ask
    BY <1>1, <1>8, ExchangeOwn, GoEffect DEF Own, ExchangeOK
  <2>2. /\ lock'["token"] = Nobody
        /\ \A m \in Mutexes : m # "token" => lock'[m] = lock[m]
    BY <1>1, <1>8 DEF ExchangeOK
  <2> QED
    BY <2>1, <2>2, HoldsOnly, HoldersKept, NobodyAssumption
    DEF Calling, Fetching, Kind, Caches
<1>9. ASSUME NEW p \in Callers, PlainOK(p)
      PROVE  Holders'
  <2>1. /\ Frame(p) /\ lock' = lock /\ At(p) = "fetch" /\ Kind(p) = "plain"
    BY <1>9, PlainOwn DEF Own, PlainOK, Go
  <2>2. \A m \in Mutexes : lock'[m] # p
    BY <2>1, HoldsOnly DEF Caches
  <2> QED
    BY <2>1, <2>2, HoldersKept
<1>10. ASSUME NEW p \in Callers, NEW found \in BOOLEAN,
              TabsOK(p) \/ CatsOK(p, found) \/ LastRange(p, found)
       PROVE  Holders'
  <2>1. Frame(p)
    BY <1>10, ListOwn DEF Own
  <2>2. /\ At(p) \in Fetching /\ Kind(p) \in Caches
        /\ Store(p, TRUE) \/ Store(p, found)
    BY <1>10 DEF TabsOK, CatsOK, LastRange, Go, IInv, Position, Caches, Fetching
  <2>3. /\ lock'[Kind(p)] = Nobody
        /\ \A m \in Mutexes \ {Kind(p)} : lock'[m] = lock[m]
    BY <1>1, <2>2, StoreEffect
  <2>4. \A m \in Mutexes : lock'[m] # p
    BY <2>2, <2>3, HoldsOnly, NobodyAssumption DEF Fetching, Caches
  <2> QED
    BY <2>1, <2>3, <2>4, HoldersKept
<1>11. ASSUME NEW p \in Callers, NEW n \in 1 .. MaxRanges, CatsRanges(p, n)
       PROVE  Holders'
  <2>1. /\ Frame(p) /\ lock' = lock /\ At(p) = "fetch"
        /\ call'[p].at = "range" /\ call'[p].ask = call[p].ask
    BY <1>1, <1>11, CatsRangesOwn, GoEffect DEF Own, CatsRanges
  <2> QED
    BY <2>1, HoldsOnly, HoldersKept DEF Calling, Fetching, Kind
<1>12. ASSUME NEW p \in Callers, NextRange(p)
       PROVE  Holders'
  <2>1. /\ Frame(p) /\ lock' = lock /\ At(p) = "range"
        /\ call'[p].at = "range" /\ call'[p].ask = call[p].ask
    BY <1>1, <1>12, NextRangeOwn, GoEffect DEF Own, NextRange
  <2> QED
    BY <2>1, HoldsOnly, HoldersKept DEF Calling, Fetching, Kind
<1>13. ASSUME NEW p \in Callers, Fail(p)
       PROVE  Holders'
  <2>1. Frame(p)
    BY <1>13, FailOwn DEF Own
  <2>2. \A m \in Mutexes : lock'[m] # p /\ lock'[m] \in {lock[m], Nobody}
    BY <1>1, <1>13, NobodyAssumption DEF Fail, Unlocked
  <2> QED
    BY <2>1, <2>2, HoldersKept
<1>14. CASE Tick \/ UNCHANGED vars
  BY <1>14 DEF Tick, vars, Holders, Holder, Working, At, Kind
<1>15. \A p \in Callers : TabsOK(p) => Holders'
  BY <1>10
<1> QED
  BY <1>2, <1>3, <1>4, <1>5, <1>6, <1>7, <1>8, <1>9, <1>10, <1>11, <1>12, <1>13, <1>14, <1>15
  DEF Next, Acquire, AcquireToken, ReadRange

(* No caller waits for a mutex in a circle, or for one that nobody will    *)
(* give back: the wait ends with a call to Google (tabInfos,               *)
(* TypeCategories, token), for any number of callers.                      *)
THEOREM NoDeadlock == Spec => []HoldersProceed
<1>1. Init => Holders
  BY DEF Init, Holders, Holder, Mutexes
<1>2. ASSUME IInv, Holders, NEW p \in Callers, Blocked(p)
      PROVE  \/ At(lock[Wants(p)]) \in Calling
             \/ /\ Wants(p) \in Caches /\ At(lock[Wants(p)]) = "wantToken"
                /\ Blocked(lock[Wants(p)]) => At(lock["token"]) = "exchange"
  <2>1. Wants(p) = "token" \/ Wants(p) \in Caches
    BY <1>2 DEF Blocked, Wants, IInv, Position
  <2>2. CASE Wants(p) = "token"
    BY <1>2, <2>2 DEF Blocked, Holders, Holder, Mutexes, Calling
  <2>3. CASE Wants(p) \in Caches
    <3> DEFINE h == lock[Wants(p)]
    <3>1. At(h) \in {"wantToken"} \cup Calling
      BY <1>2, <2>3 DEF Blocked, Holders, Holder, Mutexes, Caches, Working
    <3>2. At(h) = "wantToken" /\ Blocked(h) => At(lock["token"]) = "exchange"
      BY <1>2 DEF Blocked, Wants, Holders, Holder, Mutexes
    <3> QED
      BY <2>3, <3>1, <3>2
  <2> QED
    BY <2>1, <2>2, <2>3
<1>3. IInv /\ Holders => HoldersProceed
  BY <1>2 DEF HoldersProceed
<1> QED
  BY <1>1, <1>3, HoldersNext, Invariance, PTL DEF Spec
-----------------------------------------------------------------------------
(* What the calls of a caller can still last, place by place.              *)
LEMMA RemainingIs ==
    ASSUME NEW p \in Callers
    PROVE  /\ At(p) = "exchange" /\ Kind(p) = "cats" =>
                Remaining(p) = http[p].left + CallsTime(MaxRanges + 1)
           /\ At(p) = "exchange" /\ Kind(p) # "cats" => Remaining(p) = http[p].left + CallTime
           /\ At(p) = "fetch" /\ Kind(p) = "cats" =>
                Remaining(p) = http[p].left + CallsTime(MaxRanges)
           /\ At(p) = "fetch" /\ Kind(p) # "cats" => Remaining(p) = http[p].left + 0
           /\ At(p) = "range" => Remaining(p) = http[p].left + CallsTime(ranges[p] - 1)
  BY DEF Remaining, FetchTime

LEMMA RemainingAfter ==
    ASSUME NEW p \in Callers
    PROVE  /\ At(p)' = "exchange" /\ Kind(p)' = "cats" =>
                Remaining(p)' = http'[p].left + CallsTime(MaxRanges + 1)
           /\ At(p)' = "exchange" /\ Kind(p)' # "cats" => Remaining(p)' = http'[p].left + CallTime
           /\ At(p)' = "fetch" /\ Kind(p)' = "cats" =>
                Remaining(p)' = http'[p].left + CallsTime(MaxRanges)
           /\ At(p)' = "fetch" /\ Kind(p)' # "cats" => Remaining(p)' = http'[p].left + 0
           /\ At(p)' = "range" => Remaining(p)' = http'[p].left + CallsTime(ranges'[p] - 1)
  BY DEF Remaining, FetchTime

LEMMA RemainingParts ==
    ASSUME IInv, NEW p \in Callers, At(p) \in Calling
    PROVE  /\ http[p].left \in Int /\ CallTime \in Int
           /\ CallsTime(MaxRanges) \in Int /\ CallsTime(MaxRanges + 1) \in Int
           /\ At(p) = "range" => CallsTime(ranges[p] - 1) \in Int
           /\ At(p) \in {"exchange", "fetch", "range"}
<1>1. MaxRanges \in Nat /\ MaxRanges + 1 \in Nat /\ CallTime \in Nat
  BY TimeAssumption
<1>2. At(p) = "range" => ranges[p] - 1 \in Nat
  BY TimeAssumption DEF IInv, TypeOK, Position
<1> QED
  BY <1>1, <1>2, CallsTimes DEF IInv, TypeOK, Https, Calling, Fetching

LEMMA RemainingTyped ==
    ASSUME IInv, NEW p \in Callers, At(p) \in Calling
    PROVE  Remaining(p) \in Int
<1>1. CASE At(p) = "exchange"
  BY <1>1, RemainingParts, RemainingIs
<1>2. CASE At(p) = "fetch"
  BY <1>2, RemainingParts, RemainingIs
<1>3. CASE At(p) = "range"
  BY <1>3, RemainingParts, RemainingIs
<1> QED
  BY <1>1, <1>2, <1>3, RemainingParts

(* A caller whose place, question and ranges stay has what it had, less    *)
(* the time that has passed.                                               *)
LEMMA RemainingInPlace ==
    ASSUME IInv, NEW p \in Callers, At(p) \in Calling,
           call'[p] = call[p], ranges'[p] = ranges[p], NEW d \in {0, 1},
           http'[p].left = http[p].left - d
    PROVE  Remaining(p) \in Int /\ Remaining(p)' = Remaining(p) - d
<1>1. At(p)' = At(p) /\ Kind(p)' = Kind(p)
  BY DEF At, Kind
<1>2. /\ http[p].left \in Int /\ CallTime \in Int /\ Remaining(p) \in Int
      /\ CallsTime(MaxRanges) \in Int /\ CallsTime(MaxRanges + 1) \in Int
      /\ At(p) = "range" => CallsTime(ranges[p] - 1) \in Int
      /\ At(p) \in {"exchange", "fetch", "range"}
  BY RemainingParts, RemainingTyped
<1>4. CASE At(p) = "exchange"
  BY <1>1, <1>2, <1>4, RemainingIs, RemainingAfter
<1>5. CASE At(p) = "fetch"
  BY <1>1, <1>2, <1>5, RemainingIs, RemainingAfter
<1>6. CASE At(p) = "range"
  BY <1>1, <1>2, <1>6, RemainingIs, RemainingAfter
<1> QED
  BY <1>2, <1>4, <1>5, <1>6

(* Only time and the caller's own requests touch what remains of them.     *)
LEMMA RemainingStep ==
    ASSUME IInv, [Next]_vars, ~Tick, NEW p \in Callers, At(p) \in Calling, At(p)' \in Calling
    PROVE  Remaining(p)' <= Remaining(p)
<1>1. /\ TypeOK /\ http[p].left \in Nat /\ CallTime \in Nat
      /\ MaxRanges \in Nat /\ CallsTime(MaxRanges) \in Nat
      /\ CallsTime(MaxRanges + 1) = CallsTime(MaxRanges) + CallTime
  <2>1. MaxRanges \in Nat /\ CallTime \in Nat
    BY TimeAssumption
  <2>2. CallsTime(MaxRanges) \in Nat /\ CallsTime(MaxRanges + 1) = CallsTime(MaxRanges) + CallTime
    BY <2>1, CallsTimes
  <2>3. TypeOK
    BY DEF IInv
  <2>4. http[p].left \in Nat
    BY <2>3 DEF TypeOK, Https
  <2> QED
    BY <2>1, <2>2, <2>3, <2>4
<1>2. ASSUME call'[p] = call[p], ranges'[p] = ranges[p], http'[p].left = http[p].left
      PROVE  Remaining(p)' <= Remaining(p)
  <2>1. http'[p].left = http[p].left - 0
    BY <1>1, <1>2
  <2>2. Remaining(p) \in Int /\ Remaining(p)' = Remaining(p) - 0
    BY <1>2, <2>1, RemainingInPlace
  <2> QED
    BY <2>2
<1>3. ASSUME NEW r \in Callers, r # p, Frame(r)
      PROVE  Remaining(p)' <= Remaining(p)
  BY <1>2, <1>3 DEF Frame
<1>4. CASE UNCHANGED vars
  BY <1>2, <1>4 DEF vars
<1>5. ASSUME NEW r \in Callers, NEW q \in Questions, Ask(r, q)
      PROVE  Remaining(p)' <= Remaining(p)
  BY <1>3, <1>5, AskOwn DEF Own, Ask, Resting, Calling, Fetching
<1>6. ASSUME NEW r \in Callers, Acquire(r) \/ AcquireToken(r)
      PROVE  Remaining(p)' <= Remaining(p)
  <2>1. Frame(r) /\ At(r) \in {"queued", "wantToken"}
    BY <1>6, HitOwn, MissOwn, TokenHitOwn, TokenMissOwn
    DEF Own, Acquire, AcquireToken, Hit, Miss, TokenHit, TokenMiss, Go
  <2> QED
    BY <1>3, <2>1 DEF Calling, Fetching
<1>7. ASSUME NEW r \in Callers, Serve(r)
      PROVE  Remaining(p)' <= Remaining(p)
  <2>1. UNCHANGED <<call, ranges>> /\ http'[p].left = http[p].left
    BY <1>1, <1>7 DEF Serve, TypeOK, Https
  <2> QED
    BY <1>2, <2>1
<1>8. ASSUME NEW r \in Callers, ExchangeOK(r)
      PROVE  Remaining(p)' <= Remaining(p)
  <2>1. CASE r = p
    <3>1. /\ At(p) = "exchange" /\ call'[p].at = "fetch" /\ call'[p].ask = call[p].ask
          /\ http'[p].left = CallTime
      BY <1>1, <1>8, <2>1, GoEffect, SendEffect DEF ExchangeOK
    <3>2. At(p)' = "fetch" /\ Kind(p)' = Kind(p)
      BY <3>1 DEF At, Kind
    <3>3. CASE Kind(p) = "cats"
      BY <1>1, <3>1, <3>2, <3>3, RemainingIs, RemainingAfter
    <3>4. CASE Kind(p) # "cats"
      BY <1>1, <3>1, <3>2, <3>4, RemainingIs, RemainingAfter
    <3> QED
      BY <3>3, <3>4
  <2>2. CASE r # p
    BY <1>3, <1>8, <2>2, ExchangeOwn DEF Own
  <2> QED
    BY <2>1, <2>2
<1>9. ASSUME NEW r \in Callers, PlainOK(r) \/ Fail(r)
      PROVE  Remaining(p)' <= Remaining(p)
  <2>1. Frame(r) /\ call'[r].at = "idle"
    BY <1>1, <1>9, PlainOwn, FailOwn, GoEffect DEF Own, PlainOK, Fail, TypeOK
  <2>2. r # p
    BY <2>1 DEF At, Calling, Fetching
  <2> QED
    BY <1>3, <2>1, <2>2
<1>10. ASSUME NEW r \in Callers, NEW found \in BOOLEAN,
              TabsOK(r) \/ CatsOK(r, found) \/ LastRange(r, found)
       PROVE  Remaining(p)' <= Remaining(p)
  <2>1. Frame(r) /\ call'[r].at = "answered"
    BY <1>1, <1>10, ListOwn, GoEffect DEF Own, TabsOK, CatsOK, LastRange
  <2>2. r # p
    BY <2>1 DEF At, Calling, Fetching
  <2> QED
    BY <1>3, <2>1, <2>2
<1>11. ASSUME NEW r \in Callers, NEW n \in 1 .. MaxRanges, CatsRanges(r, n)
       PROVE  Remaining(p)' <= Remaining(p)
  <2>1. CASE r = p
    <3>1. /\ At(p) = "fetch" /\ Kind(p) = "cats" /\ At(p)' = "range"
          /\ http'[p].left = CallTime /\ ranges'[p] = n
      BY <1>1, <1>11, <2>1, GoEffect, SendNextEffect DEF CatsRanges, TypeOK, At
    <3>2. /\ n - 1 \in Nat /\ n \in Nat /\ (n - 1) + 1 = n /\ n <= MaxRanges
      BY <1>1
    <3>3. CallsTime(n) = CallsTime(n - 1) + CallTime /\ CallsTime(n) <= CallsTime(MaxRanges)
      BY <1>1, <3>2, CallsTimes, CallsTimeMonotone
    <3>4. CallsTime(n - 1) \in Nat
      BY <3>2, CallsTimes
    <3> QED
      BY <1>1, <3>1, <3>3, <3>4, RemainingIs, RemainingAfter
  <2>2. CASE r # p
    BY <1>3, <1>11, <2>2, CatsRangesOwn DEF Own
  <2> QED
    BY <2>1, <2>2
<1>12. ASSUME NEW r \in Callers, NextRange(r)
       PROVE  Remaining(p)' <= Remaining(p)
  <2>1. CASE r = p
    <3> DEFINE n == ranges[p]
    <3>1. /\ At(p) = "range" /\ At(p)' = "range"
          /\ http'[p].left = CallTime /\ ranges'[p] = n - 1 /\ n \in Nat /\ n > 1
      BY <1>1, <1>12, <2>1, GoEffect, SendNextEffect DEF NextRange, TypeOK, At
    <3>2. n - 2 \in Nat /\ (n - 2) + 1 = n - 1 /\ (n - 1) - 1 = n - 2
      BY <3>1
    <3>3. CallsTime(n - 1) = CallsTime(n - 2) + CallTime /\ CallsTime(n - 2) \in Nat
      BY <3>2, CallsTimes
    <3> QED
      BY <1>1, <3>1, <3>2, <3>3, RemainingIs, RemainingAfter
  <2>2. CASE r # p
    BY <1>3, <1>12, <2>2, NextRangeOwn DEF Own
  <2> QED
    BY <2>1, <2>2
<1>13. \A r \in Callers : TabsOK(r) => Remaining(p)' <= Remaining(p)
  BY <1>10
<1> QED
  BY <1>4, <1>5, <1>6, <1>7, <1>8, <1>9, <1>10, <1>11, <1>12, <1>13 DEF Next, ReadRange

(* The calls that a caller makes with a mutex held end after a time that   *)
(* is fixed when the first of them begins, and every second is one of it   *)
(* (token, tabInfos, TypeCategories, readRange).                           *)
THEOREM HoldsEnd == Spec => HoldsRunOut
<1>1. ASSUME IInv, [Next]_vars, NEW p \in Callers, At(p) \in Calling, At(p)' \in Calling
      PROVE  Remaining(p)' <= Remaining(p) - (IF Tick THEN 1 ELSE 0)
  <2>1. CASE Tick
    <3>1. /\ UNCHANGED <<call, ranges>> /\ http'[p].left = http[p].left - 1
      BY <1>1, <2>1 DEF Tick, Elapsed
    <3>2. Remaining(p) \in Int /\ Remaining(p)' = Remaining(p) - 1
      BY <1>1, <3>1, RemainingInPlace
    <3> QED
      BY <2>1, <3>2
  <2>2. CASE ~Tick
    <3>1. Remaining(p)' <= Remaining(p) /\ Remaining(p) \in Int
      BY <1>1, <2>2, RemainingStep, RemainingTyped
    <3> QED
      BY <2>2, <3>1
  <2> QED
    BY <2>1, <2>2
<1>2. IInv /\ [Next]_vars =>
        [\A p \in Callers : At(p) \in Calling /\ At(p)' \in Calling =>
           Remaining(p)' <= Remaining(p) - (IF Tick THEN 1 ELSE 0)]_vars
  BY <1>1
<1> QED
  BY <1>2, Invariance, PTL DEF Spec, HoldsRunOut

(* The mutex of a list is held, from the exchange on, for no longer than a *)
(* call to Google for the token and the calls for the list take: two for   *)
(* the tabs, one for each range more for the categories (tabInfos,         *)
(* TypeCategories).                                                        *)
THEOREM HoldsBounded ==
    Spec => [](\A p \in Callers : At(p) \in Calling /\ Kind(p) \in Caches =>
                 Remaining(p) \in 0 .. CallTime + FetchTime(Kind(p)))
<1>1. ASSUME IInv, NEW p \in Callers, At(p) \in Calling, Kind(p) \in Caches
      PROVE  Remaining(p) \in 0 .. CallTime + FetchTime(Kind(p))
  <2>1. /\ TypeOK /\ MaxRanges \in Nat /\ CallTime \in Nat
    BY <1>1, TimeAssumption DEF IInv
  <2>2. http[p].left \in 0 .. CallTime /\ ranges[p] \in 0 .. MaxRanges
    BY <2>1 DEF TypeOK, Https
  <2>3. /\ CallsTime(MaxRanges) \in Nat
        /\ CallsTime(MaxRanges + 1) = CallsTime(MaxRanges) + CallTime
    BY <2>1, CallsTimes
  <2>4. At(p) \in {"exchange", "fetch", "range"}
    BY <1>1 DEF Calling, Fetching
  <2>5. CASE Kind(p) = "tabs"
    <3>1. FetchTime(Kind(p)) = CallTime /\ At(p) # "range"
      BY <1>1, <2>5 DEF FetchTime, IInv, Position
    <3>2. CASE At(p) = "exchange"
      BY <2>1, <2>2, <2>5, <3>1, <3>2, RemainingIs
    <3>3. CASE At(p) = "fetch"
      BY <2>1, <2>2, <2>5, <3>1, <3>3, RemainingIs
    <3> QED
      BY <2>4, <3>1, <3>2, <3>3
  <2>6. CASE Kind(p) = "cats"
    <3>1. FetchTime(Kind(p)) = CallsTime(MaxRanges + 1)
      BY <2>6 DEF FetchTime
    <3>2. CASE At(p) = "exchange"
      BY <2>1, <2>2, <2>3, <2>6, <3>1, <3>2, RemainingIs
    <3>3. CASE At(p) = "fetch"
      BY <2>1, <2>2, <2>3, <2>6, <3>1, <3>3, RemainingIs
    <3>4. CASE At(p) = "range"
      <4>1. ranges[p] - 1 \in Nat /\ ranges[p] - 1 <= MaxRanges
        BY <1>1, <2>1, <2>2, <3>4 DEF IInv, Position
      <4>2. CallsTime(ranges[p] - 1) \in Nat /\ CallsTime(ranges[p] - 1) <= CallsTime(MaxRanges)
        BY <2>1, <4>1, CallsTimes, CallsTimeMonotone
      <4> QED
        BY <2>1, <2>2, <2>3, <3>1, <3>4, <4>2, RemainingIs
    <3> QED
      BY <2>4, <3>2, <3>3, <3>4
  <2> QED
    BY <1>1, <2>5, <2>6 DEF Caches
<1>2. IInv => \A p \in Callers : At(p) \in Calling /\ Kind(p) \in Caches =>
                Remaining(p) \in 0 .. CallTime + FetchTime(Kind(p))
  BY <1>1
<1> QED
  BY <1>2, Invariance, PTL
=============================================================================
