---------------------------- MODULE RateLimiter ----------------------------
(***************************************************************************)
(* The per-address rate limit (internal/ratelimit) that RateLimitMiddleware *)
(* puts in front of every route but /health.  Allow refills a bucket when  *)
(* it is used, from the time since its last use; the cleanup goroutine     *)
(* deletes buckets that were not used for MaxAge, and the next request     *)
(* finds a full one.  The code counts tokens in floating point; here they  *)
(* are counted in credits, Cost of them to a token, so that Rate credits   *)
(* per tick is a whole number, and rounding is left out.                   *)
(***************************************************************************)
EXTENDS Integers

CONSTANTS
    IPs,
    Rate,       \* credits per tick: RATE_LIMIT_PER_IP
    Cost,       \* credits per request: the ticks of a minute
    Burst,      \* tokens in a full bucket: RATE_BURST_PER_IP
    MaxAge,     \* the 30 minutes after which cleanup forgets a bucket
    MaxWindow   \* bound on the length of the window that is observed

ASSUME RateAssumption ==
    /\ Rate \in Nat \ {0}
    /\ Cost \in Nat \ {0}
    /\ Burst \in Nat
    /\ MaxAge \in Nat
    /\ MaxWindow \in Nat

VARIABLES
    bucket,     \* RateLimiter.buckets
    answer,     \* the last thing each address was told
    window      \* a stretch of time in which an observer counts: since is
                \* its age, served the requests let through in it

vars == <<bucket, answer, window>>

Capacity == Burst * Cost

(* A bucket that has not been used for this long is full.                  *)
IdleBound == MaxAge + Capacity + 1

Buckets == [there : BOOLEAN, credit : 0 .. Capacity, idle : 0 .. IdleBound]

TypeOK ==
    /\ bucket \in [IPs -> Buckets]
    /\ answer \in [IPs -> {"none", "served", "refused"}]
    /\ window \in [IPs -> [since : 0 .. MaxWindow, served : Nat]]

NoBucket == [there |-> FALSE, credit |-> Capacity, idle |-> 0]

Init ==
    /\ bucket = [ip \in IPs |-> NoBucket]
    /\ answer = [ip \in IPs |-> "none"]
    /\ window = [ip \in IPs |-> [since |-> 0, served |-> 0]]

(* A plausible bug: the refill is not capped.                              *)
RefilledWithoutCap(ip) ==
    IF ~bucket[ip].there THEN Capacity ELSE bucket[ip].credit + bucket[ip].idle * Rate

(* tokens after the refill at the head of Allow; a new bucket is full.     *)
Refilled(ip) ==
    LET b == bucket[ip]
        filled == b.credit + b.idle * Rate
    IN  IF ~b.there \/ filled > Capacity THEN Capacity ELSE filled

(* Plausible bugs: a refusal stores the refill and not the time it was     *)
(* made, so that it counts twice, or the time and not the refill.          *)
DenyKeepingTime(ip) ==
    /\ Refilled(ip) < Cost
    /\ bucket' = [bucket EXCEPT ![ip].credit = Refilled(ip)]
    /\ answer' = [answer EXCEPT ![ip] = "refused"]
    /\ UNCHANGED window

DenyLosingRefill(ip) ==
    /\ Refilled(ip) < Cost
    /\ bucket' = [bucket EXCEPT ![ip].idle = 0]
    /\ answer' = [answer EXCEPT ![ip] = "refused"]
    /\ UNCHANGED window

(* Allow, under the mutex: lastFill and lastUsed are reset in either case. *)
Admit(ip) ==
    /\ Refilled(ip) >= Cost
    /\ bucket' = [bucket EXCEPT ![ip] = [there |-> TRUE, idle |-> 0,
                                         credit |-> Refilled(ip) - Cost]]
    /\ answer' = [answer EXCEPT ![ip] = "served"]
    /\ window' = [window EXCEPT ![ip].served = @ + 1]

Deny(ip) ==
    /\ Refilled(ip) < Cost
    /\ bucket' = [bucket EXCEPT ![ip] = [there |-> TRUE, idle |-> 0,
                                         credit |-> Refilled(ip)]]
    /\ answer' = [answer EXCEPT ![ip] = "refused"]
    /\ UNCHANGED window

(* A plausible bug: cleanup forgets buckets of any age.                    *)
ForgettableAtOnce(ip) == bucket[ip].there

Allow(ip) == Admit(ip) \/ Deny(ip)

Forgettable(ip) == bucket[ip].there /\ bucket[ip].idle > MaxAge

Cleanup ==
    /\ \E ip \in IPs : Forgettable(ip)
    /\ bucket' = [ip \in IPs |-> IF Forgettable(ip) THEN NoBucket ELSE bucket[ip]]
    /\ UNCHANGED <<answer, window>>

(* A window that has reached MaxWindow is closed and a new one opened.     *)
OpenWindow(ip) ==
    /\ window' = [window EXCEPT ![ip] = [since |-> 0, served |-> 0]]
    /\ UNCHANGED <<bucket, answer>>

Tick ==
    /\ \A ip \in IPs : window[ip].since < MaxWindow
    /\ bucket' = [ip \in IPs |->
                    IF bucket[ip].there /\ bucket[ip].idle < IdleBound
                        THEN [bucket[ip] EXCEPT !.idle = @ + 1]
                        ELSE bucket[ip]]
    /\ window' = [ip \in IPs |-> [window[ip] EXCEPT !.since = @ + 1]]
    /\ UNCHANGED answer

Next ==
    \/ \E ip \in IPs : Allow(ip) \/ OpenWindow(ip)
    \/ Cleanup
    \/ Tick

Spec == Init /\ [][Next]_vars

(* For a client that keeps asking: time passes, and Cleanup may run or not. *)
Fairness ==
    /\ WF_vars(Tick)
    /\ \A ip \in IPs : WF_vars(Allow(ip))
    /\ \A ip \in IPs : WF_vars(window[ip].since = MaxWindow /\ OpenWindow(ip))

FairSpec == Spec /\ Fairness
-----------------------------------------------------------------------------
(* The configurations in which a forgotten bucket was full anyway.  The    *)
(* defaults are among them: in 30 minutes, 900 tokens come in for a burst  *)
(* of 30.                                                                  *)
EvictionSafe == Rate * MaxAge >= Capacity

level == [ip \in IPs |-> Refilled(ip)]

Bucket == INSTANCE TokenBucket WITH
    IPs <- IPs, Rate <- Rate, Cost <- Cost, Capacity <- Capacity, level <- level

(* Refilling lazily, and forgetting buckets, is the same to every client   *)
(* as a bucket that fills all the time (Allow, cleanup).                   *)
ImplementsTokenBucket == Bucket!Spec

(* In any stretch of time, however chosen, an address gets through at most *)
(* a full bucket and what comes in meanwhile, across evictions.            *)
WindowBound ==
    \A ip \in IPs :
        window[ip].served * Cost <= Capacity + window[ip].since * Rate

(* A client that keeps asking is served again and again: a refusal does    *)
(* not cost it what had come in since its last request.                    *)
NoStarvation == \A ip \in IPs : answer[ip] = "refused" ~> answer[ip] = "served"
=============================================================================
