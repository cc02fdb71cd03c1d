---------------------------- MODULE TokenBucket ----------------------------
(***************************************************************************)
(* What a client is promised by the rate limit: one bucket per address     *)
(* that fills at Rate credits per tick up to Capacity, a request is served *)
(* if the bucket holds Cost credits, and no address affects another.       *)
(* RateLimiter, which refills lazily and forgets idle buckets, implements  *)
(* it.                                                                     *)
(***************************************************************************)
EXTENDS Integers

CONSTANTS IPs, Rate, Cost, Capacity

VARIABLE level

Init == level = [ip \in IPs |-> Capacity]

Atmost(n) == IF n > Capacity THEN Capacity ELSE n

Serve(ip) ==
    /\ level[ip] >= Cost
    /\ level' = [level EXCEPT ![ip] = @ - Cost]

Refuse(ip) ==
    /\ level[ip] < Cost
    /\ UNCHANGED level

Fill == level' = [ip \in IPs |-> Atmost(level[ip] + Rate)]

Next == (\E ip \in IPs : Serve(ip) \/ Refuse(ip)) \/ Fill

Spec == Init /\ [][Next]_level
=============================================================================
