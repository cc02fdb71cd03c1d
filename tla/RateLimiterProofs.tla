------------------------- MODULE RateLimiterProofs -------------------------
(***************************************************************************)
(* Proofs about RateLimiter for any set of addresses, any positive rate    *)
(* and any burst.                                                          *)
(***************************************************************************)
EXTENDS RateLimiter, TLAPS

(* A full bucket holds a whole number of credits.                          *)
LEMMA CapacityNat == Capacity \in Nat
  BY RateAssumption DEF Capacity

(* Products are monotone: the only arithmetic the provers have to be told. *)
LEMMA ProductMonotone ==
    ASSUME NEW m \in Nat, NEW n \in Nat, m >= n, NEW r \in Nat
    PROVE  m * r >= n * r
<1>1. PICK d \in Nat : m = n + d
  <2>1. m - n \in Nat /\ m = n + (m - n)
    OBVIOUS
  <2> QED
    BY <2>1
<1>2. m * r = n * r + d * r
  BY <1>1
<1>3. d * r \in Nat /\ n * r \in Nat
  OBVIOUS
<1> QED
  BY <1>2, <1>3

(* What a bucket holds and what comes in add up to a number of credits.    *)
LEMMA RefilledRange ==
    ASSUME NEW b \in Buckets
    PROVE  b.credit + b.idle * Rate \in Nat
<1>1. b.credit \in Nat /\ b.idle \in Nat /\ Rate \in Nat
  BY CapacityNat, RateAssumption DEF Buckets, IdleBound
<1>2. b.idle * Rate \in Nat
  BY <1>1
<1> QED
  BY <1>1, <1>2

(* Allow never finds less than nothing or more than a full bucket.         *)
LEMMA RefilledNat ==
    ASSUME TypeOK, NEW ip \in IPs
    PROVE  Refilled(ip) \in 0 .. Capacity
<1>1. bucket[ip] \in Buckets
  BY DEF TypeOK
<1> QED
  BY <1>1, RefilledRange, CapacityNat DEF Refilled
-----------------------------------------------------------------------------
(* How each step changes what Allow would find.                            *)

(* Allow spends Cost credits of what it finds, or none.                    *)
LEMMA AllowLevels ==
    ASSUME TypeOK, NEW ip \in IPs, NEW spent \in 0 .. Capacity,
           spent <= Refilled(ip),
           bucket' = [bucket EXCEPT ![ip] = [there |-> TRUE, idle |-> 0,
                                             credit |-> Refilled(ip) - spent]]
    PROVE  /\ bucket' \in [IPs -> Buckets]
           /\ Refilled(ip)' = Refilled(ip) - spent
           /\ \A other \in IPs \ {ip} : Refilled(other)' = Refilled(other)
<1>1. Refilled(ip) \in 0 .. Capacity /\ Capacity \in Nat
  BY RefilledNat, CapacityNat
<1>2. [there |-> TRUE, idle |-> 0, credit |-> Refilled(ip) - spent] \in Buckets
  BY <1>1, RateAssumption DEF Buckets, IdleBound
<1>3. bucket'[ip] = [there |-> TRUE, idle |-> 0, credit |-> Refilled(ip) - spent]
  BY DEF TypeOK
<1>4. \A other \in IPs \ {ip} : bucket'[other] = bucket[other]
  BY DEF TypeOK
<1>5. Refilled(ip)' = Refilled(ip) - spent
  <2>1. Refilled(ip)' = IF (Refilled(ip) - spent) + 0 * Rate > Capacity
                          THEN Capacity ELSE (Refilled(ip) - spent) + 0 * Rate
    BY <1>3 DEF Refilled, Capacity
  <2> QED
    BY <1>1, <2>1, RateAssumption
<1>6. \A other \in IPs \ {ip} : Refilled(other)' = Refilled(other)
  BY <1>4 DEF Refilled, Capacity
<1> QED
  BY <1>2, <1>5, <1>6 DEF TypeOK

(* A request that is let through costs its address Cost credits.           *)
LEMMA AdmitLevels ==
    ASSUME TypeOK, NEW ip \in IPs, Admit(ip)
    PROVE  /\ bucket' \in [IPs -> Buckets]
           /\ Refilled(ip) >= Cost
           /\ Refilled(ip)' = Refilled(ip) - Cost
           /\ \A other \in IPs \ {ip} : Refilled(other)' = Refilled(other)
<1>1. Refilled(ip) \in 0 .. Capacity /\ Refilled(ip) >= Cost
  BY RefilledNat DEF Admit
<1>2. Cost \in 0 .. Capacity /\ Cost <= Refilled(ip)
  BY <1>1, RateAssumption, CapacityNat
<1> QED
  BY <1>1, <1>2, AllowLevels DEF Admit

(* A refusal costs nothing.                                                *)
LEMMA DenyLevels ==
    ASSUME TypeOK, NEW ip \in IPs, Deny(ip)
    PROVE  /\ bucket' \in [IPs -> Buckets]
           /\ \A other \in IPs : Refilled(other)' = Refilled(other)
<1>1. Refilled(ip) - 0 = Refilled(ip) /\ 0 \in 0 .. Capacity /\ 0 <= Refilled(ip)
  BY RefilledNat, CapacityNat
<1> QED
  BY <1>1, AllowLevels DEF Deny

(* A tick adds Rate credits, up to Capacity: also to a bucket whose idle   *)
(* time is no longer counted, because that bucket is full.                 *)
LEMMA TickLevels ==
    ASSUME TypeOK, Tick, NEW ip \in IPs
    PROVE  /\ bucket'[ip] \in Buckets
           /\ Refilled(ip)' = Bucket!Atmost(Refilled(ip) + Rate)
<1> DEFINE b == bucket[ip]
<1> USE RateAssumption, CapacityNat
<1>1. b \in Buckets /\ b.credit \in Nat /\ b.idle \in Nat
  BY DEF TypeOK, Buckets, IdleBound
<1>2. bucket'[ip] = IF b.there /\ b.idle < IdleBound THEN [b EXCEPT !.idle = b.idle + 1] ELSE b
  BY DEF Tick
<1>3. b.idle * Rate \in Nat
  BY <1>1
<1>4. CASE b.there /\ b.idle < IdleBound
  <2>1. /\ bucket'[ip] \in Buckets /\ bucket'[ip].there
        /\ bucket'[ip].credit = b.credit /\ bucket'[ip].idle = b.idle + 1
    BY <1>1, <1>2, <1>4 DEF Buckets, IdleBound
  <2>2. (b.idle + 1) * Rate = b.idle * Rate + Rate
    BY <1>1
  <2>3. Refilled(ip)' = IF b.credit + (b.idle + 1) * Rate > Capacity
                          THEN Capacity ELSE b.credit + (b.idle + 1) * Rate
    BY <2>1 DEF Refilled, Capacity
  <2>4. Refilled(ip) = IF b.credit + b.idle * Rate > Capacity
                         THEN Capacity ELSE b.credit + b.idle * Rate
    BY <1>4 DEF Refilled
  <2>5. Refilled(ip)' = Bucket!Atmost(Refilled(ip) + Rate)
    BY <1>1, <1>3, <2>2, <2>3, <2>4 DEF Bucket!Atmost
  <2> QED
    BY <2>1, <2>5
<1>5. CASE ~(b.there /\ b.idle < IdleBound)
  <2>1. bucket'[ip] = b
    BY <1>2, <1>5
  <2>2. Refilled(ip) = Capacity
    <3>1. CASE ~b.there
      BY <3>1 DEF Refilled
    <3>2. CASE b.there
      <4>1. b.idle >= Capacity
        BY <1>1, <1>5, <3>2 DEF Buckets, IdleBound
      <4>2. b.idle * Rate >= Capacity * Rate /\ Rate * Capacity >= 1 * Capacity
        BY <1>1, <4>1, ProductMonotone
      <4>3. Rate * Capacity = Capacity * Rate
        OBVIOUS
      <4>4. b.idle * Rate >= Capacity
        BY <1>3, <4>2, <4>3
      <4> QED
        BY <1>1, <1>3, <4>4 DEF Refilled
    <3> QED
      BY <3>1, <3>2
  <2>3. Refilled(ip)' = Refilled(ip)
    BY <2>1 DEF Refilled, Capacity
  <2> QED
    BY <1>1, <2>1, <2>2, <2>3 DEF Bucket!Atmost
<1> QED
  BY <1>4, <1>5

(* Where eviction is safe, Cleanup forgets only buckets that are full.     *)
LEMMA CleanupLevels ==
    ASSUME TypeOK, EvictionSafe, Cleanup, NEW ip \in IPs
    PROVE  Refilled(ip)' = Refilled(ip)
<1> USE RateAssumption, CapacityNat
<1>1. bucket[ip] \in Buckets /\ bucket[ip].idle \in Nat /\ bucket[ip].credit \in Nat
  BY DEF TypeOK, Buckets, IdleBound
<1>2. CASE Forgettable(ip)
  <2>1. bucket[ip].idle * Rate >= MaxAge * Rate
    BY <1>1, <1>2, ProductMonotone DEF Forgettable
  <2>2. MaxAge * Rate = Rate * MaxAge /\ Rate * MaxAge >= Capacity
    BY DEF EvictionSafe
  <2>3. bucket[ip].idle * Rate \in Nat /\ Rate * MaxAge \in Nat
    BY <1>1
  <2>4. bucket[ip].credit + bucket[ip].idle * Rate >= Capacity
    BY <1>1, <2>1, <2>2, <2>3
  <2>5. Refilled(ip) = Capacity
    <3>1. Refilled(ip) = IF \/ ~bucket[ip].there
                            \/ bucket[ip].credit + bucket[ip].idle * Rate > Capacity
                           THEN Capacity ELSE bucket[ip].credit + bucket[ip].idle * Rate
      BY DEF Refilled
    <3>2. CASE bucket[ip].credit + bucket[ip].idle * Rate = Capacity
      BY <3>1, <3>2
    <3>3. CASE bucket[ip].credit + bucket[ip].idle * Rate > Capacity
      BY <3>1, <3>3
    <3>4. bucket[ip].credit + bucket[ip].idle * Rate \in Nat
      BY <1>1, <2>3
    <3> QED
      BY <2>4, <3>2, <3>3, <3>4
  <2>6. Refilled(ip)' = Capacity
    BY <1>2 DEF Cleanup, NoBucket, Refilled, Capacity
  <2> QED
    BY <2>5, <2>6
<1>3. CASE ~Forgettable(ip)
  BY <1>3 DEF Cleanup, Refilled, Capacity
<1> QED
  BY <1>2, <1>3
-----------------------------------------------------------------------------
(* Buckets stay between empty and full, whatever the order of requests,    *)
(* ticks and cleanups (Allow, cleanup).                                    *)
THEOREM TypeCorrect == Spec => []TypeOK
<1> USE RateAssumption, CapacityNat
<1>1. Init => TypeOK
  BY DEF Init, TypeOK, Buckets, NoBucket, IdleBound
<1>2. TypeOK /\ [Next]_vars => TypeOK'
  <2> SUFFICES ASSUME TypeOK, [Next]_vars PROVE TypeOK'
    OBVIOUS
  <2>1. ASSUME NEW ip \in IPs, Admit(ip) PROVE TypeOK'
    <3>1. bucket' \in [IPs -> Buckets]
      BY <2>1, AdmitLevels
    <3>2. window' \in [IPs -> [since : 0 .. MaxWindow, served : Nat]]
      BY <2>1 DEF Admit, TypeOK
    <3> QED
      BY <2>1, <3>1, <3>2 DEF Admit, TypeOK
  <2>2. ASSUME NEW ip \in IPs, Deny(ip) PROVE TypeOK'
    <3>1. bucket' \in [IPs -> Buckets]
      BY <2>2, DenyLevels
    <3> QED
      BY <2>2, <3>1 DEF Deny, TypeOK
  <2>3. ASSUME NEW ip \in IPs, OpenWindow(ip) PROVE TypeOK'
    BY <2>3 DEF OpenWindow, TypeOK
  <2>4. CASE Cleanup
    BY <2>4 DEF Cleanup, TypeOK, NoBucket, Buckets, IdleBound
  <2>5. CASE Tick
    <3>1. bucket' \in [IPs -> Buckets]
      BY <2>5, TickLevels DEF Tick
    <3>2. window' \in [IPs -> [since : 0 .. MaxWindow, served : Nat]]
      BY <2>5 DEF Tick, TypeOK
    <3> QED
      BY <2>5, <3>1, <3>2 DEF Tick, TypeOK
  <2>6. CASE UNCHANGED vars
    BY <2>6 DEF vars, TypeOK
  <2> QED
    BY <2>1, <2>2, <2>3, <2>4, <2>5, <2>6 DEF Next, Allow
<1> QED
  BY <1>1, <1>2, PTL DEF Spec

(* If eviction is safe, the lazy limiter with its cleanup implements the   *)
(* bucket that fills all the time.                                         *)
THEOREM Implementation ==
    ASSUME EvictionSafe
    PROVE  Spec => ImplementsTokenBucket
<1> USE RateAssumption, CapacityNat
<1>1. Init => Bucket!Init
  BY DEF Init, Bucket!Init, level, Refilled, NoBucket
<1>2. TypeOK /\ [Next]_vars => [Bucket!Next]_level
  <2> SUFFICES ASSUME TypeOK, [Next]_vars PROVE [Bucket!Next]_level
    OBVIOUS
  <2>1. ASSUME NEW ip \in IPs, Admit(ip) PROVE Bucket!Serve(ip)
    <3>1. /\ Refilled(ip) >= Cost
          /\ Refilled(ip)' = Refilled(ip) - Cost
          /\ \A other \in IPs \ {ip} : Refilled(other)' = Refilled(other)
      BY <2>1, AdmitLevels
    <3> QED
      BY <3>1 DEF Bucket!Serve, level
  <2>2. ASSUME NEW ip \in IPs, Deny(ip) PROVE UNCHANGED level
    BY <2>2, DenyLevels DEF level
  <2>3. CASE Cleanup
    BY <2>3, CleanupLevels DEF level
  <2>4. CASE Tick
    BY <2>4, TickLevels DEF Bucket!Next, Bucket!Fill, level
  <2>5. CASE (\E ip \in IPs : OpenWindow(ip)) \/ UNCHANGED vars
    <3>1. UNCHANGED bucket
      BY <2>5 DEF OpenWindow, vars
    <3> QED
      BY <3>1 DEF level, Refilled, Capacity
  <2> QED
    BY <2>1, <2>2, <2>3, <2>4, <2>5 DEF Next, Allow, Bucket!Next
<1> QED
  BY <1>1, <1>2, TypeCorrect, PTL DEF Spec, ImplementsTokenBucket, Bucket!Spec
-----------------------------------------------------------------------------
(* What was spent in a window and what is left never exceed a full bucket  *)
(* and what came in.                                                       *)
Account(ip) ==
    window[ip].served * Cost + Refilled(ip) <= Capacity + window[ip].since * Rate

WindowInv == \A ip \in IPs : Account(ip)

(* If eviction is safe, an address gets no more through in any window than *)
(* a full bucket and what comes in during the window (Allow, cleanup).     *)
THEOREM Windows ==
    ASSUME EvictionSafe
    PROVE  Spec => []WindowBound
<1> USE RateAssumption, CapacityNat
<1>1. Init => WindowInv
  <2> SUFFICES ASSUME Init, NEW ip \in IPs PROVE Account(ip)
    BY DEF WindowInv
  <2>1. window[ip].served = 0 /\ window[ip].since = 0 /\ Refilled(ip) = Capacity
    BY DEF Init, NoBucket, Refilled
  <2>2. 0 * Cost = 0 /\ 0 * Rate = 0
    OBVIOUS
  <2> QED
    BY <2>1, <2>2 DEF Account
<1>2. TypeOK /\ WindowInv /\ [Next]_vars => WindowInv'
  <2> SUFFICES ASSUME TypeOK, WindowInv, [Next]_vars, NEW o \in IPs
               PROVE  Account(o)'
    BY DEF WindowInv
  <2>1. /\ window[o] \in [since : 0 .. MaxWindow, served : Nat]
        /\ window[o].since \in Nat /\ window[o].served \in Nat
        /\ Refilled(o) \in 0 .. Capacity
        /\ Account(o)
    BY RefilledNat DEF TypeOK, WindowInv
  <2>2. window[o].served * Cost \in Nat /\ window[o].since * Rate \in Nat
    BY <2>1
  <2>3. ASSUME NEW ip \in IPs, Admit(ip) PROVE Account(o)'
    <3>1. /\ Refilled(ip) >= Cost
          /\ Refilled(ip)' = Refilled(ip) - Cost
          /\ \A other \in IPs \ {ip} : Refilled(other)' = Refilled(other)
      BY <2>3, AdmitLevels
    <3>2. CASE o = ip
      <4>1. /\ window'[o].served = window[o].served + 1
            /\ window'[o].since = window[o].since
        BY <2>3, <3>2 DEF Admit, TypeOK
      <4>2. (window[o].served + 1) * Cost = window[o].served * Cost + Cost
        BY <2>1
      <4> QED
        BY <2>1, <2>2, <3>1, <3>2, <4>1, <4>2 DEF Account, Capacity
    <3>3. CASE o # ip
      <4>1. window'[o] = window[o]
        BY <2>3, <3>3 DEF Admit, TypeOK
      <4> QED
        BY <2>1, <3>1, <3>3, <4>1 DEF Account, Capacity
    <3> QED
      BY <3>2, <3>3
  <2>4. ASSUME NEW ip \in IPs, Deny(ip) PROVE Account(o)'
    BY <2>1, <2>4, DenyLevels DEF Account, Capacity, Deny
  <2>5. ASSUME NEW ip \in IPs, OpenWindow(ip) PROVE Account(o)'
    <3>1. Refilled(o)' = Refilled(o)
      BY <2>5 DEF OpenWindow, Refilled, Capacity
    <3>2. window'[o] \in {window[o], [since |-> 0, served |-> 0]}
      BY <2>5 DEF OpenWindow, TypeOK
    <3> QED
      BY <2>1, <3>1, <3>2 DEF Account, Capacity
  <2>6. CASE Cleanup
    BY <2>1, <2>6, CleanupLevels DEF Account, Capacity, Cleanup
  <2>7. CASE Tick
    <3>1. Refilled(o)' = Bucket!Atmost(Refilled(o) + Rate)
      BY <2>7, TickLevels
    <3>2. /\ window'[o].since = window[o].since + 1
          /\ window'[o].served = window[o].served
      BY <2>1, <2>7 DEF Tick
    <3>3. (window[o].since + 1) * Rate = window[o].since * Rate + Rate
      BY <2>1
    <3>4. Bucket!Atmost(Refilled(o) + Rate) <= Refilled(o) + Rate
      BY <2>1 DEF Bucket!Atmost
    <3>5. Bucket!Atmost(Refilled(o) + Rate) \in Nat
      BY <2>1 DEF Bucket!Atmost
    <3> QED
      BY <2>1, <2>2, <3>1, <3>2, <3>3, <3>4, <3>5 DEF Account, Capacity
  <2>8. CASE UNCHANGED vars
    BY <2>1, <2>8 DEF Account, Capacity, vars, Refilled
  <2> QED
    BY <2>3, <2>4, <2>5, <2>6, <2>7, <2>8 DEF Next, Allow
<1>3. TypeOK /\ WindowInv => WindowBound
  <2> SUFFICES ASSUME TypeOK, WindowInv, NEW ip \in IPs
               PROVE  window[ip].served * Cost <= Capacity + window[ip].since * Rate
    BY DEF WindowBound
  <2>1. /\ window[ip].served * Cost \in Nat /\ window[ip].since * Rate \in Nat
        /\ Refilled(ip) \in 0 .. Capacity
        /\ Account(ip)
    BY RefilledNat DEF TypeOK, WindowInv
  <2> QED
    BY <2>1 DEF Account
<1> QED
  BY <1>1, <1>2, <1>3, TypeCorrect, PTL DEF Spec
=============================================================================
