-------------------------- MODULE RateLimiterProofs --------------------------
(* Theorems about RateLimiter, for any number of handlers, clients and addresses, and  *)
(* any rates, bursts and times that satisfy its assumptions.                            *)
EXTENDS RateLimiter, FiniteSetTheorems, TLAPS

\* There is always an object for a new limiter.
LEMMA FreeLimiter ==
    ASSUME TypeOK
    PROVE  (CHOOSE free \in Limiters : free \notin InUse) \in Limiters \ InUse
<1> DEFINE D  == DOMAIN perIP
           H  == {g \in Handlers : pc[g] = "Allow"}
           DL == {perIP[ip].limiter : ip \in D}
           HL == {limiter[h] : h \in H}
<1>1. IsFiniteSet(IPs) /\ Cardinality(IPs) <= Cardinality(Clients)
  <2>1. Addr \in Surjection(Clients, IPs)
    BY AddrAssumption DEF Surjection, IPs
  <2> QED
    BY <2>1, HeapAssumption, FS_Surjection
<1>2. IsFiniteSet(D) /\ Cardinality(D) <= Cardinality(IPs)
  BY <1>1, FS_Subset DEF TypeOK
<1>3. IsFiniteSet(DL) /\ Cardinality(DL) <= Cardinality(D)
  <2> DEFINE f == [ip \in D |-> perIP[ip].limiter]
  <2>1. f \in Surjection(D, DL)
    BY DEF Surjection
  <2> HIDE DEF f, DL
  <2> QED
    BY <1>2, <2>1, FS_Surjection
<1>4. IsFiniteSet(H) /\ Cardinality(H) <= Cardinality(Handlers)
  BY HeapAssumption, FS_Subset
<1>5. IsFiniteSet(HL) /\ Cardinality(HL) <= Cardinality(H)
  <2> DEFINE f == [h \in H |-> limiter[h]]
  <2>1. f \in Surjection(H, HL)
    BY DEF Surjection
  <2> HIDE DEF f, HL, H
  <2> QED
    BY <1>4, <2>1, FS_Surjection
<1>6. InUse = DL \union HL
  BY DEF InUse
<1> HIDE DEF D, H, DL, HL
<1>7. /\ IsFiniteSet(DL \union HL)
      /\ Cardinality(DL \union HL) = Cardinality(DL) + Cardinality(HL) - Cardinality(DL \cap HL)
  BY <1>3, <1>5, FS_Union
<1>8. IsFiniteSet(DL \cap HL)
  BY <1>3, FS_Subset
<1>9. /\ {Cardinality(DL), Cardinality(HL), Cardinality(DL \cap HL), Cardinality(D),
          Cardinality(H), Cardinality(IPs)} \subseteq Nat
      /\ {Cardinality(Handlers), Cardinality(Clients), Cardinality(Limiters),
          Cardinality(DL \union HL)} \subseteq Nat
  BY <1>1, <1>2, <1>3, <1>4, <1>5, <1>7, <1>8, HeapAssumption, FS_CardinalityType
<1>10. Cardinality(InUse) < Cardinality(Limiters)
  BY <1>1, <1>2, <1>3, <1>4, <1>5, <1>6, <1>7, <1>9, HeapAssumption
<1>11. ~(Limiters \subseteq InUse)
  BY <1>6, <1>7, <1>9, <1>10, FS_Subset
<1> QED
  BY <1>11

-----------------------------------------------------------------------------
\* What getIPLimiter does, when it finds or makes limiter l for the address ip.
Gets(h, l, ip) ==
    /\ pc[h] = "getIPLimiter" /\ ip = Addr[client[h]]
    /\ \/ ip \in DOMAIN perIP /\ l = perIP[ip].limiter /\ heap' = heap
       \/ ip \notin DOMAIN perIP /\ l \notin InUse /\ heap' = [heap EXCEPT ![l] = IpBurst]
    /\ perIP' = [a \in DOMAIN perIP \union {ip} |->
                    IF a = ip THEN [limiter |-> l, age |-> 0] ELSE perIP[a]]
    /\ limiter' = [limiter EXCEPT ![h] = l] /\ pc' = [pc EXCEPT ![h] = "Allow"]
    /\ UNCHANGED <<global, client, stall, sweeper, reference>>

\* That is what getIPLimiter does.
LEMMA LimiterGot ==
    ASSUME TypeOK, NEW h \in Handlers, GetIPLimiter(h)
    PROVE  \E l \in Limiters, ip \in IPs : Gets(h, l, ip)
<1> DEFINE ip == Addr[client[h]]
           new == CHOOSE free \in Limiters : free \notin InUse
           l  == IF ip \in DOMAIN perIP THEN perIP[ip].limiter ELSE new
<1>1. ip \in IPs
  BY AddrAssumption DEF TypeOK, IPs
<1>2. new \in Limiters \ InUse
  BY FreeLimiter
<1>3. l \in Limiters
  BY <1>2 DEF TypeOK
<1>4. /\ pc[h] = "getIPLimiter"
      /\ heap' = IF ip \in DOMAIN perIP THEN heap ELSE [heap EXCEPT ![l] = IpBurst]
      /\ perIP' = [a \in DOMAIN perIP \union {ip} |->
                      IF a = ip THEN [limiter |-> l, age |-> 0] ELSE perIP[a]]
      /\ limiter' = [limiter EXCEPT ![h] = l] /\ pc' = [pc EXCEPT ![h] = "Allow"]
      /\ UNCHANGED <<global, client, stall, sweeper, reference>>
  BY DEF GetIPLimiter
<1> HIDE DEF new
<1>5. Gets(h, l, ip)
  BY <1>2, <1>4 DEF Gets
<1> QED
  BY <1>1, <1>3, <1>5

\* The initial state has the types.
LEMMA TypeInit == Init => TypeOK
BY RateAssumption DEF Init, TypeOK

\* A step keeps the types.
LEMMA TypeStep == TypeOK /\ [Next]_vars => TypeOK'
<1> SUFFICES ASSUME TypeOK, [Next]_vars PROVE TypeOK'
  OBVIOUS
<1>1. ASSUME NEW h \in Handlers, NEW c \in Clients, GlobalAllow(h, c) PROVE TypeOK'
  BY <1>1, RateAssumption DEF GlobalAllow, TypeOK, sweeper
<1>2. ASSUME NEW h \in Handlers, GetIPLimiter(h) PROVE TypeOK'
  <2>1. PICK l \in Limiters, ip \in IPs : Gets(h, l, ip)
    BY <1>2, LimiterGot
  <2>2. /\ DOMAIN perIP' \subseteq IPs
        /\ perIP' \in [DOMAIN perIP' -> [limiter : Limiters, age : Nat]]
    BY <2>1 DEF Gets, TypeOK
  <2>3. heap' \in [Limiters -> 0..IpBurst]
    BY <2>1, RateAssumption DEF Gets, TypeOK
  <2> QED
    BY <2>1, <2>2, <2>3 DEF Gets, TypeOK, sweeper
<1>3. ASSUME NEW h \in Handlers, IPAllow(h) \/ IPReject(h) PROVE TypeOK'
  <2>1. heap' \in [Limiters -> 0..IpBurst]
    BY <1>3, RateAssumption DEF IPAllow, IPReject, TypeOK, limits
  <2>2. /\ pc' \in [Handlers -> {"idle", "getIPLimiter", "Allow"}]
        /\ UNCHANGED <<global, perIP, client, limiter, stall, toSweep, late>>
    BY <1>3 DEF IPAllow, IPReject, TypeOK, limits, sweeper
  <2> QED
    BY <2>1, <2>2 DEF TypeOK
<1>4. CASE SweepStale
  <2>1. /\ DOMAIN perIP' \subseteq IPs
        /\ perIP' \in [DOMAIN perIP' -> [limiter : Limiters, age : Nat]]
    BY <1>4 DEF SweepStale, TypeOK
  <2>2. late' \in -1..MaxLate
    BY <1>4, RateAssumption DEF SweepStale
  <2>3. UNCHANGED <<global, heap, pc, client, limiter, stall, toSweep>>
    BY <1>4 DEF SweepStale, goroutines
  <2> QED
    BY <2>1, <2>2, <2>3 DEF TypeOK
<1>5. CASE Tick
  <2>1. /\ global' \in 0..GlobalBurst /\ heap' \in [Limiters -> 0..IpBurst]
    BY <1>5, RateAssumption DEF Tick, TypeOK, Least
  <2>2. /\ DOMAIN perIP' \subseteq IPs
        /\ perIP' \in [DOMAIN perIP' -> [limiter : Limiters, age : Nat]]
    <3>1. \A ip \in DOMAIN perIP :
             [perIP[ip] EXCEPT !.age = @ + 1] \in [limiter : Limiters, age : Nat]
      <4> SUFFICES ASSUME NEW ip \in DOMAIN perIP
                   PROVE  [perIP[ip] EXCEPT !.age = @ + 1] \in [limiter : Limiters, age : Nat]
        OBVIOUS
      <4>1. perIP[ip] \in [limiter : Limiters, age : Nat]
        BY DEF TypeOK
      <4> QED
        BY <4>1
    <3>2. perIP' = [ip \in DOMAIN perIP |-> [perIP[ip] EXCEPT !.age = @ + 1]]
      BY <1>5 DEF Tick
    <3> QED
      BY <3>1, <3>2 DEF TypeOK
  <2>3. stall' \in [Handlers -> 0..MaxStall]
    BY <1>5, RateAssumption DEF Tick, TypeOK
  <2>4. toSweep' \in 1..Sweep /\ late' \in -1..MaxLate
    <3>1. /\ Sweep \in Nat /\ Sweep >= 1 /\ MaxLate \in Nat
          /\ toSweep \in 1..Sweep /\ late \in -1..MaxLate
      BY RateAssumption DEF TypeOK
    <3>2. /\ late < MaxLate
          /\ toSweep' = IF toSweep = 1 THEN Sweep ELSE toSweep - 1
          /\ late' = IF late >= 0 THEN late + 1 ELSE IF toSweep = 1 THEN 0 ELSE -1
      BY <1>5 DEF Tick
    <3>3. toSweep' \in 1..Sweep
      BY <3>1, <3>2
    <3>4. late' \in -1..MaxLate
      BY <3>1, <3>2
    <3> QED
      BY <3>3, <3>4
  <2> QED
    BY <1>5, <2>1, <2>2, <2>3, <2>4 DEF Tick, TypeOK
<1>6. CASE UNCHANGED vars
  BY <1>6 DEF vars, limits, goroutines, sweeper, TypeOK
<1> QED
  BY <1>1, <1>2, <1>3, <1>4, <1>5, <1>6 DEF Next, GlobalReject

(* Buckets stay between empty and full, and times within their bounds, for any rates     *)
(* (ratelimit.go:20-34).                                                                  *)
THEOREM TypeCorrect == Spec => []TypeOK
BY TypeInit, TypeStep, PTL DEF Spec

-----------------------------------------------------------------------------
\* How long an address has been in the map: no longer than the sweep before the last, and as
\* many ticks as have passed since the ticker fired.
AgeInv ==
    \A ip \in DOMAIN perIP :
       perIP[ip].age <= IF late = -1 THEN 2 * Sweep - toSweep ELSE 2 * Sweep + late

\* A step keeps the ages within that.
LEMMA AgeStep == TypeOK /\ AgeInv /\ [Next]_vars => AgeInv'
<1> SUFFICES ASSUME TypeOK, AgeInv, [Next]_vars PROVE AgeInv'
  OBVIOUS
<1>1. /\ Sweep \in Nat /\ Sweep >= 1 /\ toSweep \in 1..Sweep /\ late \in Int /\ late >= -1
      /\ \A ip \in DOMAIN perIP : perIP[ip].age \in Nat
  BY RateAssumption DEF TypeOK
<1>2. CASE UNCHANGED <<perIP, sweeper>>
  BY <1>2 DEF AgeInv, sweeper
<1>3. ASSUME NEW h \in Handlers, GetIPLimiter(h) PROVE AgeInv'
  <2>1. PICK l \in Limiters, a \in IPs : Gets(h, l, a)
    BY <1>3, LimiterGot
  <2>2. ASSUME NEW ip \in DOMAIN perIP'
        PROVE  perIP'[ip].age = 0 \/ (ip \in DOMAIN perIP /\ perIP'[ip].age = perIP[ip].age)
    BY <2>1 DEF Gets
  <2>3. toSweep' = toSweep /\ late' = late
    BY <2>1 DEF Gets, sweeper
  <2> QED
    BY <1>1, <2>2, <2>3 DEF AgeInv
<1>4. CASE SweepStale
  BY <1>1, <1>4 DEF SweepStale, AgeInv
<1>5. CASE Tick
  <2>1. DOMAIN perIP' = DOMAIN perIP
        /\ \A ip \in DOMAIN perIP : perIP'[ip].age = perIP[ip].age + 1
    BY <1>5 DEF Tick, TypeOK
  <2>2. /\ toSweep' = IF toSweep = 1 THEN Sweep ELSE toSweep - 1
        /\ late' = IF late >= 0 THEN late + 1 ELSE IF toSweep = 1 THEN 0 ELSE -1
    BY <1>5 DEF Tick
  <2> QED
    BY <1>1, <2>1, <2>2 DEF AgeInv
<1> QED
  BY <1>2, <1>3, <1>4, <1>5 DEF Next, GlobalAllow, GlobalReject, IPAllow, IPReject, vars, limits

(* The map forgets whoever has not been seen for two sweeps and the lateness of the second  *)
(* (ratelimit.go:18), for any interval.                                                      *)
THEOREM MapAlwaysForgets == Spec => []MapForgets
<1>1. Init => AgeInv
  BY DEF Init, AgeInv
<1>2. TypeOK /\ AgeInv => MapForgets
  <2> SUFFICES ASSUME TypeOK, AgeInv, NEW ip \in DOMAIN perIP
               PROVE  perIP[ip].age <= 2 * Sweep + MaxLate
    BY DEF MapForgets
  <2>1. perIP[ip].age \in Nat /\ late \in -1..MaxLate /\ toSweep \in 1..Sweep
    BY DEF TypeOK
  <2>2. perIP[ip].age <= IF late = -1 THEN 2 * Sweep - toSweep ELSE 2 * Sweep + late
    BY DEF AgeInv
  <2> QED
    BY <2>1, <2>2, RateAssumption
<1> QED
  BY <1>1, <1>2, TypeInit, TypeStep, AgeStep, PTL DEF Spec

-----------------------------------------------------------------------------
(* The bucket of an address holds no more than the reference that is never evicted.  It  *)
(* stays so because nobody is evicted whose reference is not full again: a handler that   *)
(* still holds the limiter has seen the address too lately for the sweep.                 *)
IdealType == ideal \in [IPs -> {n \in Int : n <= IpBurst}]

Holding ==
    \A h \in Handlers : pc[h] = "Allow" =>
       /\ Addr[client[h]] \in DOMAIN perIP
       /\ perIP[Addr[client[h]]].limiter = limiter[h]
       /\ perIP[Addr[client[h]]].age <= stall[h]

Apart == \A a, b \in DOMAIN perIP : perIP[a].limiter = perIP[b].limiter => a = b

Behind == \A ip \in DOMAIN perIP : heap[perIP[ip].limiter] <= ideal[ip]

Rested == \A ip \in IPs \ DOMAIN perIP : ideal[ip] = IpBurst

Resting ==
    \A ip \in DOMAIN perIP :
       ideal[ip] = IpBurst \/ ideal[ip] >= (perIP[ip].age - MaxStall) * IpRate

LimitInv == IdealType /\ Holding /\ Apart /\ Behind /\ Rested /\ Resting

\* A product with a rate grows with its other factor.
LEMMA ProductGrows ==
    ASSUME NEW x \in Int, NEW y \in Int, NEW r \in Nat
    PROVE  /\ x <= y => x * r <= y * r
           /\ x <= 0 => x * r <= 0
           /\ (x + 1) * r = x * r + r
OBVIOUS

\* A stalled handler has seen its address more lately than any eviction asks.
LEMMA StallShort == MaxStall <= Sweep
<1> SUFFICES ASSUME MaxStall >= Sweep + 1 PROVE FALSE
  BY RateAssumption
<1>1. (Sweep + 1 - MaxStall) * IpRate <= 0
  BY RateAssumption, ProductGrows
<1> QED
  BY <1>1, RateAssumption, RefillAssumption

\* The least of two numbers grows with them.
LEMMA LeastGrows ==
    ASSUME NEW b \in Int, NEW x \in Int, NEW y \in Int, x <= y, NEW r \in Nat
    PROVE  Least(b, x + r) <= Least(b, y + r)
BY DEF Least

\* At the start the per-IP comparison holds.
LEMMA LimitInit == Init => LimitInv
BY RateAssumption DEF Init, LimitInv, IdealType, Holding, Apart, Behind, Rested, Resting

\* getIPLimiter gives out the limiter of the address, or a full one for an address that is
\* full anyway.
LEMMA LimitGet ==
    ASSUME TypeOK, LimitInv, NEW h \in Handlers, GetIPLimiter(h)
    PROVE  LimitInv'
<1>1. PICK l \in Limiters, ip \in IPs : Gets(h, l, ip)
  BY LimiterGot
<1>2. /\ DOMAIN perIP' = DOMAIN perIP \union {ip}
      /\ perIP'[ip] = [limiter |-> l, age |-> 0]
      /\ \A a \in DOMAIN perIP \ {ip} : perIP'[a] = perIP[a]
  BY <1>1 DEF Gets
<1>3. \A a \in DOMAIN perIP : a # ip => perIP[a].limiter # l
  BY <1>1 DEF Gets, InUse, LimitInv, Apart
<1>4. \A a \in DOMAIN perIP : a # ip => heap'[perIP[a].limiter] = heap[perIP[a].limiter]
  BY <1>1, <1>3 DEF Gets, TypeOK
<1>5. /\ ideal' = ideal /\ client' = client /\ stall' = stall
      /\ pc' = [pc EXCEPT ![h] = "Allow"] /\ limiter' = [limiter EXCEPT ![h] = l]
      /\ ip = Addr[client[h]]
  BY <1>1 DEF Gets, reference
<1>6. IdealType' /\ Rested'
  BY <1>2, <1>5 DEF LimitInv, IdealType, Rested
<1>7. Holding'
  <2> SUFFICES ASSUME NEW g \in Handlers, pc'[g] = "Allow"
               PROVE  /\ Addr[client[g]] \in DOMAIN perIP'
                      /\ perIP'[Addr[client[g]]].limiter = limiter'[g]
                      /\ perIP'[Addr[client[g]]].age <= stall[g]
    BY <1>5 DEF Holding
  <2>1. stall[g] >= 0
    BY DEF TypeOK
  <2>2. CASE g = h
    BY <1>2, <1>5, <2>1, <2>2 DEF TypeOK
  <2>3. CASE g # h
    <3>1. /\ pc[g] = "Allow" /\ limiter'[g] = limiter[g]
      BY <1>5, <2>3 DEF TypeOK
    <3>2. /\ Addr[client[g]] \in DOMAIN perIP
          /\ perIP[Addr[client[g]]].limiter = limiter[g]
          /\ perIP[Addr[client[g]]].age <= stall[g]
      BY <3>1 DEF LimitInv, Holding
    <3>3. CASE Addr[client[g]] = ip
      BY <1>1, <1>2, <2>1, <3>1, <3>2, <3>3 DEF Gets
    <3>4. CASE Addr[client[g]] # ip
      BY <1>2, <3>1, <3>2, <3>4
    <3> QED
      BY <3>3, <3>4
  <2> QED
    BY <2>2, <2>3
<1>8. Apart'
  BY <1>2, <1>3 DEF LimitInv, Apart
<1>9. Behind'
  <2> SUFFICES ASSUME NEW a \in DOMAIN perIP'
               PROVE  heap'[perIP'[a].limiter] <= ideal[a]
    BY <1>5 DEF Behind
  <2>1. CASE a # ip
    BY <1>2, <1>4, <2>1 DEF LimitInv, Behind
  <2>2. CASE a = ip /\ ip \in DOMAIN perIP
    BY <1>1, <1>2, <2>2 DEF Gets, LimitInv, Behind
  <2>3. CASE a = ip /\ ip \notin DOMAIN perIP
    <3>1. heap'[l] = IpBurst
      BY <1>1, <2>3 DEF Gets, TypeOK
    <3>2. ideal[ip] = IpBurst
      BY <2>3 DEF LimitInv, Rested
    <3> QED
      BY <1>2, <2>3, <3>1, <3>2, RateAssumption
  <2> QED
    BY <2>1, <2>2, <2>3
<1>10. Resting'
  <2> SUFFICES ASSUME NEW a \in DOMAIN perIP'
               PROVE  ideal[a] = IpBurst \/ ideal[a] >= (perIP'[a].age - MaxStall) * IpRate
    BY <1>5 DEF Resting
  <2>1. CASE a # ip
    BY <1>2, <2>1 DEF LimitInv, Resting
  <2>2. CASE a = ip /\ ip \in DOMAIN perIP
    <3>1. ideal[ip] \in Int /\ ideal[ip] >= 0
      BY <2>2 DEF LimitInv, Behind, IdealType, TypeOK
    <3>2. (0 - MaxStall) * IpRate <= 0 /\ (0 - MaxStall) * IpRate \in Int
      BY RateAssumption, ProductGrows
    <3> QED
      BY <1>2, <2>2, <3>1, <3>2
  <2>3. CASE a = ip /\ ip \notin DOMAIN perIP
    BY <2>3 DEF LimitInv, Rested
  <2> QED
    BY <2>1, <2>2, <2>3
<1> QED
  BY <1>6, <1>7, <1>8, <1>9, <1>10 DEF LimitInv

\* A request that is let through takes a token of both.
LEMMA LimitAllow ==
    ASSUME TypeOK, LimitInv, NEW h \in Handlers, IPAllow(h)
    PROVE  LimitInv'
<1> DEFINE ip == Addr[client[h]]
           l  == limiter[h]
<1>1. /\ ip \in DOMAIN perIP /\ perIP[ip].limiter = l /\ perIP[ip].age <= stall[h]
      /\ l \in Limiters /\ ip \in IPs /\ stall[h] \in 0..MaxStall
  BY DEF IPAllow, LimitInv, Holding, TypeOK
<1>2. /\ heap[l] >= 1 /\ heap' = [heap EXCEPT ![l] = heap[l] - 1]
      /\ ideal' = [ideal EXCEPT ![ip] = ideal[ip] - 1]
      /\ pc' = [pc EXCEPT ![h] = "idle"]
      /\ UNCHANGED <<perIP, client, limiter, stall>>
  BY DEF IPAllow
<1>3. heap[l] <= ideal[ip]
  BY <1>1 DEF LimitInv, Behind
<1>4. ideal[ip] \in Int /\ heap[l] \in Int
  BY <1>1 DEF LimitInv, IdealType, TypeOK
<1>5. ideal'[ip] = ideal[ip] - 1 /\ \A a \in IPs : a # ip => ideal'[a] = ideal[a]
  BY <1>1, <1>2 DEF LimitInv, IdealType
<1>6. heap'[l] = heap[l] - 1 /\ \A k \in Limiters : k # l => heap'[k] = heap[k]
  BY <1>1, <1>2 DEF TypeOK
<1> HIDE DEF ip, l
<1>7. IdealType'
  <2>1. ideal \in [IPs -> {n \in Int : n <= IpBurst}]
    BY DEF LimitInv, IdealType
  <2>2. ideal[ip] - 1 \in {n \in Int : n <= IpBurst}
    BY <1>1, <2>1, RateAssumption
  <2> QED
    BY <1>1, <1>2, <2>1, <2>2 DEF IdealType
<1>8. Holding' /\ Apart'
  BY <1>2 DEF LimitInv, Holding, Apart, TypeOK
<1>9. Rested'
  BY <1>1, <1>2, <1>5 DEF LimitInv, Rested
<1>10. Behind'
  <2> SUFFICES ASSUME NEW a \in DOMAIN perIP PROVE heap'[perIP[a].limiter] <= ideal'[a]
    BY <1>2 DEF Behind
  <2>1. CASE a = ip
    BY <1>1, <1>3, <1>4, <1>5, <1>6, <2>1
  <2>2. CASE a # ip
    <3>1. perIP[a].limiter # l /\ perIP[a].limiter \in Limiters /\ a \in IPs
      BY <1>1, <2>2 DEF LimitInv, Apart, TypeOK
    <3> QED
      BY <1>5, <1>6, <2>2, <3>1 DEF LimitInv, Behind
  <2> QED
    BY <2>1, <2>2
<1>11. Resting'
  <2> SUFFICES ASSUME NEW a \in DOMAIN perIP
               PROVE  ideal'[a] = IpBurst \/ ideal'[a] >= (perIP[a].age - MaxStall) * IpRate
    BY <1>2 DEF Resting
  <2>1. CASE a = ip
    <3>1. perIP[a].age \in Nat /\ perIP[a].age - MaxStall <= 0
      BY <1>1, <2>1, RateAssumption DEF TypeOK
    <3>2. /\ (perIP[a].age - MaxStall) * IpRate <= 0
          /\ (perIP[a].age - MaxStall) * IpRate \in Int
      BY <3>1, RateAssumption, ProductGrows
    <3> QED
      BY <1>2, <1>3, <1>4, <1>5, <2>1, <3>2
  <2>2. CASE a # ip
    BY <1>5, <2>2 DEF LimitInv, Resting, TypeOK
  <2> QED
    BY <2>1, <2>2
<1> QED
  BY <1>7, <1>8, <1>9, <1>10, <1>11 DEF LimitInv

\* Whoever is evicted is full.
LEMMA LimitSweep == TypeOK /\ LimitInv /\ SweepStale => LimitInv'
<1> SUFFICES ASSUME TypeOK, LimitInv, SweepStale PROVE LimitInv'
  OBVIOUS
<1>1. /\ DOMAIN perIP' = {a \in DOMAIN perIP : perIP[a].age <= Sweep}
      /\ \A a \in DOMAIN perIP' : perIP'[a] = perIP[a]
      /\ UNCHANGED <<heap, pc, client, limiter, stall, ideal>>
  BY DEF SweepStale, goroutines, reference
<1>2. IdealType' /\ Apart' /\ Behind' /\ Resting'
  BY <1>1 DEF LimitInv, IdealType, Apart, Behind, Resting
<1>3. Holding'
  <2> SUFFICES ASSUME NEW h \in Handlers, pc[h] = "Allow"
               PROVE  /\ Addr[client[h]] \in DOMAIN perIP'
                      /\ perIP'[Addr[client[h]]].limiter = limiter[h]
                      /\ perIP'[Addr[client[h]]].age <= stall[h]
    BY <1>1 DEF Holding
  <2>1. /\ Addr[client[h]] \in DOMAIN perIP
        /\ perIP[Addr[client[h]]].limiter = limiter[h]
        /\ perIP[Addr[client[h]]].age <= stall[h]
    BY DEF LimitInv, Holding
  <2>2. stall[h] <= Sweep /\ stall[h] \in Int /\ perIP[Addr[client[h]]].age \in Int
    BY <2>1, StallShort, RateAssumption DEF TypeOK
  <2> QED
    BY <1>1, <2>1, <2>2, RateAssumption
<1>4. Rested'
  <2> SUFFICES ASSUME NEW ip \in IPs, ip \notin DOMAIN perIP' PROVE ideal[ip] = IpBurst
    BY <1>1 DEF Rested
  <2>1. CASE ip \notin DOMAIN perIP
    BY <2>1 DEF LimitInv, Rested
  <2>2. CASE ip \in DOMAIN perIP
    <3>1. perIP[ip].age \in Nat /\ perIP[ip].age >= Sweep + 1
      BY <1>1, <2>2, RateAssumption DEF TypeOK
    <3>2. (Sweep + 1 - MaxStall) * IpRate <= (perIP[ip].age - MaxStall) * IpRate
      BY <3>1, RateAssumption, ProductGrows
    <3>3. /\ (Sweep + 1 - MaxStall) * IpRate \in Int
          /\ (perIP[ip].age - MaxStall) * IpRate \in Int
      BY <3>1, RateAssumption
    <3>4. ideal[ip] \in Int /\ ideal[ip] <= IpBurst
      BY DEF LimitInv, IdealType
    <3>5. ideal[ip] = IpBurst \/ ideal[ip] >= (perIP[ip].age - MaxStall) * IpRate
      BY <2>2 DEF LimitInv, Resting
    <3> DEFINE p == (Sweep + 1 - MaxStall) * IpRate
               q == (perIP[ip].age - MaxStall) * IpRate
    <3>6. p >= IpBurst /\ p <= q /\ p \in Int /\ q \in Int /\ (ideal[ip] = IpBurst \/ ideal[ip] >= q)
      BY <3>2, <3>3, <3>5, RefillAssumption
    <3> HIDE DEF p, q
    <3> QED
      BY <3>4, <3>6, RateAssumption
  <2> QED
    BY <2>1, <2>2
<1> QED
  BY <1>2, <1>3, <1>4 DEF LimitInv

\* A tick refills the limiter and the reference alike, and brings no eviction nearer than it
\* brings the reference to full.
LEMMA LimitTick == TypeOK /\ LimitInv /\ Tick => LimitInv'
<1> SUFFICES ASSUME TypeOK, LimitInv, Tick PROVE LimitInv'
  OBVIOUS
<1>1. /\ DOMAIN perIP' = DOMAIN perIP
      /\ \A ip \in DOMAIN perIP : /\ perIP'[ip].limiter = perIP[ip].limiter
                                  /\ perIP'[ip].age = perIP[ip].age + 1
      /\ heap' = [l \in Limiters |-> Least(IpBurst, heap[l] + IpRate)]
      /\ ideal' = [ip \in IPs |-> Least(IpBurst, ideal[ip] + IpRate)]
  BY DEF Tick, TypeOK
<1>2. /\ \A h \in Handlers : pc[h] = "Allow" => stall'[h] = stall[h] + 1
      /\ UNCHANGED <<pc, client, limiter>>
  BY DEF Tick
<1>3. IpRate \in Nat /\ IpBurst \in Nat /\ MaxStall \in Nat /\ DOMAIN perIP \subseteq IPs
  BY RateAssumption DEF TypeOK
<1>4. \A ip \in IPs : ideal[ip] \in Int /\ ideal[ip] <= IpBurst
  BY DEF LimitInv, IdealType
<1>5. IdealType'
  <2> SUFFICES ASSUME NEW ip \in IPs
               PROVE  Least(IpBurst, ideal[ip] + IpRate) \in {n \in Int : n <= IpBurst}
    BY <1>1 DEF IdealType
  <2> QED
    BY <1>3, <1>4 DEF Least
<1>6. Holding'
  BY <1>1, <1>2 DEF LimitInv, Holding, TypeOK
<1>7. Apart'
  BY <1>1 DEF LimitInv, Apart
<1>8. Behind'
  <2> SUFFICES ASSUME NEW ip \in DOMAIN perIP
               PROVE  heap'[perIP[ip].limiter] <= ideal'[ip]
    BY <1>1 DEF Behind
  <2>1. perIP[ip].limiter \in Limiters /\ heap[perIP[ip].limiter] \in Int
    BY DEF TypeOK
  <2>2. heap[perIP[ip].limiter] <= ideal[ip] /\ ideal[ip] \in Int
    BY <1>3, <1>4 DEF LimitInv, Behind
  <2>3. /\ heap'[perIP[ip].limiter] = Least(IpBurst, heap[perIP[ip].limiter] + IpRate)
        /\ ideal'[ip] = Least(IpBurst, ideal[ip] + IpRate)
    BY <1>1, <1>3, <2>1
  <2> QED
    BY <1>3, <2>1, <2>2, <2>3, LeastGrows
<1>9. Rested'
  <2> SUFFICES ASSUME NEW ip \in IPs \ DOMAIN perIP PROVE Least(IpBurst, ideal[ip] + IpRate) = IpBurst
    BY <1>1 DEF Rested
  <2> QED
    BY <1>3 DEF LimitInv, Rested, Least
<1>10. Resting'
  <2> SUFFICES ASSUME NEW ip \in DOMAIN perIP'
               PROVE  \/ ideal'[ip] = IpBurst
                      \/ ideal'[ip] >= (perIP'[ip].age - MaxStall) * IpRate
    BY DEF Resting
  <2> DEFINE age == perIP[ip].age
             now == age - MaxStall
             p   == now * IpRate
             q   == (perIP'[ip].age - MaxStall) * IpRate
  <2>1. ip \in DOMAIN perIP /\ perIP'[ip].age = age + 1
    BY <1>1
  <2>2. ideal'[ip] = Least(IpBurst, ideal[ip] + IpRate)
    BY <1>1, <1>3, <2>1
  <2>3. ideal[ip] = IpBurst \/ ideal[ip] >= p
    BY <2>1 DEF LimitInv, Resting
  <2>4. age \in Nat /\ ideal[ip] \in Int
    BY <1>3, <1>4, <2>1 DEF TypeOK
  <2>5. perIP'[ip].age - MaxStall = now + 1 /\ now \in Int
    BY <1>3, <2>1, <2>4
  <2>6. p \in Int /\ q = p + IpRate
    <3> HIDE DEF now
    <3>1. (now + 1) * IpRate = now * IpRate + IpRate
      BY <1>3, <2>5, ProductGrows
    <3>2. q = (now + 1) * IpRate
      BY <2>5
    <3> QED
      BY <1>3, <2>5, <3>1, <3>2
  <2> HIDE DEF p, q, age, now
  <2>7. ideal'[ip] = IpBurst \/ ideal'[ip] >= q
    BY <1>3, <2>2, <2>3, <2>4, <2>6 DEF Least
  <2> QED
    BY <2>7 DEF q
<1> QED
  BY <1>5, <1>6, <1>7, <1>8, <1>9, <1>10 DEF LimitInv

\* A step keeps the per-IP comparison.
LEMMA LimitStep == TypeOK /\ LimitInv /\ [Next]_vars => LimitInv'
<1> SUFFICES ASSUME TypeOK, LimitInv, [Next]_vars PROVE LimitInv'
  OBVIOUS
<1>1. ASSUME NEW h \in Handlers, NEW c \in Clients, GlobalAllow(h, c) PROVE LimitInv'
  <2>1. /\ \A g \in Handlers : pc'[g] = "Allow" =>
                /\ pc[g] = "Allow" /\ client'[g] = client[g] /\ stall'[g] = stall[g]
        /\ UNCHANGED <<heap, perIP, limiter, ideal>>
    BY <1>1 DEF GlobalAllow, TypeOK
  <2> QED
    BY <2>1 DEF LimitInv, IdealType, Holding, Apart, Behind, Rested, Resting
<1>2. ASSUME NEW h \in Handlers, IPReject(h) PROVE LimitInv'
  <2>1. /\ \A g \in Handlers : pc'[g] = "Allow" => pc[g] = "Allow"
        /\ UNCHANGED <<heap, perIP, limiter, client, stall, ideal>>
    BY <1>2 DEF IPReject, TypeOK, limits
  <2> QED
    BY <2>1 DEF LimitInv, IdealType, Holding, Apart, Behind, Rested, Resting
<1>3. CASE UNCHANGED vars
  BY <1>3 DEF vars, limits, goroutines, reference,
              LimitInv, IdealType, Holding, Apart, Behind, Rested, Resting
<1> QED
  BY <1>1, <1>2, <1>3, LimitGet, LimitAllow, LimitSweep, LimitTick DEF Next, GlobalReject

(* What is admitted from one address never exceeds IpBurst plus IpRate a tick, however   *)
(* its requests, the evictions of its limiter and the sweeps interleave                  *)
(* (ratelimit.go:66-95), as long as an eviction takes longer than a bucket's refill.      *)
THEOREM AddressConforms == Spec => []PerIPConforms
<1>1. TypeOK /\ LimitInv => PerIPConforms
  <2> SUFFICES ASSUME TypeOK, LimitInv, NEW ip \in IPs PROVE ideal[ip] >= 0
    BY DEF PerIPConforms
  <2>1. CASE ip \in DOMAIN perIP
    <3>1. heap[perIP[ip].limiter] \in 0..IpBurst
      BY <2>1 DEF TypeOK
    <3>2. heap[perIP[ip].limiter] <= ideal[ip] /\ ideal[ip] \in Int
      BY <2>1 DEF LimitInv, Behind, IdealType
    <3> QED
      BY <3>1, <3>2, RateAssumption
  <2>2. CASE ip \notin DOMAIN perIP
    BY <2>2, RateAssumption DEF LimitInv, Rested
  <2> QED
    BY <2>1, <2>2
<1> QED
  BY <1>1, TypeInit, TypeStep, LimitInit, LimitStep, PTL DEF Spec

-----------------------------------------------------------------------------
\* No two clients come from one address, as when no proxy stands before the server.
AddressEach == \A c, d \in Clients : Addr[c] = Addr[d] => c = d

\* The limiter of a client's address holds at least what is left of the client's own share.
ShareInv ==
    /\ own \in [Clients -> {n \in Int : n <= IpBurst}]
    /\ \A c \in Clients : Addr[c] \in DOMAIN perIP => own[c] <= heap[perIP[Addr[c]].limiter]

\* A step keeps it, when every client has an address of its own.
LEMMA ShareStep ==
    AddressEach /\ TypeOK /\ LimitInv /\ ShareInv /\ [Next]_vars => ShareInv'
<1> SUFFICES ASSUME AddressEach, TypeOK, LimitInv, ShareInv, [Next]_vars PROVE ShareInv'
  OBVIOUS
<1>1. ASSUME NEW h \in Handlers, GetIPLimiter(h) PROVE ShareInv'
  <2>1. PICK l \in Limiters, ip \in IPs : Gets(h, l, ip)
    BY <1>1, LimiterGot
  <2>2. /\ DOMAIN perIP' = DOMAIN perIP \union {ip} /\ own' = own
        /\ perIP'[ip].limiter = l
        /\ \A a \in DOMAIN perIP \ {ip} : perIP'[a] = perIP[a]
    BY <2>1 DEF Gets, reference
  <2>3. \A a \in DOMAIN perIP : a # ip => heap'[perIP[a].limiter] = heap[perIP[a].limiter]
    BY <2>1 DEF Gets, TypeOK, InUse, LimitInv, Apart
  <2> SUFFICES ASSUME NEW c \in Clients, Addr[c] \in DOMAIN perIP'
               PROVE  own[c] <= heap'[perIP'[Addr[c]].limiter]
    BY <2>2 DEF ShareInv
  <2>4. CASE Addr[c] # ip
    BY <2>2, <2>3, <2>4 DEF ShareInv
  <2>5. CASE Addr[c] = ip /\ ip \in DOMAIN perIP
    BY <2>1, <2>2, <2>5 DEF Gets, ShareInv
  <2>6. CASE Addr[c] = ip /\ ip \notin DOMAIN perIP
    <3>1. heap'[l] = IpBurst
      BY <2>1, <2>6 DEF Gets, TypeOK
    <3>2. own[c] <= IpBurst
      BY DEF ShareInv
    <3> QED
      BY <2>2, <2>6, <3>1, <3>2
  <2> QED
    BY <2>4, <2>5, <2>6
<1>2. ASSUME NEW h \in Handlers, IPAllow(h) PROVE ShareInv'
  <2> DEFINE d == client[h]
             l == limiter[h]
  <2>1. /\ d \in Clients /\ l \in Limiters
        /\ Addr[d] \in DOMAIN perIP /\ perIP[Addr[d]].limiter = l
    BY <1>2 DEF IPAllow, LimitInv, Holding, TypeOK
  <2>2. /\ heap' = [heap EXCEPT ![l] = heap[l] - 1] /\ own' = [own EXCEPT ![d] = own[d] - 1]
        /\ perIP' = perIP
    BY <1>2 DEF IPAllow
  <2>3. /\ \A c \in Clients : own[c] \in Int /\ own[c] <= IpBurst
        /\ \A k \in Limiters : heap[k] \in Int
    BY DEF ShareInv, TypeOK
  <2> HIDE DEF d, l
  <2>4. own' \in [Clients -> {n \in Int : n <= IpBurst}]
    <3>1. own[d] - 1 \in {n \in Int : n <= IpBurst}
      BY <2>1, <2>3, RateAssumption
    <3> QED
      BY <2>1, <2>2, <3>1 DEF ShareInv
  <2>5. ASSUME NEW c \in Clients, Addr[c] \in DOMAIN perIP
        PROVE  own'[c] <= heap'[perIP[Addr[c]].limiter]
    <3>1. own[c] <= heap[perIP[Addr[c]].limiter] /\ perIP[Addr[c]].limiter \in Limiters
      BY <2>5 DEF ShareInv, TypeOK
    <3>2. CASE c = d
      BY <2>1, <2>2, <2>3, <3>1, <3>2 DEF ShareInv, TypeOK
    <3>3. CASE c # d
      <4>1. perIP[Addr[c]].limiter # l
        BY <2>1, <2>5, <3>3 DEF LimitInv, Apart, AddressEach
      <4> QED
        BY <2>2, <3>1, <3>3, <4>1 DEF ShareInv, TypeOK
    <3> QED
      BY <3>2, <3>3
  <2> QED
    BY <2>2, <2>4, <2>5 DEF ShareInv
<1>3. CASE Tick
  <2>1. /\ DOMAIN perIP' = DOMAIN perIP
        /\ \A ip \in DOMAIN perIP : perIP'[ip].limiter = perIP[ip].limiter
        /\ heap' = [l \in Limiters |-> Least(IpBurst, heap[l] + IpRate)]
        /\ own' = [c \in Clients |-> Least(IpBurst, own[c] + IpRate)]
    BY <1>3 DEF Tick, TypeOK
  <2>2. IpRate \in Nat /\ IpBurst \in Nat
    BY RateAssumption
  <2>3. \A c \in Clients : own[c] \in Int
    BY DEF ShareInv
  <2>4. own' \in [Clients -> {n \in Int : n <= IpBurst}]
    <3> SUFFICES ASSUME NEW c \in Clients
                 PROVE  Least(IpBurst, own[c] + IpRate) \in {n \in Int : n <= IpBurst}
      BY <2>1
    <3> QED
      BY <2>2, <2>3 DEF Least
  <2>5. ASSUME NEW c \in Clients, Addr[c] \in DOMAIN perIP
        PROVE  own'[c] <= heap'[perIP[Addr[c]].limiter]
    <3> DEFINE l == perIP[Addr[c]].limiter
    <3>1. l \in Limiters /\ heap[l] \in Int /\ own[c] <= heap[l]
      BY <2>5 DEF ShareInv, TypeOK
    <3> HIDE DEF l
    <3>2. Least(IpBurst, own[c] + IpRate) <= Least(IpBurst, heap[l] + IpRate)
      BY <2>2, <2>3, <3>1, LeastGrows
    <3> QED
      BY <2>1, <3>1, <3>2 DEF l
  <2> QED
    BY <2>1, <2>4, <2>5 DEF ShareInv
<1>4. CASE SweepStale
  BY <1>4 DEF SweepStale, reference, ShareInv
<1>5. CASE UNCHANGED <<heap, perIP, own>>
  BY <1>5 DEF ShareInv
<1> QED
  BY <1>1, <1>2, <1>3, <1>4, <1>5
  DEF Next, GlobalAllow, GlobalReject, IPReject, vars, limits, reference

(* With an address to each client, whoever the per-IP limiter turns away has used up its *)
(* own share (ratelimit.go:16), whatever the others do and whenever the sweep runs.       *)
THEOREM OwnSake == AddressEach => (Spec => RejectedForOwnSake)
<1> SUFFICES ASSUME AddressEach PROVE Spec => RejectedForOwnSake
  OBVIOUS
<1>1. Init => ShareInv
  BY RateAssumption DEF Init, ShareInv
<1>2. TypeOK /\ LimitInv /\ ShareInv =>
         \A h \in Handlers : IPReject(h) => own[client[h]] < 1
  <2> SUFFICES ASSUME TypeOK, LimitInv, ShareInv, NEW h \in Handlers, IPReject(h)
               PROVE  own[client[h]] < 1
    OBVIOUS
  <2>1. /\ client[h] \in Clients /\ Addr[client[h]] \in DOMAIN perIP
        /\ perIP[Addr[client[h]]].limiter = limiter[h]
        /\ heap[limiter[h]] < 1 /\ heap[limiter[h]] \in Int
    BY DEF IPReject, LimitInv, Holding, TypeOK
  <2>2. own[client[h]] <= heap[limiter[h]] /\ own[client[h]] \in Int
    BY <2>1 DEF ShareInv
  <2> QED
    BY <2>1, <2>2
<1>3. TypeOK /\ LimitInv /\ ShareInv /\ [Next]_vars
         => [\A h \in Handlers : IPReject(h) => own[client[h]] < 1]_vars
  BY <1>2
<1>4. TypeOK /\ LimitInv /\ ShareInv /\ [Next]_vars => ShareInv'
  BY ShareStep
<1> QED
  BY <1>1, <1>3, <1>4, TypeInit, TypeStep, LimitInit, LimitStep, PTL DEF Spec, RejectedForOwnSake

=============================================================================
