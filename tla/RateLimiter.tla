----------------------------- MODULE RateLimiter -----------------------------
(* The rate limiter in front of every handler: server/internal/api/ratelimit.go, as  *)
(* wired up in server/cmd/gpg-attest-server/main.go, over the token buckets of       *)
(* golang.org/x/time/rate.                                                           *)
(*                                                                                   *)
(* The map of per-IP limiters is guarded by a mutex, but a handler leaves the mutex   *)
(* with a limiter in hand and asks it only later; in between the sweep may evict the  *)
(* map's entry and another request may put a fresh, full limiter in its place.        *)
(*                                                                                   *)
(* Time passes in ticks.  A timestamp is kept as its age, so nothing grows without    *)
(* bound; rate.Limiter refills lazily, which is the same as refilling at every tick.  *)
(*                                                                                   *)
(* Definitions whose names end in Mutant are no part of the model: each is the one    *)
(* after it with a plausible bug, to show that a property notices it.                 *)
EXTENDS Integers, FiniteSets

CONSTANTS
    Handlers,                  \* goroutines that serve requests
    Clients,                   \* programs that send requests
    Addr,                      \* RemoteAddr as the server sees it, of each client
    Limiters,                  \* rate.Limiter objects on the heap
    GlobalRate, GlobalBurst,   \* tokens a tick, and at most
    IpRate, IpBurst,
    Sweep,                     \* sweepInterval, in ticks
    MaxStall,                  \* ticks a handler may spend inside the middleware
    MaxLate                    \* ticks the sweeping goroutine may be late

ASSUME AddrAssumption == Addr \in [Clients -> STRING]
ASSUME RateAssumption ==
    /\ {GlobalRate, GlobalBurst, IpRate, IpBurst, Sweep} \subseteq Nat \ {0}
    /\ {MaxStall, MaxLate} \subseteq Nat
ASSUME HeapAssumption ==
    /\ IsFiniteSet(Handlers) /\ IsFiniteSet(Clients) /\ IsFiniteSet(Limiters)
    /\ Cardinality(Limiters) > Cardinality(Handlers) + Cardinality(Clients)
\* The bucket of whoever is evicted would be full by then: main.go:71-72 sweeps once a minute
\* and fills a bucket in a second.
ASSUME RefillAssumption == (Sweep + 1 - MaxStall) * IpRate >= IpBurst

IPs == {Addr[c] : c \in Clients}

VARIABLES
    global,    \* tokens of rl.global
    heap,      \* tokens of each limiter object
    perIP,     \* rl.perIP: ip -> [limiter, age of lastSeen]
    pc,        \* next call of each handler: "idle", "getIPLimiter", "Allow"
    client,    \* whom the handler serves
    limiter,   \* the limiter it got
    stall,     \* ticks since it passed the global limiter
    toSweep,   \* ticks until the ticker fires
    late,      \* ticks since it fired without the sweep having run; -1 if it has run
    ideal,     \* reference: a bucket per IP that is never evicted
    own,       \* reference: a bucket per client
    useful     \* reference: a global bucket that rejected requests do not drain

limits     == <<global, heap, perIP>>
goroutines == <<pc, client, limiter, stall>>
sweeper    == <<toSweep, late>>
reference  == <<ideal, own, useful>>
vars       == <<limits, goroutines, sweeper, reference>>

Least(a, b) == IF a <= b THEN a ELSE b

Init ==
    /\ global = GlobalBurst
    /\ heap = [l \in Limiters |-> IpBurst]
    /\ perIP = [ip \in {} |-> [limiter |-> 0, age |-> 0]]
    /\ pc = [h \in Handlers |-> "idle"]
    /\ client \in [Handlers -> Clients]
    /\ limiter \in [Handlers -> Limiters]
    /\ stall = [h \in Handlers |-> 0]
    /\ toSweep = Sweep
    /\ late = -1
    /\ ideal = [ip \in IPs |-> IpBurst]
    /\ own = [c \in Clients |-> IpBurst]
    /\ useful = GlobalBurst

-----------------------------------------------------------------------------
\* One token too many.
GlobalAllowMutant(h, c) ==
    /\ pc[h] = "idle"
    /\ global >= 0
    /\ global' = global - 1
    /\ useful' = useful - 1
    /\ pc' = [pc EXCEPT ![h] = "getIPLimiter"]
    /\ client' = [client EXCEPT ![h] = c]
    /\ stall' = [stall EXCEPT ![h] = 0]
    /\ UNCHANGED <<heap, perIP, limiter, sweeper, ideal, own>>

\* A request of c arrives; the global limiter is asked first.
GlobalAllow(h, c) ==
    /\ pc[h] = "idle"
    /\ global >= 1
    /\ global' = global - 1
    /\ useful' = useful - 1
    /\ pc' = [pc EXCEPT ![h] = "getIPLimiter"]
    /\ client' = [client EXCEPT ![h] = c]
    /\ stall' = [stall EXCEPT ![h] = 0]
    /\ UNCHANGED <<heap, perIP, limiter, sweeper, ideal, own>>

GlobalReject(h, c) ==
    /\ pc[h] = "idle"
    /\ global < 1
    /\ UNCHANGED vars

InUse == {perIP[ip].limiter : ip \in DOMAIN perIP}
         \union {limiter[h] : h \in {g \in Handlers : pc[g] = "Allow"}}

\* The rate is passed for the burst.
GetIPLimiterNoBurstMutant(h) ==
    /\ pc[h] = "getIPLimiter"
    /\ LET ip    == Addr[client[h]]
           found == ip \in DOMAIN perIP
           l     == IF found THEN perIP[ip].limiter
                    ELSE CHOOSE free \in Limiters : free \notin InUse
       IN  /\ perIP' = [a \in DOMAIN perIP \union {ip} |->
                           IF a = ip THEN [limiter |-> l, age |-> 0] ELSE perIP[a]]
           /\ heap' = IF found THEN heap ELSE [heap EXCEPT ![l] = IpRate]
           /\ limiter' = [limiter EXCEPT ![h] = l]
    /\ pc' = [pc EXCEPT ![h] = "Allow"]
    /\ UNCHANGED <<global, client, stall, sweeper, reference>>

\* Under the mutex: find or make the limiter of the address, and mark it as seen.
GetIPLimiter(h) ==
    /\ pc[h] = "getIPLimiter"
    /\ LET ip    == Addr[client[h]]
           found == ip \in DOMAIN perIP
           l     == IF found THEN perIP[ip].limiter
                    ELSE CHOOSE free \in Limiters : free \notin InUse
       IN  /\ perIP' = [a \in DOMAIN perIP \union {ip} |->
                           IF a = ip THEN [limiter |-> l, age |-> 0] ELSE perIP[a]]
           /\ heap' = IF found THEN heap ELSE [heap EXCEPT ![l] = IpBurst]
           /\ limiter' = [limiter EXCEPT ![h] = l]
    /\ pc' = [pc EXCEPT ![h] = "Allow"]
    /\ UNCHANGED <<global, client, stall, sweeper, reference>>

IPAllow(h) ==
    /\ pc[h] = "Allow"
    /\ heap[limiter[h]] >= 1
    /\ heap' = [heap EXCEPT ![limiter[h]] = @ - 1]
    /\ ideal' = [ideal EXCEPT ![Addr[client[h]]] = @ - 1]
    /\ own' = [own EXCEPT ![client[h]] = @ - 1]
    /\ pc' = [pc EXCEPT ![h] = "idle"]
    /\ UNCHANGED <<global, perIP, client, limiter, stall, sweeper, useful>>

IPReject(h) ==
    /\ pc[h] = "Allow"
    /\ heap[limiter[h]] < 1
    /\ useful' = Least(GlobalBurst, useful + 1)
    /\ pc' = [pc EXCEPT ![h] = "idle"]
    /\ UNCHANGED <<limits, client, limiter, stall, sweeper, ideal, own>>

\* The sweep empties the map.
SweepAllMutant ==
    /\ late >= 0
    /\ late' = -1
    /\ perIP' = [ip \in {} |-> [limiter |-> 0, age |-> 0]]
    /\ UNCHANGED <<global, heap, goroutines, toSweep, reference>>

\* The comparison is the wrong way round.
SweepFreshMutant ==
    /\ late >= 0
    /\ late' = -1
    /\ perIP' = [ip \in {a \in DOMAIN perIP : perIP[a].age > Sweep} |-> perIP[ip]]
    /\ UNCHANGED <<global, heap, goroutines, toSweep, reference>>

\* sweepLoop, under the mutex: evict what has not been seen for longer than Sweep.
SweepStale ==
    /\ late >= 0
    /\ late' = -1
    /\ perIP' = [ip \in {a \in DOMAIN perIP : perIP[a].age <= Sweep} |-> perIP[ip]]
    /\ UNCHANGED <<global, heap, goroutines, toSweep, reference>>

\* A tick.  The ticker drops a beat that finds the previous one still unread.
Tick ==
    /\ \A h \in Handlers : pc[h] # "idle" => stall[h] < MaxStall
    /\ late < MaxLate
    /\ global' = Least(GlobalBurst, global + GlobalRate)
    /\ heap' = [l \in Limiters |-> Least(IpBurst, heap[l] + IpRate)]
    /\ perIP' = [ip \in DOMAIN perIP |-> [perIP[ip] EXCEPT !.age = @ + 1]]
    /\ stall' = [h \in Handlers |-> IF pc[h] = "idle" THEN 0 ELSE stall[h] + 1]
    /\ toSweep' = IF toSweep = 1 THEN Sweep ELSE toSweep - 1
    /\ late' = IF late >= 0 THEN late + 1 ELSE IF toSweep = 1 THEN 0 ELSE -1
    /\ ideal' = [ip \in IPs |-> Least(IpBurst, ideal[ip] + IpRate)]
    /\ own' = [c \in Clients |-> Least(IpBurst, own[c] + IpRate)]
    /\ useful' = Least(GlobalBurst, useful + GlobalRate)
    /\ UNCHANGED <<pc, client, limiter>>

Next ==
    \/ \E h \in Handlers, c \in Clients : GlobalAllow(h, c) \/ GlobalReject(h, c)
    \/ \E h \in Handlers : GetIPLimiter(h) \/ IPAllow(h) \/ IPReject(h)
    \/ SweepStale
    \/ Tick

Spec == Init /\ [][Next]_vars

-----------------------------------------------------------------------------
TypeOK ==
    /\ global \in 0..GlobalBurst
    /\ heap \in [Limiters -> 0..IpBurst]
    /\ DOMAIN perIP \subseteq IPs
    /\ perIP \in [DOMAIN perIP -> [limiter : Limiters, age : Nat]]
    /\ pc \in [Handlers -> {"idle", "getIPLimiter", "Allow"}]
    /\ client \in [Handlers -> Clients]
    /\ limiter \in [Handlers -> Limiters]
    /\ stall \in [Handlers -> 0..MaxStall]
    /\ toSweep \in 1..Sweep
    /\ late \in -1..MaxLate

\* What is admitted from one address never exceeds IpBurst plus IpRate a tick, over any
\* stretch of time, though its limiter may have been evicted and made anew meanwhile.
PerIPConforms == \A ip \in IPs : ideal[ip] >= 0

\* The map forgets addresses: none stays for more than two sweeps, and the lateness of
\* the second, after it was last seen (ratelimit.go:18, "swept every sweepInterval to
\* evict entries that have not been seen recently").
MapForgets == \A ip \in DOMAIN perIP : perIP[ip].age <= 2 * Sweep + MaxLate

\* A client is turned away by the per-IP limiter only when it has used up its own share
\* (ratelimit.go:16, "Per-IP"; README.md:77, "per-IP 5 req/s").
RejectedForOwnSake ==
    [][\A h \in Handlers : IPReject(h) => own[client[h]] < 1]_vars

\* A request is refused for the sake of the global budget only when requests that were
\* served, or may yet be, have used it up: a source that is over its own limit takes
\* nothing from the others (ratelimit.go:16, "prevents a single source from
\* monopolizing the global budget").
NoMonopoly == \A h \in Handlers : pc[h] = "idle" /\ global < 1 => useful < 1
=============================================================================
