------------------------- MODULE VerdictLookupProofs -------------------------
(* Theorems about VerdictLookup, for any number of pages, addresses, images and logs, any *)
(* times to live and cache size, and whatever fails, restarts or is edited meanwhile.      *)
EXTENDS VerdictLookup, SequenceTheorems, TLAPS

\* The results and lookups that the actions make up from nothing.
LEMMA EmptyTypes ==
    /\ Empty \in Results /\ NoLookup \in Lookups /\ NewPage \in Shown /\ NoSign \in Dialogs
    /\ [NoLookup EXCEPT !.stage = "image"] \in Lookups
    /\ \A a \in 0..MaxAge : [Empty EXCEPT !.age = a] \in Results
<1>1. Unknown \in Versions \union {Unknown} /\ 0 \in 0..MaxAge /\ 0 \in 0..MaxLookup /\ 0 \in Versions
  BY TimesAssumption DEF Versions
<1>2. Empty \in Results
  BY <1>1 DEF Empty, Results
<1>3. \A a \in 0..MaxAge : [Empty EXCEPT !.age = a] \in Results
  BY <1>2 DEF Results
<1> HIDE DEF Empty
<1>4. NoLookup \in Lookups
  BY <1>1, <1>2, PlacesAssumption DEF NoLookup, Lookups
<1>5. [NoLookup EXCEPT !.stage = "image"] \in Lookups
  BY <1>4 DEF Lookups
<1>6. NewPage \in Shown /\ NoSign \in Dialogs
  BY <1>1, PlacesAssumption DEF NewPage, NoSign, Shown, Dialogs
<1> QED
  BY <1>2, <1>3, <1>4, <1>5, <1>6

\* A cache has one entry per address; its entries are all entries of another cache.
OneEach(c) == \A i, j \in 1..Len(c) : c[i].url = c[j].url => i = j
From(d, c) == \A i \in 1..Len(d) : \E j \in 1..Len(c) : d[i] = c[j]

\* An entry struck from the cache leaves the others, and none for its address.
LEMMA WithoutProperties ==
    ASSUME verdictsCache \in Seq(Kept), NEW u
    PROVE  /\ Without(u) \in Seq(Kept)
           /\ Len(Without(u)) <= Len(verdictsCache)
           /\ From(Without(u), verdictsCache)
           /\ OneEach(verdictsCache) =>
                 /\ OneEach(Without(u))
                 /\ \A i \in 1..Len(Without(u)) : Without(u)[i].url # u
<1>1. CASE CachedAt(u) = {}
  BY <1>1, LenProperties DEF Without, From, CachedAt
<1>2. CASE CachedAt(u) # {}
  <2> DEFINE c == verdictsCache
             k == CHOOSE i \in CachedAt(u) : TRUE
             n == Len(c)
             a == SubSeq(c, 1, k - 1)
             b == SubSeq(c, k + 1, n)
  <2>1. Without(u) = a \o b
    BY <1>2 DEF Without, RemoveAt
  <2>2. k \in CachedAt(u) /\ k \in 1..n /\ n \in Nat /\ \A i \in 1..n : c[i] \in Kept
    BY <1>2, LenProperties, ElementOfSeq DEF CachedAt
  <2> HIDE DEF k, c, n
  <2>3. a \in Seq(Kept) /\ Len(a) = k - 1 /\ \A i \in 1..k - 1 : a[i] = c[i]
    <3>1. 1 \in Int /\ k - 1 \in Int /\ \A i \in 1..k - 1 : c[i] \in Kept
      BY <2>2
    <3>2. /\ a \in Seq(Kept) /\ Len(a) = IF 1 <= k - 1 THEN k - 1 - 1 + 1 ELSE 0
          /\ \A i \in 1..k - 1 - 1 + 1 : a[i] = c[1 + i - 1]
      BY <3>1, SubSeqProperties
    <3> HIDE DEF a
    <3> QED
      BY <2>2, <3>2
  <2>4. b \in Seq(Kept) /\ Len(b) = n - k /\ \A i \in 1..n - k : b[i] = c[k + i]
    <3>1. k + 1 \in Int /\ n \in Int /\ \A i \in k + 1..n : c[i] \in Kept
      BY <2>2
    <3>2. /\ b \in Seq(Kept) /\ Len(b) = IF k + 1 <= n THEN n - (k + 1) + 1 ELSE 0
          /\ \A i \in 1..n - (k + 1) + 1 : b[i] = c[k + 1 + i - 1]
      BY <3>1, SubSeqProperties
    <3> HIDE DEF b
    <3> QED
      BY <2>2, <3>2
  <2> HIDE DEF a, b
  <2>5. /\ a \o b \in Seq(Kept) /\ Len(a \o b) = Len(a) + Len(b)
        /\ \A i \in 1..Len(a) + Len(b) : (a \o b)[i] = IF i <= Len(a) THEN a[i] ELSE b[i - Len(a)]
    BY <2>3, <2>4, ConcatProperties
  <2>6. Len(Without(u)) = n - 1
    BY <2>1, <2>2, <2>3, <2>4, <2>5
  <2>7. ASSUME NEW i \in 1..n - 1 PROVE Without(u)[i] = c[IF i < k THEN i ELSE i + 1]
    <3>1. (a \o b)[i] = IF i <= k - 1 THEN a[i] ELSE b[i - (k - 1)]
      BY <2>2, <2>3, <2>4, <2>5
    <3>2. CASE i < k
      BY <2>1, <2>2, <2>3, <3>1, <3>2
    <3>3. CASE i >= k
      <4>1. i - (k - 1) \in 1..n - k /\ k + (i - (k - 1)) = i + 1 /\ ~(i <= k - 1) /\ ~(i < k)
        BY <2>2, <3>3
      <4>2. b[i - (k - 1)] = c[k + (i - (k - 1))]
        BY <2>4, <4>1
      <4> QED
        BY <2>1, <3>1, <4>1, <4>2
    <3> QED
      BY <2>2, <3>2, <3>3
  <2> DEFINE at(i) == IF i < k THEN i ELSE i + 1
  <2>8. \A i \in 1..n - 1 : at(i) \in 1..n /\ at(i) # k /\ Without(u)[i] = c[at(i)]
    BY <2>2, <2>7
  <2>9. \A i, j \in 1..n - 1 : at(i) = at(j) => i = j
    BY <2>2
  <2> HIDE DEF at
  <2>10. n - 1 <= n /\ Without(u) \in Seq(Kept)
    BY <2>1, <2>2, <2>5
  <2>11. From(Without(u), c)
    BY <2>6, <2>8 DEF From, n
  <2>12. ASSUME OneEach(c)
         PROVE  OneEach(Without(u)) /\ \A i \in 1..Len(Without(u)) : Without(u)[i].url # u
    <3>1. \A i \in 1..n : i # k => c[i].url # c[k].url
      BY <2>2, <2>12 DEF OneEach, n
    <3>2. c[k].url = u
      BY <2>2 DEF CachedAt, c
    <3>3. OneEach(Without(u))
      BY <2>6, <2>8, <2>9, <2>12 DEF OneEach, n
    <3> QED
      BY <2>6, <2>8, <3>1, <3>2, <3>3
  <2> QED
    BY <2>6, <2>10, <2>11, <2>12 DEF c, n
<1> QED
  BY <1>1, <1>2

\* What a lookup leaves in the cache.
NewEntry(u, result) == [url |-> u, result |-> result, kept |-> 0,
                        log |-> lookup[u].log, raced |-> lookup[u].raced]

\* A result that is cached is the newest of at most CacheMax, and the others were there.
LEMMA CacheProperties ==
    ASSUME TypeOK, NEW u \in Urls, NEW result \in Results, CacheAndReturn(u, result)
    PROVE  /\ verdictsCache' \in Seq(Kept)
           /\ \A i \in 1..Len(verdictsCache') :
                 \/ verdictsCache'[i] = NewEntry(u, result)
                 \/ \E j \in 1..Len(verdictsCache) : verdictsCache'[i] = verdictsCache[j]
           /\ Len(verdictsCache) <= CacheMax => Len(verdictsCache') <= CacheMax
           /\ OneEach(verdictsCache) /\ CachedAt(u) = {} => OneEach(verdictsCache')
<1> DEFINE c == verdictsCache
           e == NewEntry(u, result)
           b == IF Len(c) >= CacheMax THEN Tail(c) ELSE c
           d == IF Len(c) >= CacheMax THEN 1 ELSE 0
<1>1. c \in Seq(Kept) /\ Len(c) \in Nat /\ CacheMax \in Nat /\ CacheMax >= 1
  BY LenProperties, TimesAssumption DEF TypeOK
<1>2. /\ b \in Seq(Kept) /\ Len(b) = Len(c) - d /\ d \in 0..1 /\ Len(b) \in Nat
      /\ \A i \in 1..Len(b) : i + d \in 1..Len(c) /\ b[i] = c[i + d]
  <2>1. CASE Len(c) >= CacheMax
    <3>1. c # <<>>
      BY <1>1, <2>1, EmptySeq
    <3>2. Tail(c) \in Seq(Kept) /\ Len(Tail(c)) = Len(c) - 1 /\ \A i \in 1..Len(Tail(c)) : Tail(c)[i] = c[i + 1]
      BY <1>1, <3>1, HeadTailProperties
    <3> QED
      BY <1>1, <2>1, <3>2
  <2>2. CASE Len(c) < CacheMax
    BY <1>1, <2>2
  <2> QED
    BY <1>1, <2>1, <2>2
<1>3. e \in Kept
  BY TimesAssumption DEF NewEntry, Kept, TypeOK, Lookups
<1>4. c' = Append(b, e)
  BY DEF CacheAndReturn, NewEntry
<1>5. Len(c) <= CacheMax => Len(b) + 1 <= CacheMax
  BY <1>1, <1>2
<1>6. e.url = u
  BY DEF NewEntry
<1> HIDE DEF b, d, e
<1>7. /\ c' \in Seq(Kept) /\ Len(c') = Len(b) + 1
      /\ \A i \in 1..Len(b) : c'[i] = b[i]
      /\ c'[Len(b) + 1] = e
  BY <1>2, <1>3, <1>4, AppendProperties
<1>8. \A i \in 1..Len(b) : i + d \in 1..Len(c) /\ c'[i] = c[i + d]
  BY <1>2, <1>7
<1>9. \A i \in 1..Len(c') : i = Len(b) + 1 \/ i \in 1..Len(b)
  BY <1>2, <1>7
<1>10. ASSUME OneEach(c), CachedAt(u) = {} PROVE OneEach(c')
  <2>1. \A i \in 1..Len(c) : c[i].url # u
    BY <1>1, <1>10, LenProperties DEF CachedAt
  <2>2. \A i \in 1..Len(b) : c'[i].url # u
    BY <1>8, <2>1
  <2>3. \A i, j \in 1..Len(b) : c'[i].url = c'[j].url => i + d = j + d
    BY <1>8, <1>10 DEF OneEach
  <2>4. \A i, j \in 1..Len(b) : i + d = j + d => i = j
    BY <1>2
  <2> QED
    BY <1>6, <1>7, <1>9, <2>2, <2>3, <2>4 DEF OneEach
<1> QED
  BY <1>5, <1>7, <1>8, <1>9, <1>10 DEF e
-----------------------------------------------------------------------------
\* What the two steps of handleGetVerdicts leave has the types.
LEMMA ReturnTypes ==
    ASSUME TypeOK, NEW u \in Urls, NEW result \in Results, CacheAndReturn(u, result)
    PROVE  /\ verdictsCache' \in Seq(Kept) /\ lookup' \in [Urls -> Lookups]
           /\ page' \in [Pages -> Shown]
<1>1. lookup' \in [Urls -> Lookups]
  BY EmptyTypes DEF CacheAndReturn, TypeOK
<1>2. \A p \in Pages : Answered(page[p], result) \in Shown
  BY DEF Answered, Shown, TypeOK
<1>3. page' \in [Pages -> Shown]
  BY <1>2 DEF CacheAndReturn, TypeOK
<1> QED
  BY <1>1, <1>3, CacheProperties

\* A page that asks keeps the types.
LEMMA AskTypes ==
    ASSUME TypeOK, NEW p \in Pages, NEW q \in Shown, GetVerdicts(p, q)
    PROVE  /\ verdictsCache' \in Seq(Kept) /\ lookup' \in [Urls -> Lookups]
           /\ page' \in [Pages -> Shown]
<1> DEFINE u == UrlOf[p]
<1>1. u \in Urls /\ verdictsCache \in Seq(Kept)
  BY PlacesAssumption DEF TypeOK
<1>2. ASSUME NEW i \in CachedAt(u),
             page' = [page EXCEPT ![p] = Answered(q, verdictsCache[i].result)],
             UNCHANGED <<verdictsCache, lookup>>
      PROVE  /\ verdictsCache' \in Seq(Kept) /\ lookup' \in [Urls -> Lookups]
             /\ page' \in [Pages -> Shown]
  <2>1. verdictsCache[i].result \in Results
    <3>1. i \in 1..Len(verdictsCache)
      BY <1>1, LenProperties DEF CachedAt
    <3>2. verdictsCache[i] \in Kept
      BY <1>1, <3>1, ElementOfSeq
    <3> QED
      BY <3>2 DEF Kept
  <2>2. Answered(q, verdictsCache[i].result) \in Shown
    BY <2>1 DEF Answered, Shown
  <2> QED
    BY <1>2, <2>2 DEF TypeOK
<1>3. ASSUME page' = [page EXCEPT ![p] = [q EXCEPT !.waiting = TRUE]],
             verdictsCache' = Without(u),
             lookup' = IF lookup[u].stage # "none" THEN lookup
                       ELSE [lookup EXCEPT ![u] = [NoLookup EXCEPT !.stage = "image"]]
      PROVE  /\ verdictsCache' \in Seq(Kept) /\ lookup' \in [Urls -> Lookups]
             /\ page' \in [Pages -> Shown]
  <2>1. verdictsCache' \in Seq(Kept)
    BY <1>1, <1>3, WithoutProperties
  <2>2. lookup' \in [Urls -> Lookups]
    BY <1>3, EmptyTypes DEF TypeOK
  <2>3. [q EXCEPT !.waiting = TRUE] \in Shown
    BY DEF Shown
  <2> QED
    BY <1>3, <2>1, <2>2, <2>3 DEF TypeOK
<1> QED
  BY <1>2, <1>3 DEF GetVerdicts

\* A lookup, a page or a dialog that goes on keeps its type.
LEMMA Edited ==
    /\ \A x \in Lookups, s \in {"entries", "answered", "key", "verify", "giveUp", "trust"} :
          [x EXCEPT !.stage = s] \in Lookups
    /\ \A x \in Lookups, l \in Logs : [x EXCEPT !.log = l] \in Lookups
    /\ \A x \in Lookups, b \in BOOLEAN : [x EXCEPT !.raced = b] \in Lookups
    /\ \A x \in Lookups, a \in 0..MaxAge : [x EXCEPT !.result.age = a] \in Lookups
    /\ \A x \in Lookups, v \in Versions : [x EXCEPT !.result.version = v] \in Lookups
    /\ \A x \in Lookups, b \in BOOLEAN : [x EXCEPT !.result.claim = b] \in Lookups
    /\ \A x \in Lookups, t \in 0..MaxLookup : [x EXCEPT !.took = t] \in Lookups
<1>1. \A r \in Results, a \in 0..MaxAge : [r EXCEPT !.age = a] \in Results
  BY DEF Results
<1>2. \A r \in Results, v \in Versions : [r EXCEPT !.version = v] \in Results
  BY DEF Results
<1>3. \A r \in Results, b \in BOOLEAN : [r EXCEPT !.claim = b] \in Results
  BY DEF Results
<1> QED
  BY <1>1, <1>2, <1>3 DEF Lookups

\* A tick keeps the types.
LEMMA TickTypes == TypeOK /\ Tick => TypeOK'
<1> SUFFICES ASSUME TypeOK, Tick PROVE TypeOK'
  OBVIOUS
<1>1. /\ \A a \in 0..TtlOk : Older(a, TtlOk) \in 0..TtlOk
      /\ \A a \in 0..MaxAge : Older(a, MaxAge) \in 0..MaxAge
      /\ \A a \in 0..TtlTrust : Older(a, TtlTrust) \in 0..TtlTrust
      /\ \A a \in 0..TtlKey : Older(a, TtlKey) \in 0..TtlKey
  BY TimesAssumption DEF Older
<1>2. verdictsCache' \in Seq(Kept)
  <2> DEFINE c == verdictsCache
             older(x) == [x EXCEPT !.kept = Older(@, TtlOk), !.result.age = Older(@, MaxAge)]
  <2>1. \A x \in Kept : older(x) \in Kept
    <3>1. \A x \in Kept : [x EXCEPT !.kept = Older(@, TtlOk)] \in Kept
      BY <1>1 DEF Kept
    <3>2. \A x \in Kept : [x EXCEPT !.result.age = Older(@, MaxAge)] \in Kept
      <4>1. \A r \in Results : [r EXCEPT !.age = Older(@, MaxAge)] \in Results
        BY <1>1 DEF Results
      <4> QED
        BY <4>1 DEF Kept
    <3> QED
      BY <3>1, <3>2 DEF Kept
  <2>2. c' = [i \in DOMAIN c |-> older(c[i])]
    BY DEF Tick
  <2>3. c \in Seq(Kept) /\ DOMAIN c = 1..Len(c) /\ Len(c) \in Nat
    BY LenProperties DEF TypeOK
  <2>4. \A i \in 1..Len(c) : c[i] \in Kept
    BY <2>3, ElementOfSeq
  <2> HIDE DEF older
  <2>5. c' \in [1..Len(c) -> Kept]
    BY <2>1, <2>2, <2>3, <2>4
  <2> QED
    BY <2>3, <2>5, SeqDef
<1>3. trustedKeysCache' \in {Absent} \union [trust : BOOLEAN, age : 0..TtlTrust]
  <2>1. CASE trustedKeysCache = Absent
    BY <2>1 DEF Tick
  <2>2. CASE trustedKeysCache # Absent
    <3>1. trustedKeysCache \in [trust : BOOLEAN, age : 0..TtlTrust]
      BY <2>2 DEF TypeOK
    <3>2. trustedKeysCache' = [trustedKeysCache EXCEPT !.age = Older(@, TtlTrust)]
      BY <2>2 DEF Tick
    <3> QED
      BY <1>1, <3>1, <3>2
  <2> QED
    BY <2>1, <2>2
<1>4. serverKeyCache' \in {Absent} \union [age : 0..TtlKey]
  <2>1. CASE serverKeyCache = Absent
    BY <2>1 DEF Tick
  <2>2. CASE serverKeyCache # Absent
    <3>1. serverKeyCache \in [age : 0..TtlKey]
      BY <2>2 DEF TypeOK
    <3>2. serverKeyCache' = [serverKeyCache EXCEPT !.age = Older(@, TtlKey)]
      BY <2>2 DEF Tick
    <3> QED
      BY <1>1, <3>1, <3>2
  <2> QED
    BY <2>1, <2>2
<1>5. lookup' \in [Urls -> Lookups]
  <2> SUFFICES ASSUME NEW u \in Urls, lookup[u].stage # "none"
               PROVE  [lookup[u] EXCEPT !.took = @ + 1, !.result.age = Older(@, MaxAge)] \in Lookups
    BY EmptyTypes DEF Tick
  <2>1. lookup[u] \in Lookups /\ lookup[u].took < MaxLookup
    BY DEF Tick, TypeOK
  <2>2. lookup[u].took + 1 \in 0..MaxLookup
    BY <2>1, TimesAssumption DEF Lookups
  <2>3. [lookup[u] EXCEPT !.took = @ + 1] \in Lookups
    BY <2>1, <2>2, Edited
  <2>4. Older(lookup[u].result.age, MaxAge) \in 0..MaxAge
    BY <1>1, <2>1 DEF Lookups, Results
  <2>5. [[lookup[u] EXCEPT !.took = @ + 1] EXCEPT !.result.age = Older(lookup[u].result.age, MaxAge)]
        \in Lookups
    BY <2>3, <2>4, Edited
  <2>6. lookup[u].result.age = [lookup[u] EXCEPT !.took = @ + 1].result.age
    BY <2>1 DEF Lookups
  <2> QED
    BY <2>5, <2>6
<1> QED
  BY <1>2, <1>3, <1>4, <1>5 DEF Tick, TypeOK, world

\* A step of a lookup keeps the types.
LEMMA LookupTypes ==
    ASSUME TypeOK, NEW u \in Urls, Lookup(u)
    PROVE  TypeOK'
<1>1. lookup[u] \in Lookups /\ lookup[u].result \in Results /\ lookup[u].log \in Logs
  BY DEF TypeOK, Lookups
<1>2. ASSUME NEW result \in Results, CacheAndReturn(u, result),
             UNCHANGED <<world, trustedKeysCache, serverKeyCache, serverKeyPending, sign, attested>>
      PROVE  TypeOK'
  BY <1>2, ReturnTypes DEF TypeOK, world
<1>3. CASE LookupFails(u)
  BY <1>2, <1>3, EmptyTypes DEF LookupFails
<1>4. CASE ImageFetched(u)
  <2> DEFINE on == [lookup[u] EXCEPT !.log = logUrl]
  <2>1. on \in Lookups
    BY <1>1, Edited DEF TypeOK
  <2>2. CASE trustedKeysCache # Absent
    <3>1. trustedKeysCache.age \in 0..TtlTrust
      BY <2>2 DEF TypeOK
    <3>2. trustedKeysCache.age \in 0..MaxAge
      BY <3>1, TimesAssumption
    <3>3. [Empty EXCEPT !.age = trustedKeysCache.age] \in Results
      BY <3>2, EmptyTypes
    <3>4. [on EXCEPT !.stage = "entries", !.result.age = trustedKeysCache.age] \in Lookups
      <4>1. [on EXCEPT !.stage = "entries"] \in Lookups
        BY <2>1, Edited
      <4> QED
        BY <3>2, <4>1, Edited
    <3>5. [on EXCEPT !.stage = "trust"] \in Lookups
      BY <2>1, Edited
    <3> HIDE DEF on
    <3>6. \/ CacheAndReturn(u, [Empty EXCEPT !.age = trustedKeysCache.age])
          \/ /\ \E x \in Lookups : lookup' = [lookup EXCEPT ![u] = x]
             /\ UNCHANGED <<verdictsCache, page>>
      BY <1>4, <3>4, <3>5 DEF ImageFetched, on
    <3>7. UNCHANGED <<world, trustedKeysCache, serverKeyCache, serverKeyPending, sign, attested>>
      BY <1>4 DEF ImageFetched
    <3> QED
      BY <1>2, <3>3, <3>6, <3>7 DEF TypeOK, world
  <2>3. CASE trustedKeysCache = Absent
    <3>1. [on EXCEPT !.stage = "trust"] \in Lookups
      BY <2>1, Edited
    <3>2. lookup' = [lookup EXCEPT ![u] = [on EXCEPT !.stage = "trust"]]
          /\ UNCHANGED <<world, verdictsCache, page, trustedKeysCache, serverKeyCache,
                         serverKeyPending, sign, attested>>
      BY <1>4, <2>3 DEF ImageFetched
    <3> QED
      BY <3>1, <3>2 DEF TypeOK, world
  <2> QED
    BY <2>2, <2>3
<1>5. CASE GiveUp(u)
  BY <1>2, <1>5, EmptyTypes DEF GiveUp
<1>6. CASE EntriesRead(u)
  <2> DEFINE x == published[lookup[u].log][ImageOf[u]]
  <2>1. x.version \in Versions /\ x.claim \in BOOLEAN
    BY <1>1, PlacesAssumption DEF TypeOK
  <2> DEFINE a == [lookup EXCEPT ![u].stage = "answered"]
             b == [a EXCEPT ![u].result.version = x.version]
  <2>2. lookup' = [b EXCEPT ![u].result.claim = x.claim]
    BY <1>6 DEF EntriesRead
  <2> HIDE DEF x
  <2>3. a \in [Urls -> Lookups]
    BY <1>1, Edited DEF TypeOK
  <2> HIDE DEF a
  <2>4. b \in [Urls -> Lookups]
    BY <2>1, <2>3, Edited
  <2> HIDE DEF b
  <2>5. lookup' \in [Urls -> Lookups]
    BY <2>1, <2>2, <2>4, Edited
  <2> QED
    BY <1>6, <2>5 DEF EntriesRead, TypeOK, world, caches
<1>7. CASE EntriesArrive(u)
  <2>1. CASE CacheAndReturn(u, lookup[u].result) /\ UNCHANGED serverKeyPending
    BY <1>1, <1>2, <1>7, <2>1 DEF EntriesArrive
  <2>2. CASE /\ \/ lookup' = [lookup EXCEPT ![u].stage = "verify"] /\ UNCHANGED serverKeyPending
                \/ /\ lookup' = [lookup EXCEPT ![u].stage = "key"]
                   /\ serverKeyPending' = IF serverKeyPending = "none" THEN "storage" ELSE serverKeyPending
             /\ UNCHANGED <<verdictsCache, page>>
    <3>1. [lookup[u] EXCEPT !.stage = "verify"] \in Lookups /\ [lookup[u] EXCEPT !.stage = "key"] \in Lookups
      BY <1>1, Edited
    <3>2. lookup' \in [Urls -> Lookups]
      BY <2>2, <3>1 DEF TypeOK
    <3> QED
      BY <1>7, <2>2, <3>2 DEF EntriesArrive, TypeOK, world
  <2> QED
    BY <1>7, <2>1, <2>2 DEF EntriesArrive
<1>8. CASE Verified(u)
  BY <1>1, <1>2, <1>8, EmptyTypes DEF Verified
<1> QED
  BY <1>3, <1>4, <1>5, <1>6, <1>7, <1>8 DEF Lookup

\* So does a step of what the lookups share.
LEMMA SharedTypes == TypeOK /\ SharedPromise => TypeOK'
<1> SUFFICES ASSUME TypeOK, SharedPromise PROVE TypeOK'
  OBVIOUS
<1>1. \A u \in Urls : lookup[u] \in Lookups
  BY DEF TypeOK
<1>2. CASE KeysListed
  <2>1. PICK t \in {trust} \union (IF Faulty THEN {FALSE} ELSE {}) :
          /\ trustedKeysCache' = [trust |-> t, age |-> 0]
          /\ lookup' = [u \in Urls |->
                IF ~At(u, "trust") THEN lookup[u]
                ELSE [lookup[u] EXCEPT !.stage = IF t THEN "entries" ELSE "giveUp",
                                       !.result.age = 0]]
    BY <1>2 DEF KeysListed
  <2>2. ASSUME NEW u \in Urls, NEW s \in {"entries", "giveUp"}
        PROVE  [lookup[u] EXCEPT !.stage = s, !.result.age = 0] \in Lookups
    <3>1. [lookup[u] EXCEPT !.stage = s] \in Lookups
      BY <1>1, Edited
    <3>2. 0 \in 0..MaxAge
      BY TimesAssumption
    <3> QED
      BY <3>1, <3>2, Edited
  <2>3. lookup' \in [Urls -> Lookups]
    BY <1>1, <2>1, <2>2
  <2>4. trustedKeysCache' \in [trust : BOOLEAN, age : 0..TtlTrust]
    <3>1. trust \in BOOLEAN
      BY DEF TypeOK
    <3>2. t \in BOOLEAN
      BY <3>1, Zenon
    <3>3. 0 \in 0..TtlTrust
      BY TimesAssumption
    <3> QED
      BY <2>1, <3>2, <3>3
  <2> QED
    BY <1>2, <2>3, <2>4 DEF KeysListed, TypeOK, world
<1>3. CASE ListKeysFails
  <2>1. lookup' \in [Urls -> Lookups]
    BY <1>1, <1>3, Edited DEF ListKeysFails
  <2> QED
    BY <1>3, <2>1 DEF ListKeysFails, TypeOK, world, caches
<1>4. CASE KeyReadsLog
  BY <1>4 DEF KeyReadsLog, TypeOK, world, caches
<1>5. CASE KeyImported
  <2>1. lookup' \in [Urls -> Lookups]
    BY <1>1, <1>5, Edited DEF KeyImported, WakeKeyWaiters
  <2>2. serverKeyCache' \in [age : 0..TtlKey]
    BY <1>5, TimesAssumption DEF KeyImported
  <2> QED
    BY <1>5, <2>1, <2>2 DEF KeyImported, TypeOK
<1>6. CASE KeyFails
  <2>1. lookup' \in [Urls -> Lookups]
    BY <1>1, <1>6, Edited DEF KeyFails, WakeKeyWaiters
  <2> QED
    BY <1>6, <2>1 DEF KeyFails, TypeOK, world, caches
<1> QED
  BY <1>2, <1>3, <1>4, <1>5, <1>6 DEF SharedPromise

\* So does a step of a page, of its dialog, or of the world around.
LEMMA PageTypes ==
    ASSUME TypeOK, NEW p \in Pages, ProcessSingleImage(p) \/ Navigate(p) \/ Dialog(p)
    PROVE  TypeOK'
<1>1. page[p] \in Shown /\ sign[p] \in Dialogs /\ UrlOf[p] \in Urls
  BY PlacesAssumption DEF TypeOK
<1>2. ASSUME NEW q \in Shown, GetVerdicts(p, q), sign' \in [Pages -> Dialogs],
             UNCHANGED <<world, trustedKeysCache, serverKeyCache, serverKeyPending, attested>>
      PROVE  TypeOK'
  BY <1>2, AskTypes DEF TypeOK, world
<1>3. ASSUME NEW x \in Dialogs, sign' = [sign EXCEPT ![p] = x] PROVE sign' \in [Pages -> Dialogs]
  BY <1>3 DEF TypeOK
<1>4. CASE ProcessSingleImage(p)
  <2>1. [page[p] EXCEPT !.processed = TRUE] \in Shown
    BY <1>1 DEF Shown
  <2> QED
    BY <1>2, <1>4, <2>1 DEF ProcessSingleImage, TypeOK
<1>5. CASE Navigate(p)
  <2>1. [sign[p] EXCEPT !.open = FALSE] \in Dialogs
    BY <1>1 DEF Dialogs
  <2>2. sign' \in [Pages -> Dialogs]
    BY <1>3, <1>5, <2>1, EmptyTypes DEF Navigate
  <2>3. page' \in [Pages -> Shown]
    BY <1>5, EmptyTypes DEF Navigate, TypeOK
  <2> QED
    BY <1>5, <2>2, <2>3 DEF Navigate, TypeOK, world, caches
<1>6. ASSUME NEW claim \in BOOLEAN, SignBegin(p, claim) PROVE TypeOK'
  <2>1. [NoSign EXCEPT !.stage = "native", !.claim = claim] \in Dialogs
    BY EmptyTypes DEF Dialogs
  <2> QED
    BY <1>3, <1>6, <2>1 DEF SignBegin, TypeOK, world, caches
<1>7. CASE SignReadsLog(p)
  <2>1. sign' \in [Pages -> Dialogs]
    <3> DEFINE a == [sign EXCEPT ![p].stage = "post"]
    <3>1. sign' = [a EXCEPT ![p].log = logUrl]
      BY <1>7 DEF SignReadsLog
    <3>2. [sign[p] EXCEPT !.stage = "post"] \in Dialogs
      BY <1>1 DEF Dialogs
    <3>3. a \in [Pages -> Dialogs]
      <4>1. sign \in [Pages -> Dialogs]
        BY DEF TypeOK
      <4> QED
        BY <3>2, <4>1
    <3> HIDE DEF a
    <3>4. a[p] \in Dialogs /\ logUrl \in Logs
      BY <3>3 DEF TypeOK
    <3>5. [a[p] EXCEPT !.log = logUrl] \in Dialogs
      BY <3>4 DEF Dialogs
    <3> QED
      BY <3>1, <3>3, <3>5
  <2> QED
    BY <1>7, <2>1 DEF SignReadsLog, TypeOK, world, caches
<1>8. CASE SignPosted(p)
  <2> DEFINE l == sign[p].log
             i == ImageOf[UrlOf[p]]
             v == published[l][i].version + 1
  <2>1. l \in Logs /\ i \in Images /\ sign[p].claim \in BOOLEAN
    BY <1>1, PlacesAssumption DEF Dialogs
  <2>2. v \in Versions
    <3>1. published[l][i].version \in Versions /\ published[l][i].version < MaxEntries
      BY <1>8, <2>1 DEF SignPosted, TypeOK
    <3> QED
      BY <3>1, TimesAssumption DEF Versions
  <2>3. published' = [published EXCEPT ![l][i] = [version |-> v, claim |-> sign[p].claim]]
    BY <1>8 DEF SignPosted
  <2> HIDE DEF l, i, v
  <2>4. published' \in [Logs -> [Images -> [version : Versions, claim : BOOLEAN]]]
    BY <2>1, <2>2, <2>3 DEF TypeOK
  <2>5. published'[l][i].version \in Versions
    BY <2>1, <2>4
  <2>6. sign' = [sign EXCEPT ![p].stage = "posted", ![p].version = published'[l][i].version]
    BY <1>8 DEF SignPosted, l, i
  <2>7. sign' \in [Pages -> Dialogs]
    <3> DEFINE y == published'[l][i].version
               a == [sign EXCEPT ![p].stage = "posted"]
    <3>1. sign' = [a EXCEPT ![p].version = y]
      BY <2>6
    <3>2. y \in Versions
      BY <2>5
    <3> HIDE DEF y
    <3>3. [sign[p] EXCEPT !.stage = "posted"] \in Dialogs
      BY <1>1 DEF Dialogs
    <3>4. a \in [Pages -> Dialogs]
      <4>1. sign \in [Pages -> Dialogs]
        BY DEF TypeOK
      <4> QED
        BY <3>3, <4>1
    <3> HIDE DEF a
    <3>5. [a[p] EXCEPT !.version = y] \in Dialogs
      BY <3>2, <3>4 DEF Dialogs
    <3> QED
      BY <3>1, <3>4, <3>5
  <2> QED
    BY <1>8, <2>4, <2>7 DEF SignPosted, TypeOK, caches
<1>9. CASE SignDone(p)
  <2> DEFINE u == UrlOf[p]
             x == sign[p]
  <2>1. x.log \in Logs /\ x.version \in Versions /\ u \in Urls
    BY <1>1 DEF Dialogs
  <2>2. verdictsCache' \in Seq(Kept)
    BY <1>9, WithoutProperties DEF SignDone, TypeOK
  <2>3. lookup' \in [Urls -> Lookups]
    <3>1. lookup[u] \in Lookups /\ lookup[u].raced \in BOOLEAN
      BY <1>1 DEF TypeOK, Lookups
    <3>2. \A b \in BOOLEAN : [lookup EXCEPT ![u].raced = b] \in [Urls -> Lookups]
      BY <3>1, Edited DEF TypeOK
    <3>3. (lookup[u].raced \/ lookup[u].stage \in {"answered", "key", "verify"}) \in BOOLEAN
      OBVIOUS
    <3>4. lookup' = [lookup EXCEPT ![u].raced = lookup[u].raced \/ lookup[u].stage \in {"answered", "key", "verify"}]
      BY <1>9 DEF SignDone
    <3> QED
      BY <3>2, <3>3, <3>4
  <2>4. attested' \in [Urls -> [Logs -> Versions]]
    BY <1>9, <2>1 DEF SignDone, TypeOK
  <2>5. [x EXCEPT !.stage = "signed"] \in Dialogs
    BY <1>1 DEF Dialogs
  <2>6. sign' \in [Pages -> Dialogs]
    BY <1>3, <1>9, <2>5, EmptyTypes DEF SignDone
  <2> QED
    BY <1>9, <2>2, <2>3, <2>4, <2>6 DEF SignDone, TypeOK, world
<1>10. CASE SignFails(p)
  BY <1>3, <1>10, EmptyTypes DEF SignFails, TypeOK, world, caches
<1>11. CASE Refresh(p)
  <2>1. [page[p] EXCEPT !.answer = Absent] \in Shown
    BY <1>1 DEF Shown
  <2>2. sign' \in [Pages -> Dialogs]
    BY <1>3, <1>11, EmptyTypes DEF Refresh
  <2> QED
    BY <1>2, <1>11, <2>1, <2>2 DEF Refresh
<1> QED
  BY <1>4, <1>5, <1>6, <1>7, <1>8, <1>9, <1>10, <1>11 DEF Dialog

\* A step keeps the types.
LEMMA TypeStep == TypeOK /\ [Next]_vars => TypeOK'
<1> SUFFICES ASSUME TypeOK, [Next]_vars PROVE TypeOK'
  OBVIOUS
<1>1. ASSUME NEW l \in Logs, SetLogUrl(l) PROVE TypeOK'
  BY <1>1 DEF SetLogUrl, TypeOK, caches
<1>2. CASE EditTrust
  BY <1>2 DEF EditTrust, TypeOK, caches
<1>3. CASE Restart
  <2>1. page' \in [Pages -> Shown]
    <3>1. \A g \in Pages : [page[g] EXCEPT !.waiting = FALSE] \in Shown
      BY DEF TypeOK, Shown
    <3> QED
      BY <1>3, <3>1 DEF Restart
  <2>2. sign' \in [Pages -> Dialogs] /\ lookup' \in [Urls -> Lookups]
    BY <1>3, EmptyTypes DEF Restart, TypeOK
  <2>3. verdictsCache' \in Seq(Kept)
    BY <1>3, EmptySeq DEF Restart
  <2> QED
    BY <1>3, <2>1, <2>2, <2>3 DEF Restart, TypeOK, world
<1>4. CASE UNCHANGED vars
  BY <1>4 DEF vars, world, caches, TypeOK
<1> QED
  BY <1>1, <1>2, <1>3, <1>4, LookupTypes, SharedTypes, PageTypes, TickTypes DEF Next

\* At the start the types are right.
LEMMA TypeInit == Init => TypeOK
<1> SUFFICES ASSUME Init PROVE TypeOK
  OBVIOUS
<1>1. published \in [Logs -> [Images -> [version : Versions, claim : BOOLEAN]]]
  BY TimesAssumption DEF Init, Versions
<1>2. attested \in [Urls -> [Logs -> Versions]]
  BY TimesAssumption DEF Init, Versions
<1>3. verdictsCache \in Seq(Kept)
  BY EmptySeq DEF Init
<1> QED
  BY <1>1, <1>2, <1>3, EmptyTypes, PlacesAssumption DEF Init, TypeOK

(* Caches, lookups, pages and dialogs keep their types: no age or time grows past its     *)
(* bound, no lookup is at an unknown log (service-worker.js:105-200).                      *)
THEOREM TypeCorrect == Spec => []TypeOK
BY TypeInit, TypeStep, PTL DEF Spec

-----------------------------------------------------------------------------
(* Every step ends a lookup, asks for a verdict, restarts the worker, or leaves it open     *)
(* which lookups are under way, answers no page, and at most strikes an entry of the cache. *)
Told(x) == x.stage \in {"answered", "key", "verify"}

\* The result is what the lookup has learned, or says nothing of the log.
Learned(x, result) ==
    /\ result.version = Unknown \/ (result = x.result /\ Told(x))
    /\ result.age = x.result.age \/ result.age < TtlTrust

Returns(u, result) ==
    /\ CacheAndReturn(u, result) /\ lookup[u].stage # "none" /\ Learned(lookup[u], result)
    /\ UNCHANGED <<serverKeyPending, attested>>

Asks(p, q) ==
    /\ GetVerdicts(p, q) /\ q.answer \in {page[p].answer, Absent}
    /\ UNCHANGED <<serverKeyPending, attested>>

KeyAwaited ==
    \/ UNCHANGED serverKeyPending /\ \A u \in Urls : lookup'[u].stage = "key" => lookup[u].stage = "key"
    \/ serverKeyPending' # "none"
    \/ \A u \in Urls : lookup'[u].stage # "key"

Quiet ==
    /\ KeyAwaited
    /\ \A u \in Urls : lookup'[u].stage = "none" <=> lookup[u].stage = "none"
    /\ \A p \in Pages : page'[p].waiting => page[p].waiting
    /\ \A p \in Pages : page'[p].answer \in {page[p].answer, Absent}
    /\ \/ UNCHANGED verdictsCache
       \/ \E p \in Pages : verdictsCache' = Without(UrlOf[p]) /\ SignDone(p)
       \/ Tick

\* The stage of a lookup that goes on.
LEMMA Staged ==
    ASSUME NEW x \in Lookups, NEW s, NEW a, NEW l
    PROVE  /\ [x EXCEPT !.stage = s].stage = s
           /\ [x EXCEPT !.stage = s, !.result.age = a].stage = s
           /\ [[x EXCEPT !.log = l] EXCEPT !.stage = s].stage = s
           /\ [[x EXCEPT !.log = l] EXCEPT !.stage = s, !.result.age = a].stage = s
BY DEF Lookups

\* A step of a lookup answers those who wait for it, or nobody.
LEMMA LookupKinds ==
    ASSUME TypeOK, NEW u \in Urls, Lookup(u)
    PROVE  (\E result \in Results : Returns(u, result)) \/ Quiet
<1>1. lookup[u] \in Lookups /\ lookup[u].result \in Results
  BY DEF TypeOK, Lookups
<1>2. Learned(lookup[u], Empty) /\ (Told(lookup[u]) => Learned(lookup[u], lookup[u].result))
  BY TimesAssumption DEF Learned, Empty
<1>3. CASE LookupFails(u) \/ GiveUp(u)
  BY <1>2, <1>3, EmptyTypes DEF LookupFails, GiveUp, Returns, At
<1>4. CASE Verified(u)
  BY <1>2, <1>1, <1>4, EmptyTypes DEF Verified, Returns, Told, At
<1>5. CASE ImageFetched(u)
  <2>1. CASE /\ CacheAndReturn(u, [Empty EXCEPT !.age = trustedKeysCache.age])
             /\ trustedKeysCache # Absent /\ trustedKeysCache.age < TtlTrust
    <3>1. trustedKeysCache.age \in 0..MaxAge
      <4>1. trustedKeysCache.age \in 0..TtlTrust
        BY <2>1 DEF TypeOK
      <4> QED
        BY <4>1, TimesAssumption
    <3>2. Learned(lookup[u], [Empty EXCEPT !.age = trustedKeysCache.age])
      BY <2>1 DEF Learned, Empty
    <3> QED
      BY <1>5, <2>1, <3>1, <3>2, EmptyTypes DEF ImageFetched, Returns, At
  <2>2. CASE /\ \E s \in {"trust", "entries"} : lookup'[u].stage = s
             /\ \A v \in Urls : v # u => lookup'[v] = lookup[v]
             /\ UNCHANGED <<verdictsCache, page>>
    BY <1>5, <2>2 DEF ImageFetched, At, Quiet, KeyAwaited
  <2>3. \/ /\ CacheAndReturn(u, [Empty EXCEPT !.age = trustedKeysCache.age])
           /\ trustedKeysCache # Absent /\ trustedKeysCache.age < TtlTrust
        \/ /\ \E x : /\ lookup' = [lookup EXCEPT ![u] = x]
                    /\ \E s \in {"trust", "entries"} : x.stage = s
           /\ UNCHANGED <<verdictsCache, page>>
    <3> DEFINE on == [lookup[u] EXCEPT !.log = logUrl]
               known == trustedKeysCache # Absent /\ trustedKeysCache.age < TtlTrust
               waits == [on EXCEPT !.stage = "trust"]
               reads == [on EXCEPT !.stage = "entries", !.result.age = trustedKeysCache.age]
               gone  == CacheAndReturn(u, [Empty EXCEPT !.age = trustedKeysCache.age])
    <3>1. waits.stage = "trust" /\ reads.stage = "entries"
      BY <1>1, Staged
    <3>2. \/ lookup' = [lookup EXCEPT ![u] = waits] /\ UNCHANGED <<verdictsCache, page>>
          \/ lookup' = [lookup EXCEPT ![u] = reads] /\ UNCHANGED <<verdictsCache, page>>
          \/ known /\ gone
      BY <1>5 DEF ImageFetched
    <3> HIDE DEF on, waits, reads, gone
    <3>3. known => trustedKeysCache # Absent /\ trustedKeysCache.age < TtlTrust
      OBVIOUS
    <3> HIDE DEF known
    <3> QED
      BY <3>1, <3>2, <3>3 DEF gone
  <2>4. ASSUME NEW x, lookup' = [lookup EXCEPT ![u] = x]
        PROVE  lookup'[u] = x /\ \A v \in Urls : v # u => lookup'[v] = lookup[v]
    BY <2>4 DEF TypeOK
  <2> QED
    BY <2>1, <2>2, <2>3, <2>4
<1>6. CASE EntriesRead(u)
  <2>1. lookup'[u].stage = "answered" /\ \A v \in Urls : v # u => lookup'[v] = lookup[v]
    BY <1>1, <1>6 DEF EntriesRead, TypeOK, Lookups
  <2> QED
    BY <1>6, <2>1 DEF EntriesRead, At, Quiet, KeyAwaited, caches
<1>7. CASE EntriesArrive(u)
  <2>1. CASE CacheAndReturn(u, lookup[u].result) /\ UNCHANGED serverKeyPending
    BY <1>2, <1>1, <1>7, <2>1 DEF EntriesArrive, Returns, Told, At
  <2>2. CASE /\ \E s \in {"verify", "key"} :
                   /\ lookup' = [lookup EXCEPT ![u].stage = s]
                   /\ s = "verify" => UNCHANGED serverKeyPending
                   /\ s = "key" => serverKeyPending' # "none"
             /\ UNCHANGED <<verdictsCache, page>>
    <3>1. PICK s \in {"verify", "key"} :
             /\ lookup' = [lookup EXCEPT ![u].stage = s]
             /\ s = "verify" => UNCHANGED serverKeyPending
             /\ s = "key" => serverKeyPending' # "none"
      BY <2>2
    <3>2. lookup'[u].stage = s /\ \A v \in Urls : v # u => lookup'[v] = lookup[v]
      BY <1>1, <3>1 DEF TypeOK, Lookups
    <3>3. KeyAwaited
      BY <3>1, <3>2 DEF KeyAwaited
    <3> QED
      BY <1>7, <2>2, <3>2, <3>3 DEF EntriesArrive, At, Quiet
  <2>3. \/ CacheAndReturn(u, lookup[u].result) /\ UNCHANGED serverKeyPending
        \/ /\ UNCHANGED <<verdictsCache, page>>
           /\ \/ lookup' = [lookup EXCEPT ![u].stage = "verify"] /\ UNCHANGED serverKeyPending
              \/ lookup' = [lookup EXCEPT ![u].stage = "key"] /\ serverKeyPending' # "none"
    BY <1>7 DEF EntriesArrive
  <2> QED
    BY <2>1, <2>2, <2>3
<1> QED
  BY <1>3, <1>4, <1>5, <1>6, <1>7 DEF Lookup

\* Every step is of one of the four kinds.
LEMMA Kinds ==
    ASSUME TypeOK, [Next]_vars
    PROVE  \/ \E u \in Urls, result \in Results : Returns(u, result)
           \/ \E p \in Pages, q \in Shown : Asks(p, q)
           \/ Restart
           \/ Quiet
<1>1. \A p \in Pages : page[p] \in Shown /\ UrlOf[p] \in Urls
  BY PlacesAssumption DEF TypeOK
<1>2. \A u \in Urls : lookup[u] \in Lookups
  BY DEF TypeOK
<1>3. CASE UNCHANGED <<lookup, page, verdictsCache, serverKeyPending>>
  BY <1>3 DEF Quiet, KeyAwaited
<1>4. ASSUME NEW u \in Urls, Lookup(u) PROVE (\E result \in Results : Returns(u, result)) \/ Quiet
  BY <1>4, LookupKinds
<1>5. CASE SharedPromise
  <2>1. /\ \A u \in Urls : lookup'[u].stage = "none" <=> lookup[u].stage = "none"
        /\ UNCHANGED <<verdictsCache, page>> /\ KeyAwaited
    <3>1. CASE KeysListed
      <4>1. PICK t \in {trust} \union (IF Faulty THEN {FALSE} ELSE {}) :
              /\ trustedKeysCache' = [trust |-> t, age |-> 0]
              /\ lookup' = [u \in Urls |->
                    IF ~At(u, "trust") THEN lookup[u]
                    ELSE [lookup[u] EXCEPT !.stage = IF t THEN "entries" ELSE "giveUp",
                                           !.result.age = 0]]
        BY <3>1 DEF KeysListed
      <4>2. ASSUME NEW u \in Urls, At(u, "trust")
            PROVE  lookup[u].stage # "none" /\ lookup'[u].stage \notin {"none", "key"}
        <5> DEFINE s == IF t THEN "entries" ELSE "giveUp"
        <5>1. lookup'[u] = [lookup[u] EXCEPT !.stage = s, !.result.age = 0]
          BY <4>1, <4>2
        <5>2. s \notin {"none", "key"}
          OBVIOUS
        <5> HIDE DEF s
        <5>3. lookup'[u].stage = s
          BY <1>2, <5>1, Staged
        <5> QED
          BY <4>2, <5>2, <5>3 DEF At
      <4>3. \A u \in Urls : ~At(u, "trust") => lookup'[u] = lookup[u]
        BY <4>1
      <4> QED
        BY <3>1, <4>2, <4>3 DEF KeysListed, KeyAwaited
    <3>2. CASE ListKeysFails
      <4>1. \A u \in Urls : [lookup[u] EXCEPT !.stage = "giveUp"].stage = "giveUp"
        BY <1>2, Staged
      <4>2. \A u \in Urls : lookup'[u] = IF At(u, "trust") THEN [lookup[u] EXCEPT !.stage = "giveUp"]
                                          ELSE lookup[u]
        BY <3>2 DEF ListKeysFails
      <4> QED
        BY <3>2, <4>1, <4>2 DEF ListKeysFails, At, KeyAwaited, caches
    <3>3. CASE KeyReadsLog
      BY <3>3, LogsAssumption DEF KeyReadsLog, KeyAwaited, TypeOK, caches
    <3>4. CASE KeyImported \/ KeyFails
      <4>1. PICK s \in {"verify", "giveUp"} : WakeKeyWaiters(s)
        BY <3>4 DEF KeyImported, KeyFails
      <4>2. \A u \in Urls : lookup'[u] = IF At(u, "key") THEN [lookup[u] EXCEPT !.stage = s] ELSE lookup[u]
        BY <4>1 DEF WakeKeyWaiters
      <4>3. \A u \in Urls : [lookup[u] EXCEPT !.stage = s].stage = s
        BY <1>2, Staged
      <4>4. UNCHANGED <<verdictsCache, page>>
        BY <3>4 DEF KeyImported, KeyFails, caches
      <4> QED
        BY <4>2, <4>3, <4>4 DEF At, KeyAwaited
    <3> QED
      BY <1>5, <3>1, <3>2, <3>3, <3>4 DEF SharedPromise
  <2> QED
    BY <2>1 DEF Quiet
<1>6. ASSUME NEW p \in Pages, ProcessSingleImage(p) PROVE \E q \in Shown : Asks(p, q)
  <2>1. [page[p] EXCEPT !.processed = TRUE] \in Shown
    BY <1>1 DEF Shown
  <2> QED
    BY <1>1, <1>6, <2>1 DEF ProcessSingleImage, Asks, Shown
<1>7. ASSUME NEW p \in Pages, Refresh(p) PROVE \E q \in Shown : Asks(p, q)
  <2>1. [page[p] EXCEPT !.answer = Absent] \in Shown
    BY <1>1 DEF Shown
  <2> QED
    BY <1>1, <1>7, <2>1 DEF Refresh, Asks, Shown
<1>8. ASSUME NEW p \in Pages, Navigate(p) PROVE Quiet
  BY <1>8 DEF Navigate, Quiet, KeyAwaited, TypeOK, NewPage, caches
<1>9. ASSUME NEW p \in Pages, SignDone(p) PROVE Quiet
  <2>1. \A u \in Urls : lookup'[u].stage = lookup[u].stage
    BY <1>1, <1>2, <1>9 DEF SignDone, TypeOK, Lookups
  <2> QED
    BY <1>9, <2>1 DEF SignDone, Quiet, KeyAwaited
<1>10. CASE Tick
  <2>1. \A u \in Urls : lookup'[u].stage = lookup[u].stage
    BY <1>2, <1>10 DEF Tick, NoLookup, Lookups
  <2> QED
    BY <1>10, <2>1 DEF Tick, Quiet, KeyAwaited
<1>11. ASSUME NEW p \in Pages,
              (\E claim \in BOOLEAN : SignBegin(p, claim)) \/ SignReadsLog(p) \/ SignPosted(p) \/ SignFails(p)
       PROVE  UNCHANGED <<lookup, page, verdictsCache, serverKeyPending>>
  BY <1>11 DEF SignBegin, SignReadsLog, SignPosted, SignFails, caches
<1>12. ASSUME NEW l \in Logs, SetLogUrl(l) PROVE UNCHANGED <<lookup, page, verdictsCache, serverKeyPending>>
  BY <1>12 DEF SetLogUrl, caches
<1>13. CASE EditTrust \/ UNCHANGED vars
  BY <1>3, <1>13 DEF EditTrust, caches, vars
<1> QED
  BY <1>3, <1>4, <1>5, <1>6, <1>7, <1>8, <1>9, <1>10, <1>11, <1>12, <1>13 DEF Next, Dialog

\* Asking for a verdict leaves a lookup behind whoever waits for it.
LEMMA Asked ==
    ASSUME TypeOK, NEW p \in Pages, NEW q \in Shown, Asks(p, q)
    PROVE  LET u == UrlOf[p] IN
           /\ \A g \in Pages : g # p => page'[g] = page[g]
           /\ \A v \in Urls : v # u => lookup'[v] = lookup[v]
           /\ \/ /\ ~page'[p].waiting /\ UNCHANGED <<verdictsCache, lookup>>
                 /\ \E i \in CachedAt(u) :
                       Fresh(verdictsCache[i]) /\ page'[p].answer = verdictsCache[i].result
              \/ /\ page'[p].waiting /\ lookup'[u].stage # "none" /\ verdictsCache' = Without(u)
                 /\ page'[p].answer = q.answer
                 /\ lookup' = lookup \/ lookup'[u] = [NoLookup EXCEPT !.stage = "image"]
<1> DEFINE u == UrlOf[p]
<1>1. u \in Urls
  BY PlacesAssumption
<1>2. ASSUME NEW i \in CachedAt(u),
             page' = [page EXCEPT ![p] = Answered(q, verdictsCache[i].result)]
      PROVE  /\ \A g \in Pages : g # p => page'[g] = page[g]
             /\ ~page'[p].waiting /\ page'[p].answer = verdictsCache[i].result
  BY <1>2 DEF Answered, TypeOK, Shown
<1>3. ASSUME page' = [page EXCEPT ![p] = [q EXCEPT !.waiting = TRUE]]
      PROVE  /\ \A g \in Pages : g # p => page'[g] = page[g]
             /\ page'[p].waiting /\ page'[p].answer = q.answer
  BY <1>3 DEF TypeOK, Shown
<1>4. ASSUME lookup' = IF lookup[u].stage # "none" THEN lookup
                       ELSE [lookup EXCEPT ![u] = [NoLookup EXCEPT !.stage = "image"]]
      PROVE  /\ \A v \in Urls : v # u => lookup'[v] = lookup[v]
             /\ lookup'[u].stage # "none"
             /\ lookup' = lookup \/ lookup'[u] = [NoLookup EXCEPT !.stage = "image"]
  BY <1>1, <1>4 DEF TypeOK, NoLookup
<1> QED
  BY <1>2, <1>3, <1>4 DEF Asks, GetVerdicts

\* The end of a lookup leaves nobody behind who waits for it.
LEMMA Returned ==
    ASSUME TypeOK, NEW u \in Urls, NEW result \in Results, Returns(u, result)
    PROVE  /\ lookup'[u] = NoLookup /\ \A v \in Urls : v # u => lookup'[v] = lookup[v]
           /\ \A p \in Pages :
                 \/ page'[p] = page[p] /\ ~(UrlOf[p] = u /\ page[p].waiting)
                 \/ ~page'[p].waiting /\ page'[p].answer = result
<1>1. \A p \in Pages : ~Answered(page[p], result).waiting /\ Answered(page[p], result).answer = result
  BY DEF Answered, TypeOK, Shown
<1> QED
  BY <1>1 DEF Returns, CacheAndReturn, TypeOK

(* Behind whoever waits there is somebody who will answer, whatever fails and whenever     *)
(* the worker is stopped (service-worker.js:150-181 and 188-216).                          *)
THEOREM NobodyIsForgotten == Spec => []NobodyForgotten
<1>1. Init => NobodyForgotten
  BY DEF Init, NobodyForgotten, NewPage, NoLookup
<1>2. TypeOK /\ NobodyForgotten /\ [Next]_vars => NobodyForgotten'
  <2> SUFFICES ASSUME TypeOK, NobodyForgotten, [Next]_vars PROVE NobodyForgotten'
    OBVIOUS
  <2>1. ASSUME NEW u \in Urls, NEW result \in Results, Returns(u, result) PROVE NobodyForgotten'
    <3>1. lookup'[u].stage = "none" /\ \A v \in Urls : v # u => lookup'[v] = lookup[v]
      BY <2>1, Returned DEF NoLookup
    <3>2. \A p \in Pages : page'[p].waiting => page[p].waiting /\ UrlOf[p] # u
      BY <2>1, Returned
    <3>3. serverKeyPending' = serverKeyPending /\ \A p \in Pages : UrlOf[p] \in Urls
      BY <2>1, PlacesAssumption DEF Returns
    <3> QED
      BY <3>1, <3>2, <3>3 DEF NobodyForgotten
  <2>2. ASSUME NEW p \in Pages, NEW q \in Shown, Asks(p, q) PROVE NobodyForgotten'
    <3> DEFINE u == UrlOf[p]
    <3>1. /\ \A g \in Pages : g # p => page'[g] = page[g]
          /\ \A v \in Urls : v # u => lookup'[v] = lookup[v]
          /\ \/ ~page'[p].waiting /\ UNCHANGED lookup
             \/ /\ lookup'[u].stage # "none"
                /\ lookup' = lookup \/ lookup'[u].stage = "image"
      BY <2>2, Asked DEF NoLookup
    <3>2. serverKeyPending' = serverKeyPending /\ \A g \in Pages : UrlOf[g] \in Urls
      BY <2>2, PlacesAssumption DEF Asks
    <3> HIDE DEF u
    <3>3. \A v \in Urls : lookup[v].stage # "none" => lookup'[v].stage # "none"
      BY <3>1
    <3>4. \A v \in Urls : lookup'[v].stage = "key" => lookup[v].stage = "key"
      BY <3>1
    <3>5. page'[p].waiting => lookup'[u].stage # "none"
      BY <3>1
    <3> QED
      BY <3>1, <3>2, <3>3, <3>4, <3>5 DEF NobodyForgotten, u
  <2>3. CASE Restart
    BY <2>3, PlacesAssumption DEF Restart, NobodyForgotten, NoLookup, TypeOK, Shown
  <2>4. CASE Quiet
    BY <2>4, PlacesAssumption DEF Quiet, KeyAwaited, NobodyForgotten
  <2> QED
    BY <2>1, <2>2, <2>3, <2>4, Kinds
<1> QED
  BY <1>1, <1>2, TypeInit, TypeStep, PTL DEF Spec

-----------------------------------------------------------------------------
(* What makes CacheBounded inductive: an address with a lookup under way is not cached, so  *)
(* that no lookup ends with a second entry for its address.                                  *)
NoneFor(u, c) == \A i \in 1..Len(c) : c[i].url # u

CacheInv ==
    /\ OneEach(verdictsCache) /\ Len(verdictsCache) <= CacheMax
    /\ \A u \in Urls : lookup[u].stage # "none" => NoneFor(u, verdictsCache)

\* The cache is a sequence of entries.
LEMMA Indices ==
    ASSUME TypeOK
    PROVE  /\ verdictsCache \in Seq(Kept) /\ Len(verdictsCache) \in Nat
           /\ DOMAIN verdictsCache = 1..Len(verdictsCache)
           /\ \A i \in 1..Len(verdictsCache) : verdictsCache[i] \in Kept
BY LenProperties, ElementOfSeq DEF TypeOK

\* Time changes neither the number of entries nor what they are for.
LEMMA TickCache ==
    ASSUME TypeOK, Tick
    PROVE  /\ Len(verdictsCache') = Len(verdictsCache)
           /\ \A i \in 1..Len(verdictsCache) :
                 verdictsCache'[i] = [verdictsCache[i] EXCEPT !.kept = Older(@, TtlOk),
                                                              !.result.age = Older(@, MaxAge)]
<1>1. verdictsCache' = [i \in 1..Len(verdictsCache) |->
          [verdictsCache[i] EXCEPT !.kept = Older(@, TtlOk), !.result.age = Older(@, MaxAge)]]
  BY Indices DEF Tick
<1>2. verdictsCache' \in Seq(Kept)
  BY TickTypes DEF TypeOK
<1>3. DOMAIN verdictsCache' = 1..Len(verdictsCache') /\ DOMAIN verdictsCache' = 1..Len(verdictsCache)
      /\ Len(verdictsCache') \in Nat
  BY <1>1, <1>2, LenProperties
<1>4. Len(verdictsCache') = Len(verdictsCache)
  <2> DEFINE m == Len(verdictsCache')
             n == Len(verdictsCache)
  <2>1. m \in Nat /\ n \in Nat /\ 1..m = 1..n
    BY <1>3, Indices
  <2> HIDE DEF m, n
  <2>2. m \in 1..m \/ m = 0
    BY <2>1
  <2>3. n \in 1..n \/ n = 0
    BY <2>1
  <2>4. m = n
    BY <2>1, <2>2, <2>3
  <2> QED
    BY <2>4 DEF m, n
<1> QED
  BY <1>1, <1>4

\* An entry that has been kept longer is for the same address.
LEMMA OlderEntry ==
    ASSUME NEW x \in Kept
    PROVE  LET y == [x EXCEPT !.kept = Older(@, TtlOk), !.result.age = Older(@, MaxAge)] IN
           /\ y.url = x.url /\ y.log = x.log /\ y.raced = x.raced
           /\ y.result.version = x.result.version
           /\ y.kept = Older(x.kept, TtlOk) /\ y.result.age = Older(x.result.age, MaxAge)
BY DEF Kept, Results

\* A step keeps the cache bounded, with one entry per address.
LEMMA CacheStep == TypeOK /\ CacheInv /\ [Next]_vars => CacheInv'
<1> SUFFICES ASSUME TypeOK, CacheInv, [Next]_vars PROVE CacheInv'
  OBVIOUS
<1> DEFINE c == verdictsCache
<1>1. ASSUME NEW u \in Urls, NEW result \in Results, Returns(u, result) PROVE CacheInv'
  <2>1. CachedAt(u) = {}
    BY <1>1, Indices DEF CacheInv, NoneFor, CachedAt, Returns
  <2>2. Len(c') <= CacheMax /\ OneEach(c')
    BY <1>1, <2>1, CacheProperties DEF CacheInv, Returns
  <2>3. ASSUME NEW v \in Urls, lookup'[v].stage # "none" PROVE NoneFor(v, c')
    <3>1. v # u /\ lookup[v].stage # "none"
      BY <1>1, <2>3, Returned DEF NoLookup
    <3>2. \A i \in 1..Len(c') : c'[i].url = u \/ \E j \in 1..Len(c) : c'[i] = c[j]
      <4>1. NewEntry(u, result).url = u
        BY DEF NewEntry
      <4> QED
        BY <1>1, <4>1, CacheProperties DEF Returns
    <3> QED
      BY <3>1, <3>2 DEF CacheInv, NoneFor
  <2> QED
    BY <2>2, <2>3 DEF CacheInv
<1>2. ASSUME NEW u, c' = Without(u),
             \A v \in Urls : lookup'[v].stage # "none" => v = u \/ lookup[v].stage # "none"
      PROVE  CacheInv'
  <2>1. /\ c' \in Seq(Kept) /\ Len(c') <= Len(c) /\ From(c', c)
        /\ OneEach(c') /\ NoneFor(u, c')
    BY <1>2, Indices, WithoutProperties DEF CacheInv, NoneFor
  <2>2. Len(c') <= CacheMax
    <3>1. Len(c') \in Nat /\ Len(c) \in Nat /\ CacheMax \in Nat
      BY <2>1, Indices, LenProperties, TimesAssumption
    <3> QED
      BY <2>1, <3>1 DEF CacheInv
  <2>3. \A v \in Urls : NoneFor(v, c) => NoneFor(v, c')
    BY <2>1 DEF From, NoneFor
  <2> QED
    BY <1>2, <2>1, <2>2, <2>3 DEF CacheInv
<1>3. ASSUME NEW p \in Pages, NEW q \in Shown, Asks(p, q) PROVE CacheInv'
  <2>1. \A v \in Urls : v # UrlOf[p] => lookup'[v] = lookup[v]
    BY <1>3, Asked
  <2>2. CASE UNCHANGED <<verdictsCache, lookup>>
    BY <2>2 DEF CacheInv
  <2>3. CASE verdictsCache' = Without(UrlOf[p])
    BY <1>2, <2>1, <2>3
  <2> QED
    BY <1>3, <2>2, <2>3, Asked
<1>4. CASE Restart
  BY <1>4, EmptySeq, TimesAssumption DEF Restart, CacheInv, OneEach, NoLookup
<1>5. CASE Quiet /\ UNCHANGED verdictsCache
  BY <1>5 DEF Quiet, CacheInv
<1>6. ASSUME NEW p \in Pages, Quiet, verdictsCache' = Without(UrlOf[p]) PROVE CacheInv'
  BY <1>2, <1>6 DEF Quiet
<1>7. CASE Quiet /\ Tick
  <2>1. Len(c') = Len(c) /\ \A i \in 1..Len(c) : c'[i].url = c[i].url
    BY <1>7, TickCache, OlderEntry, Indices
  <2> QED
    BY <1>7, <2>1 DEF CacheInv, OneEach, NoneFor, Quiet
<1> QED
  BY <1>1, <1>3, <1>4, <1>5, <1>6, <1>7, Kinds DEF Quiet

\* At the start the cache is empty.
LEMMA CacheInit == Init => CacheInv
BY EmptySeq, TimesAssumption DEF Init, CacheInv, OneEach, NoLookup

(* The cache holds one result per address and never more than its limit, though a page    *)
(* may ask for an address while a lookup of it is under way (service-worker.js:188-209).   *)
THEOREM CacheStaysBounded == Spec => []CacheBounded
<1>1. TypeOK /\ CacheInv => CacheBounded
  BY Indices DEF CacheInv, OneEach, CacheBounded
<1> QED
  BY <1>1, TypeInit, TypeStep, CacheInit, CacheStep, PTL DEF Spec

-----------------------------------------------------------------------------
(* A lookup goes on: what it has been told of the log stays, unless it is told anew, and its *)
(* result grows older with the trust it rests on only as time passes.                         *)
Goes(x, y) ==
    /\ Told(y) => y.raced \/ (Told(x) /\ ~x.raced /\ y.log = x.log
                              /\ y.result.version = x.result.version)
    /\ y.took = x.took
    /\ y.result.age = x.result.age \/ y.result.age < TtlTrust

New(y) == y = NoLookup \/ y = [NoLookup EXCEPT !.stage = "image"]

\* A lookup goes on as it is,
LEMMA GoesSame == \A x \in Lookups : Goes(x, x)
BY DEF Goes, Told, Lookups

\* when it moves on to a stage that needs no answer it has not got,
LEMMA GoesStage ==
    ASSUME NEW x \in Lookups, NEW s, Told(x) \/ s \notin {"answered", "key", "verify"}
    PROVE  Goes(x, [x EXCEPT !.stage = s])
BY DEF Goes, Told, Lookups

\* when it gets its log,
LEMMA GoesLog ==
    ASSUME NEW x \in Lookups, NEW l
    PROVE  Goes(x, [[x EXCEPT !.log = l] EXCEPT !.stage = "trust"])
BY DEF Goes, Told, Lookups

\* when it gets fresh trust,
LEMMA GoesAge ==
    ASSUME NEW x \in Lookups, NEW a \in Int, a < TtlTrust, NEW l,
           NEW s, s \notin {"answered", "key", "verify"}
    PROVE  /\ Goes(x, [x EXCEPT !.stage = s, !.result.age = a])
           /\ Goes(x, [[x EXCEPT !.log = l] EXCEPT !.stage = s, !.result.age = a])
BY DEF Goes, Told, Lookups, Results

\* and when a signature overtakes its answer.
LEMMA GoesRaced ==
    ASSUME NEW x \in Lookups
    PROVE  Goes(x, [x EXCEPT !.raced = x.raced \/ Told(x)])
<1> DEFINE y == [x EXCEPT !.raced = x.raced \/ Told(x)]
<1>1. y.stage = x.stage /\ y.took = x.took /\ y.result = x.result
  BY DEF Lookups
<1>2. y.raced = (x.raced \/ Told(x))
  BY DEF Lookups
<1> HIDE DEF y
<1>3. Told(y) => Told(x)
  BY <1>1 DEF Told
<1>4. Told(y) => y.raced
  BY <1>2, <1>3
<1>5. Goes(x, y)
  BY <1>1, <1>4 DEF Goes
<1> QED
  BY <1>5 DEF y

\* In every other step than a tick and the reading of entries, a lookup goes on or is new.
LEMMA LookupsGoOn ==
    ASSUME TypeOK, [Next]_vars, NEW u \in Urls
    PROVE  Goes(lookup[u], lookup'[u]) \/ New(lookup'[u]) \/ EntriesRead(u) \/ Tick
<1> DEFINE Good == Goes(lookup[u], lookup'[u]) \/ New(lookup'[u]) \/ EntriesRead(u) \/ Tick
<1>1. \A v \in Urls : lookup[v] \in Lookups
  BY DEF TypeOK
<1>2. lookup'[u] = lookup[u] => Good
  BY <1>1, GoesSame
<1>3. ASSUME NEW v \in Urls, NEW result, CacheAndReturn(v, result) PROVE Good
  BY <1>2, <1>3 DEF CacheAndReturn, New, TypeOK
<1>4. ASSUME NEW v \in Urls, ImageFetched(v) PROVE Good
  <2> DEFINE on == [lookup[v] EXCEPT !.log = logUrl]
             known == trustedKeysCache # Absent /\ trustedKeysCache.age < TtlTrust
             waits == [on EXCEPT !.stage = "trust"]
             reads == [on EXCEPT !.stage = "entries", !.result.age = trustedKeysCache.age]
             gone  == CacheAndReturn(v, [Empty EXCEPT !.age = trustedKeysCache.age])
  <2>1. Goes(lookup[v], waits)
    BY <1>1, GoesLog
  <2>2. ASSUME known PROVE Goes(lookup[v], reads)
    <3>1. trustedKeysCache.age \in Int /\ trustedKeysCache.age < TtlTrust
      BY <2>2 DEF TypeOK
    <3> QED
      BY <1>1, <3>1, GoesAge
  <2>3. \/ lookup' = [lookup EXCEPT ![v] = waits]
        \/ known /\ lookup' = [lookup EXCEPT ![v] = reads]
        \/ gone
    BY <1>4 DEF ImageFetched
  <2> HIDE DEF on, known, waits, reads
  <2> QED
    BY <1>2, <1>3, <2>1, <2>2, <2>3 DEF TypeOK
<1>5. ASSUME NEW v \in Urls, LookupFails(v) \/ GiveUp(v) \/ Verified(v) PROVE Good
  BY <1>3, <1>5 DEF LookupFails, GiveUp, Verified
<1>6. ASSUME NEW v \in Urls, EntriesRead(v) PROVE Good
  BY <1>2, <1>6 DEF EntriesRead, TypeOK
<1>7. ASSUME NEW v \in Urls, EntriesArrive(v) PROVE Good
  <2>1. \A s : Goes(lookup[v], [lookup[v] EXCEPT !.stage = s])
    <3>1. Told(lookup[v])
      BY <1>7 DEF EntriesArrive, At, Told
    <3> QED
      BY <1>1, <3>1, GoesStage
  <2>2. \/ CacheAndReturn(v, lookup[v].result)
        \/ \E s : lookup' = [lookup EXCEPT ![v] = [lookup[v] EXCEPT !.stage = s]]
    BY <1>7 DEF EntriesArrive
  <2>3. ASSUME NEW s, lookup' = [lookup EXCEPT ![v] = [lookup[v] EXCEPT !.stage = s]] PROVE Good
    <3>1. \/ lookup'[u] = lookup[u]
          \/ u = v /\ lookup'[u] = [lookup[v] EXCEPT !.stage = s]
      BY <2>3 DEF TypeOK
    <3> QED
      BY <1>2, <2>1, <3>1
  <2> QED
    BY <1>3, <2>2, <2>3
<1>8. CASE KeysListed
  <2>1. PICK t \in {trust} \union (IF Faulty THEN {FALSE} ELSE {}) :
          /\ trustedKeysCache' = [trust |-> t, age |-> 0]
          /\ lookup' = [v \in Urls |->
                IF ~At(v, "trust") THEN lookup[v]
                ELSE [lookup[v] EXCEPT !.stage = IF t THEN "entries" ELSE "giveUp",
                                       !.result.age = 0]]
    BY <1>8 DEF KeysListed
  <2> DEFINE s == IF t THEN "entries" ELSE "giveUp"
  <2>2. lookup'[u] = lookup[u] \/ lookup'[u] = [lookup[u] EXCEPT !.stage = s, !.result.age = 0]
    BY <2>1
  <2>3. s \notin {"answered", "key", "verify"}
    OBVIOUS
  <2> HIDE DEF s
  <2>4. Goes(lookup[u], [lookup[u] EXCEPT !.stage = s, !.result.age = 0])
    <3>1. 0 \in Int /\ 0 < TtlTrust
      BY TimesAssumption
    <3> QED
      BY <1>1, <2>3, <3>1, GoesAge
  <2> QED
    BY <1>2, <2>2, <2>4
<1>9. CASE ListKeysFails
  <2>1. lookup'[u] = lookup[u] \/ lookup'[u] = [lookup[u] EXCEPT !.stage = "giveUp"]
    BY <1>9 DEF ListKeysFails
  <2>2. Goes(lookup[u], [lookup[u] EXCEPT !.stage = "giveUp"])
    BY <1>1, GoesStage
  <2> QED
    BY <1>2, <2>1, <2>2
<1>10. CASE KeyImported \/ KeyFails
  <2>1. PICK s : WakeKeyWaiters(s)
    BY <1>10 DEF KeyImported, KeyFails
  <2>2. \/ lookup'[u] = lookup[u]
        \/ At(u, "key") /\ lookup'[u] = [lookup[u] EXCEPT !.stage = s]
    BY <2>1 DEF WakeKeyWaiters
  <2>3. At(u, "key") => Goes(lookup[u], [lookup[u] EXCEPT !.stage = s])
    BY <1>1, GoesStage DEF At, Told
  <2> QED
    BY <1>2, <2>2, <2>3
<1>11. ASSUME NEW p \in Pages, SignDone(p) PROVE Good
  <2>1. lookup' = [lookup EXCEPT ![UrlOf[p]] =
           [lookup[UrlOf[p]] EXCEPT !.raced = lookup[UrlOf[p]].raced \/ Told(lookup[UrlOf[p]])]]
    BY <1>11 DEF SignDone, Told
  <2>2. \/ lookup'[u] = lookup[u]
        \/ lookup'[u] = [lookup[u] EXCEPT !.raced = lookup[u].raced \/ Told(lookup[u])]
    BY <2>1 DEF TypeOK
  <2>3. Goes(lookup[u], [lookup[u] EXCEPT !.raced = lookup[u].raced \/ Told(lookup[u])])
    BY <1>1, GoesRaced
  <2> QED
    BY <1>2, <2>2, <2>3
<1>12. ASSUME NEW p \in Pages, NEW q, GetVerdicts(p, q) PROVE Good
  BY <1>2, <1>12 DEF GetVerdicts, New, TypeOK
<1>13. CASE Restart
  BY <1>13 DEF Restart, New
<1>14. CASE UNCHANGED lookup
  BY <1>2, <1>14
<1>15. ASSUME NEW v \in Urls, Lookup(v) PROVE Good
  BY <1>4, <1>5, <1>6, <1>7, <1>15 DEF Lookup
<1>16. CASE SharedPromise
  BY <1>8, <1>9, <1>10, <1>14, <1>16 DEF SharedPromise, KeyReadsLog
<1>17. ASSUME NEW p \in Pages, ProcessSingleImage(p) \/ Navigate(p) \/ Dialog(p) PROVE Good
  <2>1. ASSUME NEW claim \in BOOLEAN, SignBegin(p, claim) PROVE UNCHANGED lookup
    BY <2>1 DEF SignBegin
  <2> QED
    BY <1>11, <1>12, <1>14, <1>17, <2>1
    DEF Dialog, ProcessSingleImage, Navigate, SignReadsLog, SignPosted, SignFails, Refresh
<1>18. ASSUME NEW l \in Logs, SetLogUrl(l) PROVE UNCHANGED lookup
  BY <1>18 DEF SetLogUrl
<1> QED
  BY <1>13, <1>14, <1>15, <1>16, <1>17, <1>18 DEF Next, EditTrust, vars

-----------------------------------------------------------------------------
(* What makes AttestationShows inductive: what a page has attested is published, and so is  *)
(* what it is about to be told; a lookup that has read the log's entries since has seen it.  *)
Later(u, l, v) == v <= published[l][ImageOf[u]].version

ShowsInv ==
    /\ \A u \in Urls, l \in Logs : Later(u, l, attested[u][l])
    /\ \A p \in Pages : sign[p].stage = "posted" => Later(UrlOf[p], sign[p].log, sign[p].version)
    /\ \A u \in Urls : Told(lookup[u]) /\ ~lookup[u].raced =>
          lookup[u].result.version >= attested[u][lookup[u].log]

\* A log only grows.
LEMMA PublishedGrows ==
    ASSUME TypeOK, [Next]_vars, NEW u \in Urls, NEW l \in Logs, NEW v \in Int, Later(u, l, v)
    PROVE  Later(u, l, v)'
<1>1. published[l][ImageOf[u]].version \in Int /\ ImageOf[u] \in Images
  BY PlacesAssumption DEF TypeOK, Versions
<1>2. CASE UNCHANGED published
  BY <1>2 DEF Later
<1>3. ASSUME NEW p \in Pages, SignPosted(p) PROVE Later(u, l, v)'
  <2> DEFINE k == sign[p].log
             i == ImageOf[UrlOf[p]]
             new == [version |-> published[k][i].version + 1, claim |-> sign[p].claim]
  <2>1. k \in Logs /\ i \in Images
    BY PlacesAssumption DEF TypeOK, Dialogs
  <2>2. published' = [published EXCEPT ![k][i] = new]
    BY <1>3 DEF SignPosted
  <2>3. new.version = published[k][i].version + 1
    OBVIOUS
  <2> HIDE DEF k, i, new
  <2>4. \/ published'[l][ImageOf[u]] = published[l][ImageOf[u]]
        \/ l = k /\ ImageOf[u] = i /\ published'[l][ImageOf[u]] = new
    BY <1>1, <2>1, <2>2 DEF TypeOK
  <2> QED
    BY <1>1, <2>3, <2>4 DEF Later
<1>4. ASSUME NEW w \in Urls, Lookup(w) PROVE UNCHANGED published
  BY <1>4 DEF Lookup, LookupFails, ImageFetched, GiveUp, EntriesRead, EntriesArrive, Verified, world
<1>5. ASSUME SharedPromise PROVE UNCHANGED published
  BY <1>5 DEF SharedPromise, KeysListed, ListKeysFails, KeyReadsLog, KeyImported, KeyFails, world
<1>6. ASSUME NEW p \in Pages, ProcessSingleImage(p) \/ Navigate(p) \/ Dialog(p), ~SignPosted(p)
      PROVE  UNCHANGED published
  BY <1>6 DEF ProcessSingleImage, Navigate, Dialog, SignBegin, SignReadsLog, SignDone, SignFails,
              Refresh, world
<1>7. ASSUME NEW k \in Logs, SetLogUrl(k) PROVE UNCHANGED published
  BY <1>7 DEF SetLogUrl
<1>8. ASSUME EditTrust \/ Restart \/ Tick \/ UNCHANGED vars PROVE UNCHANGED published
  BY <1>8 DEF EditTrust, Restart, Tick, world, vars
<1> QED
  BY <1>2, <1>3, <1>4, <1>5, <1>6, <1>7, <1>8 DEF Next

\* Only the end of a submission changes what has been attested.
LEMMA AttestedStays ==
    ASSUME [Next]_vars
    PROVE  UNCHANGED attested \/ \E p \in Pages : SignDone(p)
<1>1. ASSUME NEW w \in Urls, Lookup(w) PROVE UNCHANGED attested
  BY <1>1 DEF Lookup, LookupFails, ImageFetched, GiveUp, EntriesRead, EntriesArrive, Verified
<1>2. CASE SharedPromise
  BY <1>2 DEF SharedPromise, KeysListed, ListKeysFails, KeyReadsLog, KeyImported, KeyFails
<1>3. ASSUME NEW p \in Pages, ProcessSingleImage(p) \/ Navigate(p) \/ Dialog(p), ~SignDone(p)
      PROVE  UNCHANGED attested
  BY <1>3 DEF ProcessSingleImage, Navigate, Dialog, SignBegin, SignReadsLog, SignPosted, SignFails,
              Refresh
<1>4. ASSUME NEW k \in Logs, SetLogUrl(k) PROVE UNCHANGED attested
  BY <1>4 DEF SetLogUrl
<1> QED
  BY <1>1, <1>2, <1>3, <1>4 DEF Next, EditTrust, Restart, Tick, vars

\* A submission that has been posted stays as it is until it ends.
LEMMA PostedStays ==
    ASSUME TypeOK, [Next]_vars, NEW p \in Pages, sign'[p].stage = "posted"
    PROVE  \/ SignPosted(p)
           \/ /\ sign[p].stage = "posted"
              /\ sign'[p].log = sign[p].log /\ sign'[p].version = sign[p].version
<1> DEFINE Same == /\ sign[p].stage = "posted"
                   /\ sign'[p].log = sign[p].log /\ sign'[p].version = sign[p].version
<1>1. sign'[p] = sign[p] => Same
  OBVIOUS
<1>2. \A g \in Pages : sign[g] \in Dialogs
  BY DEF TypeOK
<1>3. ASSUME NEW g \in Pages, NEW x, sign' = [sign EXCEPT ![g] = x], g = p => x.stage # "posted"
      PROVE  sign'[p] = sign[p]
  BY <1>3 DEF TypeOK
<1>4. ASSUME NEW g \in Pages, ProcessSingleImage(g) \/ Navigate(g) \/ Dialog(g), ~SignPosted(p)
      PROVE  Same
  <2>1. CASE ProcessSingleImage(g)
    BY <1>1, <2>1 DEF ProcessSingleImage
  <2>2. CASE Navigate(g)
    <3>1. \/ sign'[p] = sign[p] \/ sign'[p] = NoSign
          \/ sign'[p] = [sign[p] EXCEPT !.open = FALSE]
      BY <2>2 DEF Navigate, TypeOK
    <3> QED
      BY <1>2, <3>1 DEF NoSign, Dialogs
  <2>3. ASSUME NEW claim \in BOOLEAN, SignBegin(g, claim) PROVE Same
    <3>1. [NoSign EXCEPT !.stage = "native", !.claim = claim].stage = "native"
      BY DEF NoSign
    <3> QED
      BY <1>1, <1>3, <2>3, <3>1 DEF SignBegin
  <2>4. CASE SignReadsLog(g)
    <3>1. g = p => sign'[p].stage = "post"
      BY <1>2, <2>4 DEF SignReadsLog, TypeOK, Dialogs
    <3>2. g # p => sign'[p] = sign[p]
      BY <2>4 DEF SignReadsLog, TypeOK
    <3> QED
      BY <1>1, <3>1, <3>2
  <2>5. CASE SignPosted(g)
    BY <1>1, <1>4, <2>5 DEF SignPosted, TypeOK
  <2>6. CASE SignDone(g)
    <3>1. [sign[g] EXCEPT !.stage = "signed"].stage = "signed" /\ NoSign.stage = "none"
      BY <1>2 DEF Dialogs, NoSign
    <3> QED
      BY <1>1, <1>3, <2>6, <3>1 DEF SignDone
  <2>7. CASE SignFails(g) \/ Refresh(g)
    BY <1>1, <1>3, <2>7 DEF SignFails, Refresh, NoSign
  <2> QED
    BY <1>4, <2>1, <2>2, <2>3, <2>4, <2>5, <2>6, <2>7 DEF Dialog
<1>5. ASSUME NEW u \in Urls, Lookup(u) PROVE UNCHANGED sign
  BY <1>5 DEF Lookup, LookupFails, ImageFetched, GiveUp, EntriesRead, EntriesArrive, Verified
<1>6. CASE SharedPromise
  BY <1>6 DEF SharedPromise, KeysListed, ListKeysFails, KeyReadsLog, KeyImported, KeyFails
<1>7. ASSUME NEW l \in Logs, SetLogUrl(l) PROVE UNCHANGED sign
  BY <1>7 DEF SetLogUrl
<1>8. CASE Restart
  BY <1>1, <1>8 DEF Restart, NoSign
<1>9. CASE EditTrust \/ Tick \/ UNCHANGED vars
  BY <1>9 DEF EditTrust, Tick, vars
<1> QED
  BY <1>1, <1>4, <1>5, <1>6, <1>7, <1>8, <1>9 DEF Next

\* A step keeps what lookups know of signatures.
LEMMA ShowsStep == TypeOK /\ ShowsInv /\ [Next]_vars => ShowsInv'
<1> SUFFICES ASSUME TypeOK, ShowsInv, [Next]_vars PROVE ShowsInv'
  OBVIOUS
<1>1. \A u \in Urls, l \in Logs : attested[u][l] \in Int
  BY DEF TypeOK, Versions
<1>2. \A p \in Pages : UrlOf[p] \in Urls /\ sign[p].log \in Logs /\ sign[p].version \in Int
  BY PlacesAssumption DEF TypeOK, Dialogs, Versions
<1>3. ASSUME NEW p \in Pages, SignDone(p), NEW u \in Urls, NEW l \in Logs
      PROVE  \/ attested'[u][l] = attested[u][l]
             \/ u = UrlOf[p] /\ l = sign[p].log /\ attested'[u][l] = sign[p].version
  BY <1>2, <1>3 DEF SignDone, TypeOK
<1>4. ASSUME NEW u \in Urls, NEW l \in Logs PROVE Later(u, l, attested[u][l])'
  <2>1. Later(u, l, attested[u][l])
    BY DEF ShowsInv
  <2>2. attested'[u][l] = attested[u][l] => Later(u, l, attested[u][l])'
    BY <1>1, <2>1, PublishedGrows DEF Later
  <2>3. ASSUME NEW p \in Pages, SignDone(p), u = UrlOf[p], l = sign[p].log,
               attested'[u][l] = sign[p].version
        PROVE  Later(u, l, attested[u][l])'
    <3>1. Later(u, l, sign[p].version)
      BY <2>3 DEF SignDone, ShowsInv
    <3> QED
      BY <1>2, <2>3, <3>1, PublishedGrows DEF Later
  <2> QED
    BY <1>3, <2>2, <2>3, AttestedStays
<1>5. ASSUME NEW p \in Pages, sign'[p].stage = "posted"
      PROVE  Later(UrlOf[p], sign[p].log, sign[p].version)'
  <2>1. CASE SignPosted(p)
    <3>1. /\ sign'[p].version = published'[sign[p].log][ImageOf[UrlOf[p]]].version
          /\ sign'[p].log = sign[p].log
      BY <2>1 DEF SignPosted, TypeOK, Dialogs
    <3>2. published' \in [Logs -> [Images -> [version : Versions, claim : BOOLEAN]]]
      BY TypeStep DEF TypeOK
    <3>3. published'[sign[p].log][ImageOf[UrlOf[p]]].version \in Int
      BY <1>2, <3>2, PlacesAssumption DEF Versions
    <3> QED
      BY <3>1, <3>3 DEF Later
  <2>2. CASE /\ sign[p].stage = "posted"
             /\ sign'[p].log = sign[p].log /\ sign'[p].version = sign[p].version
    <3>1. Later(UrlOf[p], sign[p].log, sign[p].version)
      BY <2>2 DEF ShowsInv
    <3> QED
      BY <1>2, <2>2, <3>1, PublishedGrows DEF Later
  <2> QED
    BY <1>5, <2>1, <2>2, PostedStays
<1>6. ASSUME NEW u \in Urls, Told(lookup'[u]), ~lookup'[u].raced
      PROVE  lookup'[u].result.version >= attested'[u][lookup'[u].log]
  <2>1. CASE Goes(lookup[u], lookup'[u])
    <3>1. /\ Told(lookup[u]) /\ ~lookup[u].raced /\ lookup'[u].log = lookup[u].log
          /\ lookup'[u].result.version = lookup[u].result.version
      BY <1>6, <2>1 DEF Goes
    <3>2. lookup[u].result.version >= attested[u][lookup[u].log] /\ lookup[u].log \in Logs
      BY <3>1 DEF ShowsInv, TypeOK, Lookups
    <3>3. ASSUME NEW p \in Pages, SignDone(p) PROVE UrlOf[p] # u
      <4>1. SUFFICES ASSUME UrlOf[p] = u PROVE FALSE
        OBVIOUS
      <4>2. lookup'[u].raced
        BY <3>1, <3>3, <4>1 DEF SignDone, Told, TypeOK, Lookups
      <4> QED
        BY <1>6, <4>2
    <3>4. attested'[u][lookup[u].log] = attested[u][lookup[u].log]
      BY <1>3, <3>2, <3>3, AttestedStays
    <3> QED
      BY <3>1, <3>2, <3>4
  <2>2. CASE New(lookup'[u])
    BY <1>6, <2>2 DEF New, NoLookup, Told
  <2>3. CASE EntriesRead(u)
    <3> DEFINE l == lookup[u].log
    <3>1. l \in Logs
      BY DEF TypeOK, Lookups
    <3>2. lookup'[u].log = l /\ lookup'[u].result.version = published[l][ImageOf[u]].version
      BY <2>3 DEF EntriesRead, TypeOK, Lookups, Results
    <3>3. attested' = attested
      BY <2>3 DEF EntriesRead
    <3>4. attested[u][l] <= published[l][ImageOf[u]].version
      BY <3>1 DEF ShowsInv, Later
    <3>5. published[l][ImageOf[u]].version \in Int /\ attested[u][l] \in Int
      BY <1>1, <3>1, PlacesAssumption DEF TypeOK, Versions
    <3> QED
      BY <3>2, <3>3, <3>4, <3>5
  <2>4. CASE Tick
    <3>1. lookup[u] \in Lookups /\ lookup[u].stage # "none"
      BY <1>6, <2>4 DEF Tick, TypeOK, Told, NoLookup
    <3>2. lookup'[u] = [lookup[u] EXCEPT !.took = @ + 1, !.result.age = Older(@, MaxAge)]
      BY <2>4, <3>1 DEF Tick
    <3>3. /\ lookup'[u].stage = lookup[u].stage /\ lookup'[u].raced = lookup[u].raced
          /\ lookup'[u].log = lookup[u].log
          /\ lookup'[u].result.version = lookup[u].result.version
      BY <3>1, <3>2 DEF Lookups, Results
    <3> QED
      BY <1>6, <2>4, <3>3 DEF Tick, Told, ShowsInv
  <2> QED
    BY <2>1, <2>2, <2>3, <2>4, LookupsGoOn
<1> QED
  BY <1>4, <1>5, <1>6 DEF ShowsInv

\* At the start nobody has signed.
LEMMA ShowsInit == Init => ShowsInv
<1> SUFFICES ASSUME Init PROVE ShowsInv
  OBVIOUS
<1>1. \A u \in Urls : ImageOf[u] \in Images
  BY PlacesAssumption
<1>2. ASSUME NEW u \in Urls, NEW l \in Logs PROVE Later(u, l, attested[u][l])
  BY <1>1 DEF Init, Later
<1>3. \A p \in Pages : sign[p].stage # "posted"
  BY DEF Init, NoSign
<1>4. \A u \in Urls : ~Told(lookup[u])
  BY DEF Init, NoLookup, Told
<1> QED
  BY <1>2, <1>3, <1>4 DEF ShowsInv

\* An entry of the cache says no less than has been attested.
Shows(x, a) == ~x.raced /\ x.result.version # Unknown => x.result.version >= a[x.url][x.log]

\* A step keeps what entries of the cache say of signatures.
LEMMA EntriesStep ==
    TypeOK /\ CacheInv /\ ShowsInv /\ AttestationShows /\ [Next]_vars => AttestationShows'
<1> SUFFICES ASSUME TypeOK, CacheInv, ShowsInv, AttestationShows, [Next]_vars
             PROVE  \A i \in 1..Len(verdictsCache') : Shows(verdictsCache'[i], attested')
  <2>1. DOMAIN verdictsCache' = 1..Len(verdictsCache')
    BY TypeStep, LenProperties DEF TypeOK
  <2> QED
    BY <2>1 DEF AttestationShows, Shows
<1> DEFINE c == verdictsCache
<1>1. \A i \in 1..Len(c) : c[i] \in Kept /\ Shows(c[i], attested)
  BY Indices DEF AttestationShows, Shows
<1>2. ASSUME UNCHANGED attested, From(c', c) PROVE \A i \in 1..Len(c') : Shows(c'[i], attested')
  BY <1>1, <1>2 DEF From, Shows
<1>3. ASSUME NEW u \in Urls, NEW result \in Results, Returns(u, result)
      PROVE  \A i \in 1..Len(c') : Shows(c'[i], attested')
  <2> DEFINE e == NewEntry(u, result)
  <2>1. Shows(e, attested)
    <3>1. /\ e.url = u /\ e.result = result /\ e.log = lookup[u].log /\ e.raced = lookup[u].raced
      BY DEF NewEntry
    <3>2. result.version = Unknown \/ (result = lookup[u].result /\ Told(lookup[u]))
      BY <1>3 DEF Returns, Learned
    <3> HIDE DEF e
    <3> QED
      BY <3>1, <3>2 DEF ShowsInv, Shows
  <2> HIDE DEF e
  <2>2. \A i \in 1..Len(c') : Shows(c'[i], attested)
    <3>1. \A i \in 1..Len(c') : c'[i] = e \/ \E j \in 1..Len(c) : c'[i] = c[j]
      BY <1>3, CacheProperties DEF Returns, e
    <3> QED
      BY <1>1, <2>1, <3>1
  <2> QED
    BY <1>3, <2>2 DEF Returns, Shows
<1>4. ASSUME NEW p \in Pages, c' = Without(UrlOf[p])
      PROVE  From(c', c) /\ \A i \in 1..Len(c') : c'[i].url # UrlOf[p]
  BY <1>4, Indices, WithoutProperties DEF CacheInv
<1>5. c' = c => From(c', c)
  BY DEF From
<1>6. ASSUME NEW p \in Pages, NEW q \in Shown, Asks(p, q)
      PROVE  \A i \in 1..Len(c') : Shows(c'[i], attested')
  BY <1>2, <1>4, <1>5, <1>6, Asked DEF Asks
<1>7. ASSUME NEW p \in Pages, c' = Without(UrlOf[p]), SignDone(p)
      PROVE  \A i \in 1..Len(c') : Shows(c'[i], attested')
  <2>1. \A u \in Urls : u # UrlOf[p] => attested'[u] = attested[u]
    BY <1>7 DEF SignDone, TypeOK
  <2>2. \A i \in 1..Len(c') : /\ c'[i].url \in Urls /\ c'[i].url # UrlOf[p]
                              /\ Shows(c'[i], attested)
    BY <1>1, <1>4, <1>7 DEF From, Kept
  <2> QED
    BY <2>1, <2>2 DEF Shows
<1>8. CASE Tick
  <2>1. Len(c') = Len(c) /\ UNCHANGED attested
    BY <1>8, TickCache DEF Tick
  <2>2. ASSUME NEW i \in 1..Len(c) PROVE Shows(c'[i], attested)
    <3>1. c'[i] = [c[i] EXCEPT !.kept = Older(@, TtlOk), !.result.age = Older(@, MaxAge)]
      BY <1>8, <2>2, TickCache
    <3>2. /\ c'[i].url = c[i].url /\ c'[i].log = c[i].log /\ c'[i].raced = c[i].raced
          /\ c'[i].result.version = c[i].result.version
      BY <1>1, <2>2, <3>1, OlderEntry
    <3> QED
      BY <1>1, <2>2, <3>2 DEF Shows
  <2> QED
    BY <2>1, <2>2
<1>9. CASE Restart
  BY <1>9, EmptySeq DEF Restart
<1>10. CASE Quiet /\ UNCHANGED c
  <2>1. ASSUME NEW p \in Pages, SignDone(p) PROVE \A i \in 1..Len(c') : Shows(c'[i], attested')
    BY <1>7, <2>1 DEF SignDone
  <2> QED
    BY <1>2, <1>5, <1>10, <2>1, AttestedStays
<1> QED
  BY <1>3, <1>6, <1>7, <1>8, <1>9, <1>10, Kinds DEF Quiet

(* After a signature the cache holds, for the address through which it was made, no older    *)
(* answer of the same log, except what a lookup brings that had read the log's entries when  *)
(* the signature was done; whatever lookups, other signatures, changes of the log and         *)
(* restarts come in between (service-worker.js:485, verdictsCache.delete, against 188-209).    *)
(* It says nothing of other addresses of the same image: their answers stay.                   *)
THEOREM AttestationsShow == Spec => []AttestationShows
<1>1. Init => AttestationShows
  BY EmptySeq DEF Init, AttestationShows
<1> QED
  BY <1>1, EntriesStep, TypeInit, TypeStep, CacheInit, CacheStep, ShowsInit, ShowsStep, PTL DEF Spec

-----------------------------------------------------------------------------
(* What makes AnswersFresh inductive: how old the result of a lookup, and of an entry that  *)
(* may still be used, can have become.                                                       *)
YoungLookup(x) == x.result.age <= TtlTrust - 1 + x.took
YoungEntry(x)  == x.kept < TtlOk => x.result.age <= TtlTrust - 1 + MaxLookup + x.kept
YoungAnswer(r) == r # Absent => r.age <= (TtlTrust - 1) + MaxLookup + (Ttl(r) - 1)

LookupsYoung == \A u \in Urls : YoungLookup(lookup[u])
EntriesYoung == \A i \in 1..Len(verdictsCache) : YoungEntry(verdictsCache[i])

\* The times are numbers, and the life of an entry is at most that of a verdict.
LEMMA Times ==
    /\ TtlTrust \in Nat /\ TtlTrust >= 1 /\ MaxLookup \in Nat /\ TtlOk \in Nat /\ MaxAge \in Nat
    /\ \A r : Ttl(r) \in Nat /\ Ttl(r) >= 1 /\ Ttl(r) <= TtlOk
BY TimesAssumption DEF Ttl

\* A step keeps lookups young.
LEMMA LookupsYoungStep == TypeOK /\ LookupsYoung /\ [Next]_vars => LookupsYoung'
<1> SUFFICES ASSUME TypeOK, LookupsYoung, [Next]_vars, NEW u \in Urls
             PROVE  YoungLookup(lookup'[u])
  BY DEF LookupsYoung, YoungLookup
<1>1. lookup[u] \in Lookups /\ YoungLookup(lookup[u])
  BY DEF TypeOK, LookupsYoung
<1>2. lookup'[u] \in Lookups
  BY TypeStep DEF TypeOK
<1>3. CASE Goes(lookup[u], lookup'[u])
  BY <1>1, <1>2, <1>3, Times DEF Goes, YoungLookup, Lookups, Results
<1>4. YoungLookup(NoLookup) /\ YoungLookup([NoLookup EXCEPT !.stage = "image"])
  BY Times DEF NoLookup, Empty, YoungLookup
<1>5. CASE New(lookup'[u])
  BY <1>4, <1>5 DEF New
<1>6. CASE EntriesRead(u)
  <2>1. lookup'[u].took = lookup[u].took /\ lookup'[u].result.age = lookup[u].result.age
    BY <1>1, <1>6 DEF EntriesRead, TypeOK, Lookups, Results
  <2> QED
    BY <1>1, <2>1 DEF YoungLookup
<1>7. CASE Tick
  <2>1. CASE lookup[u].stage = "none"
    BY <1>4, <1>7, <2>1 DEF Tick
  <2>2. CASE lookup[u].stage # "none"
    <3>1. lookup'[u] = [lookup[u] EXCEPT !.took = @ + 1, !.result.age = Older(@, MaxAge)]
      BY <1>7, <2>2 DEF Tick
    <3>2. /\ lookup'[u].took = lookup[u].took + 1
          /\ lookup'[u].result.age = Older(lookup[u].result.age, MaxAge)
      BY <1>1, <3>1 DEF Lookups, Results
    <3>3. Older(lookup[u].result.age, MaxAge) <= lookup[u].result.age + 1
      BY <1>1, Times DEF Older, Lookups, Results
    <3>4. lookup[u].took \in Int /\ lookup[u].result.age \in Int /\ lookup'[u].result.age \in Int
      BY <1>1, <1>2 DEF Lookups, Results
    <3> QED
      BY <1>1, <3>2, <3>3, <3>4, Times DEF YoungLookup
  <2> QED
    BY <2>1, <2>2
<1> QED
  BY <1>3, <1>5, <1>6, <1>7, LookupsGoOn

\* What a lookup ends with is as young as the lookup.
LEMMA YoungResult ==
    ASSUME TypeOK, LookupsYoung, NEW u \in Urls, NEW result \in Results, Returns(u, result)
    PROVE  result.age <= TtlTrust - 1 + MaxLookup
<1>1. lookup[u] \in Lookups /\ YoungLookup(lookup[u])
  BY DEF TypeOK, LookupsYoung
<1>2. lookup[u].took <= MaxLookup /\ lookup[u].took \in Int /\ lookup[u].result.age \in Int
      /\ result.age \in Int
  BY <1>1, Times DEF Lookups, Results
<1> QED
  BY <1>1, <1>2, Times DEF Returns, Learned, YoungLookup

\* A step keeps entries young.
LEMMA EntriesYoungStep ==
    TypeOK /\ CacheInv /\ LookupsYoung /\ EntriesYoung /\ [Next]_vars => EntriesYoung'
<1> SUFFICES ASSUME TypeOK, CacheInv, LookupsYoung, EntriesYoung, [Next]_vars
             PROVE  \A i \in 1..Len(verdictsCache') : YoungEntry(verdictsCache'[i])
  BY DEF EntriesYoung, YoungEntry
<1> DEFINE c == verdictsCache
<1>1. \A i \in 1..Len(c) : c[i] \in Kept /\ YoungEntry(c[i])
  BY Indices DEF EntriesYoung
<1>2. From(c', c) => \A i \in 1..Len(c') : YoungEntry(c'[i])
  BY <1>1 DEF From
<1>3. ASSUME NEW u \in Urls, NEW result \in Results, Returns(u, result)
      PROVE  \A i \in 1..Len(c') : YoungEntry(c'[i])
  <2> DEFINE e == NewEntry(u, result)
  <2>1. YoungEntry(e)
    <3>1. e.result = result /\ e.kept = 0
      BY DEF NewEntry
    <3> HIDE DEF e
    <3> QED
      BY <1>3, <3>1, YoungResult, Times DEF YoungEntry
  <2> HIDE DEF e
  <2>2. \A i \in 1..Len(c') : c'[i] = e \/ \E j \in 1..Len(c) : c'[i] = c[j]
    BY <1>3, CacheProperties DEF Returns, e
  <2> QED
    BY <1>1, <2>1, <2>2
<1>4. ASSUME NEW p \in Pages, c' = Without(UrlOf[p]) PROVE From(c', c)
  BY <1>4, Indices, WithoutProperties
<1>5. c' = c => From(c', c)
  BY DEF From
<1>6. ASSUME NEW p \in Pages, NEW q \in Shown, Asks(p, q) PROVE From(c', c)
  BY <1>4, <1>5, <1>6, Asked
<1>7. CASE Tick
  <2>1. Len(c') = Len(c)
    BY <1>7, TickCache
  <2>2. ASSUME NEW i \in 1..Len(c) PROVE YoungEntry(c'[i])
    <3>1. /\ c'[i].kept = Older(c[i].kept, TtlOk)
          /\ c'[i].result.age = Older(c[i].result.age, MaxAge)
      BY <1>1, <1>7, <2>2, TickCache, OlderEntry
    <3>2. c[i].kept \in 0..TtlOk /\ c[i].result.age \in 0..MaxAge
      BY <1>1 DEF Kept, Results
    <3>3. Older(c[i].result.age, MaxAge) <= c[i].result.age + 1
          /\ Older(c[i].result.age, MaxAge) \in Int
      BY <3>2, Times DEF Older
    <3>4. Older(c[i].kept, TtlOk) < TtlOk =>
             c[i].kept < TtlOk /\ Older(c[i].kept, TtlOk) = c[i].kept + 1
      BY <3>2, Times DEF Older
    <3> QED
      BY <1>1, <3>1, <3>2, <3>3, <3>4, Times DEF YoungEntry
  <2> QED
    BY <2>1, <2>2
<1>8. CASE Restart
  BY <1>8, EmptySeq DEF Restart
<1> QED
  BY <1>2, <1>3, <1>4, <1>5, <1>6, <1>7, <1>8, Kinds DEF Quiet

\* A step keeps answers fresh.
LEMMA AnswersFreshStep ==
    TypeOK /\ LookupsYoung /\ EntriesYoung /\ AnswersFresh /\ [Next]_vars => AnswersFresh'
<1> SUFFICES ASSUME TypeOK, LookupsYoung, EntriesYoung, AnswersFresh, [Next]_vars, NEW p \in Pages
             PROVE  YoungAnswer(page'[p].answer)
  BY DEF AnswersFresh, YoungAnswer, Ttl
<1>1. page[p] \in Shown /\ YoungAnswer(page[p].answer) /\ YoungAnswer(Absent)
  BY DEF TypeOK, AnswersFresh, YoungAnswer
<1>2. page'[p].answer \in {page[p].answer, Absent} => YoungAnswer(page'[p].answer)
  BY <1>1
<1>3. ASSUME NEW u \in Urls, NEW result \in Results, Returns(u, result)
      PROVE  YoungAnswer(page'[p].answer)
  <2>1. result.age <= TtlTrust - 1 + MaxLookup /\ result.age \in Int
    BY <1>3, YoungResult, Times DEF Results
  <2>2. YoungAnswer(result)
    BY <2>1, Times DEF YoungAnswer
  <2> QED
    BY <1>1, <1>3, <2>2, Returned
<1>4. ASSUME NEW g \in Pages, NEW q \in Shown, Asks(g, q) PROVE YoungAnswer(page'[p].answer)
  <2>1. ASSUME NEW i \in CachedAt(UrlOf[g]), Fresh(verdictsCache[i])
        PROVE  YoungAnswer(verdictsCache[i].result)
    <3> DEFINE x == verdictsCache[i]
    <3>1. x \in Kept /\ YoungEntry(x)
      BY Indices DEF CachedAt, EntriesYoung
    <3>2. x.kept < Ttl(x.result) /\ x.kept \in Int /\ x.result.age \in Int
      BY <2>1, <3>1, Times DEF Fresh, Kept, Results
    <3> HIDE DEF x
    <3>3. x.result.age <= TtlTrust - 1 + MaxLookup + x.kept
      BY <3>1, <3>2, Times DEF YoungEntry
    <3>4. YoungAnswer(x.result)
      BY <3>2, <3>3, Times DEF YoungAnswer
    <3> QED
      BY <3>4 DEF x
  <2>2. q.answer \in {page[g].answer, Absent}
    BY <1>4 DEF Asks
  <2> QED
    BY <1>2, <1>4, <2>1, <2>2, Asked
<1>5. CASE Restart
  BY <1>1, <1>5 DEF Restart, TypeOK, Shown
<1>6. CASE Quiet
  BY <1>2, <1>6 DEF Quiet
<1> QED
  BY <1>3, <1>4, <1>5, <1>6, Kinds

(* What a page is shown rests on trust and entries no older than the two caches and one     *)
(* lookup allow, whichever caches it went through and in whatever order (service-worker.js  *)
(* :108-109, the lifetimes, 114-133 and 188-207).                                            *)
THEOREM AnswersStayFresh == Spec => []AnswersFresh
<1>1. Init => LookupsYoung /\ EntriesYoung /\ AnswersFresh
  <2> SUFFICES ASSUME Init PROVE LookupsYoung /\ EntriesYoung /\ AnswersFresh
    OBVIOUS
  <2>1. LookupsYoung
    BY Times DEF Init, LookupsYoung, YoungLookup, NoLookup, Empty
  <2>2. EntriesYoung
    BY EmptySeq DEF Init, EntriesYoung
  <2>3. AnswersFresh
    BY DEF Init, AnswersFresh, NewPage
  <2> QED
    BY <2>1, <2>2, <2>3
<1> QED
  BY <1>1, LookupsYoungStep, EntriesYoungStep, AnswersFreshStep, TypeInit, TypeStep, CacheInit,
     CacheStep, PTL DEF Spec

=============================================================================
