---------------------- MODULE MCVerdictSelectionProofs ----------------------
(* Theorems about MCVerdictSelection, for any number of entries, any signers and      *)
(* timestamps, and whatever has become of a key, a signature, an entry or a call.     *)
EXTENDS MCVerdictSelection, VerdictPipelineProofs

\* The log answers with entries of the pool.
ListInv == list \in Seq(Pool)

\* Every entry of the pool has a timestamp, or Undated in its place, and says something.
LEMMA PoolEntries ==
    \A x \in Pool : x.server_timestamp \in Int /\ x.verdict # NoVerdict
<1> SUFFICES ASSUME NEW x \in Pool
             PROVE  x.server_timestamp \in Int /\ x.verdict # NoVerdict
  OBVIOUS
<1>1. x \in Usual \/ x \in Foreign \/ x \in Legacy \/ x \in Dateless
  BY DEF Pool
<1>2. CASE x \in Usual
  <2>1. DOMAIN Claimed = {"authenticity", "authorship"}
        /\ Claimed["authenticity"] = {"authentic", "satire", "revoke"} /\ Claimed["authorship"] = {"my-work"}
    BY DEF Claimed
  <2>2. PICK c \in DOMAIN Claimed : x.verdict \in Claimed[c] /\ x.server_timestamp \in Times
    BY <1>2 DEF Usual
  <2>3. x.server_timestamp \in Int
    BY <2>2, TimesAssumption
  <2> QED
    BY <2>1, <2>2, <2>3 DEF NoVerdict
<1>3. CASE x \in Foreign \/ x \in Legacy
  <2>1. x.verdict \in {"satire", "authentic"} /\ x.server_timestamp = 2
    <3>1. CASE x \in Foreign
      BY <3>1 DEF Foreign
    <3>2. CASE x \in Legacy
      <4>1. x.verdict \in {"authentic"}
        BY <3>2 DEF Legacy
      <4>2. x.server_timestamp \in {2}
        BY <3>2 DEF Legacy
      <4> QED
        BY <4>1, <4>2
    <3> QED
      BY <1>3, <3>1, <3>2
  <2> QED
    BY <2>1 DEF NoVerdict
<1>4. CASE x \in Dateless
  <2>1. x.verdict \in {"authentic"}
    BY <1>4 DEF Dateless
  <2>2. x.server_timestamp \in {Undated}
    BY <1>4 DEF Dateless
  <2> QED
    BY <2>1, <2>2 DEF NoVerdict, Undated
<1> QED
  BY <1>1, <1>2, <1>3, <1>4

\* It is in a category or a legacy entry.
LEMMA PoolCategories == \A x \in Pool : x.category = "" \/ x.category \in Categories
<1> SUFFICES ASSUME NEW x \in Pool PROVE x.category = "" \/ x.category \in Categories
  OBVIOUS
<1>1. x \in Usual \/ x \in Foreign \/ x \in Legacy \/ x \in Dateless
  BY DEF Pool
<1>2. CASE x \in Usual
  <2>1. DOMAIN Claimed = {"authenticity", "authorship"}
    BY DEF Claimed
  <2>2. PICK c \in DOMAIN Claimed : x.category \in {c}
    BY <1>2 DEF Usual
  <2> QED
    BY <2>1, <2>2 DEF Categories
<1>3. CASE x \in Foreign
  BY <1>3 DEF Foreign, Categories
<1>4. CASE x \in Legacy
  <2>1. x.category \in {""}
    BY <1>4 DEF Legacy
  <2> QED
    BY <2>1
<1>5. CASE x \in Dateless
  <2>1. x.category \in {"authenticity"}
    BY <1>5 DEF Dateless
  <2> QED
    BY <2>1 DEF Categories
<1> QED
  BY <1>1, <1>2, <1>3, <1>4, <1>5

\* The log only ever answers with such entries.
LEMMA ListStays == Spec => []ListInv
<1>1. Init => ListInv
  BY DEF Init, ListInv
<1>2. ListInv /\ [Next]_vars => ListInv'
  <2> SUFFICES ASSUME ListInv, [Next]_vars PROVE ListInv'
    OBVIOUS
  <2>1. CASE Answer
    <3>1. PICK x \in Pool : list' = Append(list, x)
      BY <2>1 DEF Answer
    <3> HIDE DEF Pool
    <3> QED
      BY <3>1 DEF ListInv
  <2>2. CASE UNCHANGED list
    BY <2>2 DEF ListInv
  <2> QED
    BY <2>1, <2>2 DEF Next, KeyChanges, OddSignature, WideEntry, CallFails, Complete, vars
<1> QED
  BY <1>1, <1>2, PTL DEF Spec

\* The dialog preselects what a badge of its key alone would show, however many entries
\* the log has of however many signers (service-worker.js:238 and 407).
THEOREM DialogAlwaysAgrees == Spec => []DialogAgrees
<1>1. ListInv => DialogAgrees
  <2> SUFFICES ASSUME list \in Seq(Pool), NEW s \in Trusted, NEW c \in Categories
               PROVE  MyVerdicts(list, s)[c] = BadgeVerdict(list, s, c)
    BY DEF ListInv, DialogAgrees, BadgeVerdict
  <2> QED
    BY PoolEntries, DialogShowsOwnBadge
<1> QED
  BY <1>1, ListStays, PTL

\* What counts are entries of the list, and of each signer at most one in a category.
LEMMA CountedIs ==
    ASSUME list \in Seq(Pool)
    PROVE  Counted \in Seq(Pool) /\ Distinct(Counted)
<1> DEFINE T == TrustedFingerprints(ring, env)
           kept == KeepLatest(list, T)
           G == Verifying(Pool, ring, env)
<1>1. Counted = IF Answerable(kept, env) THEN Filter(kept, G) ELSE <<>>
  BY CountedAreGood DEF Counted
<1>2. NewestKept(list, T, Len(list), kept)
  <2>1. \A x \in Pool : x.server_timestamp \in Int
    BY PoolEntries
  <2> HIDE DEF T
  <2> QED
    BY <2>1, KeepLatestKeepsNewest
<1> HIDE DEF T, kept, G
<1>3. kept \in Seq(Pool) /\ Distinct(kept) /\ Len(kept) \in Nat
  <2>1. Range(list) \subseteq Pool
    BY DEF Range
  <2>2. kept \in Seq(Range(list))
    BY <1>2 DEF NewestKept
  <2>3. kept \in Seq(Pool)
    BY <2>1, <2>2
  <2> QED
    BY <1>2, <2>3 DEF NewestKept, Distinct
<1>4. CASE Answerable(kept, env)
  <2>1. Counted = Filter(kept, G)
    BY <1>1, <1>4
  <2>2. Picks(kept, Passing(kept, G), Filter(kept, G)) /\ Filter(kept, G) \in Seq(Pool)
    BY <1>3, FilterPicks, FilterLeaves
  <2>3. Distinct(Filter(kept, G))
    BY <1>3, <2>2, PicksDistinct
  <2> QED
    BY <2>1, <2>2, <2>3
<1>5. CASE ~Answerable(kept, env)
  <2>1. Counted = <<>>
    BY <1>1, <1>5
  <2>2. <<>> \in Seq(Pool) /\ Distinct(<<>>)
    BY DEF Distinct
  <2> QED
    BY <2>1, <2>2
<1> QED
  BY <1>4, <1>5

\* In every category the badge shows what most of those who count say there, of several
\* verdicts the one that came first, and how many they are, for any number of entries and
\* signers and whatever verifies (service-worker.js:270).
THEOREM PluralityAlwaysWins == Spec => []PluralityWins
<1>1. ListInv => PluralityWins
  <2> SUFFICES ASSUME list \in Seq(Pool), NEW c \in DOMAIN Aggregate(Counted)
               PROVE  LET claims == Claims(Counted, c)
                          shown == Aggregate(Counted)
                      IN  /\ Plurality(claims, shown[c].verdict)
                          /\ shown[c].signers = Cardinality({x.signer_keyid : x \in ToSet(claims)})
    BY DEF ListInv, PluralityWins, Plurality, FirstOf
  <2> DEFINE counted == Counted
             claims == Claims(counted, c)
             I == ClaimPlaces(counted, c)
  <2>1. counted \in Seq(Pool) /\ Distinct(counted) /\ Len(counted) \in Nat
    BY CountedIs
  <2>2. claims # <<>> /\ Aggregate(counted)[c] = [verdict |-> TopVerdict(claims), signers |-> Len(claims)]
    BY DEF Aggregate
  <2>3. Aggregate(counted)[c].verdict = TopVerdict(claims) /\ Aggregate(counted)[c].signers = Len(claims)
    BY <2>2
  <2> HIDE DEF counted
  <2>4. Picks(counted, I, claims)
    BY <2>1, ClaimsPick
  <2>5. /\ \A i \in I : counted[i].category = c
    BY DEF ClaimPlaces
  <2> HIDE DEF claims, I
  <2>6. Distinct(claims)
    BY <2>1, <2>4, PicksDistinct
  <2>7. claims \in Seq(Pool)
    <3>1. Range(counted) \subseteq Pool
      BY <2>1 DEF Range
    <3>2. claims \in Seq(Range(counted))
      BY <2>4 DEF Picks
    <3> QED
      BY <3>1, <3>2
  <2>8. \A i \in 1..Len(claims) : claims[i].category = c
    <3>1. PICK at : Places(counted, I, claims, at)
      BY <2>4 DEF Picks
    <3>2. \A i \in 1..Len(claims) : at[i] \in I /\ claims[i] = counted[at[i]]
      BY <3>1 DEF Places
    <3> QED
      BY <2>5, <3>2
  <2>9. Plurality(claims, TopVerdict(claims))
    <3>1. \A n \in 1..Len(claims) : claims[n].verdict # NoVerdict
      BY <2>7, PoolEntries
    <3> QED
      BY <2>2, <2>7, <3>1, TopVerdictWins
  <2>10. Len(claims) = Cardinality({x.signer_keyid : x \in ToSet(claims)})
    BY <2>6, <2>7, <2>8, CountsSigners
  <2> QED
    BY <2>3, <2>9, <2>10 DEF claims, counted
<1> QED
  BY <1>1, ListStays, PTL

-----------------------------------------------------------------------------
\* Whatever has become of a key: it has been revoked and says when, or users have revoked their
\* certification of it and are still there, or nothing of the kind has happened.
RevokedBySelf(keyring, k) ==
    \E d \in Dates : keyring[k].validity = "r" /\ keyring[k].records = SelfRevoked(k, d)
RevokedByUsers(keyring, k) ==
    /\ keyring[k].validity # "r"
    /\ \E u, v \in Users, d, n \in Dates : keyring[k].records = CertRevoked(u, d) \o CertRevoked(v, n)
    /\ \A u \in Users : u \in DOMAIN keyring /\ keyring[u].trust = "u" /\ keyring[u].validity = "f"
RingOf(keyring) ==
    /\ DOMAIN keyring \subseteq ToSet(KeyOrder)
    /\ \A k \in DOMAIN keyring :
          /\ keyring[k].validity \in {"f", "e", "r"}
          /\ \/ keyring[k].validity # "r" /\ keyring[k].records = <<>>
             \/ RevokedBySelf(keyring, k)
             \/ RevokedByUsers(keyring, k)

\* To begin with, nothing has.
LEMMA HealthyIs ==
    /\ DOMAIN Healthy = ToSet(KeyOrder)
    /\ \A k \in ToSet(KeyOrder) :
          /\ Healthy[k].validity = "f" /\ Healthy[k].records = <<>>
          /\ k \in Users => Healthy[k].trust = "u"
          /\ DOMAIN Healthy[k] = {"validity", "records", "trust"}
  BY DEF Healthy

\* Every change leaves a keyring of that kind.
LEMMA RingsAre ==
    ASSUME NEW k, NEW keyring \in Rings(k) PROVE RingOf(keyring)
<1>1. CASE keyring = [j \in DOMAIN Healthy \ {k} |-> Healthy[j]]
  BY <1>1, HealthyIs DEF RingOf
<1>2. CASE keyring = [Healthy EXCEPT ![k].trust = "m"]
  BY <1>2, HealthyIs DEF RingOf
<1>3. CASE keyring = [Healthy EXCEPT ![k].validity = "e"]
  BY <1>3, HealthyIs DEF RingOf
<1>4. ASSUME NEW d \in Dates,
             keyring = [Healthy EXCEPT ![k].validity = "r", ![k].records = SelfRevoked(k, d)]
      PROVE  RingOf(keyring)
  <2> DEFINE rec == SelfRevoked(k, d)
  <2> HIDE DEF rec
  <2>1. keyring = [Healthy EXCEPT ![k].validity = "r", ![k].records = rec]
    BY <1>4 DEF rec
  <2>2. DOMAIN keyring = ToSet(KeyOrder)
    BY <2>1, HealthyIs
  <2>3. ASSUME NEW j \in ToSet(KeyOrder), j # k
        PROVE  keyring[j].validity = "f" /\ keyring[j].records = <<>>
    BY <2>1, <2>3, HealthyIs
  <2>4. k \in ToSet(KeyOrder) => keyring[k].validity = "r" /\ keyring[k].records = rec
    BY <2>1, HealthyIs
  <2>5. k \in ToSet(KeyOrder) => RevokedBySelf(keyring, k)
    BY <2>4 DEF RevokedBySelf, rec
  <2> QED
    BY <2>2, <2>3, <2>4, <2>5 DEF RingOf
<1>5. ASSUME NEW u \in Users, NEW d \in Dates, NEW n \in Dates,
             keyring = [Healthy EXCEPT ![k].records = CertRevoked(OneUser, d) \o CertRevoked(u, n)]
      PROVE  RingOf(keyring)
  <2> DEFINE rec == CertRevoked(OneUser, d) \o CertRevoked(u, n)
  <2> HIDE DEF rec
  <2>1. keyring = [Healthy EXCEPT ![k].records = rec]
    BY <1>5 DEF rec
  <2>2. DOMAIN keyring = ToSet(KeyOrder)
    BY <2>1, HealthyIs
  <2>3. \A j \in ToSet(KeyOrder) : keyring[j].validity = "f"
                                   /\ (j # k => keyring[j].records = <<>>)
                                   /\ (j \in Users => keyring[j].trust = "u")
    BY <2>1, HealthyIs
  <2>4. k \in ToSet(KeyOrder) => keyring[k].records = rec
    BY <2>1, HealthyIs
  <2>5. OneUser \in Users
    BY DEF OneUser
  <2>6. k \in ToSet(KeyOrder) => RevokedByUsers(keyring, k)
    BY <2>2, <2>3, <2>4, <2>5, UsersAssumption DEF RevokedByUsers, rec
  <2> QED
    BY <2>2, <2>3, <2>4, <2>6 DEF RingOf
<1> QED
  BY <1>1, <1>2, <1>3, <1>4, <1>5 DEF Rings

RingInv == RingOf(ring)

\* So it stays.
LEMMA RingStays == Spec => []RingInv
<1>1. Init => RingInv
  BY HealthyIs DEF Init, RingInv, RingOf
<1>2. RingInv /\ [Next]_vars => RingInv'
  <2> SUFFICES ASSUME RingInv, [Next]_vars PROVE RingInv'
    OBVIOUS
  <2>1. CASE KeyChanges
    <3>1. PICK k : ring' \in Rings(k)
      BY <2>1 DEF KeyChanges
    <3> QED
      BY <3>1, RingsAre DEF RingInv
  <2>2. CASE UNCHANGED ring
    BY <2>2 DEF RingInv
  <2> QED
    BY <2>1, <2>2 DEF Next, Answer, OddSignature, WideEntry, CallFails, Complete, vars
<1> QED
  BY <1>1, <1>2, PTL DEF Spec

\* What fails and what cannot be encoded is what the state says.
LEMMA EnvIs == env.failed = failed /\ env.wide = wide
BY DEF env

\* Trusted is who the worker trusts, in every state of the model.
LEMMA TrustedIs == RingInv => TrustedFingerprints(ring, env) = Trusted
<1> SUFFICES ASSUME RingInv PROVE TrustedFingerprints(ring, env) = Trusted
  OBVIOUS
<1>1. TrustedKeys(ring, env) = Trusted
  BY EnvIs DEF RingInv, RingOf, TrustedKeys, Trusted
<1> HIDE DEF env
<1>2. TrustedFingerprints(ring, env) = TrustedKeys(ring, env)
  BY TrustedAreUsable DEF RingInv, RingOf
<1> QED
  BY <1>1, <1>2

\* What KeepLatest has kept, of whom.
LEMMA KeptIs ==
    ASSUME list \in Seq(Pool), RingInv
    PROVE  NewestKept(list, Trusted, Len(list), Kept)
<1>1. \A x \in Pool : x.server_timestamp \in Int
  BY PoolEntries
<1>2. Kept = KeepLatest(list, Trusted)
  BY TrustedIs DEF Kept
<1> QED
  BY <1>1, <1>2, KeepLatestKeepsNewest

\* There is a newest entry wherever there is one at all.
LEMMA NewestIs ==
    ASSUME list \in Seq(Pool), RingInv, NEW s \in Trusted, NEW c \in Categories, Of(s, c) # {}
    PROVE  /\ Newest(s, c) \in Of(s, c)
           /\ NoneNewer(list, Len(list), Newest(s, c))
           /\ \E i \in 1..Len(Kept) : Kept[i] = list[Newest(s, c)]
<1> DEFINE N == Len(list)
           kept == Kept
<1>1. NewestKept(list, Trusted, N, kept)
  BY KeptIs
<1>2. DOMAIN list = 1..N
  OBVIOUS
<1> HIDE DEF kept
<1>3. PICK k \in 1..N : list[k].signer_keyid = s /\ list[k].category = c
  BY <1>2 DEF Of
<1>4. Eligible(Trusted, list[k])
  BY <1>3 DEF Eligible, Categories
<1>5. PICK i \in 1..Len(kept) : Key(kept[i]) = Key(list[k])
  BY <1>1, <1>4 DEF NewestKept
<1>6. PICK m \in 1..N : kept[i] = list[m] /\ NoneNewer(list, N, m)
  BY <1>1 DEF NewestKept
<1>7. Key(list[m]) = <<s, c>> /\ m \in Of(s, c)
  BY <1>2, <1>3, <1>5, <1>6 DEF Key, Of
<1> DEFINE Good(n) == \A j \in Of(s, c) :
              \/ list[j].server_timestamp < list[n].server_timestamp
              \/ list[j].server_timestamp = list[n].server_timestamp /\ n <= j
<1>8. \A n \in Of(s, c) : NoneNewer(list, N, n) <=> Good(n)
  BY <1>2 DEF Of, NoneNewer, Key
<1>9. Newest(s, c) = CHOOSE n \in Of(s, c) : Good(n)
  BY DEF Newest
<1> HIDE DEF Good
<1>10. Newest(s, c) \in Of(s, c) /\ Good(Newest(s, c))
  BY <1>6, <1>7, <1>8, <1>9
<1>11. NoneNewer(list, N, Newest(s, c))
  BY <1>8, <1>10
<1>12. Newest(s, c) = m
  <2> DEFINE n == Newest(s, c)
  <2>1. \A x \in Pool : x.server_timestamp \in Int
    BY PoolEntries
  <2>2. n \in 1..N /\ Key(list[n]) = <<s, c>>
    BY <1>2, <1>10 DEF Of, Key
  <2> HIDE DEF n
  <2>3. NoneNewer(list, N, n)
    BY <1>11 DEF n
  <2>4. n = m
    BY <1>6, <1>7, <2>1, <2>2, <2>3, NewestIsOne
  <2> QED
    BY <2>4 DEF n
<1> QED
  BY <1>6, <1>10, <1>11, <1>12 DEF kept

\* Exactly the newest entry of each trusted signer in each category is kept, however many
\* entries there are, in whatever order, and whatever has become of a key
\* (service-worker.js:238).
THEOREM NewestAlwaysKept == Spec => []KeepsNewest
<1>1. ListInv /\ RingInv => KeepsNewest
  <2> SUFFICES ASSUME list \in Seq(Pool), RingInv PROVE KeepsNewest
    BY DEF ListInv
  <2> DEFINE kept == Kept
             N == Len(list)
             Pairs == {p \in Trusted \X Categories : Of(p[1], p[2]) # {}}
             Best(k) == list[Newest(k[1], k[2])]
  <2>1. NewestKept(list, Trusted, N, kept) /\ DOMAIN list = 1..N
    BY KeptIs
  <2>2. \A x \in Pool : x.server_timestamp \in Int
    BY PoolEntries
  <2> HIDE DEF kept
  <2>3. ToSet(kept) = {kept[i] : i \in 1..Len(kept)} /\ DOMAIN kept = 1..Len(kept)
    BY <2>1 DEF NewestKept, ToSet
  <2>4. ASSUME NEW i \in 1..Len(kept) PROVE \E k \in Pairs : kept[i] = Best(k)
    <3>1. PICK m \in 1..N : kept[i] = list[m] /\ Eligible(Trusted, list[m]) /\ NoneNewer(list, N, m)
      BY <2>1 DEF NewestKept
    <3> DEFINE s == list[m].signer_keyid
               c == list[m].category
               n == Newest(s, c)
    <3>2. s \in Trusted /\ c \in Categories
      <4>1. list[m] \in Pool
        OBVIOUS
      <4> QED
        BY <3>1, <4>1, PoolCategories DEF Eligible
    <3>3. m \in Of(s, c)
      BY <2>1 DEF Of
    <3> HIDE DEF s, c
    <3>4. n \in Of(s, c) /\ NoneNewer(list, N, n)
      BY <3>2, <3>3, NewestIs
    <3>5. n \in 1..N /\ Key(list[n]) = <<s, c>> /\ Key(list[m]) = <<s, c>>
      BY <2>1, <3>3, <3>4 DEF Of, Key
    <3> HIDE DEF n
    <3>6. n = m
      BY <2>2, <3>1, <3>4, <3>5, NewestIsOne
    <3>7. <<s, c>> \in Pairs /\ Best(<<s, c>>) = list[n]
      BY <3>2, <3>3 DEF n
    <3> QED
      BY <3>1, <3>6, <3>7
  <2>5. ASSUME NEW k \in Pairs PROVE \E i \in 1..Len(kept) : kept[i] = Best(k)
    <3>1. k[1] \in Trusted /\ k[2] \in Categories /\ Of(k[1], k[2]) # {}
      OBVIOUS
    <3> QED
      BY <3>1, NewestIs DEF kept
  <2>6. ToSet(kept) = {Best(k) : k \in Pairs}
    <3> HIDE DEF Pairs, Best
    <3> QED
      BY <2>3, <2>4, <2>5
  <2>7. \A i, j \in DOMAIN kept : Key(kept[i]) = Key(kept[j]) => i = j
    BY <2>1, <2>3 DEF NewestKept
  <2> QED
    BY <2>6, <2>7 DEF KeepsNewest, kept
<1> QED
  BY <1>1, ListStays, RingStays, PTL

\* One key that has been revoked, or whose certification users have, makes no other keyring of it.
LEMMA RingIsKeyring ==
    ASSUME NEW keyring, RingOf(keyring)
    PROVE  /\ Keyring(keyring)
           /\ \A k \in DOMAIN keyring : \A i \in 1..Len(keyring[k].records) :
                 keyring[k].records[i].type = "rev"
<1> SUFFICES ASSUME NEW k \in DOMAIN keyring
             PROVE  /\ Revocational(keyring[k].records)
                    /\ keyring[k].validity = "r" =>
                          \E i \in 1..Len(keyring[k].records) : OwnRevocation(keyring[k].records[i])
                    /\ \A i \in 1..Len(keyring[k].records) : keyring[k].records[i].type = "rev"
  BY DEF RingOf, Keyring
<1>1. CASE keyring[k].validity # "r" /\ keyring[k].records = <<>>
  BY <1>1 DEF Revocational, Range
<1>2. CASE RevokedBySelf(keyring, k)
  <2>1. PICK d \in Dates : keyring[k].records = SelfRevoked(k, d)
    BY <1>2 DEF RevokedBySelf
  <2> DEFINE r == [type |-> "rev", class |-> "20x", by |-> k, at |-> d]
             S == {r}
             all == << r >>
  <2>2. r.type = "rev" /\ r.class = "20x" /\ r.at = d /\ d \in Nat
    BY DatesAssumption
  <2>3. keyring[k].records = all
    BY <2>1 DEF SelfRevoked
  <2> HIDE DEF r
  <2>4. all \in Seq(S) /\ Len(all) = 1 /\ all[1] = r /\ \A x \in S : x.type = "rev" /\ x.at \in Nat
    BY <2>2
  <2> HIDE DEF S, all
  <2>5. Revocational(all)
    BY <2>4, RecordsOf
  <2>6. 1 \in 1..Len(all) /\ OwnRevocation(all[1]) /\ \A i \in 1..Len(all) : all[i].type = "rev"
    BY <2>2, <2>4 DEF OwnRevocation
  <2> QED
    BY <2>3, <2>5, <2>6
<1>3. CASE RevokedByUsers(keyring, k)
  <2>1. PICK u \in Users, v \in Users, d \in Dates, n \in Dates :
          keyring[k].records = CertRevoked(u, d) \o CertRevoked(v, n)
    BY <1>3 DEF RevokedByUsers
  <2> DEFINE q == [type |-> "rev", class |-> "30x", by |-> u, at |-> d]
             r == [type |-> "rev", class |-> "30x", by |-> v, at |-> n]
             S == {q, r}
             all == << q >> \o << r >>
  <2>2. q.type = "rev" /\ q.at = d /\ d \in Nat /\ r.type = "rev" /\ r.at = n /\ n \in Nat
    BY DatesAssumption
  <2>3. keyring[k].records = all
    BY <2>1 DEF CertRevoked
  <2> HIDE DEF q, r
  <2>4. all \in Seq(S) /\ \A x \in S : x.type = "rev" /\ x.at \in Nat
    BY <2>2
  <2> HIDE DEF S, all
  <2>5. Revocational(all) /\ \A i \in 1..Len(all) : all[i].type = "rev"
    BY <2>4, RecordsOf
  <2>6. keyring[k].validity # "r"
    BY <1>3 DEF RevokedByUsers
  <2> QED
    BY <2>3, <2>5, <2>6
<1> QED
  BY <1>1, <1>2, <1>3 DEF RingOf

-----------------------------------------------------------------------------
\* A list of the pool is one the theorems above are about, and so is what is kept of it.
LEMMA ListIs ==
    ASSUME ListInv, RingInv
    PROVE  /\ list \in Seq(Pool) /\ \A x \in Pool : x.server_timestamp \in Int
           /\ Keyring(ring) /\ DOMAIN ring \subseteq ToSet(KeyOrder)
           /\ Kept = KeepLatest(list, TrustedFingerprints(ring, env)) /\ Counted = VerifiedEntries(list, ring, env)
BY PoolEntries, RingIsKeyring DEF ListInv, RingInv, RingOf, Kept, Counted

\* Everyone who has revoked a certification has done so first on some day.
LEMMA SomeFirst ==
    ASSUME RingInv, NEW k \in DOMAIN ring, NEW i \in 1..Len(ring[k].records)
    PROVE  /\ ring[k].records[i].at \in Nat
           /\ \E r \in Revocations(k) :
                 r.by = ring[k].records[i].by /\ r.at \in Nat /\ r.at <= ring[k].records[i].at
<1> DEFINE records == ring[k].records
           by == records[i].by
           U == {records[j].at : j \in {m \in 1..Len(records) : records[m].by = by}}
<1>1. Revocational(records) /\ \A j \in 1..Len(records) : records[j].type = "rev"
  BY RingIsKeyring DEF RingInv, Keyring
<1> HIDE DEF records
<1>2. \A j \in 1..Len(records) : records[j].at \in Nat
  BY <1>1 DEF Revocational, Range
<1>3. U \subseteq Nat /\ records[i].at \in U
  BY <1>2 DEF records
<1> HIDE DEF U
<1>4. PICK d \in U : \A e \in U : d <= e
  BY <1>3, NatMin
<1>5. PICK j \in 1..Len(records) : records[j].by = by /\ records[j].at = d
  BY <1>4 DEF U
<1>6. ToSet(records) = {records[m] : m \in 1..Len(records)}
  BY <1>1 DEF ToSet, Revocational
<1>7. records[j] \in Revocations(k)
  <2>1. \A q \in ToSet(records) : q.by = records[j].by => records[j].at <= q.at
    BY <1>4, <1>5, <1>6 DEF U
  <2> QED
    BY <1>6, <2>1 DEF Revocations, records
<1> QED
  BY <1>2, <1>3, <1>4, <1>5, <1>7 DEF records

\* A revocation takes nothing from what was said before it (main.go:123-145), in every state:
\* of what the signers and the log have signed, whatever is older than every revocation of their
\* keys counts; provided that every entry that is kept can be encoded (service-worker.js:269)
\* and "verify" answers.
THEOREM EarlierAlwaysCounts == Spec => []EarlierCounts
<1>1. ASSUME ListInv, RingInv PROVE EarlierCounts
  <2> SUFFICES ASSUME Encodable(Kept, env), << "verify" >> \notin failed,
                      NEW x \in ToSet(Kept), Sound(x), LogKey \in DOMAIN ring,
                      \A r \in Revocations(LogKey) \union Revocations(x.signer_keyid) : x.server_timestamp < r.at
               PROVE  x \in ToSet(Counted)
    BY DEF EarlierCounts
  <2>1. /\ list \in Seq(Pool) /\ \A y \in Pool : y.server_timestamp \in Int
        /\ Keyring(ring) /\ DOMAIN ring \subseteq ToSet(KeyOrder)
        /\ Kept = KeepLatest(list, TrustedFingerprints(ring, env)) /\ Counted = VerifiedEntries(list, ring, env)
    BY <1>1, ListIs
  <2>2. x \in ToSet(KeepLatest(list, TrustedFingerprints(ring, env)))
    BY <2>1
  <2>3. x.server_timestamp \in Int /\ x.signer_keyid \in DOMAIN ring
    BY <2>1, <2>2, KeptAreTrusted DEF TrustedKeys
  <2>4. ASSUME NEW k \in {LogKey, x.signer_keyid}, NEW i \in 1..Len(ring[k].records)
        PROVE  x.server_timestamp < ring[k].records[i].at
    <3>1. k \in DOMAIN ring
      BY <2>3
    <3>2. ring[k].records[i].at \in Nat
      BY <1>1, <3>1, SomeFirst
    <3>3. PICK r \in Revocations(k) : r.at \in Nat /\ r.at <= ring[k].records[i].at
      BY <1>1, <3>1, SomeFirst
    <3>4. x.server_timestamp < r.at
      OBVIOUS
    <3> QED
      BY <2>3, <3>2, <3>3, <3>4
  <2>5. SoundEntry(env, x)
    <3> HIDE DEF env
    <3> QED
      BY EnvIs DEF Sound, SoundEntry, Roles
  <2>6. Answerable(KeepLatest(list, TrustedFingerprints(ring, env)), env)
    <3>1. Encodable(KeepLatest(list, TrustedFingerprints(ring, env)), env)
      BY <2>1
    <3> HIDE DEF env
    <3> QED
      BY <3>1, EnvIs DEF Answerable
  <2>7. \A k \in {LogKey, x.signer_keyid} : \A i \in 1..Len(ring[k].records) :
           ring[k].records[i].type = "rev" => x.server_timestamp < ring[k].records[i].at
    BY <2>4
  <2> HIDE DEF env
  <2> QED
    BY <2>1, <2>2, <2>5, <2>6, <2>7, EarlierCountsOnAnyKeyring
<1> QED
  BY <1>1, ListStays, RingStays, PTL

\* Of the revocations of a key of the model there is one that what precedes them is older than,
\* if they are looked for.
LEMMA PrecedesOne ==
    ASSUME RingInv, NEW k \in DOMAIN ring, NEW x, NEW role, Revocations(k) # {},
           Precedes(x, ring, k, Asked(ring, env, x, role)), Heeded(x, role, k)
    PROVE  \E r \in Revocations(k) : x.server_timestamp < r.at
<1> DEFINE records == ring[k].records
<1>1. Revocational(records) /\ \A j \in 1..Len(records) : records[j].type = "rev"
  BY RingIsKeyring DEF RingInv, Keyring
<1>2. ToSet(records) = {records[m] : m \in 1..Len(records)}
  BY <1>1 DEF ToSet, Revocational
<1>3. records # <<>>
  BY <1>2 DEF Revocations
<1>4. CASE RevokedBySelf(ring, k)
  <2>1. PICK d \in Dates : records = SelfRevoked(k, d)
    BY <1>4 DEF RevokedBySelf
  <2>2. Len(records) = 1
    BY <2>1 DEF SelfRevoked
  <2>3. PICK i \in 1..Len(records) : x.server_timestamp < records[i].at
    BY <1>4 DEF Precedes, RevokedBySelf
  <2>4. records[i].at \in Nat
    BY <1>1 DEF Revocational, Range
  <2> HIDE DEF records
  <2>5. \A j \in 1..Len(records) : j = i
    BY <2>2
  <2>6. records[i] \in Revocations(k)
    BY <1>2, <2>4, <2>5 DEF Revocations, records
  <2> QED
    BY <2>3, <2>6
<1>5. CASE RevokedByUsers(ring, k)
  <2>1. PICK u \in Users, n \in 1..Len(records) : RevokedBy(records[n], u)
    <3>1. PICK u \in Users, v \in Users, d \in Dates, e \in Dates : records = CertRevoked(u, d) \o CertRevoked(v, e)
      BY <1>5 DEF RevokedByUsers
    <3> DEFINE q == [type |-> "rev", class |-> "30x", by |-> u, at |-> d]
               r == [type |-> "rev", class |-> "30x", by |-> v, at |-> e]
    <3>2. q.by = u
      OBVIOUS
    <3>3. records = << q >> \o << r >>
      BY <3>1 DEF CertRevoked
    <3> HIDE DEF q, r, records
    <3>4. 1 \in 1..Len(records) /\ records[1] = q
      BY <3>3
    <3>5. RevokedBy(records[1], u)
      BY <1>1, <3>2, <3>4 DEF RevokedBy
    <3> QED
      BY <3>4, <3>5
  <2>2. u \in Asked(ring, env, x, role)
    <3>1. u \in OwnKeys(ring)
      BY <1>5 DEF RevokedByUsers, OwnKeys
    <3>2. /\ x.server_timestamp # Undated /\ << "list_own" >> \notin failed
          /\ << "cert", x, role, u >> \notin failed
      BY <1>5 DEF RevokedByUsers, Heeded
    <3> HIDE DEF env
    <3> QED
      BY <3>1, <3>2, EnvIs DEF Asked
  <2>3. PICK w \in Asked(ring, env, x, role) :
          /\ \E i \in 1..Len(records) : RevokedBy(records[i], w)
          /\ \A i \in 1..Len(records) : RevokedBy(records[i], w) => x.server_timestamp < records[i].at
    BY <2>1, <2>2 DEF Precedes
  <2>4. PICK i \in 1..Len(records) : RevokedBy(records[i], w)
    BY <2>3
  <2>5. PICK r \in Revocations(k) : r.by = w
    <3>1. PICK r \in Revocations(k) : r.by = records[i].by
      BY SomeFirst
    <3> QED
      BY <2>4, <3>1 DEF RevokedBy
  <2>6. PICK j \in 1..Len(records) : r = records[j]
    BY <1>2 DEF Revocations
  <2>7. RevokedBy(records[j], w)
    BY <1>1, <2>5, <2>6 DEF RevokedBy
  <2> QED
    BY <2>3, <2>6, <2>7
<1> QED
  BY <1>3, <1>4, <1>5 DEF RingInv, RingOf

\* Nothing counts that names nobody trusted, or without two good signatures of keys on the
\* keyring, or whose date is not before the revocation of a key that has made one of them, by
\* itself or, of a certification, by at least one of the user's keys; as far as revocations are
\* looked for (Heeded).  That these keys are the log's and the one named is not promised.
THEOREM LaterNeverEverCounts == Spec => []LaterNeverCounts
<1>1. ASSUME ListInv, RingInv PROVE LaterNeverCounts
  <2> SUFFICES ASSUME NEW x \in ToSet(Counted)
               PROVE  /\ x.signer_keyid \in Trusted
                      /\ \A role \in Roles :
                            /\ env.maker[role][x] \in DOMAIN ring
                            /\ Revocations(env.maker[role][x]) # {} /\ Heeded(x, role, env.maker[role][x]) =>
                                  \E r \in Revocations(env.maker[role][x]) : x.server_timestamp < r.at
    BY DEF LaterNeverCounts
  <2>1. /\ list \in Seq(Pool) /\ \A y \in Pool : y.server_timestamp \in Int
        /\ Keyring(ring) /\ DOMAIN ring \subseteq ToSet(KeyOrder)
        /\ Counted = VerifiedEntries(list, ring, env)
    BY <1>1, ListIs
  <2>2. x \in ToSet(VerifiedEntries(list, ring, env))
    BY <2>1
  <2>3. TrustedKeys(ring, env) = Trusted
    <3> HIDE DEF env
    <3> QED
      BY <1>1, <2>1, TrustedIs, TrustedAreUsable
  <2> HIDE DEF env
  <2>4. /\ x.signer_keyid \in TrustedKeys(ring, env)
        /\ \A role \in {"log", "signer"} :
              /\ env.maker[role][x] \in DOMAIN ring
              /\ Precedes(x, ring, env.maker[role][x], Asked(ring, env, x, role))
    BY <2>1, <2>2, LaterNeverCountsOnAnyKeyring
  <2>5. ASSUME NEW role \in Roles
        PROVE  /\ env.maker[role][x] \in DOMAIN ring
               /\ Revocations(env.maker[role][x]) # {} /\ Heeded(x, role, env.maker[role][x]) =>
                     \E r \in Revocations(env.maker[role][x]) : x.server_timestamp < r.at
    <3>1. /\ env.maker[role][x] \in DOMAIN ring
          /\ Precedes(x, ring, env.maker[role][x], Asked(ring, env, x, role))
      BY <2>4 DEF Roles
    <3> QED
      BY <1>1, <3>1, PrecedesOne
  <2> QED
    BY <2>3, <2>4, <2>5
<1> QED
  BY <1>1, ListStays, RingStays, PTL

\* What does not verify costs others nothing, in every state (sw:236-258 and main.go:103-160):
\* only an entry that cannot be encoded does, which costs everybody everything (sw:269 and 370).
THEOREM SignersAlwaysIndependent == Spec => []SignersIndependent
<1>1. ASSUME ListInv PROVE SignersIndependent
  <2>1. list \in Seq(Pool) /\ \A x \in Pool : x.server_timestamp \in Int
    BY <1>1, PoolEntries DEF ListInv
  <2>2. ASSUME NEW s \in Trusted
        PROVE  IF SpoiltByOthers(s) THEN VerifiedEntries(list, ring, env) = <<>>
               ELSE Filter(VerifiedEntries(list, ring, env), EntriesBy(list, s))
                    = VerifiedEntries(Filter(list, EntriesBy(list, s)), ring, env)
    <3>1. SpoiltByOthers(s) <=> SpoiltByAnother(list, ring, env, s)
      <4> HIDE DEF env
      <4> QED
        BY EnvIs DEF SpoiltByOthers, SpoiltByAnother, Kept
    <3> HIDE DEF env
    <3>2. IF SpoiltByAnother(list, ring, env, s) THEN VerifiedEntries(list, ring, env) = <<>>
          ELSE Filter(VerifiedEntries(list, ring, env), EntriesBy(list, s))
               = VerifiedEntries(Filter(list, EntriesBy(list, s)), ring, env)
      BY <2>1, IndependentOnAnyKeyring
    <3> QED
      BY <3>1, <3>2
  <2> HIDE DEF env
  <2> QED
    BY <2>2 DEF SignersIndependent, Counted, EntriesBy
<1> QED
  BY <1>1, ListStays, PTL

\* If a signer's newest word in a category is a revocation, everything is as if the signer had
\* never said anything in it (README.md:31), in every state in which what is kept can be encoded;
\* otherwise nothing is shown (service-worker.js:269 and 370).
THEOREM RevokeAlwaysWithdraws == Spec => []RevokeWithdraws
<1>1. ASSUME ListInv, RingInv PROVE RevokeWithdraws
  <2> SUFFICES ASSUME NEW s \in Trusted, NEW c \in Categories, Of(s, c) # {},
                      list[Newest(s, c)].verdict = "revoke"
               PROVE  Shown(list, ring, env)
                      = IF Encodable(Kept, env)
                        THEN Shown(Filter(list, {x \in ToSet(list) : Key(x) # << s, c >>}), ring, env)
                        ELSE Aggregate(<<>>)
    BY DEF RevokeWithdraws
  <2> DEFINE n == Newest(s, c)
  <2>1. list \in Seq(Pool) /\ \A x \in Pool : x.server_timestamp \in Int
    BY <1>1, PoolEntries DEF ListInv
  <2>2. n \in Of(s, c) /\ NoneNewer(list, Len(list), n)
    BY <1>1, <2>1, NewestIs
  <2>3. n \in 1..Len(list) /\ Key(list[n]) = << s, c >>
    BY <2>1, <2>2 DEF Of, Key
  <2>4. list[n].verdict = "revoke"
    OBVIOUS
  <2> HIDE DEF n
  <2> HIDE DEF env
  <2>5. Shown(list, ring, env)
        = IF Encodable(KeepLatest(list, TrustedFingerprints(ring, env)), env)
          THEN Shown(Filter(list, {x \in ToSet(list) : Key(x) # Key(list[n])}), ring, env)
          ELSE Aggregate(<<>>)
    BY <2>1, <2>2, <2>3, <2>4, RevokeWithdrawsOnAnyKeyring
  <2> QED
    BY <2>3, <2>5 DEF Kept
<1> QED
  BY <1>1, ListStays, RingStays, PTL
=============================================================================
