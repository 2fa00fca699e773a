-------------------------- MODULE LogReadbackProofs --------------------------
(* Theorems about reading the log back, for any number of readers that run while      *)
(* any number of requests write: what a listing and a GET of a uuid return, and what    *)
(* the extension selects from a listing.                                                *)
EXTENDS LogReadback, LogServerProofs, VerdictPipelineProofs

IsListing(d) == rpc[d] \in {"listing", "listed"}

\* What is read back for a hash: those of its entries that are served.
PublishedUnder(h) == {x \in Published : x.artifact_hash = h}

\* A listing has collected served entries of its hash, and the numbers it still has to
\* fetch are of the list it took them from, which has only grown since.
GotOK(d) ==
    /\ rpc[d] = "idle" => got[d] = <<>>
    /\ rpc[d] = "listed" => todo[d] = <<>>
    /\ IsListing(d) =>
          /\ query[d] \in Hashes
          /\ Range(got[d]) \subseteq PublishedUnder(query[d])
          /\ Range(todo[d]) \subseteq Range(lists[query[d]])

GotInv == \A d \in Readers : GotOK(d)

\* Each entry that a listing owes its client is in hand or still to be fetched.
OwedOK(d) ==
    IsListing(d) =>
        \A u \in known[d] : \E x \in PublishedUnder(query[d]) :
            x.uuid = u /\ (x \in Range(got[d]) \/ x.log_index \in Range(todo[d]))

OwedInv == \A d \in Readers : OwedOK(d)

\* A GET of an acknowledged uuid is on the way to its entry.
ResolveOK(d) ==
    /\ rpc[d] = "idle" => known[d] = {}
    /\ query[d] \in known[d] =>
          /\ rpc[d] # "notfound"
          /\ rpc[d] \in {"fetching", "found"} => query[d] \in Acknowledged
          /\ rpc[d] = "fetching" => todo[d] = <<e[query[d]].log_index>>
          /\ rpc[d] = "found" => got[d] = <<e[query[d]]>>
          /\ rpc[d] = "failed" => ReadFaults

ResolveInv == \A d \in Readers : ResolveOK(d)

-----------------------------------------------------------------------------
\* What Append and Tail do to the elements of a sequence.
LEMMA RangeAppend ==
    ASSUME NEW S, NEW s \in Seq(S), NEW x \in S
    PROVE  Range(Append(s, x)) = Range(s) \union {x}
<1>1. /\ Append(s, x) \in Seq(S) /\ Len(Append(s, x)) = Len(s) + 1
      /\ \A i \in 1..Len(s) : Append(s, x)[i] = s[i]
      /\ Append(s, x)[Len(s) + 1] = x
  OBVIOUS
<1>2. /\ DOMAIN s = 1..Len(s) /\ DOMAIN Append(s, x) = 1..Len(s) + 1 /\ Len(s) \in Nat
  BY <1>1
<1> QED
  BY <1>1, <1>2 DEF Range

\* The elements of a sequence are its head and those of its tail.
LEMMA RangeTail ==
    ASSUME NEW S, NEW s \in Seq(S), s # <<>>
    PROVE  Head(s) \in Range(s) /\ Range(s) = {Head(s)} \union Range(Tail(s))
<1>1. /\ Len(s) \in Nat \ {0} /\ Head(s) = s[1] /\ Tail(s) \in Seq(S)
      /\ DOMAIN s = 1..Len(s) /\ DOMAIN Tail(s) = 1..Len(s) - 1
      /\ \A i \in 1..Len(s) - 1 : Tail(s)[i] = s[i + 1]
  OBVIOUS
<1>2. Head(s) \in Range(s)
  BY <1>1 DEF Range
<1>3. ASSUME NEW x \in Range(Tail(s)) PROVE x \in Range(s)
  <2>1. PICK i \in 1..Len(s) - 1 : x = s[i + 1]
    BY <1>1, <1>3 DEF Range
  <2>2. i + 1 \in DOMAIN s
    BY <1>1
  <2> QED
    BY <2>1, <2>2 DEF Range
<1>4. ASSUME NEW x \in Range(s) PROVE x = Head(s) \/ x \in Range(Tail(s))
  <2>1. PICK i \in 1..Len(s) : x = s[i]
    BY <1>1, <1>4 DEF Range
  <2>2. CASE i = 1
    BY <1>1, <2>1, <2>2
  <2>3. CASE i # 1
    <3>1. i - 1 \in DOMAIN Tail(s) /\ Tail(s)[i - 1] = x
      BY <1>1, <2>1, <2>3
    <3> QED
      BY <3>1 DEF Range
  <2> QED
    BY <2>2, <2>3
<1> QED
  BY <1>2, <1>3, <1>4

\* A list keeps the numbers it has.
LEMMA ListsGrow ==
    ASSUME IndInv, [Next]_vars, NEW h \in Hashes
    PROVE  Range(lists[h]) \subseteq Range(lists'[h])
<1>1. lists \in [Hashes -> Seq(Nat)]
  BY DEF IndInv, TypeOK, RedisTypeOK
<1>2. CASE lists'[h] = lists[h]
  BY <1>2
<1>3. CASE lists'[h] # lists[h]
  <2>1. PICK p \in Numbered :
           /\ e[p].artifact_hash \in Hashes /\ e[p].log_index \in Nat
           /\ lists' = [lists EXCEPT ![e[p].artifact_hash] = <<e[p].log_index>> \o @]
    BY <1>3, ListsStep
  <2>2. lists'[h] = <<e[p].log_index>> \o lists[h]
    BY <1>1, <1>3, <2>1
  <2> QED
    BY <1>1, <2>1, <2>2, RangePush
<1> QED
  BY <1>2, <1>3

\* A served entry is found under its number, which is in the list of its hash.
LEMMA PublishedFound ==
    ASSUME IndInv, NEW x \in Published
    PROVE  /\ x.log_index \in DOMAIN entries /\ entries[x.log_index] = x
           /\ x.log_index \in Range(lists[x.artifact_hash])
BY DEF IndInv, StoreInv, Published, Range

\* An acknowledged entry is served.
LEMMA AckPublished ==
    ASSUME IndInv, NEW r \in Acknowledged
    PROVE  e[r] \in Published /\ e[r].uuid = r
BY AckNumbered
DEF Acknowledged, IndInv, PipelineInv, PipelineOK, Stored, Listed, Published, Range

\* Whatever is stored under a number of the list of a hash is served for that hash.
LEMMA ListedPublished ==
    ASSUME IndInv, ListInv, NEW h \in Hashes, NEW n \in Range(lists[h]), n \in DOMAIN entries
    PROVE  entries[n] \in PublishedUnder(h) /\ entries[n].log_index = n
<1>1. PICK r \in Numbered : e[r].log_index = n /\ e[r].artifact_hash = h
  BY DEF ListInv
<1>2. entries[n].uuid \in Numbered /\ entries[n] = e[entries[n].uuid]
      /\ entries[n].log_index = n
  BY DEF IndInv, StoreInv
<1>3. entries[n].uuid = r
  BY <1>1, <1>2 DEF IndInv, UniqueIndex
<1> QED
  BY <1>1, <1>2, <1>3 DEF PublishedUnder, Published, Range

-----------------------------------------------------------------------------
\* Other processes only add to what a reader's numbers and entries belong to.
LEMMA ReaderWaits ==
    ASSUME OrderInv, [Next]_vars, NEW d \in Readers,
           query'[d] = query[d], todo'[d] = todo[d], got'[d] = got[d],
           known'[d] = known[d], rpc'[d] \in {rpc[d], "crashed"}
    PROVE  /\ GotOK(d) => GotOK(d)'
           /\ GotOK(d) /\ OwedOK(d) => OwedOK(d)'
           /\ ResolveOK(d) => ResolveOK(d)'
<1>0. IndInv
  BY DEF OrderInv
<1>1. Published \subseteq Published'
  BY <1>0, PublishedGrows
<1>2. IsListing(d)' => IsListing(d)
  BY DEF IsListing
<1>3. query[d] \in Hashes => Range(lists[query[d]]) \subseteq Range(lists'[query[d]])
  BY <1>0, ListsGrow
<1>4. PublishedUnder(query[d]) \subseteq PublishedUnder(query[d])'
  BY <1>1 DEF PublishedUnder
<1>5. GotOK(d) => GotOK(d)'
  BY <1>2, <1>3, <1>4 DEF GotOK
<1>6. GotOK(d) /\ OwedOK(d) => OwedOK(d)'
  BY <1>2, <1>4 DEF OwedOK
<1>7. ResolveOK(d) => ResolveOK(d)'
  <2>1. Acknowledged \subseteq Acknowledged'
    BY <1>0, AckStays
  <2>2. query[d] \in Acknowledged => e'[query[d]] = e[query[d]]
    BY <1>0, AckNumbered, PastStays DEF Acknowledged
  <2> QED
    BY <2>1, <2>2 DEF ResolveOK
<1> QED
  BY <1>5, <1>6, <1>7

\* A read leaves everything but its own variables alone.
LEMMA ReadOnly ==
    ASSUME NEW d \in Readers, Get(d)
    PROVE  /\ UNCHANGED <<redis, handlers>>
           /\ Published' = Published /\ Acknowledged' = Acknowledged
<1>1. UNCHANGED <<redis, handlers>>
  BY DEF Get, ListBegin, GetBegin, ReadFails, ListGet, ListDone, GetEntry
<1> QED
  BY <1>1 DEF redis, handlers, Published, Acknowledged

\* A listing collects nothing but served entries of its hash, even if GETs fail.
LEMMA GotInvStep == OrderInv /\ GotInv /\ [Next]_vars => GotInv'
<1> SUFFICES ASSUME OrderInv, GotInv, [Next]_vars, NEW d \in Readers PROVE GotOK(d)'
  BY DEF GotInv
<1>0. IndInv /\ ListInv /\ ReadersTypeOK /\ GotOK(d)
  BY DEF OrderInv, IndInv, TypeOK, GotInv
<1> USE DEF ReadersTypeOK
<1>1. CASE ~Get(d)
  BY <1>0, <1>1, ReaderStep, ReaderWaits
<1>2. ASSUME Get(d)
      PROVE  UNCHANGED <<entries, lists>> /\ \A h : PublishedUnder(h)' = PublishedUnder(h)
  BY <1>2, ReadOnly DEF redis, PublishedUnder
<1>3. ASSUME NEW h \in Hashes, ListBegin(d, h) PROVE GotOK(d)'
  <2>1. rpc[d] = "idle" /\ query'[d] = h /\ got'[d] = <<>>
    BY <1>0, <1>3 DEF ListBegin, GotOK
  <2>2. CASE rpc'[d] = "listing" /\ todo'[d] = lists[h]
    <3>1. Range(got'[d]) = {} /\ Get(d)
      BY <1>3, <2>1 DEF Range, Get
    <3> QED
      BY <1>2, <2>1, <2>2, <3>1 DEF GotOK
  <2>3. CASE rpc'[d] = "rejected"
    BY <2>1, <2>3 DEF GotOK, IsListing
  <2> QED
    BY <1>0, <1>3, <2>2, <2>3 DEF ListBegin
<1>4. ASSUME NEW u \in Requests, GetBegin(d, u) PROVE GotOK(d)'
  <2>1. rpc'[d] \in {"fetching", "notfound"}
    BY <1>0, <1>4 DEF GetBegin
  <2> QED
    BY <2>1 DEF GotOK, IsListing
<1>5. CASE ReadFails(d) \/ GetEntry(d)
  <2>1. rpc'[d] \in {"failed", "found"}
    BY <1>0, <1>5 DEF ReadFails, GetEntry
  <2> QED
    BY <2>1 DEF GotOK, IsListing
<1>6. CASE ListDone(d)
  <2>1. Get(d) /\ UNCHANGED <<query, todo, got>>
        /\ rpc[d] = "listing" /\ todo[d] = <<>> /\ rpc'[d] = "listed"
    BY <1>0, <1>6 DEF ListDone, Get
  <2> QED
    BY <1>0, <1>2, <2>1 DEF GotOK, IsListing
<1>7. CASE ListGet(d)
  <2> DEFINE n == Head(todo[d])
  <2>1. /\ Get(d) /\ UNCHANGED <<query, rpc>> /\ rpc[d] = "listing"
        /\ todo[d] # <<>> /\ todo[d] \in Seq(Nat) /\ todo'[d] = Tail(todo[d])
    BY <1>0, <1>7 DEF ListGet, Get
  <2>2. query[d] \in Hashes /\ n \in Range(lists[query[d]])
        /\ Range(todo'[d]) \subseteq Range(todo[d])
    BY <1>0, <2>1, RangeTail DEF GotOK, IsListing
  <2>3. Range(got'[d]) \subseteq PublishedUnder(query[d])
    <3>1. Range(got[d]) \subseteq PublishedUnder(query[d]) /\ got[d] \in Seq(Entry)
      BY <1>0, <2>1 DEF GotOK, IsListing
    <3>2. CASE UNCHANGED got
      BY <3>1, <3>2
    <3>3. CASE n \in DOMAIN entries /\ got'[d] = Append(got[d], entries[n])
      <4>1. entries[n] \in PublishedUnder(query[d]) /\ entries[n] \in Entry
        BY <1>0, <2>2, <3>3, ListedPublished DEF IndInv, TypeOK, RedisTypeOK
      <4> QED
        BY <3>1, <3>3, <4>1, RangeAppend
    <3> QED
      BY <1>0, <1>7, <3>2, <3>3 DEF ListGet
  <2> QED
    BY <1>0, <1>2, <2>1, <2>2, <2>3 DEF GotOK, IsListing
<1> QED
  BY <1>1, <1>3, <1>4, <1>5, <1>6, <1>7 DEF Get

\* Without read faults a listing loses nothing it owes: a number leaves its list only
\* for the entry it leads to.
LEMMA OwedInvStep ==
    ASSUME ~ReadFaults, OrderInv, GotInv, OwedInv, [Next]_vars
    PROVE  OwedInv'
<1> SUFFICES ASSUME NEW d \in Readers PROVE OwedOK(d)'
  BY DEF OwedInv
<1>0. IndInv /\ ListInv /\ ReadersTypeOK /\ GotOK(d) /\ OwedOK(d)
  BY DEF OrderInv, IndInv, TypeOK, GotInv, OwedInv
<1> USE DEF ReadersTypeOK
<1>1. CASE ~Get(d)
  BY <1>0, <1>1, ReaderStep, ReaderWaits
<1>2. ASSUME Get(d)
      PROVE  UNCHANGED <<entries, lists>> /\ \A h : PublishedUnder(h)' = PublishedUnder(h)
  BY <1>2, ReadOnly DEF redis, PublishedUnder
<1>3. ASSUME NEW h \in Hashes, ListBegin(d, h) PROVE OwedOK(d)'
  <2>1. Get(d) /\ query'[d] = h /\ known'[d] = Due(h)
    BY <1>0, <1>3 DEF ListBegin, Get
  <2>2. CASE rpc'[d] = "listing" /\ todo'[d] = lists[h]
    <3>1. ASSUME NEW u \in Due(h)
          PROVE  \E x \in PublishedUnder(h) : x.uuid = u
      <4>1. CASE u \in Acknowledged /\ e[u].artifact_hash = h
        BY <1>0, <4>1, AckPublished DEF PublishedUnder
      <4>2. CASE u \in ReadBefore(h)
        <5>1. PICK c \in Readers : rpc[c] = "listed" /\ query[c] = h
                                   /\ \E x \in Range(got[c]) : x.uuid = u
          BY <4>2 DEF ReadBefore
        <5>2. Range(got[c]) \subseteq PublishedUnder(h)
          BY <5>1 DEF GotInv, GotOK, IsListing
        <5> QED
          BY <5>1, <5>2
      <4> QED
        BY <3>1, <4>1, <4>2 DEF Due
    <3>2. \A x \in PublishedUnder(h) : x.log_index \in Range(lists[h])
      BY <1>0, PublishedFound DEF PublishedUnder
    <3> QED
      BY <1>2, <2>1, <2>2, <3>1, <3>2 DEF OwedOK
  <2>3. CASE rpc'[d] = "rejected"
    BY <2>3 DEF OwedOK, IsListing
  <2> QED
    BY <1>0, <1>3, <2>2, <2>3 DEF ListBegin
<1>4. ASSUME NEW u \in Requests, GetBegin(d, u) PROVE OwedOK(d)'
  <2>1. rpc'[d] \in {"fetching", "notfound"}
    BY <1>0, <1>4 DEF GetBegin
  <2> QED
    BY <2>1 DEF OwedOK, IsListing
<1>5. CASE ReadFails(d) \/ GetEntry(d)
  <2>1. rpc'[d] \in {"failed", "found"}
    BY <1>0, <1>5 DEF ReadFails, GetEntry
  <2> QED
    BY <2>1 DEF OwedOK, IsListing
<1>6. CASE ListDone(d)
  <2>1. Get(d) /\ UNCHANGED <<query, todo, got, known>> /\ rpc[d] = "listing"
    BY <1>6 DEF ListDone, Get
  <2> QED
    BY <1>0, <1>2, <2>1 DEF OwedOK, IsListing
<1>7. CASE ListGet(d)
  <2> DEFINE n == Head(todo[d])
  <2>1. /\ Get(d) /\ UNCHANGED <<query, rpc, known>> /\ rpc[d] = "listing"
        /\ todo[d] # <<>> /\ todo[d] \in Seq(Nat) /\ todo'[d] = Tail(todo[d])
        /\ got[d] \in Seq(Entry)
    BY <1>0, <1>7 DEF ListGet, Get
  <2>2. Range(todo[d]) = {n} \union Range(todo'[d])
    BY <2>1, RangeTail
  <2>3. CASE n \in DOMAIN entries /\ got'[d] = Append(got[d], entries[n])
    <3>1. entries[n] \in Entry
      BY <1>0, <2>3 DEF IndInv, TypeOK, RedisTypeOK
    <3>2. Range(got'[d]) = Range(got[d]) \union {entries[n]}
      BY <2>1, <2>3, <3>1, RangeAppend
    <3>3. \A x \in PublishedUnder(query[d]) :
             x.log_index \in Range(todo[d]) =>
                x \in Range(got'[d]) \/ x.log_index \in Range(todo'[d])
      BY <1>0, <2>2, <3>2, PublishedFound DEF PublishedUnder
    <3> QED
      BY <1>0, <1>2, <2>1, <3>2, <3>3 DEF OwedOK, IsListing
  <2>4. CASE n \notin DOMAIN entries /\ UNCHANGED got
    <3>1. \A x \in PublishedUnder(query[d]) :
             x.log_index \in Range(todo[d]) => x.log_index \in Range(todo'[d])
      BY <1>0, <2>2, <2>4, PublishedFound DEF PublishedUnder
    <3> QED
      BY <1>0, <1>2, <2>1, <2>4, <3>1 DEF OwedOK, IsListing
  <2> QED
    BY <1>0, <1>7, <2>3, <2>4 DEF ListGet
<1> QED
  BY <1>1, <1>3, <1>4, <1>5, <1>6, <1>7 DEF Get

\* The uuid of an acknowledged entry leads to its number, and that to the entry.
LEMMA ResolveInvStep ==
    ASSUME OrderInv, ResolveInv, [Next]_vars
    PROVE  ResolveInv'
<1> SUFFICES ASSUME NEW d \in Readers PROVE ResolveOK(d)'
  BY DEF ResolveInv
<1>0. IndInv /\ ReadersTypeOK /\ ResolveOK(d)
  BY DEF OrderInv, IndInv, TypeOK, ResolveInv
<1> USE DEF ReadersTypeOK
<1>1. CASE ~Get(d)
  BY <1>0, <1>1, ReaderStep, ReaderWaits
<1>2. ASSUME Get(d)
      PROVE  UNCHANGED <<entries, uuids, e>> /\ Acknowledged' = Acknowledged
  BY <1>2, ReadOnly DEF redis, handlers
<1>3. ASSUME NEW r \in Acknowledged
      PROVE  Stored(r) /\ Mapped(r)
  BY <1>0 DEF Acknowledged, IndInv, PipelineInv, PipelineOK
<1>4. ASSUME NEW h \in Hashes, ListBegin(d, h) PROVE ResolveOK(d)'
  <2>1. rpc'[d] \in {"listing", "rejected"}
    BY <1>0, <1>4 DEF ListBegin
  <2> QED
    BY <2>1 DEF ResolveOK
<1>5. ASSUME NEW u \in Requests, GetBegin(d, u) PROVE ResolveOK(d)'
  <2>1. Get(d) /\ query'[d] = u /\ known'[d] = Acknowledged
    BY <1>0, <1>5 DEF GetBegin, Get
  <2>2. CASE u \in DOMAIN uuids
    <3>1. rpc'[d] = "fetching" /\ todo'[d] = <<uuids[u]>>
      BY <1>0, <1>5, <2>2 DEF GetBegin
    <3>2. u \in Acknowledged => uuids[u] = e[u].log_index
      BY <1>3 DEF Mapped
    <3> QED
      BY <1>2, <2>1, <3>1, <3>2 DEF ResolveOK
  <2>3. CASE u \notin DOMAIN uuids
    <3>1. u \notin Acknowledged
      BY <1>3, <2>3 DEF Mapped
    <3>2. rpc'[d] = "notfound"
      BY <1>0, <1>5, <2>3 DEF GetBegin
    <3> QED
      BY <2>1, <3>1, <3>2 DEF ResolveOK
  <2> QED
    BY <2>2, <2>3
<1>6. CASE ReadFails(d)
  <2>1. rpc[d] = "idle" /\ rpc'[d] = "failed" /\ UNCHANGED <<query, known>>
    BY <1>0, <1>6 DEF ReadFails
  <2> QED
    BY <1>0, <2>1 DEF ResolveOK
<1>7. CASE ListGet(d) \/ ListDone(d)
  <2>1. rpc'[d] \in {"listing", "listed"}
    BY <1>0, <1>7 DEF ListGet, ListDone
  <2> QED
    BY <2>1 DEF ResolveOK
<1>8. CASE GetEntry(d)
  <2>1. Get(d) /\ rpc[d] = "fetching" /\ UNCHANGED <<query, todo, known>>
    BY <1>8 DEF GetEntry, Get
  <2>2. ASSUME query[d] \in known[d]
        PROVE  /\ query[d] \in Acknowledged
               /\ Head(todo[d]) \in DOMAIN entries
               /\ entries[Head(todo[d])] = e[query[d]]
    BY <1>0, <1>3, <2>1, <2>2 DEF ResolveOK, Stored
  <2>3. \/ rpc'[d] = "found" /\ got'[d] = <<entries[Head(todo[d])]>>
        \/ rpc'[d] = "failed" /\ (ReadFaults \/ Head(todo[d]) \notin DOMAIN entries)
    BY <1>0, <1>8 DEF GetEntry
  <2> QED
    BY <1>2, <2>1, <2>2, <2>3 DEF ResolveOK
<1> QED
  BY <1>1, <1>4, <1>5, <1>6, <1>7, <1>8 DEF Get

-----------------------------------------------------------------------------
\* A listing shows only entries that are served and have the hash it was asked for,
\* whatever GETs of single entries fail.
THEOREM ListingsAreSound == Spec => []GotInv
<1>1. Init => GotInv
  BY DEF Init, GotInv, GotOK, IsListing
<1> QED
  BY <1>1, GotInvStep, OrderInductive, PTL DEF Spec

\* If no GET of a single entry fails, a listing loses nothing it owes on the way.
LEMMA NothingLost == ASSUME ~ReadFaults PROVE Spec => []OwedInv
<1>1. Init => OwedInv
  BY DEF Init, OwedInv, OwedOK, IsListing
<1>2. OrderInv /\ GotInv /\ OwedInv /\ [Next]_vars => OwedInv'
  BY OwedInvStep
<1> QED
  BY <1>1, <1>2, OrderInductive, ListingsAreSound, PTL DEF Spec

\* If no GET of a single entry fails, a listing returns everything that had been
\* acknowledged or shown before it began, however many requests write meanwhile.
THEOREM ListingsAreComplete == ASSUME ~ReadFaults PROVE Spec => []ListingComplete
<1>1. GotInv /\ OwedInv => ListingComplete
  <2> SUFFICES ASSUME GotInv, OwedInv, NEW d \in Readers, rpc[d] = "listed"
               PROVE  /\ known[d] \subseteq {x.uuid : x \in Range(got[d])}
                      /\ \A x \in Range(got[d]) : x.artifact_hash = query[d]
    BY DEF ListingComplete
  <2>1. GotOK(d) /\ OwedOK(d) /\ IsListing(d) /\ todo[d] = <<>>
    BY DEF GotInv, GotOK, OwedInv, IsListing
  <2>2. Range(todo[d]) = {}
    BY <2>1 DEF Range
  <2> QED
    BY <2>1, <2>2 DEF GotOK, OwedOK, PublishedUnder
<1> QED
  BY <1>1, ListingsAreSound, NothingLost, PTL

\* A GET of a uuid that was acknowledged before it is never answered with 404, nor with
\* 500 unless the read itself fails, and what it returns is the entry as it was answered.
THEOREM ReceiptsResolve == Spec => []AckedResolves
<1>1. Init => ResolveInv
  BY DEF Init, ResolveInv, ResolveOK
<1>2. OrderInv /\ ResolveInv /\ [Next]_vars => ResolveInv'
  BY ResolveInvStep
<1>3. ResolveInv => AckedResolves
  BY DEF ResolveInv, ResolveOK, AckedResolves
<1> QED
  BY <1>1, <1>2, <1>3, OrderInductive, PTL DEF Spec

-----------------------------------------------------------------------------
\* Of the entries with numbers m and n, one who has fetched the entries g and has the
\* numbers t to fetch meets that with n first.
Meets(g, t, m, n) ==
    /\ \A i, j \in 1..Len(g) : g[i].log_index = n /\ g[j].log_index = m => i < j
    /\ \A j \in 1..Len(g) : g[j].log_index = m => n \notin Range(t)
    /\ Ahead(t, m, n)

Follows(d, m, n) == Meets(got[d], todo[d], m, n)

\* A listing meets the later of two requests first.
PlaceOK(d) ==
    IsListing(d) =>
        \A r \in Numbered : \A q \in prior[r] :
            e[q].artifact_hash = query[d] /\ e[r].artifact_hash = query[d] =>
                Follows(d, e[q].log_index, e[r].log_index)

PlaceInv == \A d \in Readers : PlaceOK(d)

\* Taking the first number off a list, and keeping its entry, changes no order.
LEMMA TakeKeepsOrder ==
    ASSUME NEW S, NEW g \in Seq(S), NEW x \in S, NEW t \in Seq(Nat), t # <<>>,
           x.log_index = Head(t), NEW m \in Nat, NEW n \in Nat, m # n,
           Meets(g, t, m, n)
    PROVE  Meets(Append(g, x), Tail(t), m, n)
<1> DEFINE h == Append(g, x)
<1>1. /\ Len(g) \in Nat /\ Len(h) = Len(g) + 1 /\ h[Len(g) + 1] = x
      /\ \A i \in 1..Len(g) : h[i] = g[i]
  OBVIOUS
<1>2. /\ 1 \in DOMAIN t /\ t[1] = x.log_index /\ x.log_index \in Range(t)
      /\ Range(Tail(t)) \subseteq Range(t)
  <2>1. 1 \in DOMAIN t /\ Head(t) = t[1]
    OBVIOUS
  <2> QED
    BY <2>1, RangeTail DEF Range
<1> HIDE DEF h
<1>3. ASSUME NEW i \in 1..Len(h), NEW j \in 1..Len(h), h[i].log_index = n, h[j].log_index = m
      PROVE  i < j
  <2>1. CASE i \in 1..Len(g) /\ j \in 1..Len(g)
    BY <1>1, <1>3, <2>1 DEF Meets
  <2>2. CASE i \in 1..Len(g) /\ j = Len(g) + 1
    BY <1>1, <2>2
  <2>3. CASE i = Len(g) + 1
    <3>1. n \in Range(t) /\ j \in 1..Len(g)
      BY <1>1, <1>2, <1>3, <2>3
    <3> QED
      BY <1>1, <1>3, <3>1 DEF Meets
  <2> QED
    BY <1>1, <2>1, <2>2, <2>3
<1>4. ASSUME NEW j \in 1..Len(h), h[j].log_index = m PROVE n \notin Range(Tail(t))
  <2>1. CASE j \in 1..Len(g)
    BY <1>1, <1>2, <1>4, <2>1 DEF Meets
  <2>2. CASE j = Len(g) + 1
    <3>1. t[1] = m
      BY <1>1, <1>2, <1>4, <2>2
    <3>2. \A i \in DOMAIN t : t[i] # n
      BY <1>2, <3>1 DEF Meets, Ahead
    <3> QED
      BY <1>2, <3>2 DEF Range
  <2> QED
    BY <1>1, <2>1, <2>2
<1>5. Ahead(Tail(t), m, n)
  <2> SUFFICES ASSUME NEW i \in DOMAIN Tail(t), NEW j \in DOMAIN Tail(t),
                      Tail(t)[i] = n, Tail(t)[j] = m
               PROVE  i < j
    BY DEF Ahead
  <2>1. /\ i + 1 \in DOMAIN t /\ j + 1 \in DOMAIN t /\ i \in Int /\ j \in Int
        /\ t[i + 1] = n /\ t[j + 1] = m
    <3>1. Len(t) \in Nat /\ Len(t) # 0 /\ DOMAIN t = 1..Len(t)
      OBVIOUS
    <3>2. DOMAIN Tail(t) = 1..(Len(t) - 1)
      OBVIOUS
    <3>3. i \in 1..(Len(t) - 1) /\ j \in 1..(Len(t) - 1)
      BY <3>2
    <3>4. Tail(t)[i] = t[i + 1] /\ Tail(t)[j] = t[j + 1]
      BY <3>1, <3>3
    <3>5. i + 1 \in 1..Len(t) /\ j + 1 \in 1..Len(t) /\ i \in Int /\ j \in Int
      <4> DEFINE last == Len(t)
      <4>1. last \in Nat /\ i \in 1..(last - 1) /\ j \in 1..(last - 1)
        BY <3>1, <3>3
      <4> HIDE DEF last
      <4>2. i + 1 \in 1..last /\ j + 1 \in 1..last /\ i \in Int /\ j \in Int
        BY <4>1
      <4> QED
        BY <4>2 DEF last
    <3> QED
      BY <3>1, <3>4, <3>5
  <2>2. i + 1 < j + 1
    BY <2>1 DEF Meets, Ahead
  <2> QED
    BY <2>1, <2>2
<1> QED
  BY <1>3, <1>4, <1>5 DEF h, Meets

\* The same when its entry cannot be fetched.
LEMMA TailKeepsOrder ==
    ASSUME NEW t \in Seq(Nat), t # <<>>, NEW m, NEW n, Ahead(t, m, n)
    PROVE  Ahead(Tail(t), m, n)
<1> SUFFICES ASSUME NEW i \in DOMAIN Tail(t), NEW j \in DOMAIN Tail(t),
                    Tail(t)[i] = n, Tail(t)[j] = m
             PROVE  i < j
  BY DEF Ahead
<1>1. /\ i + 1 \in DOMAIN t /\ j + 1 \in DOMAIN t /\ i \in Int /\ j \in Int
      /\ t[i + 1] = n /\ t[j + 1] = m
  OBVIOUS
<1>2. i + 1 < j + 1
  BY <1>1 DEF Ahead
<1> QED
  BY <1>1, <1>2

\* The numbers a listing has seen have been given out before.
LEMMA SeenNumbers ==
    ASSUME OrderInv, NEW d \in Readers, GotOK(d), IsListing(d)
    PROVE  /\ \A i \in 1..Len(got[d]) : \E p \in Numbered : got[d][i].log_index = e[p].log_index
           /\ \A n \in Range(todo[d]) : \E p \in Numbered : n = e[p].log_index
<1>1. IndInv /\ ListInv /\ got[d] \in Seq(Entry)
  BY DEF OrderInv, IndInv, TypeOK, ReadersTypeOK
<1>2. ASSUME NEW i \in 1..Len(got[d])
      PROVE  \E p \in Numbered : got[d][i].log_index = e[p].log_index
  <2>1. got[d][i] \in Range(got[d])
    BY <1>1 DEF Range
  <2>2. got[d][i] \in Published
    BY <2>1 DEF GotOK, PublishedUnder
  <2> QED
    BY <1>1, <2>2, PublishedIsOwn
<1>3. ASSUME NEW n \in Range(todo[d])
      PROVE  \E p \in Numbered : n = e[p].log_index
  <2>1. query[d] \in Hashes /\ n \in Range(lists[query[d]])
    BY <1>3 DEF GotOK
  <2>2. ASSUME NEW h \in Hashes, NEW m \in Range(lists[h])
        PROVE  \E p \in Numbered : m = e[p].log_index
    <3>1. PICK p \in Numbered : /\ pc[p] \notin {"idle", "incr", "sign"}
                               /\ e[p].log_index = m /\ e[p].artifact_hash = h
      BY <1>1 DEF ListInv
    <3>2. m = e[p].log_index
      BY <3>1
    <3> QED
      BY <3>2
  <2> QED
    BY <2>1, <2>2
<1> QED
  BY <1>2, <1>3

\* While others write, a listing only learns of new numbers that it has not seen.
LEMMA PlaceWaits ==
    ASSUME OrderInv, [Next]_vars, NEW d \in Readers, GotOK(d), PlaceOK(d),
           query'[d] = query[d], todo'[d] = todo[d], got'[d] = got[d],
           rpc'[d] \in {rpc[d], "crashed"}
    PROVE  PlaceOK(d)'
<1> SUFFICES ASSUME IsListing(d)', NEW r \in Requests, (r \in Numbered)', NEW q \in prior'[r],
                    e'[q].artifact_hash = query[d], e'[r].artifact_hash = query[d]
             PROVE  Follows(d, e[q].log_index, e[r].log_index)'
  BY DEF PlaceOK, Numbered
<1>0. IndInv /\ IsListing(d) /\ e[r] # NoEntry /\ ~Accept(r) /\ counter \in Nat
  <2>1. IndInv /\ counter \in Nat
    BY DEF OrderInv, IndInv, TypeOK, RedisTypeOK
  <2>2. r \in Numbered \/ Incr(r)
    BY <2>1, NumberStep
  <2>3. e[r] # NoEntry
    BY <2>1, <2>2, NoEntryAssumption DEF Numbered, Incr, IndInv, HandlerInv, HandlerOK
  <2> QED
    BY <2>1, <2>3 DEF Accept, IndInv, HandlerInv, HandlerOK, IsListing
<1>1. q \in prior[r] /\ q \in Acknowledged
  BY <1>0, PriorStep DEF OrderInv, PriorInv
<1>2. q \in Numbered /\ e'[q] = e[q]
  BY <1>0, <1>1, AckNumbered, PastStays DEF Acknowledged
<1>3. e'[r].artifact_hash = e[r].artifact_hash
  BY <1>0, FieldsStay
<1>4. CASE r \in Numbered /\ e'[r].log_index = e[r].log_index
  <2>1. Follows(d, e[q].log_index, e[r].log_index)
    BY <1>0, <1>1, <1>2, <1>3, <1>4 DEF PlaceOK
  <2> QED
    BY <1>2, <1>4, <2>1 DEF Follows, Meets, Ahead
<1>5. CASE e'[r].log_index = counter
  <2>1. \A p \in Numbered : e[p].log_index # counter
    BY <1>0 DEF IndInv, CounterInv
  <2>2. /\ \A i \in 1..Len(got[d]) : got[d][i].log_index # counter
        /\ counter \notin Range(todo[d])
    BY <1>0, <2>1, SeenNumbers
  <2> QED
    BY <1>5, <2>2 DEF Follows, Meets, Ahead, Range
<1> QED
  BY <1>0, <1>4, <1>5, NumberStep

\* A listing starts with the list as it is, in which the later request is ahead, and
\* takes it as it finds it.
LEMMA PlaceInvStep ==
    ASSUME OrderInv, GotInv, PlaceInv, [Next]_vars
    PROVE  PlaceInv'
<1> SUFFICES ASSUME NEW d \in Readers PROVE PlaceOK(d)'
  BY DEF PlaceInv
<1>0. IndInv /\ ReadersTypeOK /\ GotOK(d) /\ PlaceOK(d)
  BY DEF OrderInv, IndInv, TypeOK, GotInv, PlaceInv
<1>1. CASE ~Get(d)
  BY <1>0, <1>1, ReaderStep, PlaceWaits
<1>2. ASSUME Get(d)
      PROVE  e' = e /\ prior' = prior /\ Numbered' = Numbered
  BY <1>2, ReadOnly DEF handlers, Numbered
<1>3. ASSUME NEW h \in Hashes, ListBegin(d, h) PROVE PlaceOK(d)'
  <2>1. rpc[d] = "idle" /\ query'[d] = h /\ got'[d] = <<>> /\ Get(d)
    BY <1>0, <1>3 DEF ListBegin, GotOK, ReadersTypeOK, Get
  <2>2. CASE rpc'[d] = "listing" /\ todo'[d] = lists[h]
    <3>1. ASSUME NEW r \in Numbered, NEW q \in prior[r],
                 e[q].artifact_hash = h, e[r].artifact_hash = h
          PROVE  Ahead(lists[h], e[q].log_index, e[r].log_index)
      BY <3>1 DEF OrderInv, RealTimeOrder, Ahead
    <3>2. Len(got'[d]) = 0
      BY <2>1
    <3> QED
      BY <1>2, <2>1, <2>2, <3>1, <3>2 DEF PlaceOK, Follows, Meets, Ahead
  <2>3. CASE rpc'[d] = "rejected"
    BY <2>3 DEF PlaceOK, IsListing
  <2> QED
    BY <1>0, <1>3, <2>2, <2>3 DEF ListBegin, ReadersTypeOK
<1>4. CASE ReadFails(d) \/ GetEntry(d) \/ \E u \in Requests : GetBegin(d, u)
  <2>1. rpc'[d] \in {"failed", "found", "fetching", "notfound"}
    BY <1>0, <1>4 DEF ReadFails, GetEntry, GetBegin, ReadersTypeOK
  <2> QED
    BY <2>1 DEF PlaceOK, IsListing
<1>5. CASE ListDone(d)
  <2>1. Get(d) /\ UNCHANGED <<query, todo, got>> /\ rpc[d] = "listing"
    BY <1>5 DEF ListDone, Get
  <2>2. ASSUME NEW r \in Numbered, NEW q \in prior[r],
               e[q].artifact_hash = query[d], e[r].artifact_hash = query[d]
        PROVE  Follows(d, e[q].log_index, e[r].log_index)
    BY <1>0, <2>1, <2>2 DEF PlaceOK, IsListing
  <2> QED
    BY <1>2, <2>1, <2>2 DEF PlaceOK, Follows, Meets, Ahead
<1>6. CASE ListGet(d)
  <2> DEFINE k == Head(todo[d])
  <2>1. /\ Get(d) /\ UNCHANGED query /\ rpc[d] = "listing"
        /\ todo[d] # <<>> /\ todo[d] \in Seq(Nat) /\ todo'[d] = Tail(todo[d])
        /\ got[d] \in Seq(Entry)
    BY <1>0, <1>6 DEF ListGet, Get, ReadersTypeOK
  <2>2. ASSUME NEW r \in Numbered, NEW q \in prior[r],
               e[q].artifact_hash = query[d], e[r].artifact_hash = query[d]
        PROVE  Follows(d, e[q].log_index, e[r].log_index)'
    <3> DEFINE m == e[q].log_index
               n == e[r].log_index
    <3>1. Follows(d, m, n)
      BY <1>0, <2>1, <2>2 DEF PlaceOK, IsListing
    <3>2. m \in Nat /\ n \in Nat /\ m # n /\ e'[q].log_index = m /\ e'[r].log_index = n
      <4>1. q \in Numbered /\ m < n
        BY <1>0, <2>2, AckNumbered DEF OrderInv, PriorInv, RealTimeOrder, Numbered
      <4>2. \A p \in Numbered : e[p].log_index \in Nat
        BY <1>0 DEF Numbered, IndInv, TypeOK, HandlersTypeOK, Entry
      <4> QED
        BY <1>2, <2>1, <4>1, <4>2
    <3>3. CASE k \in DOMAIN entries /\ got'[d] = Append(got[d], entries[k])
      <4>1. entries[k] \in Entry /\ entries[k].log_index = k
        BY <1>0, <3>3 DEF IndInv, TypeOK, RedisTypeOK, StoreInv
      <4> HIDE DEF m, n
      <4>2. Meets(Append(got[d], entries[k]), Tail(todo[d]), m, n)
        BY <2>1, <3>1, <3>2, <4>1, TakeKeepsOrder DEF Follows
      <4> QED
        BY <2>1, <3>2, <3>3, <4>2 DEF Follows, Meets, Ahead
    <3>4. CASE UNCHANGED got
      <4>1. Ahead(Tail(todo[d]), m, n) /\ Range(Tail(todo[d])) \subseteq Range(todo[d])
        BY <2>1, <3>1, TailKeepsOrder, RangeTail DEF Follows, Meets
      <4> HIDE DEF m, n
      <4> QED
        BY <2>1, <3>1, <3>2, <3>4, <4>1 DEF Follows, Meets, Ahead
    <3> QED
      BY <1>0, <1>6, <3>3, <3>4 DEF ListGet, ReadersTypeOK
  <2> QED
    BY <1>2, <2>1, <2>2 DEF PlaceOK
<1> QED
  BY <1>1, <1>3, <1>4, <1>5, <1>6 DEF Get

-----------------------------------------------------------------------------
\* The extension drops nothing that the server has: every Entry has the fields it asks for.
LEMMA EntriesAreValid ==
    ASSUME NEW list \in Seq(Entry), \A x \in Range(list) : x.log_index \in Nat
    PROVE  Filter(list, {x \in ToSet(list) : IsValidEntry(x)}) = list
<1>1. Range(list) \subseteq Entry /\ Range(list) = ToSet(list)
  BY DEF Range, ToSet
<1>2. \A x \in Range(list) : IsValidEntry(x)
  BY <1>1 DEF IsValidEntry, Entry
<1> DEFINE P == {x \in ToSet(list) : IsValidEntry(x)}
<1>3. Range(list) \subseteq P
  BY <1>1, <1>2
<1> HIDE DEF P
<1>4. Filter(list, P) = list
  BY <1>3, FilterLeaves
<1> QED
  BY <1>4 DEF P

\* What validateEntries passes on of a listing.
Fetched(d) == Filter(got[d], {x \in ToSet(got[d]) : IsValidEntry(x)})

\* What a listing leads to, whoever is trusted: the entries it has fetched are served entries,
\* and of those of one signer and category the newest is kept.
LEMMA NewestIsKept ==
    ASSUME OrderInv, NEW d \in Readers, GotOK(d), rpc[d] = "listed", NEW T
    PROVE  /\ got[d] \in Seq(Entry) /\ Fetched(d) = got[d]
           /\ \A i \in 1..Len(got[d]) : got[d][i] \in PublishedUnder(query[d])
           /\ NewestKept(got[d], T, Len(got[d]), KeepLatest(Fetched(d), T))
<1>1. got[d] \in Seq(Entry) /\ IndInv
  BY DEF OrderInv, IndInv, TypeOK, ReadersTypeOK
<1>2. \A i \in 1..Len(got[d]) : got[d][i] \in PublishedUnder(query[d])
  BY <1>1 DEF GotOK, IsListing, Range
<1>3. \A x \in Range(got[d]) : x.log_index \in Nat
  <2>1. \A x \in Published : x.log_index \in Nat
    BY <1>1, PublishedFound DEF IndInv, TypeOK, RedisTypeOK
  <2> QED
    BY <1>1, <1>2, <2>1 DEF PublishedUnder, Range
<1>4. Fetched(d) = got[d]
  BY <1>1, <1>3, EntriesAreValid DEF Fetched
<1>5. \A x \in Entry : x.server_timestamp \in Int
  BY DEF Entry
<1>6. NewestKept(got[d], T, Len(got[d]), KeepLatest(got[d], T))
  BY <1>1, <1>5, KeepLatestKeepsNewest
<1> QED
  BY <1>1, <1>2, <1>4, <1>6

\* An entry that is kept is one of those that have been fetched, and newer than its like.
LEMMA KeptIsFetched ==
    ASSUME OrderInv, NEW d \in Readers, GotOK(d), rpc[d] = "listed", NEW T,
           NEW x \in ToSet(KeepLatest(Fetched(d), T))
    PROVE  \E m \in 1..Len(got[d]) :
              /\ x = got[d][m] /\ got[d][m] \in PublishedUnder(query[d])
              /\ NoneNewer(got[d], Len(got[d]), m)
<1> DEFINE kept == KeepLatest(Fetched(d), T)
<1>1. /\ \A i \in 1..Len(got[d]) : got[d][i] \in PublishedUnder(query[d])
      /\ NewestKept(got[d], T, Len(got[d]), kept)
  BY NewestIsKept
<1> HIDE DEF kept
<1>2. kept \in Seq(Range(got[d]))
  BY <1>1 DEF NewestKept
<1>3. PICK i \in 1..Len(kept) : x = kept[i]
  BY <1>2 DEF ToSet, kept
<1> QED
  BY <1>1, <1>3 DEF NewestKept

\* What LastWriteWins says, of whoever is trusted.
LaterIsKept(T) ==
    \A d \in Readers : rpc[d] = "listed" =>
        \A x \in ToSet(KeepLatest(Fetched(d), T)) : \A r \in known[d] :
            Key(e[r]) = Key(x) => x.uuid \notin prior[r]

\* What a listing owes and has fetched is the Entry of its request.
LEMMA OwedIsFetched ==
    ASSUME IndInv, NEW d \in Readers, GotOK(d), OwedOK(d), rpc[d] = "listed",
           got[d] \in Seq(Entry), NEW r \in known[d]
    PROVE  \E k \in 1..Len(got[d]) :
              got[d][k] = e[r] /\ r \in Numbered /\ e[r].artifact_hash = query[d]
<1>1. IsListing(d) /\ Range(todo[d]) = {}
  BY DEF IsListing, GotOK, Range
<1>2. PICK y \in PublishedUnder(query[d]) : y.uuid = r /\ y \in Range(got[d])
  BY <1>1 DEF OwedOK
<1>3. y = e[r] /\ r \in Numbered /\ y.artifact_hash = query[d]
  BY <1>2, PublishedIsOwn DEF PublishedUnder
<1> QED
  BY <1>2, <1>3 DEF Range

\* A listing that has lost nothing keeps the later word of a signer.
LEMMA LastWins ==
    ASSUME OrderInv, GotInv, OwedInv, PlaceInv, NEW T PROVE LaterIsKept(T)
<1> SUFFICES ASSUME NEW d \in Readers, rpc[d] = "listed", NEW x \in ToSet(KeepLatest(Fetched(d), T)),
                    NEW r \in known[d], Key(e[r]) = Key(x), x.uuid \in prior[r]
             PROVE  FALSE
  BY DEF LaterIsKept
<1> DEFINE q == x.uuid
           h == query[d]
<1>1. IndInv /\ GotOK(d) /\ OwedOK(d) /\ PlaceOK(d) /\ IsListing(d)
  BY DEF OrderInv, GotInv, OwedInv, PlaceInv, IsListing
<1>2. got[d] \in Seq(Entry)
  BY <1>1, NewestIsKept
<1>3. PICK m \in 1..Len(got[d]) :
        /\ x = got[d][m] /\ got[d][m] \in PublishedUnder(h) /\ NoneNewer(got[d], Len(got[d]), m)
  BY <1>1, KeptIsFetched
<1>4. PICK k \in 1..Len(got[d]) : got[d][k] = e[r] /\ r \in Numbered /\ e[r].artifact_hash = h
  BY <1>1, <1>2, OwedIsFetched
<1>5. x = e[q] /\ q \in Numbered /\ e[q].artifact_hash = h
  BY <1>1, <1>3, PublishedIsOwn DEF PublishedUnder
<1>6. k < m
  <2>1. Follows(d, e[q].log_index, e[r].log_index)
    BY <1>1, <1>4, <1>5 DEF PlaceOK
  <2> QED
    BY <1>3, <1>4, <1>5, <2>1 DEF Follows, Meets
<1>7. e[q].server_timestamp <= e[r].server_timestamp
  BY <1>4 DEF OrderInv, RealTimeOrder
<1>8. /\ e[q].server_timestamp \in Nat /\ e[r].server_timestamp \in Nat
      /\ Len(got[d]) \in Nat /\ k \in Nat /\ m \in Nat
  <2>1. e[q] \in Entry /\ e[r] \in Entry
    BY <1>2, <1>3, <1>4, <1>5
  <2> QED
    BY <1>2, <2>1 DEF Entry
<1>9. \/ e[r].server_timestamp < e[q].server_timestamp
      \/ e[r].server_timestamp = e[q].server_timestamp /\ m <= k
  BY <1>3, <1>4, <1>5 DEF NoneNewer
<1> QED
  BY <1>6, <1>7, <1>8, <1>9

\* The invariants of the reads together.
LEMMA PlacesKept == Spec => []PlaceInv
<1>1. Init => PlaceInv
  BY DEF Init, PlaceInv, PlaceOK, IsListing
<1>2. OrderInv /\ GotInv /\ PlaceInv /\ [Next]_vars => PlaceInv'
  BY PlaceInvStep
<1> QED
  BY <1>1, <1>2, OrderInductive, ListingsAreSound, PTL DEF Spec

\* A later word of a signer, due in a listing, is never hidden by an earlier one, whatever
\* has been retried and even within one second (store.go:163, service-worker.js:238), if no
\* GET of a single entry fails.
THEOREM TheLastWriteWins == ASSUME ~ReadFaults PROVE Spec => []LastWriteWins
<1>1. OrderInv /\ GotInv /\ OwedInv /\ PlaceInv => LastWriteWins
  <2> SUFFICES ASSUME OrderInv, GotInv, OwedInv, PlaceInv PROVE LastWriteWins
    OBVIOUS
  <2>1. LaterIsKept(Trusted)
    BY LastWins
  <2> QED
    BY <2>1 DEF LaterIsKept, LastWriteWins, Selected, Fetched
<1> QED
  BY <1>1, OrderInductive, ListingsAreSound, NothingLost, PlacesKept, PTL

\* The request r has the last word of its signer in its category: all others in it had been
\* acknowledged before.
LastWord(r) ==
    \A q \in Requests \ {r} : q \in prior[r] \/ e[q] = NoEntry \/ Key(e[q]) # Key(e[r])

\* Of that signer in that category nothing else is kept.
LEMMA LastWordAlone ==
    ASSUME OrderInv, GotInv, NEW T, LaterIsKept(T), NEW d \in Readers, rpc[d] = "listed",
           NEW r \in known[d], LastWord(r),
           NEW x \in ToSet(KeepLatest(Fetched(d), T)), Key(x) = Key(e[r])
    PROVE  x = e[r]
<1>1. IndInv /\ GotOK(d)
  BY DEF OrderInv, GotInv
<1>2. x \in Published
  BY <1>1, KeptIsFetched DEF PublishedUnder
<1>3. x.uuid \in Numbered /\ x = e[x.uuid]
  BY <1>1, <1>2, PublishedIsOwn
<1>4. x.uuid \in Requests /\ e[x.uuid] # NoEntry
  BY <1>3 DEF Numbered
<1>5. x.uuid \notin prior[r]
  BY DEF LaterIsKept
<1>6. x.uuid = r
  BY <1>3, <1>4, <1>5 DEF LastWord
<1> QED
  BY <1>3, <1>6

\* What stands in a sequence is one of its elements.
LEMMA ElementIn == ASSUME NEW S, NEW s \in Seq(S), NEW i \in 1..Len(s) PROVE s[i] \in ToSet(s)
BY DEF ToSet

\* It is kept if its signer is trusted.
LEMMA LastWordKept ==
    ASSUME OrderInv, GotInv, OwedInv, NEW T, LaterIsKept(T), NEW d \in Readers, rpc[d] = "listed",
           NEW r \in known[d], LastWord(r), e[r].signer_keyid \in T, e[r].category # ""
    PROVE  e[r] \in ToSet(KeepLatest(Fetched(d), T))
<1> DEFINE kept == KeepLatest(Fetched(d), T)
<1>1. IndInv /\ GotOK(d) /\ OwedOK(d)
  BY DEF OrderInv, GotInv, OwedInv
<1>2. got[d] \in Seq(Entry) /\ NewestKept(got[d], T, Len(got[d]), kept)
  BY <1>1, NewestIsKept
<1>3. PICK k \in 1..Len(got[d]) : got[d][k] = e[r]
  BY <1>1, <1>2, OwedIsFetched
<1>4. Eligible(T, got[d][k])
  BY <1>3 DEF Eligible
<1> HIDE DEF kept
<1>5. PICK i \in 1..Len(kept) : Key(kept[i]) = Key(got[d][k])
  BY <1>2, <1>4 DEF NewestKept
<1>6. kept[i] \in ToSet(kept)
  <2>1. kept \in Seq(Range(got[d]))
    BY <1>2 DEF NewestKept
  <2> QED
    BY <2>1, ElementIn
<1>7. kept[i] = e[r]
  BY <1>3, <1>5, <1>6, LastWordAlone DEF kept
<1> QED
  BY <1>6, <1>7 DEF kept

\* Nothing that a signer has revoked is claimed by what is kept of the signer.
LEMMA RevokedIsSilent ==
    ASSUME OrderInv, GotInv, NEW T, LaterIsKept(T), NEW d \in Readers, rpc[d] = "listed",
           NEW r \in known[d], e[r].verdict = "revoke", LastWord(r),
           NEW S, NEW v \in Seq(S), ToSet(v) \subseteq ToSet(KeepLatest(Fetched(d), T)),
           NEW x \in ToSet(Claims(v, e[r].category))
    PROVE  x.signer_keyid # e[r].signer_keyid
<1> DEFINE P == {y \in ToSet(v) : y.category = e[r].category /\ y.verdict # "revoke"}
<1>1. x \in Range(Filter(v, P))
  BY DEF Claims, ToSet, Range
<1>2. \A y \in P : y \in ToSet(v) /\ y.category = e[r].category /\ y.verdict # "revoke"
  OBVIOUS
<1> HIDE DEF P
<1>3. x \in P
  BY <1>1, FilterLeaves
<1>4. x \in ToSet(KeepLatest(Fetched(d), T)) /\ x.category = e[r].category /\ x # e[r]
  BY <1>2, <1>3
<1>5. Key(x) # Key(e[r])
  BY <1>4, LastWordAlone
<1> QED
  BY <1>4, <1>5 DEF Key

\* A claim that its signer has revoked, and not renewed, shows in no badge of a lookup that
\* came after the revocation was acknowledged, if no GET of a single entry fails.
THEOREM RevocationsStick == ASSUME ~ReadFaults PROVE Spec => []RevocationSticks
<1>1. OrderInv /\ GotInv /\ OwedInv /\ PlaceInv => RevocationSticks
  <2> SUFFICES ASSUME OrderInv, GotInv, OwedInv, PlaceInv,
                      NEW d \in Readers, rpc[d] = "listed", NEW r \in known[d],
                      e[r].verdict = "revoke", LastWord(r),
                      NEW x \in ToSet(Claims(Selected(d), e[r].category))
               PROVE  x.signer_keyid # e[r].signer_keyid
    BY DEF RevocationSticks, LastWord
  <2>1. LaterIsKept(Trusted)
    BY LastWins
  <2>2. GotOK(d) /\ Selected(d) = KeepLatest(Fetched(d), Trusted)
    BY DEF GotInv, Selected, Fetched
  <2>3. Selected(d) \in Seq(Range(got[d]))
    BY <2>2, NewestIsKept DEF NewestKept
  <2> QED
    BY <2>1, <2>2, <2>3, RevokedIsSilent
<1> QED
  BY <1>1, OrderInductive, ListingsAreSound, NothingLost, PlacesKept, PTL

\* Nothing is stored before the server's signature covers it.
SignedInv == \A n \in DOMAIN entries : entries[n].server_signature = Payload(entries[n])

\* It holds in every state.
LEMMA StoredSigned == Spec => []SignedInv
<1>1. Init => SignedInv
  BY DEF Init, SignedInv
<1>2. OrderInv /\ SignedInv /\ [Next]_vars => SignedInv'
  <2> SUFFICES ASSUME OrderInv, SignedInv, [Next]_vars PROVE SignedInv'
    OBVIOUS
  <2>1. IndInv
    BY DEF OrderInv
  <2>2. ASSUME NEW r \in Requests, SetEntry(r) PROVE SignedInv'
    <3>1. e[r].server_signature = Payload(e[r])
      BY <2>1, <2>2 DEF SetEntry, NextCommand, IndInv, HandlerInv, HandlerOK
    <3>2. DOMAIN entries' = DOMAIN entries \union {e[r].log_index}
          /\ \A n \in DOMAIN entries' : entries'[n] = IF n = e[r].log_index THEN e[r] ELSE entries[n]
      BY <2>2 DEF SetEntry, Put
    <3> QED
      BY <3>1, <3>2 DEF SignedInv, Payload
  <2>3. CASE UNCHANGED entries
    BY <2>3 DEF SignedInv, Payload
  <2>4. ASSUME NEW r \in Requests, Post(r), ~SetEntry(r) PROVE UNCHANGED entries
    BY <2>4 DEF Post, RedisStep, Reject, NewUUIDFails, Accept, Incr, IncrLost, Sign, SignFails,
                SetUUID, PushIndex, CommandRefused, PipelineLost, PipelineRefused, PipelineDone,
                Respond, NextCommand, redis
  <2>5. ASSUME NEW r \in Requests, Worker(r) PROVE UNCHANGED entries
    BY <2>5 DEF Worker, QueueLeafOk, QueueLeafError, QueueLeafTimeout, Audited, redis
  <2>6. CASE Crash \/ Tick \/ Quiescent \/ UNCHANGED vars
    BY <2>3, <2>6 DEF Crash, Tick, Quiescent, vars, redis
  <2>7. ASSUME NEW d \in Readers, Get(d) PROVE UNCHANGED entries
    BY <2>7, ReadOnly DEF redis
  <2> QED
    BY <2>2, <2>3, <2>4, <2>5, <2>6, <2>7 DEF Next
<1> QED
  BY <1>1, <1>2, OrderInductive, PTL DEF Spec

\* Whatever the extension selects is covered by the server's signature, even if GETs fail.
THEOREM SelectedAlwaysVerifies == Spec => []SelectedVerifies
<1>1. OrderInv /\ GotInv /\ SignedInv => SelectedVerifies
  <2> SUFFICES ASSUME OrderInv, GotInv, SignedInv, NEW d \in Readers, rpc[d] = "listed",
                      NEW x \in ToSet(Selected(d))
               PROVE  x.server_signature = Payload(x)
    BY DEF SelectedVerifies
  <2>1. IndInv /\ GotOK(d)
    BY DEF OrderInv, GotInv
  <2>2. PICK m \in 1..Len(got[d]) : x = got[d][m] /\ got[d][m] \in PublishedUnder(query[d])
    <3>1. x \in ToSet(KeepLatest(Fetched(d), Trusted))
      BY DEF Selected, Fetched
    <3> QED
      BY <2>1, <3>1, KeptIsFetched
  <2>3. x \in Published
    BY <2>2 DEF PublishedUnder
  <2>4. x.log_index \in DOMAIN entries /\ entries[x.log_index] = x
    BY <2>1, <2>3, PublishedFound
  <2> QED
    BY <2>4 DEF SignedInv
<1> QED
  BY <1>1, OrderInductive, ListingsAreSound, StoredSigned, PTL

-----------------------------------------------------------------------------
\* Whatever an Entry is in, it is a category of the server's.
CategoryInv == \A r \in Requests : e[r] # NoEntry => e[r].category \in Categories

\* So it stays, as only Accept sets it, and not without validation.
LEMMA CategoriesKept == Spec => []CategoryInv
<1>1. Init => CategoryInv
  BY DEF Init, CategoryInv
<1>2. OrderInv /\ CategoryInv /\ [Next]_vars => CategoryInv'
  <2> SUFFICES ASSUME OrderInv, CategoryInv, [Next]_vars, NEW r \in Requests, e'[r] # NoEntry
               PROVE  e'[r].category \in Categories
    BY DEF CategoryInv
  <2>1. IndInv
    BY DEF OrderInv
  <2>2. CASE Accept(r)
    <3>1. PICK b \in Bodies : Valid(b) /\ e' = [e EXCEPT ![r] = NewEntry(r, b)]
      BY <2>2 DEF Accept
    <3>2. e'[r] = NewEntry(r, b)
      BY <2>1, <3>1 DEF IndInv, TypeOK, HandlersTypeOK
    <3>3. b.category \in Categories
      BY <3>1 DEF Valid, AllowedCategoryVerdicts, Categories
    <3> QED
      BY <3>2, <3>3 DEF NewEntry
  <2>3. CASE ~Accept(r)
    <3>1. e'[r] = e[r] \/ pc[r] \in {"incr", "sign"}
      BY <2>1, <2>3, EntryStep
    <3>2. pc[r] \in {"incr", "sign"} => e[r] # NoEntry
      BY <2>1, NoEntryAssumption DEF IndInv, HandlerInv, HandlerOK
    <3>3. e[r] # NoEntry
      BY <3>1, <3>2
    <3>4. e[r].category \in Categories
      BY <3>3 DEF CategoryInv
    <3> QED
      BY <2>1, <3>3, <3>4, FieldsStay
  <2> QED
    BY <2>2, <2>3
<1> QED
  BY <1>1, <1>2, OrderInductive, PTL DEF Spec

\* Whatever keys the user has and trusts, and whatever else a lookup meets: if a signer's last word in
\* a category is a revocation that was acknowledged before a lookup, nobody is shown a claim of
\* that signer in it.
RevokedShowsNowhere ==
    \A keyring, env : \A d \in Readers : rpc[d] = "listed" =>
        \A r \in known[d] : e[r].verdict = "revoke" /\ LastWord(r) =>
            \A x \in ToSet(Claims(VerifiedEntries(Fetched(d), keyring, env), e[r].category)) :
                x.signer_keyid # e[r].signer_keyid

(* From the POST of a revocation to the badges of everybody: through the server's retries and      *)
(* crashes, Redis, a listing that others write to, the choice of the latest entries, and what the    *)
(* host makes of keys and signatures (store.go:74, service-worker.js:225-368, main.go:51-155),        *)
(* if no GET of a single entry fails.                                                                 *)
THEOREM RevokedNeverShows == ASSUME ~ReadFaults PROVE Spec => []RevokedShowsNowhere
<1>1. OrderInv /\ GotInv /\ OwedInv /\ PlaceInv => RevokedShowsNowhere
  <2> SUFFICES ASSUME OrderInv, GotInv, OwedInv, PlaceInv, NEW keyring, NEW env,
                      NEW d \in Readers, rpc[d] = "listed", NEW r \in known[d],
                      e[r].verdict = "revoke", LastWord(r),
                      NEW x \in ToSet(Claims(VerifiedEntries(Fetched(d), keyring, env), e[r].category))
               PROVE  x.signer_keyid # e[r].signer_keyid
    BY DEF RevokedShowsNowhere
  <2> DEFINE T == TrustedFingerprints(keyring, env)
             v == VerifiedEntries(Fetched(d), keyring, env)
  <2>1. LaterIsKept(T)
    BY LastWins
  <2>2. GotOK(d)
    BY DEF GotInv
  <2>3. Fetched(d) \in Seq(Entry)
    BY <2>2, NewestIsKept
  <2>4. v \in Seq(Entry) /\ \A y : y \in ToSet(v) => y \in ToSet(KeepLatest(Fetched(d), T))
    BY <2>3, CountedAre
  <2>5. ToSet(v) \subseteq ToSet(KeepLatest(Fetched(d), T))
    BY <2>4
  <2> HIDE DEF T, v
  <2> QED
    BY <2>1, <2>4, <2>5, RevokedIsSilent DEF v
<1> QED
  BY <1>1, OrderInductive, ListingsAreSound, NothingLost, PlacesKept, PTL

\* Whatever else a keyring has and whatever else fails: if a signer's last word in a category was
\* acknowledged before a lookup of somebody who trusts the signer, and is older than all revocations
\* on the keys of signer and log, which have made its two signatures, and gpg runs when it is asked
\* about them, and all that is kept can be encoded (service-worker.js:269 and 287) and "verify"
\* answers at all, then it counts, and if it claims something the category has a badge.
LastWordCounts ==
    \A keyring, env : Keyring(keyring) =>
        \A d \in Readers : rpc[d] = "listed" =>
            \A r \in known[d] :
                /\ LastWord(r) /\ SoundEntry(env, e[r])
                /\ Answerable(KeepLatest(Fetched(d), TrustedFingerprints(keyring, env)), env)
                /\ LogKey \in DOMAIN keyring /\ e[r].signer_keyid \in TrustedKeys(keyring, env)
                /\ \A k \in {LogKey, e[r].signer_keyid} : \A i \in 1..Len(keyring[k].records) :
                      keyring[k].records[i].type = "rev" =>
                          e[r].server_timestamp < keyring[k].records[i].at
                => /\ e[r] \in ToSet(VerifiedEntries(Fetched(d), keyring, env))
                   /\ e[r].verdict # "revoke" =>
                         e[r].category \in DOMAIN Shown(Fetched(d), keyring, env)

\* A claim among those that count gives its category a badge.
LEMMA ClaimShows ==
    ASSUME NEW S, NEW v \in Seq(S), NEW x \in ToSet(v), x.category \in Categories, x.verdict # "revoke"
    PROVE  x.category \in DOMAIN Aggregate(v)
<1> DEFINE P == {y \in ToSet(v) : y.category = x.category /\ y.verdict # "revoke"}
           claims == Claims(v, x.category)
<1>1. claims = Filter(v, P)
  BY DEF Claims
<1>2. x \in P /\ x \in Range(v)
  BY DEF ToSet, Range
<1> HIDE DEF P, claims
<1>3. x \in Range(claims)
  BY <1>1, <1>2, FilterLeaves
<1>4. claims # <<>>
  BY <1>3 DEF Range
<1> QED
  BY <1>4 DEF Aggregate, claims

(* From the POST of an attestation to the badges of those who trust its signer, through all that    *)
(* RevokedNeverShows names: the last word of a signer counts, if no GET of a single entry fails, and     *)
(* under the conditions that LastWordCounts states: an entry that cannot be encoded, of anybody who is    *)
(* trusted or in their name, keeps it from counting (service-worker.js:269, 287 and 370).                  *)
THEOREM LastWordAlwaysCounts == ASSUME ~ReadFaults PROVE Spec => []LastWordCounts
<1>1. OrderInv /\ GotInv /\ OwedInv /\ PlaceInv /\ CategoryInv => LastWordCounts
  <2> SUFFICES ASSUME OrderInv, GotInv, OwedInv, PlaceInv, CategoryInv, NEW keyring, NEW env, Keyring(keyring),
                      NEW d \in Readers, rpc[d] = "listed", NEW r \in known[d],
                      LastWord(r), SoundEntry(env, e[r]),
                      Answerable(KeepLatest(Fetched(d), TrustedFingerprints(keyring, env)), env),
                      LogKey \in DOMAIN keyring, e[r].signer_keyid \in TrustedKeys(keyring, env),
                      \A k \in {LogKey, e[r].signer_keyid} : \A i \in 1..Len(keyring[k].records) :
                          keyring[k].records[i].type = "rev" =>
                              e[r].server_timestamp < keyring[k].records[i].at
               PROVE  /\ e[r] \in ToSet(VerifiedEntries(Fetched(d), keyring, env))
                      /\ e[r].verdict # "revoke" => e[r].category \in DOMAIN Shown(Fetched(d), keyring, env)
    BY DEF LastWordCounts
  <2> DEFINE T == TrustedFingerprints(keyring, env)
             v == VerifiedEntries(Fetched(d), keyring, env)
  <2>1. LaterIsKept(T)
    BY LastWins
  <2>2. GotOK(d) /\ OwedOK(d) /\ IndInv
    BY DEF GotInv, OwedInv, OrderInv
  <2>3. got[d] \in Seq(Entry) /\ Fetched(d) \in Seq(Entry)
    BY <2>2, NewestIsKept
  <2>4. e[r].category \in Categories
    <3>1. r \in Numbered
      BY <2>2, <2>3, OwedIsFetched
    <3> QED
      BY <3>1 DEF CategoryInv, Numbered
  <2>5. T = TrustedKeys(keyring, env)
    BY TrustedAreUsable DEF Keyring
  <2>6. e[r].signer_keyid \in T /\ e[r].category # ""
    BY <2>4, <2>5 DEF Categories
  <2>7. e[r] \in ToSet(KeepLatest(Fetched(d), T))
    <3> HIDE DEF T
    <3> QED
      BY <2>1, <2>6, LastWordKept
  <2>8. \A x \in Entry : x.server_timestamp \in Int
    BY DEF Entry
  <2>9. e[r] \in ToSet(v)
    BY <2>3, <2>7, <2>8, EarlierCountsOnAnyKeyring
  <2>10. v \in Seq(Entry)
    BY <2>3, CountedAre
  <2> HIDE DEF v
  <2>11. e[r].verdict # "revoke" => e[r].category \in DOMAIN Aggregate(v)
    BY <2>4, <2>9, <2>10, ClaimShows
  <2> QED
    BY <2>9, <2>11 DEF v, Shown
<1> QED
  BY <1>1, OrderInductive, ListingsAreSound, NothingLost, PlacesKept, CategoriesKept, PTL
=============================================================================
