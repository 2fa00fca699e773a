---------------------------- MODULE VerdictLookup ----------------------------
(* How a page comes by its verdicts: handleGetVerdicts and handleSign in             *)
(* extension/background/service-worker.js with the caches and the shared promises   *)
(* they use, and processSingleImage and the end of the attest dialog in              *)
(* extension/content/content.js that call them.                                     *)
(*                                                                                 *)
(* The service worker is single-threaded, but every await lets other messages in: a  *)
(* step runs from one await to the next.  A request to the log has two steps, the    *)
(* log's and the arrival of its answer.  Time passes in ticks; a moment is kept as    *)
(* its age.  What a log says about an image is abstracted to how many attestations    *)
(* it holds and whether the last one claims something (VerdictSelection has the rest). *)
(* Definitions whose names end in Mutant are no part of the model: each is the one     *)
(* after it with a plausible bug, to show that a property notices it.                  *)
EXTENDS Integers, Sequences, SequencesExt

CONSTANTS
    Pages, Signers,       \* content scripts, and those in which the user attests
    Urls, UrlOf,          \* image addresses, and the one each page shows
    Images, ImageOf,      \* image contents, and what each address leads to
    Logs, DefaultLog,     \* log servers
    TtlOk, TtlNull,       \* VERDICT_TTL_OK, VERDICT_TTL_NULL, in ticks
    TtlTrust, TtlKey,     \* how long trustedKeysCache and serverKeyCache are good
    CacheMax,             \* VERDICT_CACHE_MAX
    MaxLookup,            \* ticks a lookup may take
    MaxAge,               \* ages beyond this one are not told apart
    MaxEntries,           \* attestations a log may hold of an image
    Environment           \* what may happen: "fault", "restart", "trust", "log"

ASSUME PlacesAssumption ==
    /\ Signers \subseteq Pages /\ UrlOf \in [Pages -> Urls]
    /\ ImageOf \in [Urls -> Images] /\ DefaultLog \in Logs
ASSUME LogsAssumption == Logs \intersect {"none", "storage"} = {}
ASSUME TimesAssumption ==
    /\ {TtlOk, TtlNull, TtlTrust, TtlKey, CacheMax, MaxLookup, MaxEntries} \subseteq Nat \ {0}
    /\ TtlNull <= TtlOk
    /\ MaxAge \in Nat /\ MaxAge >= TtlTrust + MaxLookup + TtlOk

Absent == [absent |-> TRUE]     \* null, undefined: a cache not filled, an answer not given

VARIABLES
    published,         \* per log and image: [version, claim]
    logUrl,            \* chrome.storage: the configured log
    keyring,           \* logs whose key gpg has imported
    trust,             \* does gpg list the signer as trusted?
    verdictsCache,     \* a Map in insertion order: sequence of [url, result, kept, log,
                       \* raced]; log and raced are history
    trustedKeysCache,  \* Absent or [trust, age]
    serverKeyCache,    \* Absent or [age]
    serverKeyPending,  \* "none", "storage", or the log whose key is being fetched
    lookup,            \* verdictsPending: per url, the lookup under way
    page,              \* per page: [processed, waiting, answer]; Badges has what becomes of
                       \* the answer
    sign,              \* per page: the submission of its dialog: [stage, log, claim, version, open]
    attested           \* history: per url and log, the version last attested to

world  == <<published, logUrl, keyring, trust>>
caches == <<verdictsCache, trustedKeysCache, serverKeyCache>>
vars   == <<world, caches, serverKeyPending, lookup, page, sign, attested>>

Unknown  == -1   \* the version of a result that says nothing of what the log holds
Empty    == [version |-> Unknown, claim |-> FALSE, age |-> 0]
NoLookup == [stage |-> "none", log |-> DefaultLog, result |-> Empty, took |-> 0, raced |-> FALSE]
NoSign   == [stage |-> "none", log |-> DefaultLog, claim |-> FALSE, version |-> 0, open |-> TRUE]
NewPage  == [processed |-> FALSE, waiting |-> FALSE, answer |-> Absent]

Init ==
    /\ published = [l \in Logs |-> [i \in Images |-> [version |-> 0, claim |-> FALSE]]]
    /\ logUrl = DefaultLog
    /\ keyring = {}
    /\ trust = TRUE
    /\ verdictsCache = <<>>
    /\ trustedKeysCache = Absent
    /\ serverKeyCache = Absent
    /\ serverKeyPending = "none"
    /\ lookup = [u \in Urls |-> NoLookup]
    /\ page = [p \in Pages |-> NewPage]
    /\ sign = [p \in Pages |-> NoSign]
    /\ attested = [u \in Urls |-> [l \in Logs |-> 0]]

Faulty == "fault" \in Environment

-----------------------------------------------------------------------------
\* The page gets its answer.
Answered(q, result) == [q EXCEPT !.waiting = FALSE, !.answer = result]

CachedAt(u) == {i \in DOMAIN verdictsCache : verdictsCache[i].url = u}

Without(u) == IF CachedAt(u) = {} THEN verdictsCache
              ELSE RemoveAt(verdictsCache, CHOOSE i \in CachedAt(u) : TRUE)

Ttl(result) == IF result.claim THEN TtlOk ELSE TtlNull

\* Results without verdicts are kept as long as the others.
FreshLongMutant(x) == x.kept < TtlOk

Fresh(x) == x.kept < Ttl(x.result)

\* handleGetVerdicts up to its first await, for a page q = [page[p] EXCEPT ...].
GetVerdicts(p, q) ==
    LET u == UrlOf[p] IN
    \/ \E i \in CachedAt(u) :
          /\ Fresh(verdictsCache[i])
          /\ page' = [page EXCEPT ![p] = Answered(q, verdictsCache[i].result)]
          /\ UNCHANGED <<verdictsCache, lookup>>
    \/ /\ \A i \in CachedAt(u) : ~Fresh(verdictsCache[i])
       /\ page' = [page EXCEPT ![p] = [q EXCEPT !.waiting = TRUE]]
       /\ verdictsCache' = Without(u)
       /\ lookup' = IF lookup[u].stage # "none" THEN lookup
                    ELSE [lookup EXCEPT ![u] = [NoLookup EXCEPT !.stage = "image"]]

\* processSingleImage, when the image has been loaded.
ProcessSingleImage(p) ==
    /\ ~page[p].processed
    /\ GetVerdicts(p, [page[p] EXCEPT !.processed = TRUE])
    /\ UNCHANGED <<world, trustedKeysCache, serverKeyCache, serverKeyPending, sign, attested>>

\* The page is left and comes back; what it had asked for is answered to nobody.
Navigate(p) ==
    /\ page[p].processed
    /\ page' = [page EXCEPT ![p] = NewPage]
    /\ sign' = [sign EXCEPT ![p] = IF @.stage \in {"none", "signed"} THEN NoSign
                                   ELSE [@ EXCEPT !.open = FALSE]]
    /\ UNCHANGED <<world, caches, serverKeyPending, lookup, attested>>

\* Room is made only when the cache has grown past its limit.
CacheAndReturnMutant(u, result) ==
    /\ verdictsCache' =
          Append(IF Len(verdictsCache) > CacheMax THEN Tail(verdictsCache) ELSE verdictsCache,
                 [url |-> u, result |-> result, kept |-> 0,
                  log |-> lookup[u].log, raced |-> lookup[u].raced])
    /\ page' = [p \in Pages |-> IF UrlOf[p] = u /\ page[p].waiting THEN Answered(page[p], result)
                                ELSE page[p]]
    /\ lookup' = [lookup EXCEPT ![u] = NoLookup]

\* The end of a lookup: cache the result, answer all who wait for it.
CacheAndReturn(u, result) ==
    /\ verdictsCache' =
          Append(IF Len(verdictsCache) >= CacheMax THEN Tail(verdictsCache) ELSE verdictsCache,
                 [url |-> u, result |-> result, kept |-> 0,
                  log |-> lookup[u].log, raced |-> lookup[u].raced])
    /\ page' = [p \in Pages |-> IF UrlOf[p] = u /\ page[p].waiting THEN Answered(page[p], result)
                                ELSE page[p]]
    /\ lookup' = [lookup EXCEPT ![u] = NoLookup]

At(u, stage) == lookup[u].stage = stage

\* The image, a response or the native host fails: the result is empty, and cached.
LookupFails(u) ==
    /\ Faulty
    /\ lookup[u].stage \in {"image", "entries", "verify"}
    /\ CacheAndReturn(u, Empty)
    /\ UNCHANGED <<world, trustedKeysCache, serverKeyCache, serverKeyPending, sign, attested>>

(* The image is there; the log is read from storage and getTrustedFingerprints is    *)
(* called, which answers from its cache or waits for list_keys.                       *)
ImageFetched(u) ==
    /\ At(u, "image")
    /\ LET known == trustedKeysCache # Absent /\ trustedKeysCache.age < TtlTrust
           on    == [lookup[u] EXCEPT !.log = logUrl]
       IN  \/ /\ ~known
              /\ lookup' = [lookup EXCEPT ![u] = [on EXCEPT !.stage = "trust"]]
              /\ UNCHANGED <<verdictsCache, page>>
           \/ /\ known /\ trustedKeysCache.trust
              /\ lookup' = [lookup EXCEPT ![u] =
                    [on EXCEPT !.stage = "entries", !.result.age = trustedKeysCache.age]]
              /\ UNCHANGED <<verdictsCache, page>>
           \/ /\ known /\ ~trustedKeysCache.trust
              /\ CacheAndReturn(u, [Empty EXCEPT !.age = trustedKeysCache.age])
    /\ UNCHANGED <<world, trustedKeysCache, serverKeyCache, serverKeyPending, sign, attested>>

\* list_keys answers the lookups that wait for it.  A host that fails to run gpg
\* answers without keys, which counts as trusting nobody.
KeysListed ==
    /\ \E u \in Urls : At(u, "trust")
    /\ \E t \in {trust} \union (IF Faulty THEN {FALSE} ELSE {}) :
          /\ trustedKeysCache' = [trust |-> t, age |-> 0]
          /\ lookup' = [u \in Urls |->
                IF ~At(u, "trust") THEN lookup[u]
                ELSE [lookup[u] EXCEPT !.stage = IF t THEN "entries" ELSE "giveUp",
                                       !.result.age = 0]]
    /\ UNCHANGED <<world, verdictsCache, serverKeyCache, serverKeyPending, page, sign, attested>>

\* There is no native host: the promise is rejected, and nothing is remembered.
ListKeysFails ==
    /\ Faulty
    /\ \E u \in Urls : At(u, "trust")
    /\ lookup' = [u \in Urls |->
          IF At(u, "trust") THEN [lookup[u] EXCEPT !.stage = "giveUp"] ELSE lookup[u]]
    /\ UNCHANGED <<world, caches, serverKeyPending, page, sign, attested>>

\* A lookup that waited for a shared promise in vain.
GiveUp(u) ==
    /\ At(u, "giveUp")
    /\ CacheAndReturn(u, Empty)
    /\ UNCHANGED <<world, trustedKeysCache, serverKeyCache, serverKeyPending, sign, attested>>

\* The log reads its entries ...
EntriesRead(u) ==
    /\ At(u, "entries")
    /\ LET x == published[lookup[u].log][ImageOf[u]] IN
       lookup' = [lookup EXCEPT ![u].stage = "answered",
                                ![u].result.version = x.version, ![u].result.claim = x.claim]
    /\ UNCHANGED <<world, caches, serverKeyPending, page, sign, attested>>

\* ... and its answer arrives: without entries of trusted signers the lookup is over,
\* otherwise ensureServerKeyImported is called.
EntriesArrive(u) ==
    /\ At(u, "answered")
    /\ \/ /\ lookup[u].result.version = 0
          /\ CacheAndReturn(u, lookup[u].result)
          /\ UNCHANGED serverKeyPending
       \/ /\ lookup[u].result.version > 0
          /\ IF serverKeyCache # Absent /\ serverKeyCache.age < TtlKey
             THEN /\ lookup' = [lookup EXCEPT ![u].stage = "verify"]
                  /\ UNCHANGED serverKeyPending
             ELSE /\ lookup' = [lookup EXCEPT ![u].stage = "key"]
                  /\ serverKeyPending' = IF serverKeyPending = "none" THEN "storage"
                                         ELSE serverKeyPending
          /\ UNCHANGED <<verdictsCache, page>>
    /\ UNCHANGED <<world, trustedKeysCache, serverKeyCache, sign, attested>>

\* The promise of ensureServerKeyImported asks storage for the log once more.
KeyReadsLog ==
    /\ serverKeyPending = "storage"
    /\ serverKeyPending' = logUrl
    /\ UNCHANGED <<world, caches, lookup, page, sign, attested>>

WakeKeyWaiters(stage) ==
    lookup' = [u \in Urls |->
        IF At(u, "key") THEN [lookup[u] EXCEPT !.stage = stage] ELSE lookup[u]]

KeyImported ==
    /\ serverKeyPending \in Logs
    /\ keyring' = keyring \union {serverKeyPending}
    /\ serverKeyCache' = [age |-> 0]
    /\ serverKeyPending' = "none"
    /\ WakeKeyWaiters("verify")
    /\ UNCHANGED <<published, logUrl, trust, verdictsCache, trustedKeysCache, page, sign, attested>>

\* The pending promise is cleared, and those who wait for it are not told.
KeyFailsSilentlyMutant ==
    /\ Faulty
    /\ serverKeyPending \in Logs
    /\ serverKeyPending' = "none"
    /\ UNCHANGED <<world, caches, lookup, page, sign, attested>>

KeyFails ==
    /\ Faulty
    /\ serverKeyPending \in Logs
    /\ serverKeyPending' = "none"
    /\ WakeKeyWaiters("giveUp")
    /\ UNCHANGED <<world, caches, page, sign, attested>>

\* The native host verifies: gpg finds the log's key in the keyring or drops the entry.
Verified(u) ==
    /\ At(u, "verify")
    /\ CacheAndReturn(u, IF lookup[u].log \in keyring THEN lookup[u].result ELSE Empty)
    /\ UNCHANGED <<world, trustedKeysCache, serverKeyCache, serverKeyPending, sign, attested>>

-----------------------------------------------------------------------------
\* The Sign button: the dialog of page p asks for a claim or for its revocation.
SignBegin(p, claim) ==
    /\ p \in Signers /\ page[p].processed /\ sign[p].stage = "none"
    /\ claim \/ \E l \in Logs : published[l][ImageOf[UrlOf[p]]].version > 0
    /\ sign' = [sign EXCEPT ![p] = [NoSign EXCEPT !.stage = "native", !.claim = claim]]
    /\ UNCHANGED <<world, caches, serverKeyPending, lookup, page, attested>>

\* The signature is there; the log is read from storage.
SignReadsLog(p) ==
    /\ sign[p].stage = "native"
    /\ sign' = [sign EXCEPT ![p].stage = "post", ![p].log = logUrl]
    /\ UNCHANGED <<world, caches, serverKeyPending, lookup, page, attested>>

SignPosted(p) ==
    LET l == sign[p].log
        i == ImageOf[UrlOf[p]]
    IN  /\ sign[p].stage = "post"
        /\ published[l][i].version < MaxEntries
        /\ published' = [published EXCEPT ![l][i] =
              [version |-> @.version + 1, claim |-> sign[p].claim]]
        /\ sign' = [sign EXCEPT ![p].stage = "posted", ![p].version = published'[l][i].version]
        /\ UNCHANGED <<logUrl, keyring, trust, caches, serverKeyPending, lookup, page, attested>>

\* The verdict stays in the cache.
SignDoneStaleMutant(p) ==
    LET u == UrlOf[p]
        x == sign[p]
    IN  /\ x.stage = "posted"
        /\ lookup' = [lookup EXCEPT ![u].raced = @ \/ lookup[u].stage \in {"answered", "key", "verify"}]
        /\ attested' = [attested EXCEPT ![u][x.log] = IF x.version > @ THEN x.version ELSE @]
        /\ sign' = [sign EXCEPT ![p] = IF x.open THEN [x EXCEPT !.stage = "signed"] ELSE NoSign]
        /\ UNCHANGED <<world, caches, serverKeyPending, page>>

\* The answer of the log arrives: the verdict is struck from the cache, and the dialog
\* told.  A lookup that has read the log's entries already is not.
SignDone(p) ==
    LET u == UrlOf[p]
        x == sign[p]
    IN  /\ x.stage = "posted"
        /\ verdictsCache' = Without(u)
        /\ lookup' = [lookup EXCEPT ![u].raced = @ \/ lookup[u].stage \in {"answered", "key", "verify"}]
        /\ attested' = [attested EXCEPT ![u][x.log] = IF x.version > @ THEN x.version ELSE @]
        /\ sign' = [sign EXCEPT ![p] = IF x.open THEN [x EXCEPT !.stage = "signed"] ELSE NoSign]
        /\ UNCHANGED <<world, trustedKeysCache, serverKeyCache, serverKeyPending, page>>

\* No image, no signature, or no answer of the log, which may have taken the entry.
SignFails(p) ==
    /\ Faulty
    /\ sign[p].stage \in {"native", "post", "posted"}
    /\ sign' = [sign EXCEPT ![p] = NoSign]
    /\ UNCHANGED <<world, caches, serverKeyPending, lookup, page, attested>>

\* The dialog refreshes the image: it is taken out of processedImages and processed.
Refresh(p) ==
    /\ sign[p].stage = "signed"
    /\ sign' = [sign EXCEPT ![p] = NoSign]
    /\ GetVerdicts(p, [page[p] EXCEPT !.answer = Absent])
    /\ UNCHANGED <<world, trustedKeysCache, serverKeyCache, serverKeyPending, attested>>

-----------------------------------------------------------------------------
\* The options page stores an empty address.
SetLogUrlEmptyMutant(l) ==
    /\ "log" \in Environment
    /\ logUrl' = ""
    /\ UNCHANGED <<published, keyring, trust, caches, serverKeyPending, lookup, page, sign, attested>>

\* set_log_url, from the options page.
SetLogUrl(l) ==
    /\ "log" \in Environment
    /\ l # logUrl
    /\ logUrl' = l
    /\ UNCHANGED <<published, keyring, trust, caches, serverKeyPending, lookup, page, sign, attested>>

\* The user edits the trust of the signer's key in gpg.
EditTrust ==
    /\ "trust" \in Environment
    /\ trust' = ~trust
    /\ UNCHANGED <<published, logUrl, keyring, caches, serverKeyPending, lookup, page, sign, attested>>

\* The browser stops the worker; the next message starts it again.  Storage and the
\* keyring stay, and those who waited are told that nobody will answer.
Restart ==
    /\ "restart" \in Environment
    /\ verdictsCache' = <<>>
    /\ trustedKeysCache' = Absent
    /\ serverKeyCache' = Absent
    /\ serverKeyPending' = "none"
    /\ lookup' = [u \in Urls |-> NoLookup]
    /\ page' = [p \in Pages |-> [page[p] EXCEPT !.waiting = FALSE]]
    /\ sign' = [p \in Pages |-> IF sign[p].stage = "signed" THEN sign[p] ELSE NoSign]
    /\ UNCHANGED <<world, attested>>

Older(age, bound) == IF age < bound THEN age + 1 ELSE bound

Tick ==
    /\ \A u \in Urls : lookup[u].stage # "none" => lookup[u].took < MaxLookup
    /\ verdictsCache' = [i \in DOMAIN verdictsCache |->
          [verdictsCache[i] EXCEPT !.kept = Older(@, TtlOk), !.result.age = Older(@, MaxAge)]]
    /\ trustedKeysCache' = IF trustedKeysCache = Absent THEN Absent
                           ELSE [trustedKeysCache EXCEPT !.age = Older(@, TtlTrust)]
    /\ serverKeyCache' = IF serverKeyCache = Absent THEN Absent
                         ELSE [serverKeyCache EXCEPT !.age = Older(@, TtlKey)]
    /\ lookup' = [u \in Urls |-> IF lookup[u].stage = "none" THEN NoLookup
                                 ELSE [lookup[u] EXCEPT !.took = @ + 1, !.result.age = Older(@, MaxAge)]]
    /\ UNCHANGED <<world, serverKeyPending, page, sign, attested>>

Lookup(u) ==
    \/ LookupFails(u) \/ ImageFetched(u) \/ GiveUp(u)
    \/ EntriesRead(u) \/ EntriesArrive(u) \/ Verified(u)

SharedPromise == KeysListed \/ ListKeysFails \/ KeyReadsLog \/ KeyImported \/ KeyFails

Dialog(p) ==
    \/ \E claim \in BOOLEAN : SignBegin(p, claim)
    \/ SignReadsLog(p) \/ SignPosted(p) \/ SignDone(p) \/ SignFails(p) \/ Refresh(p)

Next ==
    \/ \E p \in Pages : ProcessSingleImage(p) \/ Navigate(p) \/ Dialog(p)
    \/ \E u \in Urls : Lookup(u)
    \/ SharedPromise
    \/ \E l \in Logs : SetLogUrl(l)
    \/ EditTrust \/ Restart \/ Tick

Spec == Init /\ [][Next]_vars

-----------------------------------------------------------------------------
Versions == 0..MaxEntries
Results  == [version : Versions \union {Unknown}, claim : BOOLEAN, age : 0..MaxAge]
Kept     == [url : Urls, result : Results, kept : 0..TtlOk, log : Logs, raced : BOOLEAN]
Lookups  == [stage : {"none", "image", "trust", "entries", "answered", "key", "verify", "giveUp"},
             log : Logs, result : Results, took : 0..MaxLookup, raced : BOOLEAN]
Shown    == [processed : BOOLEAN, waiting : BOOLEAN, answer : {Absent} \union Results]
Dialogs  == [stage : {"none", "native", "post", "posted", "signed"}, log : Logs,
             claim : BOOLEAN, version : Versions, open : BOOLEAN]

TypeOK ==
    /\ published \in [Logs -> [Images -> [version : Versions, claim : BOOLEAN]]]
    /\ logUrl \in Logs /\ keyring \subseteq Logs /\ trust \in BOOLEAN
    /\ verdictsCache \in Seq(Kept)
    /\ trustedKeysCache \in {Absent} \union [trust : BOOLEAN, age : 0..TtlTrust]
    /\ serverKeyCache \in {Absent} \union [age : 0..TtlKey]
    /\ serverKeyPending \in {"none", "storage"} \union Logs
    /\ lookup \in [Urls -> Lookups]
    /\ page \in [Pages -> Shown]
    /\ sign \in [Pages -> Dialogs]
    /\ attested \in [Urls -> [Logs -> Versions]]

\* The cache holds one result per address and never more than its limit, however many
\* lookups end at once (service-worker.js:110, VERDICT_CACHE_MAX).
CacheBounded ==
    /\ Len(verdictsCache) <= CacheMax
    /\ \A i, j \in DOMAIN verdictsCache :
          verdictsCache[i].url = verdictsCache[j].url => i = j

\* Nobody waits in vain: behind a page that waits there is a lookup, and behind a lookup
\* that waits for the server's key there is somebody fetching it, whatever has failed
\* and whenever the worker was stopped.
NobodyForgotten ==
    /\ \A p \in Pages : page[p].waiting => lookup[UrlOf[p]].stage # "none"
    /\ \A u \in Urls : lookup[u].stage = "key" => serverKeyPending # "none"

\* What a page is shown was so not long ago: trust and entries that an answer rests on
\* are no older than the caches it went through allow, 30 minutes for verdicts and 5
\* for none (service-worker.js:108), though trust, log or entries have changed since.
AnswersFresh ==
    \A p \in Pages : page[p].answer # Absent =>
        page[p].answer.age <= (TtlTrust - 1) + MaxLookup + (Ttl(page[p].answer) - 1)

\* After a signature the cache holds no older answer of the same log for the address
\* through which the user attested, except what a lookup brings that had read the log's
\* entries when the signature was done.  Only that address is struck
\* (service-worker.js:485): another address of the same image keeps its answer, and what
\* it knows of the signature is nothing, until the answer expires.
AttestationShows ==
    \A i \in DOMAIN verdictsCache :
        LET x == verdictsCache[i] IN
        ~x.raced /\ x.result.version # Unknown => x.result.version >= attested[x.url][x.log]

\* A lookup verifies with the key of the log it has asked (README.md:17, "query any
\* configured log for existing attestations").
KeyOfAskedLog ==
    \A u \in Urls : lookup[u].stage = "verify" => lookup[u].log \in keyring
=============================================================================
