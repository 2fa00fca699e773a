# TLA+ models of gpg-attest

gpg-attest lets people sign verdicts about images with their GPG keys, stores the
signed verdicts in a transparency log, and shows them as badges in the browser. This
directory holds TLA+ models of its parts, TLC runs that check them on small
instances, and TLAPS proofs of the most important results for every size.

Contents: [the system](#the-system) ·
[the models](#the-models-and-the-code) · [assumptions](#assumptions-about-the-surroundings) ·
[runs](#the-runs) · [findings](#what-disagrees) · [proofs](#the-proofs) ·
[limits](#what-is-not-modelled) · [plan](#plan)

## The system

```
 page ── content.js ──messages──▶ service-worker.js ──native messaging──▶ gpg-attest (Go) ──▶ gpg
          (badges,                 (lookups, sign,   ◀── one message,       (sign, verify,
           dialog)                  caches)              one process ──      list_keys, import_key)
                                        │ HTTP
                                        ▼
                       rate limiter ─▶ handlers ─▶ Store ──▶ Redis    (entries, index, lists)
                                                      ├────▶ gpg      (server signature)
                                                      └────▶ Trillian (audit leaf)
```

| component | state | operations | what is hard about it | what makes it correct |
|---|---|---|---|---|
| **log server**: `server/internal/api/handler.go`, `server/internal/store/store.go` | Redis `counter`, `entry:<n>`, `uuid:<u>`, `idx:<hash>`; leaves in Trillian | `createEntry` → `Append`; `listEntries` → `GetByHash`; `getEntry` → `GetByUUID` → `GetByIndex`; `publicKey`, `logInfo` (read only) | a goroutine per request; a pipeline that is no transaction; retries of go-redis; crash between commands; a leaf queued after the answer | numbers are never given twice; a 201 stays true; published entries never change; acknowledged order is kept; listings are complete |
| **rate limiter**: `server/internal/api/ratelimit.go` | global bucket, map of per-IP buckets, ticker | `Middleware`, `getIPLimiter`, `sweepLoop` | a limiter in hand while the sweep evicts it; two budgets; address behind a proxy | eviction grants nothing extra; map forgets; nobody pays for somebody else |
| **verdict selection**: `service-worker.js`, pure part of `handleGetVerdicts`, `handleGetMyVerdicts` | none | latest entry per signer and category, revocation, plurality | ties within a second; duplicates in the list; order decides ties | newest word of each signer counts, once; revocation withdraws; one entry that is not good costs the others nothing; dialog and badges agree |
| **service worker**: `extension/background/service-worker.js` | `verdictsCache`, `verdictsPending`, `trustedKeysCache`, `serverKeyCache` and their promises; `chrome.storage` | `get_verdicts`, `sign`, `get_my_verdicts`, `list_keys`, `set_key`, `get_key`, `set_log_url`, `get_log_url`; `initDefaults` | awaits let other messages in; shared promises that fail; stale caches; the browser stops the worker | answers are not older than the caches say; nobody waits for ever; cache bounded; a signature is seen through the address it was made at |
| **content script, badges**: `extension/content/content.js` | processed sets, badge registry and maps, finalizers, observers, one scheduled redraw | `processSingleImage`, `processSingleBackground`, `createBadges`, `removeBadge`, `removeBadgesForTarget`, `updateAllBadgePositions` | answers out of order, elements that leave the page before or after them, observers that report late | badges say what the last answer said and can be found from their image, none is hidden or left behind (with [one exception](#what-disagrees)); none is misplaced |
| **attest dialog**: `extension/content/content.js` | `activeDialog`, verdicts `before` and after | `openAttestDialog`, Sign button, `closeAttestDialog` and its timer | several submissions, some of which fail; dialogs that replace or overlap each other; a key chosen elsewhere meanwhile | only what the user has touched is signed; when it says it has signed, the log holds what it showed |
| **options page, defaults**: `options.js`, `initDefaults` | `selectedKeyID`, `logUrl` | choose key, choose log | set while lookups run, or by `initDefaults` after the user | the user's choice stays |
| **native host**: `client/` | none (a process per message), gpg keyring | `sign`, `verify`, `list_keys`, `import_key`; framing | decision about revoked keys and certifications; parsing of gpg's output; runs of gpg that fail; size limits | a good signature counts as long as it was made before a revocation |

Interactions: content script and options page call the service worker by message and
wait for its answer. The service worker starts the native host for every message and
uses the log over HTTP. The server's handlers share Redis, and only Redis: nothing in
the server is shared between requests but the rate limiter. The hazards this gives
rise to are listed with their lines in `PROJECT.json`.

## The models and the code

| module | models | runs through |
|---|---|---|
| `AppendOnlyLog` | what the log promises, abstractly | `LogServer!ImplementsLog` |
| `LogServer` | handlers, Store, Redis, gpg, Trillian | `MCLogServer` |
| `LogServerProofs` | theorems about `LogServer`: writes, their order and their end | TLAPS |
| `VerdictSelection` | selection and aggregation, as operators | `MCVerdictSelection` |
| `HostVerify` | `list_keys` and `verify` of the native host, as operators | `MCVerdictSelection` |
| `VerdictPipeline` | `VerdictSelection`, `HostVerify` and gpg composed: from a listing to a badge | `MCVerdictSelection` |
| `LogReadback` | `LogServer` and `VerdictSelection` composed | `MCLogReadback` |
| `VerdictPipelineProofs` | theorems about `VerdictPipeline` and what it is made of, for lists of any length and any keyring | TLAPS |
| `MCVerdictSelectionProofs` | that the properties of `MCVerdictSelection` follow from them | TLAPS |
| `LogReadbackProofs` | theorems about reads of `LogServer`, about `LogReadback`, and from a `POST` to a badge | TLAPS |
| `RateLimiter` | middleware, buckets, sweep | `MCRateLimiter` |
| `VerdictLookup` | service worker with caches, page, signing | `MCVerdictLookup` |
| `Badges` | the badges of a page: content script, observers, garbage collector | `MCBadges` |
| `AttestDialog` | dialogs of a page with the messages they send; options page, `initDefaults` | `MCAttestDialog` |
| `AttestDialogProofs` | theorems about `AttestDialog` | TLAPS |
| `RateLimiterProofs` | theorems about `RateLimiter` | TLAPS |
| `VerdictLookupProofs` | theorems about `VerdictLookup` | TLAPS |
| `BadgesProofs` | theorems about `Badges` | TLAPS |

Operators whose name ends in `Mutant` are not part of any model. Each stands before the
definition it is a variant of and has a plausible bug in it (a dropped comparison, a
forgotten reset); `PROJECT.json` says which property notices which.

### LogServer

A POST request is a process `r`. Its `pc` names the next call it makes:

```
idle ─Accept─▶ incr ─Incr─▶ sign ─Sign─▶ persist ─(SET, SET, LPUSH) PipelineDone─▶ respond ─▶ created
  └ Reject, NewUUIDFails        any call may fail: ─▶ failed;  Crash: ─▶ crashed
```

| model | code |
|---|---|
| `counter`, `entries`, `uuids`, `lists` | Redis keys `counter`, `entry:`, `uuid:`, `idx:` |
| `e[r]` | the `*store.Entry` of the handler, filled in step by step |
| `Reject`, `Accept`, `NewUUIDFails` | `createEntry` up to `Append`: body, hash, category, lengths, `newUUID`, timestamp |
| `Incr`, `IncrLost` | `rdb.Incr`; the connection is lost before or after Redis has counted, and go-redis retries |
| `Sign`, `SignFails` | `sigPayload` and `gpgSign` |
| `SetEntry`, `SetUUID`, `PushIndex` | the pipeline, one command at a time, as Redis serves other clients in between |
| `CommandRefused`, `PipelineRefused` | Redis answers one command with an error and executes the others |
| `PipelineLost` | the connection is lost at any point; go-redis sends all three again or gives up |
| `PipelineDone`, `Respond` | `Append` returns, the goroutine starts; 201 |
| `QueueLeafOk`, `QueueLeafError`, `QueueLeafTimeout` | the goroutine with its ten seconds |
| `ListBegin`, `ListGet`, `ListDone` | `GetByHash`: one `LRANGE`, then a `GET` for each number, errors skipped |
| `GetBegin`, `GetEntry`, `ReadFails` | `GetByUUID` and `GetByIndex` |
| `Crash` | the server process dies; Redis stays |

The server's signature is abstracted to the payload it covers, which is all that matters:
`AckedDurable` says that it covers what is served. `prior` and `known` are history
variables that no action reads: who had been acknowledged when a request was accepted,
and what a read that starts now has to return.

### VerdictSelection and LogReadback

The loops of the service worker are folds. A JavaScript `Map` remembers in which order
its keys were first set, and that order decides ties in the plurality, so the map of
latest entries is a sequence and replacing an entry keeps its place. `Filter` is `Array.filter`. `LogReadback` runs the
selection on what `LogServer` answers: the server puts concurrent submissions in three
different orders (number, timestamp, place in the list), of which the extension uses the
last two.

### HostVerify and VerdictPipeline

The native host is started for every message and keeps nothing, so its parts are operators:
`ParseColons` and `ParseStatusFd` fold over the lines that gpg prints, with the state the
parsers keep; `GetKeyRevocationDate` and `GetCertRevocationDate` read `--list-sigs`; `IsValid`
is the decision in `main.go`. `VerdictPipeline` feeds them with what gpg prints for a keyring
(`ListKeysOutput`, `ListSigsOutput`, `VerifyOutput`, the only external part) and composes
them as `handleGetVerdicts` does: `TrustedFingerprints`, `KeepLatest`, two signatures per
entry to verify (`VerifyEntries`), answers matched by position (`Verified`), `Aggregate`.
What else a lookup meets is `env`: `maker` says which key has made each of the two signatures of an
entry, or that it fits nothing (`Nobody`); `wide` is the entries with a character beyond Latin-1,
on which `btoa` throws (`Encodable`); `failed` is the calls that fail, of the host or, by the host, of gpg.
In `MCVerdictSelection` the log's answer grows by an entry a step (`Answer`). Then one key of the
keyring, the log's or a signer's, may be gone, expired, revoked, no longer trusted or no
longer certified (`KeyChanges`), and one signature may be of another key or of none (`OddSignature`), one entry
beyond Latin-1 (`WideEntry`) or one call fail (`CallFails`).

What the code does with these, and the properties therefore say:

* The worker names the key an entry claims (`signer_keyid`), and the host answers with the key that gpg
  has verified with; nobody compares the two (`main.go:118`, `service-worker.js:313`), nor the log's key
  with the one of the server's signature. `LaterNeverCounts` promises two signatures by keys on the keyring, and not which;
  `EarlierCounts` is about entries signed by the keys they name (`Sound`).
* One entry that is kept and on which `btoa` throws ends the lookup in its `catch` (`service-worker.js:269`,
  287 and 370): nothing is shown of anybody. `SignersIndependent` and `RevokeWithdraws` say so, and that it is all
  that one signer's entries can do to another's; `EarlierCounts` has it as a premise.
* A `list_keys` that answers without keys lists nobody who may have revoked a certification
  (`service-worker.js:302`), and a `--list-sigs` that fails for a certification counts as no revocation
  (`main.go:138`); without a timestamp none is looked for. A revoked key whose date cannot be had (`main.go:126`) vouches for nothing. `Heeded` names the revocations that are looked for; `LaterNeverCounts` is about those.

What the properties about revocation say, and what not: a *signer's* key that is revoked or
expired is no longer listed, so everything its owner ever said goes (`keys.go:63`); only for the
*log's* key and for certifications does the date of the revocation matter. When several of
the user's keys have revoked a certification, the first in gpg's order decides
(`main.go:137`), so between the first and the last of these dates nothing is promised.

### RateLimiter

A handler stops at every point at which another goroutine may come in: after the global
limiter, and with a per-IP limiter in hand. Limiters are objects on a heap because a
handler may still use one that the sweep has evicted. Refilling is lazy in
`golang.org/x/time/rate`, which cannot be told from refilling at every tick. Three
reference buckets say what the limiter ought to grant: `ideal`, per IP and never evicted;
`own`, per client; `useful`, global and not drained by rejected requests.

### VerdictLookup

A step runs from one `await` of the service worker to the next. `lookup[u].stage` is the
await that the lookup of address `u` stands at:

| stage | await |
|---|---|
| `image` | fetching the image and hashing it |
| `trust` | `getTrustedFingerprints`, shared by all lookups |
| `entries`, `answered` | the GET to the log, before and after the log has read its entries |
| `key` | `ensureServerKeyImported`, shared (`serverKeyPending` is how far it is) |
| `verify` | `verify` of the native host |
| `giveUp` | a shared promise was rejected; the `catch` of this lookup has not run yet |

`sign[p].stage` likewise follows `handleSign` for the dialog of page `p`: `native`, `post`,
`posted`, and `signed` while the page has the answer and has not refreshed yet. What a log
says of an image is a version and whether its last word is a claim; the rest is in
`VerdictSelection`. `SignDone` strikes the answer of one address, the one through which the user attested
(`service-worker.js:485`): other addresses of the same image keep theirs until they expire, and `attested` and
`AttestationShows` are about that address and that log only. A moment in time is kept as its age, capped at the age from which on
the code treats all alike. `raced`, `attested` and the `age` of a result are history.

### Badges

A step is a task of the page with the microtasks it leaves behind, so the MutationObserver
has run when a change of the DOM is over, while answers, intersections and frames come
whenever they like.

| model | code |
|---|---|
| `place[e]` | where the element is: on the page, in a subtree that was cut off (`"limb"`: it still has a parent), `"alone"`, or collected |
| `stage[e]`, `asked[e]` | `processedImages`, `processedBackgrounds`, an image's `load` listener; lookups under way |
| `badgeRegistry`, `targetToBadges`, `nextBadgeId`, `finalizers` | the maps of those names and `cleanupRegistry` |
| `seen[e]`, `report[e]` | what `intersectionObs` has found last, and the entry it has not delivered |
| `updateScheduled`, `drawn` | the scheduled `updateAllBadgePositions`; where a badge was last put (positions are abstracted to the place among the badges) |
| `Insert`, `Load`, `Process` | `domObserver` for added nodes, the `load` listener, `processImages` |
| `Examine` | `processSingleImage`, `processSingleBackground` up to the question they ask |
| `Answer`, `CreateBadges` | what follows the `await` for an answer; `createBadges` with the `removeBadge` it calls |
| `Remove`, `RemoveBadgesForTarget`, `TakeOut` | `domObserver` for removed nodes; elements taken out of a subtree nobody observes |
| `Refresh` | the refresh after signing |
| `Frame`, `Redraw`, `Intersection`, `Scroll` | the browser's frame: scheduled update, then observers; the observer's callback; scroll, resize and changed styles |
| `Collect` | garbage collection, which a badge in the same subtree prevents, and `cleanupRegistry` |

What a lookup answers is the set of categories that have a verdict (`cats`) and those of them with an
icon (`icons`; `Iconless` says for which categories a verdict may have none: the repository's server accepts no such
verdict, and `createBadges` skips it). Which icon and which title it is has no effect on the rest. Answers are
any sets, of categories as independent as the repository's README has them.
`shown` and `apart` are history. `shown` is the last answer with a category that reached the element. `apart` is the set of
elements which an answer has met with badges of other categories only: `createBadges` then puts the new
badges into a map that it has just taken out (`content.js:546`), and nobody finds them any more.
`RegistryAgrees`, `OnePerCategory`, `VisibleAsSeen` and `LeavesNothing` are stated for all other elements, in the
same runs in which this happens; they are false for those in `apart`. `DrawnOrScheduled` holds for all. In the model
an element with an empty map, which an answer without any icon may leave, is one without a map.

### AttestDialog

A dialog is one call of `openAttestDialog`; `dialog[d]` holds what its closures hold.

```
new ─Open─▶ opening ─(GetKey, GetMyKey, GetMyVerdicts) ShowDialog─▶ open ─Sign─▶ signing ─Submitted ...─▶ signed ─Timer─▶ over
                └ ShowKeyless ─▶ keyless                             ▲            │
                                                                     └─ SubmissionFails
```

| model | code |
|---|---|
| `published` | what the log holds of each key, per category, as `VerdictSelection` selects it |
| `selectedKeyID`, `defaults` | `chrome.storage`; how far `initDefaults` is |
| `activeDialog`, `inDocument` | the variable of that name; whether the dialog can be seen, which is not the same |
| `keySelect`, `before`, `after` | key selector, the verdicts read, the inputs |
| `mine`, `read` | the key whose verdicts `get_my_verdicts` read, and whether it has answered |
| `keyID`, `wanted`, `actions` | what the Sign button has read, and the submissions it has left |
| `Open`, `CloseActive` | `openAttestDialog` up to its `await`; `closeAttestDialog`, which closes whichever dialog is active |
| `GetKey`, `GetMyKey`, `GetMyVerdicts` | `get_key` and `get_my_verdicts` of the service worker |
| `ShowDialog`, `ShowKeyless`, `Cancel`, `Choose`, `ChooseKey` | the rest of `openAttestDialog`, with and without keys; what the user does |
| `Sign`, `Actions`, `Submitted`, `SubmissionFails`, `Timer` | the Sign button: `set_key`, difference, one submission after the other, the 800 ms |
| `ChooseStoredKey`; `ReadDefaults`, `WriteDefaults`, `DefaultsFail` | key selector of the options page; `initDefaults` |

A dialog that is closed while it signs goes on signing. A submission that fails may be in
the log all the same (`SubmissionFails` has both outcomes). `touched`, `posted`, `disturbed`
and `overlapped` are history, and no guard reads them.

## Assumptions about the surroundings

* Redis executes one command at a time, keeps what it has acknowledged when the *server*
  dies, and executes nothing later from a connection go-redis has given up. go-redis
  sends a lost command or pipeline again at most `MaxRetries` times.
* The server's clock does not go back. uuids do not repeat (128 random bits).
* gpg answers rightly or fails; on the server it may also never answer.
* A lookup takes at most `MaxLookup` ticks (used by `AnswersFresh` only), a handler stays
  at most `MaxStall` ticks in the middleware and the sweep is at most `MaxLate` ticks late.
  A bucket refills in less than it takes the sweep to evict somebody, by a handler's stall
  (`RefillAssumption`; `main.go:71` has a minute for the one and a second for the other).
* In `VerdictLookup` a worker's answer reaches the page in the step in which the lookup ends,
  a page has one image, and its dialog one submission at a time. `Badges` lets answers take
  their time and elements have several lookups under way; `AttestDialog` has whole dialogs.
* A frame runs its callbacks before its observers (`Badges`).
* In `AttestDialog` the storage is written in the step that asks for it, and gpg lists the keys in the same
  order every time. All dialogs are about one image, and there is one log: when the user changes it between the
  reading of `before` (`service-worker.js:389`) and the signing (`service-worker.js:461`), `SignedAsShown` is not promised,
  because `before` is then what another log held.

Bounds, all of them: `MaxRetries`, `MaxClock` (LogServer); `MaxEntries` entries per list
(`FewEntries` when something is wrong with keys, entries or calls; `Times`, `Dates`; MCVerdictSelection), attestations per image (VerdictLookup); `MaxAge`, `MaxLookup`
(VerdictLookup); `MaxStall`, `MaxLate` (RateLimiter); `MaxAsked`,
`MaxBadges` (Badges); `MaxDialogs`, `MaxInputs`, `MaxFailures` (AttestDialog). `Requests` and `Readers` are used
once each, so their number bounds the length of a history.

### Fairness

Only `LogServerReads` assumes any. go-redis puts a deadline on every command and retries
a bounded number of times, so `RedisStep(r)` is weakly fair; the goroutine's context
ends after ten seconds, so `QueueLeafTimeout(r)` is; reads likewise. `Sign` is *not*
fair: `gpgSign` runs gpg without a context, and a gpg that waits for a pinentry or a lock
holds its handler for ever. `WorkEnds` therefore promises an end of everything but gpg.

That a dialog comes to an end is said without fairness: `NeverStuck` says that a dialog which
is being opened, signs or has signed can always take a step without the user, and each such step brings
it nearer to its end (an answer that arrives, a submission fewer, a stage further: `WorkGetsLess`), so
nothing but an answer that never comes can hold it up.

## The runs

| run | instance | what it shows |
|---|---|---|
| `LogServerWrites` | 2 requests, 1 retry, 2 seconds | `UniqueIndex`, `AckedDurable`, `RealTimeOrder`, `AuditedServed`, and `IndInv`, the invariant of the proofs (`TypeOK` is a part of it), under lost, repeated and refused commands and crashes; `ImplementsLog`: the server implements `AppendOnlyLog` |
| `LogServerReads` | 1 request with a retry, 2 artifacts, 2 readers, fair | `ListingComplete` from one reader to the next; `WorkEnds`: handlers outside gpg, reads and the goroutine end |
| `LogReadback` | a claim and a revocation of one signer, 2 seconds, 1 reader | `LastWriteWins`, `RevocationSticks`, `SelectedVerifies`; `AckedResolves`: no read by uuid misses what was acknowledged before it began, wherever it falls between the commands of two submissions |
| `VerdictSelection` | all lists of up to 3 entries, 4 signers, 2 seconds; for up to 2 entries everything that may become of a key, or be wrong with a signature, an entry or a call, and for one entry both; 81 270 states | `KeepsNewest`, `PluralityWins`, `RevokeWithdraws`, `DialogAgrees`: selection against reference definitions; `EarlierCounts`, `LaterNeverCounts`, `SignersIndependent`: what verification lets through, with the premises they name |
| `RateLimiter` | 2 clients, 2 handlers, 5 limiters, sweep of 2 ticks | `PerIPConforms`, `MapForgets`, `RejectedForOwnSake` |
| `VerdictLookup` | 1 page, 2 logs, log changed, a claim and its revocation | `AttestationShows`: what a signature leaves in the cache for its address |
| `VerdictLookupShared` | 2 addresses, cache of 1, faults, restarts, trust edited | `AnswersFresh`, `CacheBounded`, `NobodyForgotten` |
| `Badges` | an image, 3 categories, one of which may have no icon, 2 lookups at once, 4 badges in all, any answers; 388 429 states | `RegistryAgrees`, `OnePerCategory`, `VisibleAsSeen`, `DrawnOrScheduled`, `LeavesNothing` |
| `AttestDialog` | 2 dialogs, 2 keys, 2 categories, 2 choices, 1 failure | `UntouchedUnsigned`, `SignedAsShown`, `StrayDialogs`, `KeyKept`, `NeverStuck` |
| `LogServerFaults`, `RateLimiterMonopoly`, `VerdictLookupSwitch` | minimal | the first three disagreements below |

Why the bounds are enough to be of interest:

* Every property of the server relates two requests at a time (or a request and a read),
  and two requests with a retry each already give skipped numbers, a number pushed twice
  with another in between, and an entry listed after a crash. The theorems
  cover any number of them. Reads see two submissions in `LogReadback` and one another in
  `LogServerReads`.
* Two timestamps tell "same second" from "later". Three entries from three trusted signers
  give every tie and majority that two verdicts can have. Dates of revocation are those of the two
  timestamps, so that an entry is dated before a revocation, with it, after it, or between two; two entries are one that
  verifies and one that does not. Two users of four keys give certifications revoked by one, by both and twice.
* A sweep interval of two ticks, a stall of one and a lateness of one satisfy the only
  relation the code has between them (a handler is faster than a sweep, and so is a refill); five limiters are
  more than can be in use at once (`HeapAssumption`).
* Two addresses with a cache of one evict each other; a page that leaves and comes back joins
  the lookup it had started; a verdict is kept longer than an empty answer (2 ticks and 1), as in the code
  (30 minutes and 5).
* A background does nothing that an image does not do as well, and less: it is never loading nor refreshed. Elements have
  only the counter of badges and the scheduled update in common, so one is enough to meet every answer at every moment;
  the theorems cover any number. Three categories give badges that stay, come, go and change places, and
  answers that have none in common; four badges allow an image to have all three and get a new one, or to
  lose what it has and get as much, in a map that is found or in one that is not. Two lookups at once overlap, also across a removal.
* Two dialogs overlap while they open, replace each other, close each other and sign with each other's key. A
  choice may set every input, so two are enough for a choice, a failure and a change of mind
  (the exception of `SignedAsShown` is reached). One category has one verdict to check and one two
  to choose from, as in the code.
* Splitting by `Environment` keeps each run small: a run allows the events its property is
  about, and the other runs check the others.

In the passing runs the `GET` of a stored entry does not fail (`ReadFaults`): what happens
when it does is `LogServerFaults`. `KeyOfAskedLog` fails with two logs and could not with one.

Deadlock is checked in every run but `AttestDialog`, where the user may stop: a dialog may stay open
for ever, and one that is not waiting for the user is the subject of `NeverStuck`. Elsewhere, when all requests and reads are over, `Quiescent` (and
`Complete` in `MCVerdictSelection`) stutters, so a handler stuck in the middle would be found.

## What disagrees

Each of the first three is a run that TLC finds violated, with its trace.

1. **A listing may be short and say 200** (`LogServerFaults`, `store.go:176`): an entry whose
   `GET` fails is skipped. A revocation lost this way lets the revoked claim count again.
2. **One source can use up the global budget** (`RateLimiterMonopoly`, `ratelimit.go:80`): the
   global token is taken before the per-IP limiter is asked and not given back.
3. **Changing the log leaves the old log's key in the cache** (`VerdictLookupSwitch`,
   `service-worker.js:154`): for up to 24 hours entries of the new log cannot be verified and
   are dropped.

The following are behaviours of the models, met while they were written. No document of the
repository denies them in so many words, or a property states what holds in spite of them.

4. **The refresh after signing may show the image as it was** (`service-worker.js:485`,
   `VerdictLookup`): it joins a pending lookup that had read the log before. Another address of the same image
   keeps the answer it has in the cache in any case, for up to 30 minutes. Both are what `AttestationShows` leaves out.
5. **A revoked badge stays** (`content.js:771`, `Answer` of `Badges`): an empty answer returns before
   `createBadges`, whose branch for it (`content.js:531`) is never reached.
6. **Badges that nobody finds** (`content.js:546`, `CreateBadges`): when a new answer shares no category
   with the badges there are, `removeBadge` takes the emptied map out of `targetToBadges`, but the
   new badges are entered into it. A claim of authorship that is withdrawn and one of a method that is made are
   enough. No later answer, removal or observer's entry reaches these badges; the element is in `apart` from then on, and
   four of the five properties are about the others. When only the first badge goes and others stay, they
   are found, but no finalizer is left for them (`content.js:604`): it was registered for the first badge, so they stay in
   the registry after their image has been collected, until a redraw meets them while visible.
7. **Elements that are moved lose their badges** (`content.js:825`, `Remove` and `Insert`): they are in
   the processed set, so nobody asks for them again.
8. **A dialog does not take back what it posted before a failure** (`content.js:393`): `before`
   is not updated, so an input set back to it counts as unchanged. It is the
   exception in `SignedAsShown`.
9. **Two dialogs, one of them out of reach** (`content.js:209`): both requests find no active dialog
   to close. `StrayDialogs` says that there is no other way to get there.
10. **The timer closes another dialog** (`content.js:452`): one opened within the 800 ms. Its own,
    when it is not the active one, stays on the page, without a working Sign button (`Timer`).
11. **`initDefaults` overwrites a key chosen meanwhile** (`service-worker.js:530`, `WriteDefaults`). `KeyKept`
    leaves this case out.
12. **A signature need not be by the key it names** (`main.go:118`, `service-worker.js:313`, `Verifies`): any good
    signature by a key on the user's keyring is accepted, for the signer's and for the log's, and the
    revocations looked for are those of the key that made it.
13. **One entry may empty the answer** (`service-worker.js:269` and 287, `Encodable`): `btoa` throws on a character beyond Latin-1, and
    the `catch` (370) answers without categories, which is cached. The log accepts any signature that is not empty (`handler.go:120-127`).
14. **Revoked certifications that cannot be read are none** (`service-worker.js:302`, `main.go:138`, `ListSigsOutput`, `ListKeys`): see
    [above](#hostverify-and-verdictpipeline).

Two more things a reader of the models should know, which are choices of the design and have
no run: nobody queues an audit leaf again after an error, a time-out or a crash
(`store.go:123`), so `AuditedServed` says what the audit trail may show and nothing says that
it is complete; and behind the reverse proxy of the repository's README every client has
the proxy's address (`ratelimit.go:84`), so `RejectedForOwnSake`, which holds for an address
per client, does not hold there (`Addr <- Proxied` in `MCRateLimiter`).

## The proofs

### LogServerProofs

`LogServerProofs` proves, for any sets of requests, readers, bodies and hashes and any
number of retries:

| theorem | says |
|---|---|
| `Inductive` | `Spec => []IndInv` |
| `TypeCorrect` | `Spec => []TypeOK` |
| `IndexesAreUnique` | no `log_index` is given twice |
| `ReceiptsAreDurable` | a 201 stays true: index, uuid and hash lead to the entry, unchanged and fully signed |
| `AuditShowsTheLog` | `AuditedServed`: a queued leaf is an entry that can be read back, for good |
| `Refinement` | `LogServer` implements `AppendOnlyLog` |
| `OrderIsRealTime` | `RealTimeOrder`: who was acknowledged before another began has the smaller number, no later a timestamp, and stands later in the list |
| `OrderInductive` | the induction behind it |
| `WorkCountsDown` | every answer of Redis, lost, refused or not, brings a handler nearer to its end or to gpg, every `GET` a read nearer to its own, and nobody else takes them back |
| `AnswerIsPossible` | a handler that waits for Redis can always take the step it waits for |
| `ReadIsPossible` | a read that has begun can always go on |

They rest on the named assumptions of `LogServer` (bodies are records of the right
shape, valid hashes are hashes, bounds are naturals, `NoEntry` is no entry) and on nothing
else; in particular on no bound of the runs.

`UniqueIndex` and `AckedDurable` are not inductive as they stand. A new number is unique
because the counter is ahead of all numbers given out (`CounterInv`). A stored entry stays
because only the request that owns a number writes to it (`StoreInv`, which needs
`UniqueIndex`) and because an `Entry` no longer changes once it is signed, of which
`HandlerInv` says at which call what is filled in. That a 201 finds everything in place
is `PipelineInv`: what the answers seen so far tell a handler about Redis, which other
handlers must not undo (`Bystanders`, `TracesStay`) and which a retry forgets. `IndInv` is
their conjunction with `TypeOK`; each conjunct has a lemma that says a step preserves it,
split along the actions of `Next`.

The refinement maps `published` to what is both stored and listed, and `receipts` to the
requests that are `created`. A step publishes when it completes the pair: usually
`PushIndex`, but `SetEntry` when a retry repairs a refused `SET` behind an `LPUSH` already
done. Both cases, and that a second `SET` changes nothing, are lemmas of their own
(`SetEntryPublishes`, `PushIndexPublishes`; `AuditShowsTheLog` uses them too); every other step is an `Acknowledge` or a stutter.

`RealTimeOrder` compares two requests of which the first was `created` when the second was accepted.
It becomes inductive with `PriorInv` (who was acknowledged stays so), `StampInv` (no timestamp is ahead
of the clock, and the earlier request's is not ahead of the later's) and `ListInv` (a
number in a list belongs to a request past its `INCR`, so a number still to come is in no list); a retry may
push the later number twice, always in front of the earlier (`PushKeepsOrder`).

The last three are what `WorkEnds` is made of, without its fairness. A retry takes a handler back, so that it ends
is not obvious: `AnswersLeft` counts the answers it may still get, four for each retry it has left, and goes down with
each of them. Other handlers share Redis with it but change neither its retries nor where it is (`OthersCount`).
`AnswerIsPossible` and `ReadIsPossible` write out the next state of a step that succeeds, which is what `ENABLED` says
there is.

### LogReadbackProofs

For any number of requests, readers and retries and any set of trusted signers:

| theorem | says |
|---|---|
| `ListingsAreSound` | a listing holds only entries that are stored and listed under its hash |
| `ListingsAreComplete` | `ListingComplete`: it holds all that were acknowledged before it began |
| `ReceiptsResolve` | `AckedResolves`: a read by an acknowledged uuid finds its entry, or fails as a whole |
| `TheLastWriteWins` | `LastWriteWins`: an acknowledged entry of the same signer and category hides no later one, even within a second |
| `RevocationsStick` | `RevocationSticks`: a claim whose revocation was acknowledged, and that was not renewed, counts in no badge |
| `SelectedAlwaysVerifies` | `SelectedVerifies`: the server's signature covers whatever is selected |
| `RevokedNeverShows` | end to end: a revocation that was acknowledged before a lookup, and not renewed, leaves its signer in no badge of that category |
| `LastWordAlwaysCounts` | end to end: a signer's acknowledged last word counts for whoever trusts the signer, and a claim gives its category a badge |

`ListingsAreComplete`, `TheLastWriteWins`, `RevocationsStick` and the last two have the premise `~ReadFaults`: no `GET` of a
stored entry fails. Without it they are false, which is the first of [what disagrees](#what-disagrees). The others
have no premise.

A read takes several steps while others write. `GotInv` says that what it has in hand is
served and that the numbers it has still to fetch are from the list of its hash, `OwedInv` that everything it
owes is in hand or still to be fetched, `ResolveInv` where a read by uuid has got to. `LastWriteWins` needs the
order in which the entries came: `PlaceInv` says that two entries of a
listing, in hand or to be fetched, stand in it as `RealTimeOrder` says their numbers stand in the list (`TakeKeepsOrder`,
`TailKeepsOrder`), and `NewestIsKept` connects this with what the extension's loop keeps. `SignedInv` is
about all stored entries, not the acknowledged ones, because a request may fail or crash after it has stored its entry, which
is listed all the same.

The last two go the whole way from the `POST` of one user to the badge of another: the server with its retries and crashes, a
listing that others write to meanwhile, the extension's loop, and what the host makes of keys and signatures. They quantify over
every keyring and everything else a lookup may meet (`env`: makers of signatures, entries that cannot be encoded, calls that fail), and are proved of `LogServer`'s behaviours by citing
`VerdictPipelineProofs` for what is fetched (`Fetched`). `LastWord(r)` says that all other requests of that signer and category were acknowledged before `r`
was accepted, or have not been accepted yet. By `PlaceInv` its entry then comes first in the listing, before what is older, even if both
have the same second (`LastWins`), so nothing else of the signer and category is kept (`LastWordAlone`), whichever keys are trusted. That is why `RevokedNeverShows` needs no
premise about keys, signatures or calls: no older claim takes the place of a revocation that does not verify. `LastWordAlwaysCounts` has the premises a
verdict needs to count: its signer is trusted, the log's key is on the keyring, the two have made its signatures (`SoundEntry`), it is
older than every revocation on the two keys, gpg and the host answer, and every entry that is kept from the listing, whoever it names, can
be encoded (`Answerable`). That a claim gets a badge needs that its category is one of those the extension
shows (`CategoryInv`: the server accepts no other).

### VerdictPipelineProofs

For lists of any length, any keyring, and any makers of signatures, entries that cannot be encoded and calls that fail:

| theorem | says |
|---|---|
| `KeepLatestKeepsNewest` | the loop of `handleGetVerdicts` keeps exactly the newest entry of every trusted signer in every category, and each key once |
| `DialogShowsOwnBadge` | the loop of `handleGetMyVerdicts` finds what the other loop and the plurality would show if the key alone were trusted |
| `TopVerdictWins` | the verdict shown has the most votes, and of those with as many it is claimed first |
| `LatestOfWhatPasses` | to keep the latest and to take out whole signers, or categories of a signer, commute |
| `UsableKeysListed` | `list_keys` answers exactly the keys that are not revoked, expired or invalid, each with its own trust |
| `TrustedAreUsable` | so the keys whose verdicts count are those trusted fully or ultimately that can be used, or none if they cannot be listed |
| `EarlierCountsOnAnyKeyring` | what both have signed before every revocation on their keys counts, however many keys are revoked and how often, if all that is kept can be encoded and gpg answers |
| `LaterNeverCountsOnAnyKeyring` | nothing counts without two good signatures by keys on the keyring, or that does not precede the revocations of these two that the host looks at; not that they are the keys named |
| `IndependentOnAnyKeyring` | what does not verify costs nobody else anything, and what cannot be encoded costs all everything |
| `RevokeWithdrawsOnAnyKeyring` | after a revocation everything is as if its signer had never spoken in the category, or nothing is shown, if what is kept cannot be encoded |

The model's loops are folds of the community modules, which tlapm sees as a function chosen to satisfy
a recursion over *sets of positions*. Such a function exists for whatever is folded (`FoldExists`), its values on the sets
`1..n` are those of the loop after `n` turns (`LastOfPrefix`), and an invariant of the loop goes from turn to turn
by `TurnByTurn`, which is well-foundedness of the natural numbers applied to a set instead of an operator. Each loop has a
lemma that makes it turns (`KeepLatestIsLoop`, `MineIsLoop`, `TopIsLoop`, `FilterIsLoop`) and one that
says what a turn keeps (`NewestTurn`, `MineNewestTurn`, `TopLeads`).

What a filter returns is said by positions: `Picks(list, I, result)` says that `result` has the elements at the positions
`I`, in their order. It determines `result` (`PicksUnique`), so two ways to pick the same positions give the same sequence, and
that is how filters are compared (`FilterPicks`, `FilterSame`, `FilterTwice`). `LatestOfWhatPasses` goes
along the list (`First`); a turn commutes with the filter because an entry that is replaced keeps its place and passes
if and only if the one that replaces it does (`ConsiderFiltered`).

`ParseColons` over gpg's listing goes key by key: three lines of a key
add exactly its own answer, whatever the parser has seen before (`ParseKey`, from `PubLine` and
`FprLine`: the second fingerprint, the subkey's, must not replace the first). `StatusIs` says what
`parseStatusFd` makes of each answer of `gpg --verify`, `CertDateIs` that `GetCertRevocationDate` finds the
earliest revocation by a key, `VerifiesIs` what `IsValid` then decides; `ResultsAre` that of the answers of the
batch those for the log's and for the signer's signature stand at the places of their entry. So
the entries that count are those kept that verify (`CountedAreGood`), which is a filter, and
the last two theorems follow by exchanging filters and the loop.

`Keyring` is what a theorem about dates assumes: records are certifications and revocations with dates, and a key that gpg calls revoked
has a revocation of its own. The two theorems about dates do not meet. `Precedes` names what lies
between: the host stops at the first record of a revoked key's own revocation, and at the first of the user's keys that has revoked
a certification, so a date after the revocation by another of them may pass.

### MCVerdictSelectionProofs

That the properties which the run checks hold in all states of `MCVerdictSelection`, for any keyring order, users,
friends, strangers, times and dates and any number of entries:

| theorem | says |
|---|---|
| `NewestAlwaysKept` | `KeepsNewest`, with the trust the keyring has and not what gpg prints of it |
| `PluralityAlwaysWins` | `PluralityWins` |
| `DialogAlwaysAgrees` | `DialogAgrees` |
| `EarlierAlwaysCounts` | `EarlierCounts`: what both have signed before every revocation of their keys counts, if all that is kept can be encoded and gpg answers |
| `LaterNeverEverCounts` | `LaterNeverCounts`: nothing counts without two good signatures, or that comes too late for a revocation that is looked for |
| `SignersAlwaysIndependent` | `SignersIndependent`: what does not verify costs nobody else anything, and what cannot be encoded costs all everything |
| `RevokeAlwaysWithdraws` | `RevokeWithdraws`: after a revocation everything is as if its signer had never spoken in the category, or nothing is shown |

The invariants are that the list holds entries of the pool (`ListInv`) and that the keyring is one that `Rings` allows
(`RingInv`), which is a `Keyring` (`RingIsKeyring`); the rest is `VerdictPipelineProofs` applied to such a list and such a keyring.
`TimesAssumption`, `DatesAssumption` and `UsersAssumption` (the keyring has the users' keys) are of
`MCVerdictSelection`, `KeysAssumption` (every key has a fingerprint) of `VerdictPipeline`.

### AttestDialogProofs

For any number of dialogs, keys, categories, verdicts, choices and failures:

| theorem | says |
|---|---|
| `TypeCorrect` | `Spec => []TypeOK`: types, what each stage has at hand, the active dialog can be seen |
| `UntouchedStaysUnsigned` | nothing is signed or queued for a category the user has not touched in the dialog |
| `SignedStaysAsShown` | when a dialog says that it has signed, the log holds what it showed |
| `StrayOverlapped` | only dialogs whose openings overlap get out of reach |
| `KeyStays` | `initDefaults` replaces no stored key, unless the user chooses one while it waits |
| `WorkGetsLess` | each step a dialog takes by itself brings it nearer the moment when it waits for the user or is over; nothing else takes it away from there |
| `StepIsPossible` | a dialog that is asked for, signs or has signed can always take its next step: `NeverStuck` with `ENABLED` written out |

The induction is over three invariants. `Inv` is `TypeOK` dialog by dialog, with
`Touched`: what a dialog shows and has not found, the user has touched (this is what makes
`UntouchedUnsigned` inductive: the difference is taken later than the choice). `Visible`
adds to `StrayDialogs` that of two calls being opened both count as overlapped, and so does the
dialog that is active meanwhile, because the one that is shown next will displace it.
`AllFaithful` is what `SignedAsShown` needs of the time before: what the log has of the key a
dialog has read is what it found, except where it has posted itself, until somebody else
signs with that key; and what it has left to submit is all that the log has otherwise than
wanted. Whoever signs with the key of another dialog disturbs it (`OtherIsFaithful`), its own
submissions settle one category each (`OwnIsFaithful`), and pressing Sign starts
from the difference (`SignIsFaithful`). The assumptions are those named in `AttestDialog`; that there are finitely many categories, which are
numbered in the order in which the code goes through them, is what makes one of the remaining ones the next
(`SomeCategoryIsNext`).

`WorkGetsLess` and `StepIsPossible` say together that a dialog can be held up only by an answer that never comes. The measure counts the
answers a dialog still waits for while it opens, and the categories it has still to submit; that it asks in the order of the code, the
verdicts only when it has a key, is an invariant of its own (`AllAsk`). `StepIsPossible` writes the next state out (`GoesOn`) and shows
that `Step` allows it.

### RateLimiterProofs

For any number of handlers, clients and addresses, and any rates, bursts and times:

| theorem | says |
|---|---|
| `TypeCorrect` | `Spec => []TypeOK`: buckets are never overdrawn nor overfull |
| `MapAlwaysForgets` | no address stays in the map longer than two sweeps and the second's lateness |
| `AddressConforms` | evicting a limiter and making it anew grants no address more than its bucket |
| `OwnSake` | with an address to each client, the per-IP limiter turns away only who has used up its own share |

They rest on the assumptions of `RateLimiter`; `OwnSake` also on `AddressEach`, its premise,
which is what the run's instance has and a reverse proxy takes away. That there always is an object
for a new limiter is counted out in `FreeLimiter` from `HeapAssumption`.

`MapForgets` becomes inductive when the age of an entry is tied to the ticker (`AgeInv`).
For `PerIPConforms` the induction is over `LimitInv`: a handler about to ask a limiter asks the one
in the map, because it has seen the address no longer ago than it has been stalled (`Holding`, and
`StallShort`: that is less than an eviction asks); addresses do not share limiters (`Apart`); a limiter
holds no more than its reference (`Behind`), which is full for whoever is not in the map (`Rested`) because
it has been filling since the address was last seen (`Resting`, where `RefillAssumption` is used).
`ShareInv` is the same comparison the other way round, with the client's own bucket.

### VerdictLookupProofs

For any number of pages, addresses, images and logs, any lifetimes and cache size, with all
faults, restarts and edits in any order:

| theorem | says |
|---|---|
| `TypeCorrect` | `Spec => []TypeOK` |
| `NobodyIsForgotten` | who waits for a verdict or for the server's key, waits for somebody who is at it |
| `CacheStaysBounded` | one result per address, never more than the limit |
| `AttestationsShow` | after a signature, no older answer of that log is left in the cache for the address through which it was made, except by a lookup that had read the log already |
| `AnswersStayFresh` | the trust an answer rests on is no older than the caches it went through allow |

The actions of `Next` come in four kinds (`Kinds`): the end of a lookup (`Returns`), a page that asks
(`Asks`), a restart, and the rest (`Quiet`), which answer nobody and at most strike an entry from the
cache; what each kind does to lookups, pages and cache is said once (`Asked`, `Returned`,
`CacheProperties`, `WithoutProperties`), and what a step may do to a lookup that goes on in `LookupsGoOn`.

`CacheBounded` is inductive with `CacheInv`: an address that is being looked up is not in the cache, so
no lookup adds a second entry. `AttestationShows` needs that too, or striking one entry would leave
another one, and `ShowsInv`: what has been attested is in the log, which only grows, so whoever
reads the log later sees it, and whoever has read it before is `raced` once the signature is done.
`AnswersFresh` needs the ages on the way: a lookup's trust is younger than its cache allows
when the lookup gets it and ages with the lookup (`LookupsYoung`), an entry's with the entry
(`EntriesYoung`). The assumptions are those named in `VerdictLookup`. `KeyOfAskedLog` has no
theorem because it does not hold (`VerdictLookupSwitch`).

### BadgesProofs

For any number of elements and badges and any sets of categories that lookups answer with, in any order:

| theorem | says |
|---|---|
| `BaseInductive` | the induction behind all of them |
| `TypeCorrect` | `Spec => []TypeOK` |
| `AlwaysDrawnOrScheduled` | `DrawnOrScheduled`: whatever is out of place has an update scheduled |
| `HeldInductive` | the map of an element that is not in `apart` leads to all its badges |
| `AlwaysOnePerCategory` | `OnePerCategory`: the badges of the last answer, one each, in order |
| `AlwaysVisibleAsSeen` | `VisibleAsSeen`: all badges of an element are visible or none, as the observer has said |
| `AlwaysLeavesNothing` | `LeavesNothing`: nothing of a removed element is seen |
| `RegistryAlwaysAgrees` | `RegistryAgrees`: registry, maps and observer agree |

None has a premise about answers. The last five are about the elements that are not in `apart`: those to which item 6 of
[what disagrees](#what-disagrees) has not happened. An element to which it has leaves the others' alone.

`BaseInv` ties the maps to the registry: what a map leads to is a badge of its element and category
(`MapInv`), a collected element has no map (`GoneInv`), finalizers are for badges that were made (`FinalizerInv`), an observed
element's badges are as visible as it was last seen (`SeenInv`), and a visible badge can be found from its element (`VisibleInv`).
`HeldInv` is the converse, that every badge of an element is in its map; an answer without a common category breaks it and puts the
element into `apart`, from which nothing takes it out.

### Only model-checked

`WorkEnds` (liveness under fairness) and `NeverStuck` (`ENABLED`) are beyond the prover and stay with TLC, which checks
them on the instances of their runs. What they are made of is proved for all instances: that the work gets less (`WorkCountsDown`, `WorkGetsLess`) and that a
step is possible (`AnswerIsPossible`, `ReadIsPossible`, `StepIsPossible`); only to conclude from these and fairness that it ends
is left. `KeyOfAskedLog` has no theorem because it does not hold, nor has `ListingComplete` without its premise. Every other property that a run checks is
stated by a theorem.

## What is not modelled

* `publicKey`, `logInfo`, flags, wiring, request logging; packaging, development container,
  icons and test page: no state of their own.
* Contents of images, hashes and signatures: they are values or payloads. JSON formatting
  is left out; `isValidEntry` is modelled by the fields it insists on.
* `sign`, `import_key` and `list_secret_keys` of the native host, which hand through what gpg
  answers: in `VerdictLookup` they succeed or fail. Whether a key can sign and its user id, which `list_keys`
  also reports, are for display.
* Where a badge is drawn (`getVisibleContentRect`) and which icon it has; which image a click is
  meant for (`resolveContextImage`): they read the page and change nothing. The message `attest_result` has a
  handler in `content.js` but nobody sends it, so background images are never refreshed after
  a signature, and `bgUrlToElements`, which only that handler reads, is left out.
* The framing of native messages: a loop without state that ends on the first error. Answers
  are written whatever their size (`framing.go:34`), so a batch of entries may exceed what the browser accepts;
  how large they are is up to gpg and the log.
* Lookups in `Badges` answer anything; that they answer what the log says is `VerdictLookup`.
* Loss of Redis' own data, a clock that goes back, a second server on the same Redis.

## Plan

Done: all modules above, and proofs of all properties that the prover can state. Left, in this order:

1. `sign` and `import_key` of the host as actions that change the keyring, so that a revocation may be imported between two
   lookups; the theorems hold for the keyring of either.
2. `AttestDialog` on the answers of `VerdictLookup`: dialogs, refreshes and badges of two pages at once.
