----------------------------- MODULE LogServer -----------------------------
(* The transparency-log server: the createEntry, listEntries and getEntry         *)
(* handlers (server/internal/api/handler.go) and the Store under them             *)
(* (server/internal/store/store.go), with the parts of Redis, gpg and Trillian     *)
(* they rely on.                                                                   *)
(*                                                                                 *)
(* net/http runs every request in a goroutine of its own, so a request is a        *)
(* process whose pc names the next call it makes.  Each Redis command is one step: *)
(* Append sends SET, SET, LPUSH in a plain pipeline, which Redis does not execute  *)
(* as a transaction, and go-redis sends a command, or a whole pipeline, again when *)
(* the connection is lost before the replies came.                                 *)
(*                                                                                 *)
(* A definition whose name ends in Mutant is the one after it with a plausible bug:  *)
(* it is no part of the model, and shows that a property notices the bug.            *)
EXTENDS Integers, Sequences, Functions

CONSTANTS
    Requests,        \* POST requests; newUUID never repeats, so r also names its uuid
    Readers,         \* GET requests
    Bodies,          \* JSON bodies the POST requests may carry
    Hashes,          \* artifact_hash strings that occur
    ValidHashes,     \* those of them that validateHash accepts
    SignerKeyIDs,    \* signer_keyid strings that are neither empty nor too long
    Signatures,      \* signature strings that are neither empty nor too large
    MaxRetries,      \* how often go-redis sends again after a lost connection
    MaxClock,        \* bound on the wall clock, in seconds
    ReadFaults,      \* may the GET of a single entry fail?
    NoEntry,         \* the handler has not built its Entry yet
    Unsigned         \* the server_signature of an Entry that is not signed yet

AllowedCategoryVerdicts ==
    [ authorship   |-> {"my-work", "revoke"},
      method       |-> {"ai-generated", "revoke"},
      authenticity |-> {"authentic", "satire", "misleading", "revoke"} ]

Body == [ artifact_hash : Hashes, category : STRING, verdict : STRING,
          signer_keyid : STRING, signature : STRING ]

ASSUME BodiesAssumption  == Bodies \subseteq Body
ASSUME HashesAssumption  == ValidHashes \subseteq Hashes
ASSUME BoundsAssumption  == MaxRetries \in Nat /\ MaxClock \in Nat
ASSUME FaultsAssumption  == ReadFaults \in BOOLEAN

Unassigned == -1   \* log_index of an Entry that Append has not numbered yet

-----------------------------------------------------------------------------
VARIABLES
    counter,    \* Redis "counter"
    entries,    \* Redis "entry:<n>": a function from the numbers that are set
    uuids,      \* Redis "uuid:<u>":  a function from the uuids that are set
    lists,      \* Redis "idx:<hash>": a sequence of numbers, newest first
    leaves,     \* leaves Trillian has queued
    clock,      \* the server's wall clock, which entries show in whole seconds
    pc,         \* next call of each POST handler
    e,          \* the *store.Entry of each POST handler
    sent,       \* commands of the pipeline that Redis has answered
    refused,    \* did Redis answer one of them with an error?
    attempt,    \* retries go-redis has made for the call under way
    worker,     \* the goroutine that queues the leaf
    prior,      \* history: the requests acknowledged before this one was accepted
    rpc,        \* next call of each GET handler
    query,      \* the hash or uuid it asks for
    todo,       \* numbers it still has to fetch
    got,        \* entries it has fetched
    known       \* history: uuids it must return, being acknowledged or shown before

redis    == <<counter, entries, uuids, lists>>
handlers == <<pc, e, sent, refused, attempt, prior>>
audit    == <<worker, leaves>>
readers  == <<rpc, query, todo, got, known>>
vars     == <<redis, handlers, audit, readers, clock>>

\* Entry and the payload the server signs: every field but server_signature.
SigPayload ==
    [ uuid : Requests, log_index : Nat, artifact_hash : Hashes, category : STRING,
      verdict : STRING, signer_keyid : STRING, signature : STRING,
      server_timestamp : Nat ]

Entry ==
    [ uuid : Requests, log_index : Nat \union {Unassigned}, artifact_hash : Hashes,
      category : STRING, verdict : STRING, signer_keyid : STRING,
      signature : STRING, server_timestamp : Nat,
      server_signature : SigPayload \union {Unsigned} ]

ASSUME NoEntryAssumption == NoEntry \notin Entry

Payload(x) ==
    [ uuid |-> x.uuid, log_index |-> x.log_index, artifact_hash |-> x.artifact_hash,
      category |-> x.category, verdict |-> x.verdict,
      signer_keyid |-> x.signer_keyid, signature |-> x.signature,
      server_timestamp |-> x.server_timestamp ]

NewEntry(r, b) ==
    [ uuid |-> r, log_index |-> Unassigned, artifact_hash |-> b.artifact_hash,
      category |-> b.category, verdict |-> b.verdict,
      signer_keyid |-> b.signer_keyid, signature |-> b.signature,
      server_timestamp |-> clock, server_signature |-> Unsigned ]

Put(f, k, v) == [x \in DOMAIN f \union {k} |-> IF x = k THEN v ELSE f[x]]

Valid(b) ==
    /\ b.artifact_hash \in ValidHashes
    /\ b.category \in DOMAIN AllowedCategoryVerdicts
    /\ b.verdict \in AllowedCategoryVerdicts[b.category]
    /\ b.signer_keyid \in SignerKeyIDs
    /\ b.signature \in Signatures

-----------------------------------------------------------------------------
Init ==
    /\ counter = 0
    /\ entries = [n \in {} |-> NoEntry]
    /\ uuids = [u \in {} |-> Unassigned]
    /\ lists = [h \in Hashes |-> <<>>]
    /\ leaves = {}
    /\ clock = 0
    /\ pc = [r \in Requests |-> "idle"]
    /\ e = [r \in Requests |-> NoEntry]
    /\ sent = [r \in Requests |-> 0]
    /\ refused = [r \in Requests |-> FALSE]
    /\ attempt = [r \in Requests |-> 0]
    /\ worker = [r \in Requests |-> "none"]
    /\ prior = [r \in Requests |-> {}]
    /\ rpc = [d \in Readers |-> "idle"]
    /\ query = [d \in Readers |-> NoEntry]
    /\ todo = [d \in Readers |-> <<>>]
    /\ got = [d \in Readers |-> <<>>]
    /\ known = [d \in Readers |-> {}]

InFlight      == {"incr", "sign", "persist", "respond"}
Finished      == {"created", "rejected", "failed", "crashed"}
HandlerStates == {"idle"} \union InFlight \union Finished

Goto(r, next) == pc' = [pc EXCEPT ![r] = next]

Acknowledged == {r \in Requests : pc[r] = "created"}

(* createEntry up to Append.  400 for a body that does not validate; 500 when the  *)
(* system has no randomness; otherwise an Entry stamped with the time of arrival.  *)
Reject(r) ==
    /\ pc[r] = "idle"
    /\ \E b \in Bodies : ~Valid(b)
    /\ Goto(r, "rejected")
    /\ UNCHANGED <<redis, audit, readers, clock, e, sent, refused, attempt, prior>>

NewUUIDFails(r) ==
    /\ pc[r] = "idle"
    /\ \E b \in Bodies : Valid(b)
    /\ Goto(r, "failed")
    /\ UNCHANGED <<redis, audit, readers, clock, e, sent, refused, attempt, prior>>

Accept(r) ==
    /\ pc[r] = "idle"
    /\ \E b \in Bodies : Valid(b) /\ e' = [e EXCEPT ![r] = NewEntry(r, b)]
    /\ prior' = [prior EXCEPT ![r] = Acknowledged]
    /\ Goto(r, "incr")
    /\ UNCHANGED <<redis, audit, readers, clock, sent, refused, attempt>>

\* The place in the list of the hash serves as index.
IncrPerHashMutant(r) ==
    /\ pc[r] = "incr"
    /\ counter' = counter + 1
    /\ e' = [e EXCEPT ![r].log_index = Len(lists[e[r].artifact_hash])]
    /\ attempt' = [attempt EXCEPT ![r] = 0]
    /\ Goto(r, "sign")
    /\ UNCHANGED <<entries, uuids, lists, audit, readers, clock, sent, refused, prior>>

(* Append: INCR, sign, pipeline.  IncrLost is the connection lost before the reply: *)
(* Redis may or may not have counted, and go-redis asks again or gives up (which it *)
(* also does at once when the client has gone and r.Context() is cancelled).        *)
Incr(r) ==
    /\ pc[r] = "incr"
    /\ counter' = counter + 1
    /\ e' = [e EXCEPT ![r].log_index = counter' - 1]
    /\ attempt' = [attempt EXCEPT ![r] = 0]
    /\ Goto(r, "sign")
    /\ UNCHANGED <<entries, uuids, lists, audit, readers, clock, sent, refused, prior>>

IncrLost(r) ==
    /\ pc[r] = "incr"
    /\ counter' \in {counter, counter + 1}
    /\ \/ /\ attempt[r] < MaxRetries
          /\ attempt' = [attempt EXCEPT ![r] = @ + 1]
          /\ UNCHANGED pc
       \/ Goto(r, "failed") /\ UNCHANGED attempt
    /\ UNCHANGED <<entries, uuids, lists, audit, readers, clock, e, sent, refused, prior>>

\* The payload is stamped with the time of signing, not with that of the entry.
SignRestampedMutant(r) ==
    /\ pc[r] = "sign"
    /\ e' = [e EXCEPT ![r].server_signature =
                Payload([e[r] EXCEPT !.server_timestamp = clock])]
    /\ Goto(r, "persist")
    /\ UNCHANGED <<redis, audit, readers, clock, sent, refused, attempt, prior>>

Sign(r) ==
    /\ pc[r] = "sign"
    /\ e' = [e EXCEPT ![r].server_signature = Payload(e[r])]
    /\ Goto(r, "persist")
    /\ UNCHANGED <<redis, audit, readers, clock, sent, refused, attempt, prior>>

SignFails(r) ==
    /\ pc[r] = "sign"
    /\ Goto(r, "failed")
    /\ UNCHANGED <<redis, audit, readers, clock, e, sent, refused, attempt, prior>>

\* One command of the pipeline at a time: Redis serves other clients in between.
NextCommand(r, n) ==
    /\ pc[r] = "persist"
    /\ sent[r] = n
    /\ sent' = [sent EXCEPT ![r] = n + 1]
    /\ UNCHANGED <<counter, audit, readers, clock, pc, e, attempt, prior>>

SetEntry(r) ==
    /\ NextCommand(r, 0)
    /\ entries' = Put(entries, e[r].log_index, e[r])
    /\ UNCHANGED <<uuids, lists, refused>>

\* The uuid leads to the number given out last.
SetUUIDLatestMutant(r) ==
    /\ NextCommand(r, 1)
    /\ uuids' = Put(uuids, e[r].uuid, counter - 1)
    /\ UNCHANGED <<entries, lists, refused>>

SetUUID(r) ==
    /\ NextCommand(r, 1)
    /\ uuids' = Put(uuids, e[r].uuid, e[r].log_index)
    /\ UNCHANGED <<entries, lists, refused>>

\* RPUSH instead of LPUSH.
PushIndexAtTailMutant(r) ==
    /\ NextCommand(r, 2)
    /\ lists' = [lists EXCEPT ![e[r].artifact_hash] = @ \o <<e[r].log_index>>]
    /\ UNCHANGED <<entries, uuids, refused>>

PushIndex(r) ==
    /\ NextCommand(r, 2)
    /\ lists' = [lists EXCEPT ![e[r].artifact_hash] = <<e[r].log_index>> \o @]
    /\ UNCHANGED <<entries, uuids, refused>>

\* Redis answers a command with an error (out of memory, say) and goes on.
CommandRefused(r) ==
    /\ \E n \in 0..2 : NextCommand(r, n)
    /\ refused' = [refused EXCEPT ![r] = TRUE]
    /\ UNCHANGED <<entries, uuids, lists>>

\* Retries are not counted.
PipelineLostForeverMutant(r) ==
    /\ pc[r] = "persist"
    /\ \/ /\ attempt[r] < MaxRetries
          /\ sent' = [sent EXCEPT ![r] = 0]
          /\ refused' = [refused EXCEPT ![r] = FALSE]
          /\ UNCHANGED <<attempt, pc>>
       \/ Goto(r, "failed") /\ UNCHANGED <<attempt, sent, refused>>
    /\ UNCHANGED <<redis, audit, readers, clock, e, prior>>

\* The connection is lost after some of the commands, or before the last reply.
PipelineLost(r) ==
    /\ pc[r] = "persist"
    /\ \/ /\ attempt[r] < MaxRetries
          /\ attempt' = [attempt EXCEPT ![r] = @ + 1]
          /\ sent' = [sent EXCEPT ![r] = 0]
          /\ refused' = [refused EXCEPT ![r] = FALSE]
          /\ UNCHANGED pc
       \/ Goto(r, "failed") /\ UNCHANGED <<attempt, sent, refused>>
    /\ UNCHANGED <<redis, audit, readers, clock, e, prior>>

PipelineRefused(r) ==
    /\ pc[r] = "persist" /\ sent[r] = 3 /\ refused[r]
    /\ Goto(r, "failed")
    /\ UNCHANGED <<redis, audit, readers, clock, e, sent, refused, attempt, prior>>

\* Only the error of the connection is looked at, not those of the commands.
PipelineDoneAnyhowMutant(r) ==
    /\ pc[r] = "persist" /\ sent[r] = 3
    /\ worker' = [worker EXCEPT ![r] = "pending"]
    /\ Goto(r, "respond")
    /\ UNCHANGED <<redis, leaves, readers, clock, e, sent, refused, attempt, prior>>

PipelineDone(r) ==
    /\ pc[r] = "persist" /\ sent[r] = 3 /\ ~refused[r]
    /\ worker' = [worker EXCEPT ![r] = "pending"]
    /\ Goto(r, "respond")
    /\ UNCHANGED <<redis, leaves, readers, clock, e, sent, refused, attempt, prior>>

Respond(r) ==
    /\ pc[r] = "respond"
    /\ Goto(r, "created")
    /\ UNCHANGED <<redis, audit, readers, clock, e, sent, refused, attempt, prior>>

(* The goroutine that Append leaves behind.  An error is logged and forgotten; when *)
(* the ten seconds pass, the leaf may have been queued all the same.                *)
Audited(r, outcomes) ==
    /\ worker[r] = "pending"
    /\ leaves' \in outcomes
    /\ worker' = [worker EXCEPT ![r] = "ended"]
    /\ UNCHANGED <<redis, handlers, readers, clock>>

QueueLeafOk(r)      == Audited(r, {leaves \union {e[r]}})
QueueLeafError(r)   == Audited(r, {leaves})
QueueLeafTimeout(r) == Audited(r, {leaves, leaves \union {e[r]}})

(* The server process dies.  Redis and Trillian keep what they have; every handler  *)
(* and goroutine is gone.  Requests that have not arrived meet the restarted server. *)
Crash ==
    /\ \/ \E r \in Requests : pc[r] \in InFlight
       \/ \E r \in Requests : worker[r] = "pending"
    /\ pc' = [r \in Requests |->
                 IF pc[r] \in InFlight THEN "crashed" ELSE pc[r]]
    /\ worker' = [r \in Requests |-> IF worker[r] = "pending" THEN "ended" ELSE worker[r]]
    /\ rpc' = [d \in Readers |-> IF rpc[d] \in {"listing", "fetching"} THEN "crashed" ELSE rpc[d]]
    /\ UNCHANGED <<redis, leaves, clock, e, sent, refused, attempt, prior,
                   query, todo, got, known>>

Tick ==
    /\ clock < MaxClock
    /\ clock' = clock + 1
    /\ UNCHANGED <<redis, handlers, audit, readers>>
-----------------------------------------------------------------------------
(* Reads.  GetByHash takes the numbers with one LRANGE and fetches the entries one   *)
(* by one; GetByUUID takes the number, then the entry.                               *)

\* What a read of h that starts now has to return: what was acknowledged, and what
\* an earlier read of h has already shown.
ReadBefore(h) == {x.uuid : x \in UNION {Range(got[d]) : d \in {c \in Readers : rpc[c] = "listed" /\ query[c] = h}}}
Due(h)   == {r \in Acknowledged : e[r].artifact_hash = h} \union ReadBefore(h)

\* LRANGE 0 -2: the oldest number is left out.
ListBeginShortMutant(d, h) ==
    /\ rpc[d] = "idle"
    /\ query' = [query EXCEPT ![d] = h]
    /\ known' = [known EXCEPT ![d] = Due(h)]
    /\ IF h \in ValidHashes
       THEN /\ rpc' = [rpc EXCEPT ![d] = "listing"]
            /\ todo' = [todo EXCEPT ![d] = SubSeq(lists[h], 1, Len(lists[h]) - 1)]
       ELSE rpc' = [rpc EXCEPT ![d] = "rejected"] /\ UNCHANGED todo
    /\ UNCHANGED <<redis, handlers, audit, clock, got>>

ListBegin(d, h) ==
    /\ rpc[d] = "idle"
    /\ query' = [query EXCEPT ![d] = h]
    /\ known' = [known EXCEPT ![d] = Due(h)]
    /\ IF h \in ValidHashes
       THEN /\ rpc' = [rpc EXCEPT ![d] = "listing"]
            /\ todo' = [todo EXCEPT ![d] = lists[h]]
       ELSE rpc' = [rpc EXCEPT ![d] = "rejected"] /\ UNCHANGED todo
    /\ UNCHANGED <<redis, handlers, audit, clock, got>>

\* LRANGE, or the GET of "uuid:<u>", fails: 500.
ReadFails(d) ==
    /\ rpc[d] = "idle"
    /\ rpc' = [rpc EXCEPT ![d] = "failed"]
    /\ UNCHANGED <<redis, handlers, audit, clock, query, todo, got, known>>

\* An entry that cannot be fetched is left out of the answer without a word.
ListGet(d) ==
    /\ rpc[d] = "listing" /\ todo[d] # <<>>
    /\ \/ /\ Head(todo[d]) \in DOMAIN entries
          /\ got' = [got EXCEPT ![d] = Append(@, entries[Head(todo[d])])]
       \/ /\ ReadFaults \/ Head(todo[d]) \notin DOMAIN entries
          /\ UNCHANGED got
    /\ todo' = [todo EXCEPT ![d] = Tail(@)]
    /\ UNCHANGED <<redis, handlers, audit, clock, rpc, query, known>>

ListDone(d) ==
    /\ rpc[d] = "listing" /\ todo[d] = <<>>
    /\ rpc' = [rpc EXCEPT ![d] = "listed"]
    /\ UNCHANGED <<redis, handlers, audit, clock, query, todo, got, known>>

GetBegin(d, u) ==
    /\ rpc[d] = "idle"
    /\ query' = [query EXCEPT ![d] = u]
    /\ known' = [known EXCEPT ![d] = Acknowledged]
    /\ IF u \in DOMAIN uuids
       THEN /\ rpc' = [rpc EXCEPT ![d] = "fetching"]
            /\ todo' = [todo EXCEPT ![d] = <<uuids[u]>>]
       ELSE rpc' = [rpc EXCEPT ![d] = "notfound"] /\ UNCHANGED todo
    /\ UNCHANGED <<redis, handlers, audit, clock, got>>

\* 500 when the number leads to no entry, or the GET fails.
GetEntry(d) ==
    /\ rpc[d] = "fetching"
    /\ \/ /\ Head(todo[d]) \in DOMAIN entries
          /\ got' = [got EXCEPT ![d] = <<entries[Head(todo[d])]>>]
          /\ rpc' = [rpc EXCEPT ![d] = "found"]
       \/ /\ ReadFaults \/ Head(todo[d]) \notin DOMAIN entries
          /\ rpc' = [rpc EXCEPT ![d] = "failed"]
          /\ UNCHANGED got
    /\ UNCHANGED <<redis, handlers, audit, clock, query, todo, known>>

-----------------------------------------------------------------------------
\* What go-redis and the handler do without gpg: their timeouts bound each of these.
RedisStep(r) ==
    \/ Incr(r) \/ IncrLost(r)
    \/ SetEntry(r) \/ SetUUID(r) \/ PushIndex(r) \/ CommandRefused(r)
    \/ PipelineLost(r) \/ PipelineRefused(r) \/ PipelineDone(r) \/ Respond(r)

Post(r) ==
    \/ Reject(r) \/ NewUUIDFails(r) \/ Accept(r)
    \/ Sign(r) \/ SignFails(r)
    \/ RedisStep(r)

Worker(r) == QueueLeafOk(r) \/ QueueLeafError(r) \/ QueueLeafTimeout(r)

Get(d) ==
    \/ \E h \in Hashes : ListBegin(d, h)
    \/ \E u \in Requests : GetBegin(d, u)
    \/ ReadFails(d) \/ ListGet(d) \/ ListDone(d) \/ GetEntry(d)

Quiescent ==   \* nothing is left to do, which is no deadlock
    /\ \A r \in Requests : pc[r] \in Finished /\ worker[r] # "pending"
    /\ \A d \in Readers : rpc[d] \notin {"idle", "listing", "fetching"}
    /\ UNCHANGED vars

Next ==
    \/ \E r \in Requests : Post(r) \/ Worker(r)
    \/ \E d \in Readers : Get(d)
    \/ Crash \/ Tick \/ Quiescent

Spec == Init /\ [][Next]_vars

(* Fairness.  go-redis gives every command a deadline, so a handler that waits for    *)
(* Redis goes on, and the context of the goroutine ends after ten seconds.  gpg is    *)
(* run without a deadline: nothing is assumed of Sign.                                *)
Fairness ==
    /\ \A r \in Requests : WF_vars(RedisStep(r)) /\ WF_vars(QueueLeafTimeout(r))
    /\ \A d \in Readers : WF_vars(ListGet(d) \/ ListDone(d) \/ GetEntry(d))

FairSpec == Spec /\ Fairness

-----------------------------------------------------------------------------
Numbered == {r \in Requests : e[r] # NoEntry /\ e[r].log_index # Unassigned}

\* What a client can read back: entries that are stored and listed under their hash.
Published ==
    {x \in Range(entries) : x.log_index \in Range(lists[x.artifact_hash])}

RedisTypeOK ==
    /\ counter \in Nat
    /\ DOMAIN entries \subseteq Nat
    /\ \A n \in DOMAIN entries : entries[n] \in Entry
    /\ DOMAIN uuids \subseteq Requests
    /\ \A u \in DOMAIN uuids : uuids[u] \in Nat
    /\ lists \in [Hashes -> Seq(Nat)]

HandlersTypeOK ==
    /\ pc \in [Requests -> HandlerStates]
    /\ e \in [Requests -> Entry \union {NoEntry}]
    /\ sent \in [Requests -> 0..3]
    /\ refused \in [Requests -> BOOLEAN]
    /\ attempt \in [Requests -> 0..MaxRetries]
    /\ prior \in [Requests -> SUBSET Requests]

AuditTypeOK ==
    /\ leaves \subseteq Entry
    /\ worker \in [Requests -> {"none", "pending", "ended"}]

ReadersTypeOK ==
    /\ rpc \in [Readers -> {"idle", "listing", "listed", "fetching", "found",
                            "notfound", "rejected", "failed", "crashed"}]
    /\ query \in [Readers -> Hashes \union Requests \union {NoEntry}]
    /\ todo \in [Readers -> Seq(Nat)]
    /\ got \in [Readers -> Seq(Entry)]
    /\ known \in [Readers -> SUBSET Requests]

\* Types of the variables; pc and rpc range over the calls of the handlers.
TypeOK ==
    /\ RedisTypeOK /\ HandlersTypeOK /\ AuditTypeOK /\ ReadersTypeOK
    /\ clock \in Nat

\* What each handler's Entry holds at each of its calls.
HandlerOK(r) ==
    /\ pc[r] \in {"idle", "rejected"} => e[r] = NoEntry
    /\ pc[r] = "incr" => e[r] \in Entry /\ e[r].log_index = Unassigned
    /\ pc[r] \in {"sign", "persist", "respond", "created"} =>
           e[r] \in Entry /\ e[r].log_index \in Nat
    /\ pc[r] \in {"persist", "respond", "created"} =>
           e[r].server_signature = Payload(e[r])
    /\ worker[r] = "pending" => pc[r] \in {"respond", "created"} /\ e[r] \in Entry
    /\ e[r] # NoEntry => e[r].uuid = r

HandlerInv == \A r \in Requests : HandlerOK(r)

Stored(r) == e[r].log_index \in DOMAIN entries /\ entries[e[r].log_index] = e[r]
Mapped(r) == r \in DOMAIN uuids /\ uuids[r] = e[r].log_index
Listed(r) == e[r].log_index \in Range(lists[e[r].artifact_hash])

\* The counter is ahead of every number it has given out.
CounterInv == \A r \in Numbered : e[r].log_index < counter

\* Whatever is stored under a number is the signed Entry of the request that was
\* given it, which has not changed since.
StoreInv ==
    \A n \in DOMAIN entries :
        LET r == entries[n].uuid IN
        /\ r \in Numbered /\ pc[r] \notin {"idle", "incr", "sign"}
        /\ entries[n] = e[r] /\ e[r].log_index = n

\* What the answers a handler has seen so far tell it about Redis.
PipelineOK(r) ==
    /\ pc[r] \in {"idle", "incr", "sign"} => sent[r] = 0
    /\ pc[r] = "persist" /\ ~refused[r] =>
           /\ sent[r] > 0 => Stored(r)
           /\ sent[r] > 1 => Mapped(r)
           /\ sent[r] > 2 => Listed(r)
    /\ pc[r] \in {"respond", "created"} => Stored(r) /\ Mapped(r) /\ Listed(r)

PipelineInv == \A r \in Requests : PipelineOK(r)

\* No two requests are given the same log_index, whatever INCRs were lost, retried
\* or abandoned.
UniqueIndex ==
    \A r, q \in Numbered : e[r].log_index = e[q].log_index => r = q

\* A 201 means that the entry can be read back by its index, by its uuid and by its
\* hash, exactly as it was answered, and that the server's signature covers all of it.
AckedDurable ==
    \A r \in Acknowledged :
        /\ Stored(r) /\ Mapped(r) /\ Listed(r)
        /\ e[r].server_signature = Payload(e[r])

\* The inductive invariant: no step of any handler breaks it from any state that
\* satisfies it, and UniqueIndex and AckedDurable follow from it.
IndInv ==
    TypeOK /\ HandlerInv /\ CounterInv /\ UniqueIndex /\ StoreInv /\ PipelineInv

\* An entry accepted after another was acknowledged has the higher log_index and no
\* earlier timestamp, and stands nearer the head of the list of their hash, even if
\* retries have pushed either of them twice.
RealTimeOrder ==
    \A r \in Numbered : \A q \in prior[r] :
        /\ e[q].log_index < e[r].log_index
        /\ e[q].server_timestamp <= e[r].server_timestamp
        /\ e[q].artifact_hash = e[r].artifact_hash =>
              LET l == lists[e[r].artifact_hash] IN
              \A i, j \in DOMAIN l :
                  l[i] = e[r].log_index /\ l[j] = e[q].log_index => i < j

\* A listing returns every entry that was acknowledged, or had been shown to an
\* earlier reader, before it began (store.go:163 "GetByHash returns all entries for
\* the given artifact hash"), and only entries of the hash it was asked for.
ListingComplete ==
    \A d \in Readers : rpc[d] = "listed" =>
        /\ known[d] \subseteq {x.uuid : x \in Range(got[d])}
        /\ \A x \in Range(got[d]) : x.artifact_hash = query[d]

\* A GET of an acknowledged uuid finds its entry, unless the read itself fails: it is never
\* answered with 404, nor with 500 over what has been stored.
AckedResolves ==
    \A d \in Readers : query[d] \in known[d] =>
        /\ rpc[d] # "notfound"
        /\ rpc[d] = "failed" => ReadFaults
        /\ rpc[d] = "found" => got[d] = <<e[query[d]]>>

\* Trillian is given only what the log serves: the leaf of an entry is queued after the
\* entry can be read back, and shows it as it will stay (store.go:109, "Queue leaf to
\* Trillian for tamper-evident audit trail").
AuditedServed == leaves \subseteq Published

\* A handler that waits for Redis comes to the end, or to gpg, or dies with the server;
\* the goroutine that queues the leaf ends (store.go:116-126), and so does every read.
WorkEnds ==
    /\ \A r \in Requests :
          /\ pc[r] \in {"incr", "persist", "respond"} ~> pc[r] \in Finished \union {"sign"}
          /\ worker[r] = "pending" ~> worker[r] = "ended"
    /\ \A d \in Readers : rpc[d] \in {"listing", "fetching"} ~> rpc[d] \notin {"listing", "fetching"}

\* The server implements the append-only log: what can be read back only grows, by
\* entries with an index and a uuid of their own, and receipts are for what is there.
Log == INSTANCE AppendOnlyLog WITH
          UUIDs <- Requests, Entries <- Entry,
          published <- Published, receipts <- Acknowledged

ImplementsLog == Log!Spec
=============================================================================
