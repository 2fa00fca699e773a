--------------------------- MODULE VerdictPipeline ---------------------------
(* The way from the entries of a log to what a badge shows, through the service      *)
(* worker and the native host: handleGetVerdicts lists the trusted keys, keeps the    *)
(* latest entry of each signer and category, has two signatures verified for each,     *)
(* and aggregates those that hold (extension/background/service-worker.js).            *)
(*                                                                                     *)
(* A keyring is a function from fingerprints to [validity, trust, records]; how gpg     *)
(* prints it is modelled as far as the host reads it.  What else a lookup meets is env:   *)
(*   maker    for each of the two signatures of an entry the key that has made it, or       *)
(*            Nobody if it does not fit what it is on.  The worker sends the key that is      *)
(*            named along (signer_keyid) and neither it nor the host compares the two         *)
(*   wide     the entries with a character beyond Latin-1 in one of their strings              *)
(*   failed   the calls that fail: a message to the host, << its name >>, or a run of gpg        *)
(*            for a signature, << its name, entry, role >>, of a key of the user                  *)
EXTENDS VerdictSelection, HostVerify

CONSTANTS
    LogKey,         \* fingerprint of the log server's key
    KeyOrder        \* the order in which gpg lists the keys it has

\* Keys sign with a subkey; gpg answers for a subkey what it answers for its key.
Subkey == "fingerprint of a subkey"

Nobody == "nobody's signature"

\* A key has a fingerprint.
ASSUME KeysAssumption == KeyOrder \in Seq(ToSet(KeyOrder) \ {"", Nobody})

-----------------------------------------------------------------------------
\* What gpg prints.
KeyLines(ring, k) ==
    << [type |-> "pub", validity |-> ring[k].validity, trust |-> ring[k].trust],
       [type |-> "fpr", fpr |-> k],
       [type |-> "fpr", fpr |-> Subkey] >>

ListKeysOutput(ring) ==
    FoldLeft(LAMBDA lines, k : IF k \in DOMAIN ring THEN lines \o KeyLines(ring, k) ELSE lines,
             <<>>, KeyOrder)

ListSigsOutput(ring, k, fails) ==
    IF k \notin DOMAIN ring \/ fails THEN Failure ELSE Printed(ring[k].records)

VerifyOutput(ring, k, fails) ==
    IF fails THEN Failure
    ELSE IF k = Nobody THEN Printed(<< [word |-> "BADSIG"] >>)
    ELSE IF k \notin DOMAIN ring
    THEN Printed(<< [word |-> "ERRSIG", reason |-> 9], [word |-> "NO_PUBKEY"] >>)
    ELSE Printed(<< [word |-> CASE ring[k].validity = "r" -> "REVKEYSIG"
                                [] ring[k].validity = "e" -> "EXPKEYSIG"
                                [] OTHER -> "GOODSIG"],
                    [word |-> "VALIDSIG", fpr |-> Subkey] >>)

-----------------------------------------------------------------------------
\* An answer without keys, as to a list_keys that fails, is one with none.
ListKeys(ring, env, call) ==
    IF << call >> \in env.failed THEN <<>> ELSE ParseColons(ListKeysOutput(ring))

TrustedFingerprints(ring, env) ==
    {k.fingerprint : k \in {x \in ToSet(ListKeys(ring, env, "list_keys")) : x.trust \in {"f", "u"}}}

\* The second list_keys of a lookup, for those who may have revoked certifications.
VerifierKeyIDs(ring, env) ==
    LET keys == ListKeys(ring, env, "list_own")
        own  == Filter(keys, {k \in ToSet(keys) : k.trust = "u"})
    IN  [i \in DOMAIN own |-> own[i].fingerprint]

\* btoa throws on what is not Latin-1, and the lookup ends in its catch.
Encodable(kept, env) == ToSet(kept) \intersect env.wide = {}

\* Two signatures for each entry: the log's and the signer's.
VerifyEntries(kept) ==
    [j \in 1..(2 * Len(kept)) |->
        [entry |-> kept[(j + 1) \div 2], role |-> IF j % 2 = 1 THEN "log" ELSE "signer"]]

\* What "verify" answers for the signature on x in a role, by the key that has made it.
Verifies(ring, env, verifiers, x, role) ==
    LET k == env.maker[role][x] IN
    IsValid(VerifyOutput(ring, k, << "verify", x, role >> \in env.failed),
            ListSigsOutput(ring, k, << "own", x, role >> \in env.failed),
            [i \in DOMAIN verifiers |->
                ListSigsOutput(ring, k, << "cert", x, role, verifiers[i] >> \in env.failed)],
            x.server_timestamp, verifiers)

VerifyResults(kept, ring, env) ==
    LET batch     == VerifyEntries(kept)
        verifiers == VerifierKeyIDs(ring, env)
    IN  [j \in DOMAIN batch |-> Verifies(ring, env, verifiers, batch[j].entry, batch[j].role)]

\* One answer for each entry is looked at, as if the log's signatures were not there.
VerifiedSingleMutant(kept, results) ==
    FoldLeftDomain(LAMBDA verified, i : IF results[i] THEN Append(verified, kept[i]) ELSE verified,
                   <<>>, kept)

\* The answers come back in order, two for each entry.
Verified(kept, results) ==
    FoldLeftDomain(LAMBDA verified, i :
                      IF results[2 * i - 1] /\ results[2 * i] THEN Append(verified, kept[i]) ELSE verified,
                   <<>>, kept)

\* An entry that cannot be encoded empties the whole answer, as does a "verify" that fails or
\* the import of the log's key before it.
VerifiedEntries(list, ring, env) ==
    LET kept == KeepLatest(list, TrustedFingerprints(ring, env)) IN
    IF Encodable(kept, env) /\ << "verify" >> \notin env.failed
    THEN Verified(kept, VerifyResults(kept, ring, env))
    ELSE <<>>

Shown(list, ring, env) == Aggregate(VerifiedEntries(list, ring, env))
=============================================================================
