------------------------- MODULE MCVerdictSelection -------------------------
(* VerdictPipeline on every list of at most MaxEntries entries over a few signers,   *)
(* verdicts and timestamps, among them entries of signers nobody trusts, entries        *)
(* without a date and legacy entries without a category.  The log answers with the list,  *)
(* one entry a step.  After at most FewEntries of them something may become of a key, or    *)
(* something be wrong with a signature, an entry or a call of the lookup, and after the     *)
(* first of them both.                                                                       *)
EXTENDS VerdictPipeline

CONSTANTS MaxEntries, FewEntries, Users, Friends, Strangers, Times, Dates

\* Entries have a server_timestamp, in seconds, and revocations a date.
ASSUME TimesAssumption == Times \subseteq Nat
ASSUME DatesAssumption == Dates \subseteq Nat

\* The keyring has the keys of the user.
ASSUME UsersAssumption == Users \subseteq ToSet(KeyOrder)

\* The order in which gpg lists its keys.
Listing == <<"log", "alice", "bob", "carol">>

VARIABLES
    list, ring,
    odd,            \* signatures that another key has made than the one named: entry, role, by
    wide, failed    \* of env
vars == <<list, ring, odd, wide, failed>>

Roles == {"log", "signer"}

\* What the lookup meets, see VerdictPipeline.
env ==
    [ maker |-> [role \in Roles |-> [x \in ToSet(list) |->
                    IF \E o \in odd : o.entry = x /\ o.role = role
                    THEN (CHOOSE o \in odd : o.entry = x /\ o.role = role).by
                    ELSE IF role = "log" THEN LogKey ELSE x.signer_keyid]],
      wide |-> wide, failed |-> failed ]

Claimed == [authenticity |-> {"authentic", "satire", "revoke"}, authorship |-> {"my-work"}]

\* What is usually in a log, what people nobody trusts put there, what is there from before
\* verdicts had categories, and what another log than this repository's may have left undated.
Usual   == UNION {[ signer_keyid : Users \union Friends, category : {c},
                    verdict : Claimed[c], server_timestamp : Times ] : c \in DOMAIN Claimed}
Foreign == [ signer_keyid : Strangers, category : {"authenticity"}, verdict : {"satire"},
             server_timestamp : {2} ]
Legacy  == [ signer_keyid : Friends, category : {""}, verdict : {"authentic"},
             server_timestamp : {2} ]
Dateless == [ signer_keyid : Friends, category : {"authenticity"}, verdict : {"authentic"},
              server_timestamp : {Undated} ]
Pool    == Usual \union Foreign \union Legacy \union Dateless

Healthy ==
    [k \in ToSet(KeyOrder) |->
        [ validity |-> "f", records |-> <<>>,
          trust    |-> IF k \in Users THEN "u" ELSE IF k \in Friends THEN "f" ELSE "-" ]]

SelfRevoked(k, d) == << [type |-> "rev", class |-> "20x", by |-> k, at |-> d] >>
CertRevoked(u, d) == << [type |-> "rev", class |-> "30x", by |-> u, at |-> d] >>

OneUser == CHOOSE u \in Users : TRUE

\* What may have happened to key k: it is gone, trusted less, expired, revoked, or users have
\* revoked their certification of it, one of them, two, or one twice.
Rings(k) ==
    {[j \in DOMAIN Healthy \ {k} |-> Healthy[j]],
     [Healthy EXCEPT ![k].trust = "m"], [Healthy EXCEPT ![k].validity = "e"]}
    \union {[Healthy EXCEPT ![k].validity = "r", ![k].records = SelfRevoked(k, d)] : d \in Dates}
    \union {[Healthy EXCEPT ![k].records = CertRevoked(OneUser, d) \o CertRevoked(u, n)] :
              u \in Users, d \in Dates, n \in Dates}

Init == list = <<>> /\ ring = Healthy /\ odd = {} /\ wide = {} /\ failed = {}

Untroubled == odd = {} /\ wide = {} /\ failed = {}

Answer ==
    /\ ring = Healthy /\ Untroubled /\ Len(list) < MaxEntries
    /\ \E x \in Pool : list' = Append(list, x)
    /\ UNCHANGED <<ring, odd, wide, failed>>

KeyChanges ==
    /\ ring = Healthy /\ Untroubled /\ Len(list) \in 1..FewEntries
    /\ \E k \in Friends \union {LogKey} : ring' \in Rings(k)
    /\ UNCHANGED <<list, odd, wide, failed>>

Troubled ==
    /\ Untroubled
    /\ Len(list) \in 1..FewEntries /\ (ring # Healthy => Len(list) = 1)

\* A signature is of another key, or does not fit.
OddSignature ==
    /\ Troubled
    /\ \E x \in ToSet(list), role \in Roles, k \in ToSet(KeyOrder) \union {Nobody} :
          /\ k # env.maker[role][x]
          /\ odd' = {[entry |-> x, role |-> role, by |-> k]}
    /\ UNCHANGED <<list, ring, wide, failed>>

WideEntry ==
    /\ Troubled
    /\ \E x \in ToSet(list) : wide' = {x}
    /\ UNCHANGED <<list, ring, odd, failed>>

CallFails ==
    /\ Troubled
    /\ \/ \E call \in {"list_keys", "list_own", "verify"} : failed' = {<< call >>}
       \/ \E run \in {"verify", "own"}, x \in ToSet(list), role \in Roles : failed' = {<< run, x, role >>}
       \/ \E x \in ToSet(list), role \in Roles, u \in Users : failed' = {<< "cert", x, role, u >>}
    /\ UNCHANGED <<list, ring, odd, wide>>

Complete ==
    /\ Len(list) = MaxEntries \/ ring # Healthy \/ ~Untroubled
    /\ UNCHANGED vars
Next == Answer \/ KeyChanges \/ OddSignature \/ WideEntry \/ CallFails \/ Complete
Spec == Init /\ [][Next]_vars

-----------------------------------------------------------------------------
\* Trusted keys that can be used, by the keyring itself and not by what gpg prints of it; none
\* if they could not be listed.
Trusted ==
    {k \in DOMAIN ring :
        << "list_keys" >> \notin failed /\ ring[k].trust \in {"f", "u"} /\ ring[k].validity = "f"}

Kept == KeepLatest(list, TrustedFingerprints(ring, env))
Counted == VerifiedEntries(list, ring, env)

\* The positions of the entries of signer s in category c, and the one that counts:
\* of those with the highest timestamp, the first, which is the newest the server has.
Of(s, c) == {i \in DOMAIN list : list[i].signer_keyid = s /\ list[i].category = c}
Newest(s, c) ==
    CHOOSE i \in Of(s, c) : \A j \in Of(s, c) :
        \/ list[j].server_timestamp < list[i].server_timestamp
        \/ list[j].server_timestamp = list[i].server_timestamp /\ i <= j

\* Exactly the newest entry of each trusted signer in each category is kept
\* (service-worker.js:238, "keep latest entry per (signer, category)").
KeepsNewest ==
    LET kept == Kept IN
    /\ ToSet(kept) = {list[Newest(k[1], k[2])] :
                        k \in {p \in Trusted \X Categories : Of(p[1], p[2]) # {}}}
    /\ \A i, j \in DOMAIN kept : Key(kept[i]) = Key(kept[j]) => i = j

\* A category shows the verdict with the most votes, each signer having at most one,
\* and among equals the one whose supporter stands first in the list.
PluralityWins ==
    LET counted == Counted
        shown   == Aggregate(counted)
    IN  \A c \in DOMAIN shown :
            LET claims == Claims(counted, c)
                top    == shown[c].verdict
                first(v) == SelectInSeq(claims, LAMBDA x : x.verdict = v)
            IN  /\ top \in {x.verdict : x \in ToSet(claims)}
                /\ \A x \in ToSet(claims) :
                      \/ Votes(claims, x.verdict) < Votes(claims, top)
                      \/ Votes(claims, x.verdict) = Votes(claims, top) /\ first(top) <= first(x.verdict)
                /\ shown[c].signers = Cardinality({x.signer_keyid : x \in ToSet(claims)})

\* "The special verdict revoke withdraws a previous claim in a category" (README.md:31):
\* if it is a signer's newest word in c, everything is as if the signer had never said
\* anything in c, whatever has become of keys, signatures and calls; provided that every
\* entry that is kept can be encoded (service-worker.js:269).  Otherwise nothing is shown.
RevokeWithdraws ==
    LET shown == Shown(list, ring, env) IN
    \A s \in Trusted, c \in Categories :
        Of(s, c) # {} /\ list[Newest(s, c)].verdict = "revoke" =>
            shown = IF Encodable(Kept, env)
                    THEN Shown(Filter(list, {x \in ToSet(list) : Key(x) # <<s, c>>}), ring, env)
                    ELSE Aggregate(<<>>)

\* The dialog preselects for a key exactly the verdicts that a badge would show if
\* that key alone were trusted.
DialogAgrees ==
    \A s \in Trusted, c \in Categories :
        LET badge == Aggregate(KeepLatest(list, {s})) IN
        MyVerdicts(list, s)[c] = IF c \in DOMAIN badge THEN badge[c].verdict ELSE NoVerdict

-----------------------------------------------------------------------------
\* The earliest revocation of each who has revoked k or a certification of it.
Revocations(k) ==
    {r \in ToSet(ring[k].records) :
        \A q \in ToSet(ring[k].records) : q.by = r.by => r.at <= q.at}

\* x is what it looks like: the keys named have made its signatures, it is dated, and gpg runs
\* when it is asked about them.
Sound(x) ==
    /\ env.maker["log"][x] = LogKey /\ env.maker["signer"][x] = x.signer_keyid
    /\ x.server_timestamp # Undated
    /\ \A role \in Roles : {<< "verify", x, role >>, << "own", x, role >>} \intersect failed = {}

\* A revocation takes nothing from what was said before it (main.go:123-145): of what the
\* signers and the log have signed, whatever is older than every revocation of their keys
\* counts; provided that every entry that is kept can be encoded and "verify" answers.
EarlierCounts ==
    LET kept    == Kept
        counted == ToSet(Counted)
    IN  Encodable(kept, env) /\ << "verify" >> \notin failed =>
        \A x \in ToSet(kept) :
            /\ Sound(x) /\ LogKey \in DOMAIN ring
            /\ \A r \in Revocations(LogKey) \union Revocations(x.signer_keyid) : x.server_timestamp < r.at
            => x \in counted

\* The revocations of key k are looked for when its signature on x is verified: its own always,
\* certifications for what is dated, if the user's keys can be listed and gpg answers for each.
Heeded(x, role, k) ==
    \/ ring[k].validity = "r"
    \/ /\ x.server_timestamp # Undated /\ << "list_own" >> \notin failed
       /\ \A u \in Users : << "cert", x, role, u >> \notin failed

\* Nothing counts that names nobody trusted, or without two good signatures of keys on the
\* keyring, or that the log has dated at or after the revocation of a key that has made one
\* of them, or after everyone who revoked a certification of it had done so.  That these keys
\* are the log's and the one named is not promised: nobody compares them (main.go:118,
\* service-worker.js:313).  A revocation that is not looked for holds up nothing: see Heeded.
LaterNeverCounts ==
    \A x \in ToSet(Counted) :
        /\ x.signer_keyid \in Trusted
        /\ \A role \in Roles :
              LET k == env.maker[role][x] IN
              /\ k \in DOMAIN ring
              /\ Revocations(k) # {} /\ Heeded(x, role, k) =>
                    \E r \in Revocations(k) : x.server_timestamp < r.at

\* An entry kept of somebody else cannot be encoded.
SpoiltByOthers(s) == \E x \in wide : x.signer_keyid # s /\ x \in ToSet(Kept)

\* What does not verify costs others nothing: of each signer there counts what would count if
\* the log held nothing of anybody else.  Only what cannot be encoded costs everybody
\* everything (service-worker.js:269 and 370).
SignersIndependent ==
    LET counted == Counted IN
    \A s \in Trusted :
        LET by == {x \in ToSet(list) : x.signer_keyid = s} IN
        IF SpoiltByOthers(s) THEN counted = <<>>
        ELSE Filter(counted, by) = VerifiedEntries(Filter(list, by), ring, env)
=============================================================================
