-------------------------- MODULE VerdictSelection --------------------------
(* How the extension turns the entries a log server returns for one image into    *)
(* what it shows: the pure part of handleGetVerdicts and handleGetMyVerdicts in    *)
(* extension/background/service-worker.js.  Entries are records with at least the  *)
(* fields signer_keyid, category, verdict and server_timestamp.  A JavaScript Map   *)
(* keeps the order in which its keys were first set, which decides ties between     *)
(* verdicts, so the map of latest entries is a sequence with one entry per key.     *)
(* Definitions whose names end in Mutant are no part of the model: each is the one   *)
(* after it with a plausible bug, to show that a property notices it.                *)
EXTENDS Integers, Sequences, SequencesExt

Categories == {"authorship", "method", "authenticity"}

NoVerdict == "null"

Key(x) == <<x.signer_keyid, x.category>>

\* The elements of s that pass, in their order.
Filter(s, passing) ==
    FoldLeft(LAMBDA passed, x : IF x \in passing THEN Append(passed, x) ELSE passed, <<>>, s)

\* On a tie the later element of the list, which is the older entry, wins.
ConsiderLastMutant(trusted, latest, x) ==
    LET at == SelectInSeq(latest, LAMBDA y : Key(y) = Key(x)) IN
    IF x.category = "" \/ x.signer_keyid \notin trusted
    THEN latest
    ELSE IF at = 0 THEN Append(latest, x)
    ELSE IF x.server_timestamp >= latest[at].server_timestamp
    THEN ReplaceAt(latest, at, x)
    ELSE latest

\* One turn of the loop that keeps the latest entry of each trusted signer and category.
Consider(trusted, latest, x) ==
    LET at == SelectInSeq(latest, LAMBDA y : Key(y) = Key(x)) IN
    IF x.category = "" \/ x.signer_keyid \notin trusted
    THEN latest
    ELSE IF at = 0 THEN Append(latest, x)
    ELSE IF x.server_timestamp > latest[at].server_timestamp
    THEN ReplaceAt(latest, at, x)
    ELSE latest

KeepLatest(list, trusted) ==
    FoldLeft(LAMBDA latest, x : Consider(trusted, latest, x), <<>>, list)

\* A revocation counts as a verdict.
ClaimsOfRevokersMutant(verified, c) ==
    Filter(verified, {x \in ToSet(verified) : x.category = c})

\* The verified entries that claim something in category c.
Claims(verified, c) ==
    Filter(verified, {x \in ToSet(verified) : x.category = c /\ x.verdict # "revoke"})

Votes(claims, v) == Len(Filter(claims, {x \in ToSet(claims) : x.verdict = v}))

\* A tie goes to the verdict that came last.
TopVerdictLastMutant(claims) ==
    FoldLeft(LAMBDA top, x :
                IF top = NoVerdict \/ Votes(claims, x.verdict) >= Votes(claims, top)
                THEN x.verdict ELSE top,
             NoVerdict, claims)

\* The verdicts are gone through in the order in which they first occur, and one
\* takes the lead when it has more votes than the leader.
TopVerdict(claims) ==
    FoldLeft(LAMBDA top, x :
                IF top = NoVerdict \/ Votes(claims, x.verdict) > Votes(claims, top)
                THEN x.verdict ELSE top,
             NoVerdict, claims)

Aggregate(verified) ==
    [c \in {k \in Categories : Claims(verified, k) # <<>>} |->
        [ verdict |-> TopVerdict(Claims(verified, c)),
          signers |-> Len(Claims(verified, c)) ]]

\* On a tie the older entry wins.
ConsiderMineLastMutant(key, mine, x) ==
    IF \/ x.category = "" \/ x.signer_keyid # key
       \/ x.category \in DOMAIN mine
          /\ x.server_timestamp < mine[x.category].server_timestamp
    THEN mine
    ELSE [c \in DOMAIN mine \union {x.category} |-> IF c = x.category THEN x ELSE mine[c]]

\* The dialog's own selection: latest entry per category of one key, unverified.
ConsiderMine(key, mine, x) ==
    IF \/ x.category = "" \/ x.signer_keyid # key
       \/ x.category \in DOMAIN mine
          /\ x.server_timestamp <= mine[x.category].server_timestamp
    THEN mine
    ELSE [c \in DOMAIN mine \union {x.category} |-> IF c = x.category THEN x ELSE mine[c]]

MyVerdicts(list, key) ==
    LET mine == FoldLeft(LAMBDA m, x : ConsiderMine(key, m, x), <<>>, list) IN
    [c \in Categories |->
        IF c \in DOMAIN mine /\ mine[c].verdict # "revoke"
        THEN mine[c].verdict ELSE NoVerdict]
=============================================================================
