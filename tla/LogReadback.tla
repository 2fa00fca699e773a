----------------------------- MODULE LogReadback -----------------------------
(* The log server and the extension put together: what a user is shown after a      *)
(* lookup, given what had been acknowledged to the signers before it.  The server    *)
(* orders entries three ways (log_index, server_timestamp, position in the list of   *)
(* a hash) and under concurrent submissions they disagree; the extension relies on   *)
(* the last two.                                                                     *)
EXTENDS LogServer, VerdictSelection

CONSTANT Trusted    \* signers the user trusts

\* isValidEntry: the fields the extension insists on.
IsValidEntry(x) ==
    /\ x.log_index \in Int
    /\ \A f \in {"uuid", "artifact_hash", "category", "verdict", "signer_keyid",
                 "signature", "server_timestamp", "server_signature"} : f \in DOMAIN x

\* validateEntries, then the loop over the entries.
Selected(d) == KeepLatest(Filter(got[d], {x \in ToSet(got[d]) : IsValidEntry(x)}), Trusted)

\* A submission that began after another of the same signer in the same category was
\* acknowledged is never hidden by it: if the later one is due in a listing, the
\* earlier one is not what the extension selects, even when both carry the same
\* second as timestamp (store.go:163, service-worker.js:238).
LastWriteWins ==
    \A d \in Readers : rpc[d] = "listed" =>
        \A x \in ToSet(Selected(d)) : \A r \in known[d] :
            Key(e[r]) = Key(x) => x.uuid \notin prior[r]

\* A claim whose revocation was acknowledged before the lookup, and that the signer
\* has not renewed, adds no signer to the badge of its category.
RevocationSticks ==
    \A d \in Readers : rpc[d] = "listed" =>
        \A r \in known[d] :
            /\ e[r].verdict = "revoke"
            /\ \A q \in Requests \ {r} :
                  q \in prior[r] \/ e[q] = NoEntry \/ Key(e[q]) # Key(e[r])
            => \A x \in ToSet(Claims(Selected(d), e[r].category)) :
                  x.signer_keyid # e[r].signer_keyid

\* What the extension has selected is an entry the server's signature covers: what it then sends
\* to the host for verification is what the log has signed, not a mixture of two writes.
SelectedVerifies ==
    \A d \in Readers : rpc[d] = "listed" =>
        \A x \in ToSet(Selected(d)) : x.server_signature = Payload(x)
=============================================================================
