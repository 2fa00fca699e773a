----------------------------- MODULE HostVerify -----------------------------
(* The native messaging host's part in a lookup: which keys it lists               *)
(* (client/internal/gpg/keys.go), what it reads out of gpg's answers                *)
(* (client/internal/gpg/verify.go) and which signatures it calls valid              *)
(* (client/cmd/gpg-attest/main.go, "verify").                                       *)
(*                                                                                  *)
(* The host is a process per message without state, so these are operators.  A line  *)
(* that gpg prints is a record with the fields the host looks at, and what a call of   *)
(* gpg comes to is its lines, unless it fails; dates are natural numbers, as RFC 3339  *)
(* dates of one zone compare like the moments they name.                               *)
(* Definitions whose names end in Mutant are no part of the model: each is the one    *)
(* after it with a plausible bug, to show that a property notices it.                 *)
EXTENDS Integers, Sequences, SequencesExt

Never   == -1   \* the date of a revocation that there is not
Undated == -1   \* the timestamp "", which sorts before every date

Printed(lines) == [ok |-> TRUE, lines |-> lines]
Failure        == [ok |-> FALSE, lines |-> <<>>]

-----------------------------------------------------------------------------
\* gpg --list-keys --with-colons: "pub" opens a key and closes the one before it.
Start == [keys |-> <<>>, open |-> FALSE, validity |-> "", trust |-> "", fpr |-> ""]

Flush(s) ==
    IF s.open /\ s.validity \notin {"r", "e", "i"} /\ s.fpr # ""
    THEN [Start EXCEPT !.keys = Append(s.keys, [fingerprint |-> s.fpr, trust |-> s.trust])]
    ELSE [Start EXCEPT !.keys = s.keys]

\* One line; the lines of subkeys come after the fingerprint of their key.
ColonLine(s, line) ==
    CASE line.type \in {"pub", "sec"} ->
            [Flush(s) EXCEPT !.open = TRUE, !.validity = line.validity, !.trust = line.trust]
      [] line.type = "fpr" /\ s.open /\ s.fpr = "" -> [s EXCEPT !.fpr = line.fpr]
      [] OTHER -> s

ParseColons(lines) == Flush(FoldLeft(ColonLine, Start, lines)).keys

-----------------------------------------------------------------------------
\* gpg --verify --status-fd: each line adds to what is known of the signature.
Unverified == [ valid |-> FALSE, fingerprint |-> "", keyRevoked |-> FALSE,
                keyExpired |-> FALSE, keyMissing |-> FALSE ]

StatusLine(r, line) ==
    CASE line.word = "GOODSIG"   -> [r EXCEPT !.valid = TRUE]
      [] line.word = "BADSIG"    -> [r EXCEPT !.valid = FALSE]
      [] line.word = "REVKEYSIG" -> [r EXCEPT !.valid = TRUE, !.keyRevoked = TRUE]
      [] line.word = "EXPKEYSIG" -> [r EXCEPT !.valid = TRUE, !.keyExpired = TRUE]
      [] line.word = "ERRSIG"    -> [r EXCEPT !.valid = FALSE,
                                              !.keyMissing = @ \/ line.reason = 9]
      [] line.word = "NO_PUBKEY" -> [r EXCEPT !.keyMissing = TRUE]
      [] line.word = "VALIDSIG"  -> [r EXCEPT !.fingerprint = line.fpr]
      [] OTHER                   -> r

ParseStatusFd(lines) == FoldLeft(StatusLine, Unverified, lines)

\* gpg --list-sigs --with-colons: revocations of the key by itself (class 20x), of
\* which the first counts, and of certifications on it, of which the earliest does.
\* "verify" ignores the error that either returns when gpg fails: there is no date then.
GetKeyRevocationDate(listing) ==
    LET first == SelectInSeq(listing.lines, LAMBDA x : x.type = "rev" /\ x.class = "20x") IN
    IF ~listing.ok \/ first = 0 THEN Never ELSE listing.lines[first].at

\* The latest revocation counts.
GetCertRevocationDateLatestMutant(listing, by) ==
    FoldLeft(LAMBDA latest, x :
                IF x.type = "rev" /\ x.by = by /\ x.at > latest THEN x.at ELSE latest,
             Never, listing.lines)

GetCertRevocationDate(listing, by) ==
    IF ~listing.ok THEN Never
    ELSE FoldLeft(LAMBDA earliest, x :
                     IF x.type = "rev" /\ x.by = by /\ (earliest = Never \/ x.at < earliest)
                     THEN x.at ELSE earliest,
                  Never, listing.lines)

\* The dates on which the verifying user's keys have revoked their certifications, one gpg
\* call for each.
CertRevocationDates(listings, verifiers) ==
    [i \in DOMAIN verifiers |-> GetCertRevocationDate(listings[i], verifiers[i])]

\* A revoked key vouches for nothing, whenever it did.
IsValidRetroactiveMutant(verified, own, certs, timestamp, verifiers) ==
    LET vr      == ParseStatusFd(verified.lines)
        dates   == CertRevocationDates(certs, verifiers)
        revoker == SelectInSeq(dates, LAMBDA d : d # Never)
    IN  /\ verified.ok /\ vr.valid
        /\ ~vr.keyRevoked
        /\ \/ vr.fingerprint = "" \/ timestamp = Undated \/ revoker = 0
           \/ timestamp < dates[revoker]

(* What "verify" answers for one signature: gpg must find it good, whoever has made it,   *)
(* and it must have been there before that key was revoked, and before the first of the   *)
(* verifying user's keys that has revoked its certification did so; the others are not      *)
(* asked.  Without a timestamp no revocation is looked for: a revoked key's signature does   *)
(* not count then, and certifications are not looked at.                                     *)
IsValid(verified, own, certs, timestamp, verifiers) ==
    LET vr        == ParseStatusFd(verified.lines)
        revokedAt == GetKeyRevocationDate(own)
        dates     == CertRevocationDates(certs, verifiers)
        revoker   == SelectInSeq(dates, LAMBDA d : d # Never)
    IN  /\ verified.ok /\ vr.valid
        /\ vr.keyRevoked => timestamp # Undated /\ revokedAt # Never /\ timestamp < revokedAt
        /\ \/ vr.fingerprint = "" \/ timestamp = Undated \/ revoker = 0
           \/ timestamp < dates[revoker]
=============================================================================
