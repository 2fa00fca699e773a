---------------------------- MODULE MCLogServer ----------------------------
(* Instances of LogServer for TLC.                                               *)
EXTENDS LogServer, TLC

CONSTANTS r1, r2, r3, d1, d2

HashA == "sha256:aa"
HashB == "sha256:bb"
BadHash == "md5:cc"

MCBody(h, v) ==
    [ artifact_hash |-> h, category |-> "authenticity", verdict |-> v,
      signer_keyid |-> "alice", signature |-> "pgp" ]

\* Two bodies for one artifact, and one the handler turns away.
OneHash  == {MCBody(HashA, "authentic"), MCBody(HashA, "my-work")}
\* Two artifacts.
TwoHashes == {MCBody(HashA, "authentic"), MCBody(HashB, "authentic"), MCBody(BadHash, "authentic")}

Symmetry == Permutations(Requests) \union Permutations(Readers)
=============================================================================
