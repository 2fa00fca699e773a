---------------------------- MODULE MCLogReadback ----------------------------
(* Instance of LogReadback for TLC: one signer, one image, a claim and its         *)
(* revocation submitted in either order or concurrently.                            *)
EXTENDS LogReadback

CONSTANTS r1, r2, d1

HashA == "sha256:aa"

ClaimAndRevoke ==
    [ artifact_hash : {HashA}, category : {"authorship"}, verdict : {"my-work", "revoke"},
      signer_keyid : {"alice"}, signature : {"pgp"} ]

Symmetry == Permutations(Requests)
=============================================================================
