--------------------------- MODULE MCAttestDialog ---------------------------
(* A small instance of AttestDialog: a category with one verdict to check, as authorship *)
(* and method are, and one with two to choose from, as authenticity has.                  *)
EXTENDS AttestDialog

TheirVerdicts == [c \in Categories |->
                     IF c = 1 THEN {"my-work"} ELSE {"authentic", "satire"}]

\* The first key has attested nothing or its authorship, all others satire.
Attested == {[k \in Keys |-> [c \in Categories |->
                IF c = 1 /\ k \in mine THEN "my-work"
                ELSE IF c # 1 /\ k # FirstKey THEN "satire" ELSE NoVerdict]] :
             mine \in {{}, {FirstKey}}}
=============================================================================
