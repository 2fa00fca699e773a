--------------------------- MODULE AppendOnlyLog ---------------------------
(* What the transparency log promises its clients, with nothing said about how   *)
(* Redis, gpg and the HTTP handlers bring it about (server/internal/store and     *)
(* server/internal/api).  The log is a set of published entries that only grows;  *)
(* no two of them share a log_index or a uuid, none is ever altered or withdrawn, *)
(* and a client that holds a receipt (a 201) holds it for a published entry.      *)
EXTENDS Integers

CONSTANTS
    UUIDs,      \* identifiers the server draws for entries
    Entries     \* every entry that could be published

VARIABLES
    published,  \* entries a client can read back
    receipts    \* uuids whose submission was acknowledged

vars == <<published, receipts>>

TypeOK == published \subseteq Entries /\ receipts \subseteq UUIDs

Init == published = {} /\ receipts = {}

Publish(x) ==
    /\ \A y \in published : y.log_index # x.log_index /\ y.uuid # x.uuid
    /\ published' = published \union {x}
    /\ UNCHANGED receipts

Acknowledge(u) ==
    /\ u \notin receipts
    /\ \E x \in published : x.uuid = u
    /\ receipts' = receipts \union {u}
    /\ UNCHANGED published

Next ==
    \/ \E x \in published' \ published : x \in Entries /\ Publish(x)
    \/ \E u \in UUIDs : Acknowledge(u)

Spec == Init /\ [][Next]_vars
=============================================================================
