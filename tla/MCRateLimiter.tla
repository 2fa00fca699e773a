---------------------------- MODULE MCRateLimiter ----------------------------
(* Instances of RateLimiter for TLC: two clients, each with an address of its own, or *)
(* both behind the reverse proxy that the README has in front of the server.           *)
EXTENDS RateLimiter, TLC

CONSTANTS a, b, h1, h2, l1, l2, l3, l4, l5

Direct  == a :> "10.0.0.1" @@ b :> "10.0.0.2"
Proxied == a :> "127.0.0.1" @@ b :> "127.0.0.1"

Symmetry == Permutations(Handlers)
=============================================================================
