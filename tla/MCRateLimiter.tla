--------------------------- MODULE MCRateLimiter ---------------------------
(***************************************************************************)
(* Instances of RateLimiter for TLC: two identities whose calls cost two   *)
(* units, a bucket of two calls and one unit per tick, so that a refused   *)
(* caller waits one or two ticks.                                          *)
(***************************************************************************)
EXTENDS RateLimiter, TLC

Symmetry == Permutations(Identities) \cup Permutations(Threads)

=============================================================================
