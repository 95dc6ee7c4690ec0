--------------------------- MODULE RateLimiterMC ---------------------------
(* Instances of RateLimiter for TLC. *)
EXTENDS RateLimiter, TLC

\* Every limit tight, loose or off in turn, and the limiter switched off.
Limits(on, i, e, g) == [enabled |-> on, ip |-> i, email |-> e, global |-> g]
Settings == {Limits(TRUE, 1, 1, 2), Limits(TRUE, 2, 1, 3), Limits(TRUE, 2, 2, 0),
             Limits(TRUE, 0, 2, 2), Limits(TRUE, 1, 0, 0), Limits(FALSE, 1, 1, 1)}

Symmetry == Permutations(Clients) \cup Permutations(Emails)
=============================================================================
