---------------------------- MODULE MCRateLimiter ----------------------------
(***************************************************************************)
(* Instances of RateLimiter for TLC.  Three requests of one journey are    *)
(* the fewest that a late release can confuse, and with a cooldown shorter *)
(* than the window they also race for the counters.                        *)
(***************************************************************************)
EXTENDS RateLimiter, TLC

CONSTANTS r1, r2, r3, j1, j2, e1

\* One journey resending to one address.
Resends == {r1, r2, r3}
ResendsJourney == [r \in Resends |-> j1]
ResendsEmail == [r \in Resends |-> e1]
ResendsMax == [email |-> 2, journey |-> 1, global |-> 2]
ResendsSymmetry == Permutations(Resends)

\* Two journeys at once, with the same address.
Rivals == {r1, r2}
RivalsJourney == [r \in Rivals |-> IF r = r2 THEN j2 ELSE j1]
RivalsEmail == [r \in Rivals |-> e1]
RivalsMax == [email |-> 1, journey |-> 1, global |-> 1]

=============================================================================
