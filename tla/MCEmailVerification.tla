------------------------- MODULE MCEmailVerification -------------------------
(***************************************************************************)
(* Instances of EmailVerification for TLC.                                 *)
(***************************************************************************)
EXTENDS EmailVerification, TLC

CONSTANTS r1, r2, j1, j2, e1, e2, a1, a2, g1, p1

\* One journey that asks for a second link, with nothing else in the way.
Two == {r1, r2}
OneJourney == [r \in Two |-> j1]
OneEmail == [r \in Two |-> e1]
Roomy == [l \in Limits |-> 3]

\* The second link is for a changed address.
ChangedEmail == [r \in Two |-> IF r = r1 THEN e1 ELSE e2]

\* Bound: one reader at a time.  A registration and a poll change nothing that
\* anybody else reads, so what one of them sees does not depend on the other.
OneReader ==
  \/ \A g \in Registrations : registration[g].step = "idle"
  \/ \A p \in Polls : poll[p].step = "idle"

\* Bound: readers, and secondaries that catch up, come with two instants and
\* no fault, and nothing after a reader has its answer; everything else with a
\* secondary that never does.
ReadersApart ==
  /\ OneReader
  /\ \/ secondary # NoDocs
     \/ \E g \in Registrations : registration[g].step # "idle"
     \/ \E p \in Polls : poll[p].step # "idle"
     => faults = 0 /\ clock <= 1
  /\ \A g \in Registrations : registration[g].step # "done"
  /\ \A p \in Polls : poll[p].step # "done"

=============================================================================
