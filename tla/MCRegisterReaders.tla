-------------------------- MODULE MCRegisterReaders --------------------------
(***************************************************************************)
(* Instances of RegisterReaders for TLC.                                   *)
(***************************************************************************)
EXTENDS RegisterReaders

CONSTANTS c1, b1, b2, b3, b4, s1, w1, x1, m1

\* Two registrations to come and one without a date.
Three == 1..3
OneUndated == {3}
All == [c \in {c1} |-> Three]

\* One session starts twice and ends once; a fourth beacon is forged.
FourBeacons == {b1, b2, b3, b4}
Kinds4 == [b \in FourBeacons |-> IF b = b3 THEN "notEligible" ELSE "starts"]
Tokens4 == [b \in FourBeacons |-> IF b = b4 THEN Forged ELSE s1]

\* The life of the service, and the second day, from a time in the middle of it.
Periods == {[from |-> -1, to |-> -1], [from |-> 3, to |-> 2]}

\* Bound: one kind of reader at a time, as readers change nothing that others
\* read, and nothing after it has its answer.  A search or an export reads no
\* events and sees two registrations of two instants; a summary sees one
\* registration and a beacon of each kind, at every instant; replays and faults
\* come without a summary, and the forged beacon alone.
OneReader ==
  LET searching == \E w \in Walks : walk[w].step # "idle"
      exporting == \E x \in Exports : export[x].step # "idle"
      summing == \E s \in Summaries : summary[s].step # "idle"
      counting == summing \/ \E b \in Beacons : beacon[b].step # "idle"
  IN  /\ ~(searching /\ exporting)
      /\ counting => ~searching /\ ~exporting
      /\ counting \/ clock > 1 => register[2].stage = "none"
      /\ searching \/ exporting => clock <= 1
      /\ summing => beacon[b2].step = "idle" /\ faults = 0
      /\ beacon[b4].step # "idle" =>
           ~summing /\ \A b \in Beacons \ {b4} : beacon[b].step = "idle"
      /\ \A w \in Walks : walk[w].step # "done"
      /\ \A x \in Exports : export[x].step \in {"idle", "asked"}
      /\ \A s \in Summaries : summary[s].step # "answered"

=============================================================================
