--------------------------- MODULE RegisterReaders ---------------------------
(***************************************************************************)
(* Everybody who reads the register without belonging to it: the case      *)
(* officers' searches, exports and metrics, with the beacons that the      *)
(* metrics also count, while registrations are stored and deleted.         *)
(***************************************************************************)
EXTENDS RegisterSearch, JourneyMetrics

registerVars == <<clock, register>>
searchVars == <<walk, export>>
metricsVars == <<events, beacon, summary, faults>>
vars == <<registerVars, searchVars, metricsVars>>

TypeOK == RegisterTypeOK /\ SearchTypeOK /\ MetricsTypeOK

Init == InitRegister /\ InitSearch /\ InitMetrics

Next ==
  \/ Change /\ UNCHANGED <<searchVars, metricsVars>>
  \/ Search /\ UNCHANGED metricsVars
  \/ Metrics /\ UNCHANGED searchVars

Spec == Init /\ [][Next]_vars

=============================================================================
