---------------------------- MODULE MCDriftHeal ----------------------------
(* Instances of DriftHeal for TLC.                                         *)
EXTENDS DriftHeal

CONSTANTS tagA

MCTag == {tagA}
MCShips == {tagA} \X Package
(* Dependents hold the second package back, and nothing else. *)
MCInRange == [p \in Package |-> IF p = 2 THEN 1 ELSE MaxVersion]
NoFaults == {}
RescanFaults == {"load", "read", "save"}

(* Every package starts with a copy in the data dir. *)
MCDriftHealInit == DriftHealInit /\ disk = [p \in Package |-> 1]

(* Bounds: the other scans are the timer's (the route's are like them),    *)
(* and all goes well until the heal begins, which needs a report to pick   *)
(* targets from.                                                           *)
OnlyTheTimer == "route" \notin waiting'
WellUntilHeal ==
  heal = "idle" => running' # NoTag /\ ~failed' /\ half' # "error" /\ backoff' = 0

MCDriftHealNext == DriftHealNext /\ OnlyTheTimer /\ WellUntilHeal

MCDriftHealSpec == MCDriftHealInit /\ [][MCDriftHealNext]_driftHealVars
=============================================================================
