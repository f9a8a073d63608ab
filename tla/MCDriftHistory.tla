---------------------------- MODULE MCDriftHistory ----------------------------
(* The instance of MCDriftScan with the history of DriftHistory.           *)
EXTENDS DriftHistory, MCDriftScan

(* With one package the two images are alike, so it does not matter which  *)
(* of them runs first.  Both the data dir and npm start at version 1.      *)
MCHistoryInit ==
  /\ DriftInit /\ HistoryInit
  /\ running = tagA
  /\ \A p \in Package : disk[p] = 1

(* A bound: who awaits a scan does not bear on what it saves, so the route *)
(* asks for one only while nothing has changed yet.                        *)
RouteAsksEarly == "route" \in waiting' \ waiting => changes = 0

MCHistoryNext == HistoryNext /\ RouteAsksEarly

MCHistorySpec == MCHistoryInit /\ [][MCHistoryNext]_historyVars /\ DriftFairness
=============================================================================
