----------------------------- MODULE DriftHistory -----------------------------
(***************************************************************************)
(* DriftScan with a memory of what has been true since the scan in flight  *)
(* began, so that what a report says can be compared with it.  The history *)
(* variables follow the steps of DriftScan and restrict none of them; with *)
(* no scan in flight they hold what is true now.                           *)
(***************************************************************************)
EXTENDS DriftScan

VARIABLES
  tags,        \* the images that have run since the scan began
  copies,      \* package -> what looking into the data dir could have found
  versions     \* package -> what the registry could have answered

historyVars == <<driftVars, tags, copies, versions>>

Since(T, C, V) ==
  /\ tags' = T \cup {running'}
  /\ copies' = [p \in Package |-> C[p] \cup {DataDirCopy(p)'}]
  /\ versions' = [p \in Package |-> V[p] \cup {registry'[p]}]

Nothing == [p \in Package |-> {}]

HistoryInit ==
  /\ tags = {running}
  /\ copies = [p \in Package |-> {DataDirCopy(p)}]
  /\ versions = [p \in Package |-> {registry[p]}]

HistoryNext ==
  /\ DriftNext
  /\ IF stage = "idle" \/ stage' = "idle"
     THEN Since({}, Nothing, Nothing)
     ELSE Since(tags, copies, versions)

HistorySpec == DriftInit /\ HistoryInit /\ [][HistoryNext]_historyVars

-----------------------------------------------------------------------------
(* Every report is as recent as the scan that wrote it: no answer of an    *)
(* earlier scan, no location whose lookup failed and no package of an      *)
(* image known to be gone finds its way into it, however scans, restarts,  *)
(* failing calls and changes of the world interleave.                      *)
RR == INSTANCE RecentReport WITH copy <- [p \in Package |-> DataDirCopy(p)]

ReportsAreRecent == RR!RecentSpec
=============================================================================
