------------------------------- MODULE MCProbes -------------------------------
(***************************************************************************)
(* An instance for TLC of what answers GET /api/probes: the runner that    *)
(* races the probes, the detection of the runtime that they share, the     *)
(* record of the host's boots that two of them read, and the verdicts of   *)
(* those that compare.  These parts share no variable, so a behaviour      *)
(* exercises one of them while the others are at rest.                     *)
(***************************************************************************)
EXTENDS ProbeRunner, RuntimeClient, HostBoots, Verdicts

CONSTANTS o1, c1, c2, c3, p1, p2

VARIABLE part

probesVars == <<probeVars, clientVars, bootVars, verdictVars, part>>

MCOtherProbe == {o1}
MCCaller == {c1, c2, c3}
MCPackage == {p1, p2}
MCCanonical ==
  [z \in Zones |-> CASE z \in {"UTC", "Etc/UTC", "GMT0"} -> "UTC"
                     [] z \in {"Europe/Berlin", "Arctic/Longyearbyen"} -> "Europe/Berlin"
                     [] OTHER -> z]
MCPrerelease == {NoPre, <<"beta", 1>>, <<"beta", 9>>, <<"beta", 10>>, <<"rc", 1>>}

(* Parts at rest: every probe has answered, no boot is yet recorded, a     *)
(* case is chosen but not judged.                                          *)
RestingRunner ==
  /\ now = 0 /\ wall = 0 /\ stalled = 0 /\ attempts = 1
  /\ step = [p \in Probe |-> "ended"]
  /\ due = [p \in Probe |-> Never]
  /\ brief = [p \in Probe |-> FALSE]
  /\ lastErr = [p \in Probe |-> None]
  /\ result = [p \in Probe |-> "answered"]

RestingBoots == BootsInit /\ ~alarm
RestingVerdict ==
  verdict = "none" /\ case = CHOOSE c \in Cases : c.of = "storage-type"

MCProbesInit ==
  /\ part \in {"runner", "client", "boots", "verdicts"}
  /\ IF part = "runner" THEN ProbeInit ELSE RestingRunner
  /\ ClientInit
  /\ IF part = "boots" THEN BootsInit ELSE RestingBoots
  /\ IF part = "verdicts" THEN VerdictInit ELSE RestingVerdict

MCProbesNext ==
  /\ UNCHANGED part
  /\ \/ part = "runner" /\ ProbeNext /\ UNCHANGED <<clientVars, bootVars, verdictVars>>
     \/ part = "client" /\ ClientNext /\ UNCHANGED <<probeVars, bootVars, verdictVars>>
     \/ part = "boots" /\ BootsNext /\ UNCHANGED <<probeVars, clientVars, verdictVars>>
     \/ part = "verdicts" /\ Judge /\ UNCHANGED <<probeVars, clientVars, bootVars>>

MCProbesSpec == MCProbesInit /\ [][MCProbesNext]_probesVars /\ ProbeFairness
=============================================================================
