------------------------------ MODULE BugReport ------------------------------
(***************************************************************************)
(* The bug report: POST /api/bug-report starts a job                       *)
(* (src/src/bug-report-jobs.ts) that has the host's user systemd run       *)
(* `signalk bug-report --to <dir>` (src/src/bug-report.ts) and then looks  *)
(* for the tarball this collector has left in the directory.               *)
(*                                                                         *)
(* The collector is a transient unit of the host: it goes on when the      *)
(* doctor kills the systemd-run client after the timeout, and when the     *)
(* doctor dies, so that its tarball may appear in the middle of a later    *)
(* run.  Tarballs are named after the time at which their collector began, *)
(* here after a number: 1 .. Existing for those of earlier days,           *)
(* Existing + j for that of job j.                                         *)
(***************************************************************************)
EXTENDS Naturals, Sequences, FiniteSets, SequencesExt

CONSTANTS
  MaxReports,    \* bound on the jobs ever started
  Existing,      \* bound on the tarballs there at first
  MAX_JOBS,      \* the registry's capacity
  RETENTION      \* how many tarballs are kept

ASSUME ReportBoundsAssumption == MaxReports \in Nat /\ Existing \in Nat
ASSUME CapacityAssumption == MAX_JOBS \in Nat \ {0} /\ RETENTION \in Nat \ {0}

Job == 1 .. MaxReports
Own(j) == Existing + j
Tarball == 1 .. Existing + MaxReports

VARIABLES
  jobs,        \* the registry: job ids in insertion order
  status,      \* what the registry says of each job
  stage,       \* where generateBugReport() is for each job
  victims,     \* the tarballs the prune of the job at work has chosen
  before,      \* the tarballs it saw before the run
  result,      \* the tarball it reports, 0 for none
  collector,   \* each job's transient unit on the host
  tarballs,    \* the tarballs in the directory
  undisturbed  \* history: every prune worked, no collector outlived its job

jobVars == <<jobs, status, stage, victims, before, result>>
hostVars == <<collector, tarballs, undisturbed>>
reportVars == <<jobVars, hostVars>>

Before == {"none", "over", "dead"}
Stage == Before \cup {"preflight", "prune", "unlink", "list", "spawn", "run",
                      "listAfter", "stat"}

Active(j) == stage[j] \notin Before
Running == {j \in Job : status[j] = "running"}

(* The names sort as the collectors began: the n oldest tarballs.          *)
Oldest(n) == {t \in tarballs : Cardinality({u \in tarballs : u < t}) < n}

ReportInit ==
  /\ jobs = << >>
  /\ status = [j \in Job |-> "absent"]
  /\ stage = [j \in Job |-> "none"]
  /\ victims = {}
  /\ before = {}
  /\ result = [j \in Job |-> 0]
  /\ collector = [j \in Job |-> "none"]
  /\ tarballs \in SUBSET (1 .. Existing)
  /\ Cardinality(tarballs) <= RETENTION
  /\ undisturbed = TRUE

-----------------------------------------------------------------------------
(* The registry.                                                           *)

(* startBugReportJob() reuses a running job, else it registers a new one   *)
(* and drops the oldest beyond the capacity.                               *)
Post ==
  /\ Running = {}
  /\ \E j \in Job :
       /\ stage[j] = "none" /\ \A k \in Job : k < j => stage[k] # "none"
       /\ LET all == Append(jobs, j)
          IN jobs' = IF Len(all) > MAX_JOBS THEN Tail(all) ELSE all
       /\ status' = [k \in Job |-> IF k \notin ToSet(jobs') THEN "absent"
                                   ELSE IF k = j THEN "running" ELSE status[k]]
       /\ stage' = [stage EXCEPT ![j] = "preflight"]
  /\ UNCHANGED <<victims, before, result, hostVars>>

(* finalize(): what generateBugReport() returns or throws ends the job.    *)
Finalize(j, outcome) ==
  /\ status' = [status EXCEPT ![j] = IF j \in ToSet(jobs) THEN outcome ELSE "absent"]
  /\ stage' = [stage EXCEPT ![j] = "over"]
  /\ victims' = {} /\ before' = {}
  /\ UNCHANGED jobs

Goes(j, s) == stage' = [stage EXCEPT ![j] = s] /\ UNCHANGED <<jobs, status>>
Continues(j, s) == Goes(j, s) /\ UNCHANGED <<victims, before>>

-----------------------------------------------------------------------------
(* generateBugReport().                                                    *)

(* The mount, the script and the directory are there, or the job fails.    *)
Preflight(j) ==
  /\ stage[j] = "preflight"
  /\ Continues(j, "prune") \/ Finalize(j, "error")
  /\ UNCHANGED <<result, hostVars>>

(* A fault: room is not made for the tarball that is about to come.        *)
PruneToRetention(j) ==
  /\ stage[j] = "prune"
  /\ victims' = IF Cardinality(tarballs) > RETENTION
                THEN Oldest(Cardinality(tarballs) - RETENTION) ELSE {}
  /\ Goes(j, "unlink")
  /\ UNCHANGED <<before, result, hostVars>>

(* pruneOldReports(RETENTION - 1) lists the directory (listTarballs() says  *)
(* it is empty when it cannot be read) ...                                 *)
Prune(j) ==
  /\ stage[j] = "prune"
  /\ \/ /\ victims' = IF Cardinality(tarballs) > RETENTION - 1
                       THEN Oldest(Cardinality(tarballs) - (RETENTION - 1)) ELSE {}
        /\ UNCHANGED undisturbed
     \/ victims' = {} /\ undisturbed' = FALSE
  /\ Goes(j, "unlink")
  /\ UNCHANGED <<before, result, collector, tarballs>>

(* ... and unlinks the oldest; an unlink that fails is only logged.        *)
UnlinkVictims(j) ==
  /\ stage[j] = "unlink"
  /\ \E stay \in SUBSET victims :
       /\ tarballs' = tarballs \ (victims \ stay)
       /\ undisturbed' = (undisturbed /\ stay = {})
  /\ Continues(j, "list")
  /\ UNCHANGED <<result, collector>>

(* The listing before the run, and the host paths from mountinfo.          *)
ListBefore(j) ==
  /\ stage[j] = "list"
  /\ \/ Goes(j, "spawn") /\ before' \in {tarballs, {}} /\ UNCHANGED victims
     \/ Finalize(j, "error")
  /\ UNCHANGED <<result, hostVars>>

(* systemd-run starts the unit, or cannot be spawned.                      *)
Spawn(j) ==
  /\ stage[j] = "spawn"
  /\ \/ collector' = [collector EXCEPT ![j] = "collecting"] /\ Continues(j, "run")
     \/ UNCHANGED collector /\ Finalize(j, "error")
  /\ UNCHANGED <<result, tarballs, undisturbed>>

(* The client closes with the unit's exit code.                            *)
Closes(j) ==
  /\ stage[j] = "run"
  /\ \/ collector[j] = "exit0" /\ Continues(j, "listAfter")
     \/ collector[j] = "exit1" /\ Finalize(j, "error")
  /\ UNCHANGED <<result, hostVars>>

(* A fault: no timer on the client.                                        *)
TimesOutNever(j) == FALSE /\ UNCHANGED reportVars

(* The timer kills the client; the unit goes on.                           *)
TimesOut(j) ==
  /\ stage[j] = "run"
  /\ Finalize(j, "error")
  /\ undisturbed' = (undisturbed /\ collector[j] \in {"exit0", "exit1"})
  /\ UNCHANGED <<result, collector, tarballs>>

Fresh == tarballs \ before

(* A fault: the first new tarball instead of the newest.                   *)
ListAfterFirst(j) ==
  /\ stage[j] = "listAfter"
  /\ \/ /\ Fresh # {}
        /\ result' = [result EXCEPT ![j] = CHOOSE t \in Fresh : \A u \in Fresh : t <= u]
        /\ Continues(j, "stat")
     \/ UNCHANGED result /\ Finalize(j, "error")
  /\ UNCHANGED hostVars

(* The newest tarball that was not there before; none, or a directory that *)
(* cannot be read, is an error.                                            *)
ListAfter(j) ==
  /\ stage[j] = "listAfter"
  /\ \/ /\ Fresh # {}
        /\ result' = [result EXCEPT ![j] = CHOOSE t \in Fresh : \A u \in Fresh : u <= t]
        /\ Continues(j, "stat")
     \/ UNCHANGED result /\ Finalize(j, "error")
  /\ UNCHANGED hostVars

(* stat() throws when the tarball is gone again.                           *)
StatResult(j) ==
  /\ stage[j] = "stat"
  /\ Finalize(j, IF result[j] \in tarballs THEN "done" ELSE "error")
  /\ UNCHANGED <<result, hostVars>>

-----------------------------------------------------------------------------
(* The host, and the doctor's death.                                       *)

CollectorWrites(j) ==
  /\ collector[j] = "collecting"
  /\ tarballs' = tarballs \cup {Own(j)}
  /\ collector' = [collector EXCEPT ![j] = "written"]
  /\ UNCHANGED <<jobVars, undisturbed>>

(* It may fail, and the script may succeed without output.                 *)
CollectorExits(j) ==
  /\ collector[j] \in {"collecting", "written"}
  /\ \E code \in {"exit0", "exit1"} : collector' = [collector EXCEPT ![j] = code]
  /\ UNCHANGED <<jobVars, tarballs, undisturbed>>

(* Somebody else cleans up.                                                *)
Removed(t) ==
  /\ t \in tarballs
  /\ tarballs' = tarballs \ {t}
  /\ UNCHANGED <<jobVars, collector, undisturbed>>

DoctorDies ==
  /\ jobs # << >>
  /\ jobs' = << >>
  /\ status' = [j \in Job |-> "absent"]
  /\ stage' = [j \in Job |-> IF Active(j) THEN "dead" ELSE stage[j]]
  /\ undisturbed' = (undisturbed /\ \A j \in Job : collector[j] \notin {"collecting", "written"})
  /\ victims' = {} /\ before' = {}
  /\ UNCHANGED <<result, collector, tarballs>>

JobStep(j) ==
  \/ Preflight(j) \/ Prune(j) \/ UnlinkVictims(j) \/ ListBefore(j) \/ Spawn(j)
  \/ Closes(j) \/ TimesOut(j) \/ ListAfter(j) \/ StatResult(j)

ReportNext ==
  \/ Post
  \/ \E j \in Job : JobStep(j) \/ CollectorWrites(j) \/ CollectorExits(j)
  \/ \E t \in Tarball : Removed(t)
  \/ DoctorDies

ReportSpec == ReportInit /\ [][ReportNext]_reportVars

(* The doctor's own steps are taken and its timer fires; the host owes     *)
(* nothing.                                                                *)
ReportFairSpec == ReportSpec /\ \A j \in Job : WF_reportVars(JobStep(j))

-----------------------------------------------------------------------------
ReportTypeOK ==
  /\ jobs \in Seq(Job) /\ Len(jobs) <= MAX_JOBS
  /\ status \in [Job -> {"absent", "running", "done", "error"}]
  /\ stage \in [Job -> Stage]
  /\ victims \in SUBSET Tarball /\ before \in SUBSET Tarball
  /\ result \in [Job -> Tarball \cup {0}]
  /\ \A j \in Job : status[j] = "done" => result[j] # 0
  /\ collector \in [Job -> {"none", "collecting", "written", "exit0", "exit1"}]
  /\ tarballs \in SUBSET Tarball
  /\ undisturbed \in BOOLEAN

(* The tarball a job reports is that of its own collector if that one is   *)
(* there, whatever collectors of earlier jobs have left meanwhile (the     *)
(* comment before freshCandidates).                                        *)
ReportIsOwn ==
  [][\A j \in Job : result'[j] # result[j] /\ Own(j) \in tarballs
        => result'[j] = Own(j)]_reportVars

(* The directory never holds more than RETENTION tarballs, in the middle   *)
(* of a run or after one that failed, unless the prune could not list or   *)
(* unlink, or a collector outlived its job.                                *)
RetentionHolds == undisturbed => Cardinality(tarballs) <= RETENTION

(* A job ends, even if its collector never does.                           *)
CollectionEnds == \A j \in Job : Active(j) ~> ~Active(j)

(* The comment on startBugReportJob(): a second host collector is not      *)
(* spawned while one is at work.                                           *)
OneCollector ==
  \A j, k \in Job :
    collector[j] = "collecting" /\ collector[k] = "collecting" => j = k
=============================================================================
