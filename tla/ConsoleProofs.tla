--------------------------- MODULE ConsoleProofs ----------------------------
(***************************************************************************)
(* Theorems about the console: the bug report's engine side (BugReport),   *)
(* for any capacity, retention and number of jobs; the Logs page over its  *)
(* broker (LogView), for any capacity of the log ring and any number of    *)
(* lines asked for, of lines, outages and breaks; and the other pages      *)
(* (WebConsole), which show what belongs together whatever the order in    *)
(* which answers come back, for any packages and any number of requests.   *)
(***************************************************************************)
EXTENDS BugReport, LogView, WebConsole, FiniteSetTheorems, TLAPS

USE ReportBoundsAssumption, CapacityAssumption,
    BackfillAssumption, LogBoundsAssumption, TailAssumption, WebBoundsAssumption

-----------------------------------------------------------------------------
(* The bug report.  Jobs start in the order of their numbers and one is at *)
(* work at a time; until its collector is spawned, its tarball is not      *)
(* there, and so is not in the listing before the run.                     *)

NotSpawned == {"none", "preflight", "prune", "unlink", "list", "spawn"}

JobTypes ==
  /\ jobs \in Seq(Job)
  /\ status \in [Job -> {"absent", "running", "done", "error"}]
  /\ stage \in [Job -> Stage]
  /\ result = [j \in Job |-> result[j]]
  /\ collector \in [Job -> {"none", "collecting", "written", "exit0", "exit1"}]
  /\ tarballs \in SUBSET Tarball
  /\ undisturbed \in BOOLEAN

JobOrder ==
  /\ \A j, k \in Job : j < k /\ stage[j] = "none" => stage[k] = "none"
  /\ \A j, k \in Job : Active(j) /\ stage[k] # "none" => k <= j
  /\ \A j \in Job : Active(j) => status[j] = "running"

OwnTarballs ==
  /\ \A j \in Job : stage[j] \in NotSpawned => collector[j] = "none"
  /\ \A j \in Job : collector[j] = "none" => Own(j) \notin tarballs
  /\ \A j \in Job : stage[j] \in {"spawn", "run", "listAfter"} => Own(j) \notin before

JobInv == JobTypes /\ JobOrder /\ OwnTarballs

LEMMA OwnIsTarball == \A j \in Job : Own(j) \in Tarball
  BY DEF Job, Own, Tarball

LEMMA JobInit == ReportInit => JobInv
<1> SUFFICES ASSUME ReportInit PROVE JobInv
  OBVIOUS
<1>1. JobTypes
  <2>1. undisturbed \in BOOLEAN
    BY Zenon DEF ReportInit
  <2>2. tarballs \in SUBSET Tarball
    BY DEF ReportInit, Tarball
  <2> QED
    BY <2>1, <2>2 DEF ReportInit, JobTypes, Stage, Before
<1>2. JobOrder
  BY DEF ReportInit, JobOrder, Active, Before
<1>3. OwnTarballs
  BY DEF ReportInit, OwnTarballs, Own, Job
<1> QED
  BY <1>1, <1>2, <1>3 DEF JobInv

(* What a step of a job at work is: the job stays at work, or it is over.  *)
LEMMA FinalizeOrder ==
  ASSUME JobInv, NEW j \in Job, Active(j), NEW outcome \in {"done", "error"},
         Finalize(j, outcome)
  PROVE  /\ JobOrder' /\ jobs' \in Seq(Job)
         /\ status' \in [Job -> {"absent", "running", "done", "error"}]
         /\ stage' = [stage EXCEPT ![j] = "over"] /\ stage' \in [Job -> Stage]
<1> USE DEF JobInv, JobTypes, JobOrder, Finalize
<1>1. stage' \in [Job -> Stage] /\ \A k \in Job : stage'[k] = IF k = j THEN "over" ELSE stage[k]
  BY DEF Stage, Before
<1>2. /\ status' \in [Job -> {"absent", "running", "done", "error"}]
      /\ \A k \in Job : k # j => status'[k] = status[k]
  BY DEF Running
<1>3. \A k \in Job : Active(k)' => k # j /\ Active(k)
  BY <1>1 DEF Active, Before
<1> QED
  BY <1>1, <1>2, <1>3 DEF Active, Before

LEMMA GoesOrder ==
  ASSUME JobInv, NEW j \in Job, Active(j), NEW s \in Stage \ Before, Goes(j, s)
  PROVE  /\ JobOrder' /\ jobs' = jobs /\ status' = status
         /\ stage' = [stage EXCEPT ![j] = s] /\ stage' \in [Job -> Stage]
<1> USE DEF JobInv, JobTypes, JobOrder, Goes
<1>1. stage' \in [Job -> Stage] /\ \A k \in Job : stage'[k] = IF k = j THEN s ELSE stage[k]
  OBVIOUS
<1>2. \A k \in Job : Active(k)' <=> Active(k)
  BY <1>1 DEF Active
<1>3. s # "none" /\ stage[j] # "none"
  BY DEF Active, Before
<1> QED
  BY <1>1, <1>2, <1>3

LEMMA PostOrder ==
  ASSUME JobInv, Post
  PROVE  JobInv'
<1> USE DEF JobInv
<1>1. PICK j \in Job :
        /\ stage[j] = "none" /\ \A k \in Job : k < j => stage[k] # "none"
        /\ jobs' = IF Len(Append(jobs, j)) > MAX_JOBS THEN Tail(Append(jobs, j))
                                                      ELSE Append(jobs, j)
        /\ status' = [k \in Job |-> IF k \notin ToSet(jobs') THEN "absent"
                                    ELSE IF k = j THEN "running" ELSE status[k]]
        /\ stage' = [stage EXCEPT ![j] = "preflight"]
  BY DEF Post
<1>2. \A k \in Job : ~Active(k)
  BY DEF Post, JobOrder, Running
<1>3. jobs' \in Seq(Job) /\ j \in ToSet(jobs')
  <2> DEFINE all == Append(jobs, j)
  <2>1. all \in Seq(Job) /\ Len(all) = Len(jobs) + 1 /\ all[Len(all)] = j /\ Len(jobs) \in Nat
    BY DEF JobTypes
  <2> HIDE DEF all
  <2>2. CASE Len(all) > MAX_JOBS
    <3>1. jobs' = Tail(all)
      BY <1>1, <2>2 DEF all
    <3>2. Len(all) > 1
      BY <2>1, <2>2
    <3>3. Tail(all) \in Seq(Job) /\ Tail(all)[Len(all) - 1] = j /\ Len(Tail(all)) = Len(all) - 1
      BY <2>1, <3>2
    <3>4. Len(all) - 1 \in DOMAIN Tail(all)
      BY <2>1, <3>2, <3>3
    <3> QED
      BY <3>1, <3>3, <3>4 DEF ToSet
  <2>3. CASE ~(Len(all) > MAX_JOBS)
    <3>1. jobs' = all
      BY <1>1, <2>3 DEF all
    <3>2. Len(all) \in DOMAIN all
      BY <2>1
    <3> QED
      BY <2>1, <3>1, <3>2 DEF ToSet
  <2> QED
    BY <2>2, <2>3
<1>4. /\ stage' \in [Job -> Stage]
      /\ \A k \in Job : stage'[k] = IF k = j THEN "preflight" ELSE stage[k]
  BY <1>1 DEF JobTypes, Stage, Before
<1>5. status' \in [Job -> {"absent", "running", "done", "error"}] /\ status'[j] = "running"
  BY <1>1, <1>3 DEF JobTypes
<1>6. \A k \in Job : Active(k)' <=> k = j
  BY <1>2, <1>4 DEF Active, Before
<1>7. JobOrder'
  <2>1. \A k \in Job : stage'[k] # "none" => k <= j
    BY <1>1, <1>4 DEF JobOrder, Job
  <2> QED
    BY <1>1, <1>4, <1>5, <1>6, <2>1 DEF JobOrder, Job
<1>8. UNCHANGED <<before, result, hostVars>>
  BY DEF Post
<1>9. OwnTarballs'
  BY <1>1, <1>4, <1>8 DEF OwnTarballs, NotSpawned, hostVars
<1> QED
  BY <1>3, <1>4, <1>5, <1>7, <1>8, <1>9 DEF JobTypes, hostVars

LEMMA JobStepKeeps ==
  ASSUME JobInv, NEW j \in Job, JobStep(j)
  PROVE  JobInv'
<1>1. Active(j)
  BY DEF JobStep, Preflight, Prune, UnlinkVictims, ListBefore, Spawn, Closes, TimesOut,
         ListAfter, StatResult, Active, Before
<1>2. ASSUME NEW s \in Stage \ Before, Goes(j, s), UNCHANGED <<result, before, collector>>,
             stage[j] \in NotSpawned \/ s \notin NotSpawned,
             s # "spawn", stage[j] # "spawn", s \in {"run", "listAfter"} => stage[j] = "run",
             tarballs' \in SUBSET tarballs, undisturbed' \in BOOLEAN
      PROVE  JobInv'
  <2>1. OwnTarballs'
    BY <1>2 DEF Goes, OwnTarballs, JobInv, JobTypes
  <2> QED
    BY <1>1, <1>2, <2>1, GoesOrder DEF JobInv, JobTypes
<1>3. ASSUME NEW o \in {"done", "error"}, Finalize(j, o), UNCHANGED <<result, collector, tarballs>>,
             undisturbed' \in BOOLEAN
      PROVE  JobInv'
  <2>1. OwnTarballs'
    <3>1. before' = {} /\ stage' = [stage EXCEPT ![j] = "over"]
      BY <1>3 DEF Finalize
    <3> QED
      BY <1>3, <3>1 DEF OwnTarballs, NotSpawned, JobInv, JobTypes, Own
  <2> QED
    BY <1>1, <1>3, <2>1, FinalizeOrder DEF JobInv, JobTypes
<1>4. /\ {"prune", "unlink", "list", "spawn", "run", "listAfter", "stat"} \subseteq Stage \ Before
      /\ "stat" \notin NotSpawned /\ "listAfter" \notin NotSpawned
      /\ undisturbed \in BOOLEAN
  BY DEF Stage, Before, NotSpawned, JobInv, JobTypes
<1>5. CASE Preflight(j)
  BY <1>2, <1>3, <1>4, <1>5 DEF Preflight, Continues, NotSpawned, hostVars
<1>6. CASE Prune(j)
  <2>1. undisturbed' \in BOOLEAN
    BY <1>4, <1>6, Zenon DEF Prune
  <2> QED
    BY <1>2, <1>4, <1>6, <2>1 DEF Prune, NotSpawned
<1>7. CASE UnlinkVictims(j)
  <2>1. undisturbed' \in BOOLEAN
    BY <1>4, <1>7, Zenon DEF UnlinkVictims
  <2>2. tarballs' \in SUBSET tarballs
    BY <1>7 DEF UnlinkVictims
  <2> QED
    BY <1>2, <1>4, <1>7, <2>1, <2>2 DEF UnlinkVictims, Continues, NotSpawned
<1>8. CASE ListBefore(j)
  <2>1. CASE Goes(j, "spawn") /\ before' \in {tarballs, {}} /\ UNCHANGED <<result, hostVars>>
    <3>1. stage[j] = "list" /\ collector[j] = "none" /\ Own(j) \notin tarballs
      BY <1>8 DEF ListBefore, JobInv, OwnTarballs, NotSpawned
    <3>2. stage' = [stage EXCEPT ![j] = "spawn"] /\ JobOrder'
      BY <1>1, <1>4, <2>1, GoesOrder
    <3>3. \A k \in Job : k # j => ~(stage[k] \in {"spawn", "run", "listAfter"})
      BY <1>1 DEF JobInv, JobOrder, Active, Before, Job
    <3>4. OwnTarballs'
      BY <2>1, <3>1, <3>2, <3>3 DEF OwnTarballs, NotSpawned, JobInv, JobTypes, hostVars, Own
    <3> QED
      BY <1>1, <1>4, <2>1, <3>4, GoesOrder DEF JobInv, JobTypes, hostVars
  <2>2. CASE Finalize(j, "error") /\ UNCHANGED <<result, hostVars>>
    BY <1>3, <1>4, <2>2 DEF hostVars
  <2> QED
    BY <1>8, <2>1, <2>2 DEF ListBefore
<1>9. CASE Spawn(j)
  <2>1. CASE collector' = [collector EXCEPT ![j] = "collecting"] /\ Continues(j, "run")
    <3>1. /\ stage' = [stage EXCEPT ![j] = "run"] /\ stage[j] = "spawn"
          /\ UNCHANGED <<result, tarballs, undisturbed, before>>
      BY <1>9, <2>1 DEF Spawn, Continues, Goes
    <3>2. OwnTarballs'
      BY <2>1, <3>1 DEF OwnTarballs, NotSpawned, JobInv, JobTypes
    <3> QED
      BY <1>1, <1>4, <2>1, <3>1, <3>2, GoesOrder DEF JobInv, JobTypes, Continues
  <2>2. CASE UNCHANGED collector /\ Finalize(j, "error")
    BY <1>3, <1>4, <1>9, <2>2 DEF Spawn
  <2> QED
    BY <1>9, <2>1, <2>2 DEF Spawn
<1>10. CASE Closes(j)
  BY <1>2, <1>3, <1>4, <1>10 DEF Closes, Continues, hostVars
<1>11. CASE TimesOut(j)
  <2>1. undisturbed' \in BOOLEAN
    BY <1>4, <1>11, Zenon DEF TimesOut
  <2> QED
    BY <1>3, <1>11, <2>1 DEF TimesOut
<1>12. CASE ListAfter(j)
  <2>1. CASE /\ Fresh # {} /\ Continues(j, "stat") /\ UNCHANGED hostVars
             /\ result' = [result EXCEPT ![j] = CHOOSE t \in Fresh : \A u \in Fresh : u <= t]
    <3>1. ASSUME NEW t, result' = [result EXCEPT ![j] = t]
          PROVE  result' = [k \in Job |-> result'[k]]
      BY <3>1 DEF JobInv, JobTypes
    <3>2. stage' = [stage EXCEPT ![j] = "stat"] /\ UNCHANGED before
      BY <2>1 DEF Continues, Goes
    <3>3. OwnTarballs'
      BY <2>1, <3>2 DEF OwnTarballs, NotSpawned, JobInv, JobTypes, hostVars
    <3>4. result' = [k \in Job |-> result'[k]]
      BY <2>1, <3>1, Zenon
    <3> QED
      BY <1>1, <1>4, <2>1, <3>3, <3>4, GoesOrder DEF JobInv, JobTypes, hostVars, Continues
  <2>2. CASE UNCHANGED result /\ Finalize(j, "error") /\ UNCHANGED hostVars
    BY <1>3, <1>4, <2>2 DEF hostVars
  <2> QED
    BY <1>12, <2>1, <2>2 DEF ListAfter
<1>13. CASE StatResult(j)
  BY <1>3, <1>4, <1>13 DEF StatResult, hostVars
<1> QED
  BY <1>5, <1>6, <1>7, <1>8, <1>9, <1>10, <1>11, <1>12, <1>13 DEF JobStep

LEMMA JobKept == JobInv /\ [ReportNext]_reportVars => JobInv'
<1> SUFFICES ASSUME JobInv, [ReportNext]_reportVars PROVE JobInv'
  OBVIOUS
<1>1. CASE Post
  BY <1>1, PostOrder
<1>2. ASSUME NEW j \in Job, JobStep(j) PROVE JobInv'
  BY <1>2, JobStepKeeps
<1>3. ASSUME NEW j \in Job, CollectorWrites(j) PROVE JobInv'
  <2>1. tarballs' \in SUBSET Tarball /\ UNCHANGED <<jobs, status, stage, before, result, undisturbed>>
    BY <1>3, OwnIsTarball DEF CollectorWrites, jobVars, JobInv, JobTypes
  <2>2. OwnTarballs'
    BY <1>3, <2>1 DEF CollectorWrites, OwnTarballs, NotSpawned, Own, Job, JobInv, JobTypes
  <2> QED
    BY <1>3, <2>1, <2>2 DEF CollectorWrites, JobInv, JobTypes, JobOrder, Active
<1>4. ASSUME NEW j \in Job, CollectorExits(j) PROVE JobInv'
  <2>1. PICK code \in {"exit0", "exit1"} : collector' = [collector EXCEPT ![j] = code]
    BY <1>4 DEF CollectorExits
  <2>2. UNCHANGED <<jobs, status, stage, before, result, tarballs, undisturbed>>
    BY <1>4 DEF CollectorExits, jobVars
  <2>3. OwnTarballs'
    BY <1>4, <2>1, <2>2 DEF CollectorExits, OwnTarballs, NotSpawned, Own, JobInv, JobTypes
  <2> QED
    BY <2>1, <2>2, <2>3 DEF JobInv, JobTypes, JobOrder, Active
<1>5. ASSUME NEW t \in Tarball, Removed(t) PROVE JobInv'
  BY <1>5 DEF Removed, jobVars, JobInv, JobTypes, JobOrder, OwnTarballs, Active, Own
<1>6. CASE DoctorDies
  <2>1. undisturbed' \in BOOLEAN
    BY <1>6, Zenon DEF DoctorDies, JobInv, JobTypes
  <2>2. /\ stage' \in [Job -> Stage]
        /\ \A j \in Job : stage'[j] = IF Active(j) THEN "dead" ELSE stage[j]
    BY <1>6 DEF DoctorDies, JobInv, JobTypes, Stage, Before
  <2>3. \A j \in Job : ~Active(j)'
    BY <2>2 DEF Active, Before
  <2>4. JobOrder'
    BY <2>2, <2>3 DEF JobInv, JobOrder, Active, Before
  <2>5. OwnTarballs'
    BY <1>6, <2>2 DEF DoctorDies, JobInv, OwnTarballs, NotSpawned, Own, Active, Before
  <2> QED
    BY <1>6, <2>1, <2>2, <2>4, <2>5 DEF DoctorDies, JobInv, JobTypes
<1>7. CASE UNCHANGED reportVars
  BY <1>7 DEF reportVars, jobVars, hostVars, JobInv, JobTypes, JobOrder, OwnTarballs, Active, Own
<1> QED
  BY <1>1, <1>2, <1>3, <1>4, <1>5, <1>6, <1>7 DEF ReportNext

LEMMA JobCorrect == ReportSpec => []JobInv
  BY JobInit, JobKept, PTL DEF ReportSpec

LEMMA OnlyListAfterReports ==
  ASSUME [ReportNext]_reportVars
  PROVE  result' = result \/ \E j \in Job : ListAfter(j)
  BY DEF ReportNext, JobStep, Post, Preflight, Prune, UnlinkVictims, ListBefore, Spawn,
         Closes, TimesOut, StatResult, CollectorWrites, CollectorExits, Removed, DoctorDies,
         Continues, Goes, hostVars, jobVars, reportVars

(* What a step that reports a tarball reports.                             *)
ReportsOwn ==
  \A j \in Job : result'[j] # result[j] /\ Own(j) \in tarballs => result'[j] = Own(j)

(* The tarball a job reports is that of its own collector if that one is   *)
(* there: no later job has begun, so none is newer                         *)
(* (src/src/bug-report.ts:321-332).                                        *)
THEOREM OwnIsReported == ReportSpec => ReportIsOwn
<1>1. JobInv /\ [ReportNext]_reportVars => ReportsOwn
  <2> SUFFICES ASSUME JobInv, [ReportNext]_reportVars, NEW j \in Job,
                      result'[j] # result[j], Own(j) \in tarballs
               PROVE  result'[j] = Own(j)
    BY DEF ReportsOwn
  <2>1. PICK k \in Job : ListAfter(k)
    BY OnlyListAfterReports
  <2>2. PICK newest : /\ newest = CHOOSE t \in Fresh : \A u \in Fresh : u <= t
                      /\ result' = [result EXCEPT ![k] = newest]
    BY <2>1, Zenon DEF ListAfter
  <2>3. k = j /\ result'[j] = newest
    BY <2>2 DEF JobInv, JobTypes
  <2>4. stage[j] = "listAfter" /\ Active(j)
    BY <2>1, <2>3 DEF ListAfter, Active, Before
  <2>5. Own(j) \in Fresh
    BY <2>4 DEF Fresh, JobInv, OwnTarballs
  <2>6. \A u \in Fresh : u <= Own(j)
    <3> SUFFICES ASSUME NEW u \in tarballs, u > Own(j) PROVE FALSE
      BY OwnIsTarball DEF Fresh, JobInv, JobTypes, Tarball
    <3>1. u - Existing \in Job /\ Own(u - Existing) = u /\ u - Existing > j
      BY DEF JobInv, JobTypes, Tarball, Own, Job
    <3>2. stage[u - Existing] = "none"
      BY <2>4, <3>1 DEF JobInv, JobOrder, Job
    <3> QED
      BY <3>1, <3>2 DEF JobInv, OwnTarballs, NotSpawned
  <2>7. newest \in Fresh /\ Own(j) <= newest
    BY <2>2, <2>5, <2>6
  <2> QED
    BY <2>3, <2>6, <2>7, OwnIsTarball DEF Fresh, JobInv, JobTypes, Tarball
<1>2. ReportsOwn =>
        \A j \in Job : result'[j] # result[j] /\ Own(j) \in tarballs => result'[j] = Own(j)
  BY DEF ReportsOwn
<1> QED
  BY <1>1, <1>2, JobCorrect, PTL DEF ReportSpec, ReportIsOwn

-----------------------------------------------------------------------------
(* The directory.  The tarballs that are not among the n oldest have ranks *)
(* n .. all - 1, each its own, so there are no more than all - n of them.  *)

LEMMA TarballsFinite ==
  ASSUME NEW T \in SUBSET Tarball
  PROVE  IsFiniteSet(T) /\ Cardinality(T) \in Nat
<1>1. IsFiniteSet(Tarball)
  BY FS_Interval DEF Tarball
<1> QED
  BY <1>1, FS_Subset, FS_CardinalityType

LEMMA OldestMakeRoom ==
  ASSUME tarballs \in SUBSET Tarball, NEW n \in Nat, n <= Cardinality(tarballs)
  PROVE  Cardinality(tarballs \ Oldest(n)) <= Cardinality(tarballs) - n
<1> DEFINE Older(t) == {u \in tarballs : u < t}
           all == Cardinality(tarballs)
           young == tarballs \ Oldest(n)
           rank == [t \in young |-> Cardinality(Older(t))]
<1>1. all \in Nat
  BY TarballsFinite
<1>2. ASSUME NEW t \in young PROVE Cardinality(Older(t)) \in n .. all - 1
  <2>1. IsFiniteSet(tarballs \ {t}) /\ Cardinality(tarballs \ {t}) = all - 1
    BY FS_RemoveElement, TarballsFinite
  <2>2. Older(t) \in SUBSET (tarballs \ {t})
    BY DEF Tarball
  <2>3. Cardinality(Older(t)) <= all - 1
    BY <2>1, <2>2, FS_Subset
  <2>4. Cardinality(Older(t)) \in Nat
    BY TarballsFinite
  <2>5. ~(Cardinality(Older(t)) < n)
    BY DEF Oldest
  <2> QED
    BY <1>1, <2>3, <2>4, <2>5
<1>3. ASSUME NEW t \in young, NEW s \in young, t < s
      PROVE  Cardinality(Older(t)) # Cardinality(Older(s))
  <2>1. tarballs \subseteq Nat
    BY DEF Tarball
  <2>2. t \notin Older(t) /\ t \in Older(s)
    BY <1>3, <2>1
  <2>3. Older(t) \in SUBSET Older(s)
    <3>1. \A u \in Nat : u < t => u < s
      BY <1>3, <2>1
    <3> QED
      BY <2>1, <3>1
  <2>4. IsFiniteSet(Older(s))
    BY TarballsFinite
  <2> QED
    BY <2>2, <2>3, <2>4, FS_Subset
<1>4. rank \in Injection(young, n .. all - 1)
  <2>1. rank \in [young -> n .. all - 1]
    BY <1>2
  <2>2. ASSUME NEW t \in young, NEW s \in young, rank[t] = rank[s] PROVE t = s
    <3>1. t \in Nat /\ s \in Nat
      BY DEF Tarball
    <3>2. rank[t] = Cardinality(Older(t)) /\ rank[s] = Cardinality(Older(s))
      OBVIOUS
    <3> QED
      BY <1>3, <2>2, <3>1, <3>2
  <2> QED
    BY <2>1, <2>2 DEF Injection, IsInjective
<1>5. IsFiniteSet(n .. all - 1) /\ Cardinality(n .. all - 1) = all - n
  <2> HIDE DEF all
  <2>1. n \in Int /\ all - 1 \in Int /\ n <= all
    BY <1>1 DEF all
  <2>2. /\ IsFiniteSet(n .. all - 1)
        /\ Cardinality(n .. all - 1) = IF n > all - 1 THEN 0 ELSE all - 1 - n + 1
    BY <2>1, FS_Interval
  <2> QED
    BY <1>1, <2>1, <2>2
<1>6. Cardinality(young) <= Cardinality(n .. all - 1)
  BY <1>4, <1>5, FS_Injection
<1> QED
  BY <1>5, <1>6

(* Room is made before the collector is spawned, and is there until it has *)
(* written, unless something failed or a collector outlived its job.       *)
Room ==
  undisturbed =>
    /\ Cardinality(tarballs) <= RETENTION
    /\ \A j \in Job : stage[j] = "unlink" => Cardinality(tarballs \ victims) <= RETENTION - 1
    /\ \A j \in Job : stage[j] \in {"list", "spawn"} => Cardinality(tarballs) <= RETENTION - 1
    /\ \A j \in Job : collector[j] = "collecting" =>
         stage[j] = "run" /\ Cardinality(tarballs) <= RETENTION - 1

LEMMA PruneMakesRoom ==
  ASSUME tarballs \in SUBSET Tarball
  PROVE  Cardinality(tarballs \ (IF Cardinality(tarballs) > RETENTION - 1
                                 THEN Oldest(Cardinality(tarballs) - (RETENTION - 1)) ELSE {}))
           <= RETENTION - 1
<1>1. Cardinality(tarballs) \in Nat
  BY TarballsFinite
<1>2. CASE Cardinality(tarballs) > RETENTION - 1
  <2>1. /\ Cardinality(tarballs) - (RETENTION - 1) \in Nat
        /\ Cardinality(tarballs) - (RETENTION - 1) <= Cardinality(tarballs)
    BY <1>1, <1>2
  <2>2. Cardinality(tarballs \ Oldest(Cardinality(tarballs) - (RETENTION - 1)))
          <= Cardinality(tarballs) - (Cardinality(tarballs) - (RETENTION - 1))
    BY <2>1, OldestMakeRoom
  <2> QED
    BY <1>1, <1>2, <2>2
<1>3. CASE ~(Cardinality(tarballs) > RETENTION - 1)
  <2>1. tarballs \ {} = tarballs
    OBVIOUS
  <2> QED
    BY <1>1, <1>3, <2>1
<1> QED
  BY <1>2, <1>3

(* Fewer tarballs take no more room.                                       *)
LEMMA FewerTarballs ==
  ASSUME NEW T \in SUBSET Tarball, NEW U \in SUBSET T, NEW n \in Int, Cardinality(T) <= n
  PROVE  Cardinality(U) <= n
<1>1. Cardinality(U) <= Cardinality(T) /\ Cardinality(U) \in Nat /\ Cardinality(T) \in Nat
  BY TarballsFinite, FS_Subset
<1> QED
  BY <1>1

LEMMA RoomInJobStep ==
  ASSUME JobInv, Room, NEW j \in Job, JobStep(j)
  PROVE  Room'
<1> SUFFICES ASSUME undisturbed' PROVE Room'
  BY DEF Room
<1>1. undisturbed /\ Active(j) /\ tarballs \in SUBSET Tarball /\ tarballs' \in SUBSET tarballs
  <2>1. undisturbed /\ Active(j)
    BY Zenon DEF JobStep, Preflight, Prune, UnlinkVictims, ListBefore, Spawn, Closes, TimesOut,
           ListAfter, StatResult, Active, Before, hostVars
  <2> QED
    BY <2>1 DEF JobInv, JobTypes, JobStep, Preflight, Prune, UnlinkVictims, ListBefore, Spawn,
           Closes, TimesOut, ListAfter, StatResult, hostVars
<1>2. \A k \in Job : k # j => stage[k] \in Before
  BY <1>1 DEF JobInv, JobOrder, Active, Before, Job
<1>3. /\ stage' = [stage EXCEPT ![j] = stage'[j]] /\ stage \in [Job -> Stage]
      /\ collector \in [Job -> {"none", "collecting", "written", "exit0", "exit1"}]
  BY DEF JobInv, JobTypes, JobStep, Preflight, Prune, UnlinkVictims, ListBefore, Spawn,
           Closes, TimesOut, ListAfter, StatResult, Continues, Goes, Finalize
<1>4. ASSUME collector' = [collector EXCEPT ![j] = collector'[j]],
             stage'[j] = "unlink" => Cardinality(tarballs' \ victims') <= RETENTION - 1,
             stage'[j] \in {"list", "spawn"} => Cardinality(tarballs') <= RETENTION - 1,
             collector'[j] = "collecting" =>
               stage'[j] = "run" /\ Cardinality(tarballs') <= RETENTION - 1
      PROVE  Room'
  <2>1. Cardinality(tarballs') <= RETENTION
    BY <1>1, FewerTarballs DEF Room
  <2>2. \A k \in Job : k # j => stage'[k] = stage[k] /\ collector'[k] = collector[k]
    BY <1>3, <1>4
  <2>3. \A k \in Job : k # j => collector[k] # "collecting"
    BY <1>1, <1>2 DEF Room, Before
  <2> QED
    BY <1>2, <1>4, <2>1, <2>2, <2>3 DEF Room, Before
<1>5. stage[j] # "run" => collector[j] # "collecting"
  BY <1>1 DEF Room
<1>6. collector = [collector EXCEPT ![j] = collector[j]]
  BY <1>3
<1>7. ASSUME NEW outcome, Finalize(j, outcome) PROVE stage'[j] = "over"
  BY <1>3, <1>7 DEF Finalize
<1>8. ASSUME NEW s, Goes(j, s) PROVE stage'[j] = s
  BY <1>3, <1>8 DEF Goes
<1>9. CASE Preflight(j)
  BY <1>4, <1>5, <1>6, <1>7, <1>8, <1>9 DEF Preflight, Continues, hostVars
<1>10. CASE Prune(j)
  <2>1. /\ victims' = IF Cardinality(tarballs) > RETENTION - 1
                      THEN Oldest(Cardinality(tarballs) - (RETENTION - 1)) ELSE {}
        /\ Goes(j, "unlink") /\ UNCHANGED <<collector, tarballs>> /\ stage[j] = "prune"
    BY <1>10, Zenon DEF Prune
  <2>2. Cardinality(tarballs' \ victims') <= RETENTION - 1
    BY <1>1, <2>1, PruneMakesRoom
  <2> QED
    BY <1>4, <1>5, <1>6, <1>8, <2>1, <2>2
<1>11. CASE UnlinkVictims(j)
  <2>1. tarballs' = tarballs \ victims /\ stage[j] = "unlink" /\ UNCHANGED collector
    <3>1. PICK stay \in SUBSET victims : tarballs' = tarballs \ (victims \ stay) /\ stay = {}
      BY <1>11, Zenon DEF UnlinkVictims
    <3> QED
      BY <1>11, <3>1 DEF UnlinkVictims
  <2>2. Cardinality(tarballs') <= RETENTION - 1
    BY <1>1, <2>1 DEF Room
  <2>3. stage'[j] = "list"
    BY <1>8, <1>11 DEF UnlinkVictims, Continues
  <2> QED
    BY <1>4, <1>5, <1>6, <2>1, <2>2, <2>3
<1>12. CASE ListBefore(j)
  <2>1. /\ stage[j] = "list" /\ UNCHANGED <<collector, tarballs>>
        /\ stage'[j] \in {"spawn", "over"}
    BY <1>7, <1>8, <1>12 DEF ListBefore, hostVars
  <2> QED
    BY <1>1, <1>4, <1>5, <1>6, <2>1 DEF Room
<1>13. CASE Spawn(j)
  <2>1. stage[j] = "spawn" /\ UNCHANGED tarballs /\ Cardinality(tarballs) <= RETENTION - 1
    BY <1>1, <1>13 DEF Spawn, Room
  <2>2. CASE collector' = [collector EXCEPT ![j] = "collecting"] /\ Continues(j, "run")
    <3>1. collector'[j] = "collecting" /\ stage'[j] = "run"
      BY <1>3, <1>8, <2>2 DEF Continues
    <3> QED
      BY <1>4, <2>1, <2>2, <3>1
  <2>3. CASE UNCHANGED collector /\ Finalize(j, "error")
    BY <1>4, <1>5, <1>6, <1>7, <2>1, <2>3
  <2> QED
    BY <1>13, <2>2, <2>3 DEF Spawn
<1>14. CASE Closes(j)
  <2>1. /\ collector[j] \in {"exit0", "exit1"} /\ UNCHANGED collector
        /\ stage'[j] \in {"listAfter", "over"}
    BY <1>7, <1>8, <1>14 DEF Closes, Continues, hostVars
  <2> QED
    BY <1>4, <1>6, <2>1
<1>15. CASE TimesOut(j)
  <2>1. /\ collector[j] \in {"exit0", "exit1"} /\ UNCHANGED collector
        /\ stage'[j] = "over"
    BY <1>7, <1>15 DEF TimesOut
  <2> QED
    BY <1>4, <1>6, <2>1
<1>16. CASE ListAfter(j) \/ StatResult(j)
  <2>1. /\ stage[j] # "run" /\ UNCHANGED collector
        /\ stage'[j] \in {"stat", "over"}
    BY <1>7, <1>8, <1>16 DEF ListAfter, StatResult, Continues, hostVars
  <2> QED
    BY <1>4, <1>5, <1>6, <2>1
<1> QED
  BY <1>9, <1>10, <1>11, <1>12, <1>13, <1>14, <1>15, <1>16 DEF JobStep

LEMMA RoomKept == JobInv /\ Room /\ [ReportNext]_reportVars => Room'
<1> SUFFICES ASSUME JobInv, Room, [ReportNext]_reportVars, undisturbed' PROVE Room'
  BY DEF Room
<1>1. CASE Post
  <2>1. UNCHANGED <<tarballs, victims, collector, undisturbed>>
    BY <1>1 DEF Post, hostVars
  <2>2. PICK j \in Job : stage' = [stage EXCEPT ![j] = "preflight"] /\ stage[j] = "none"
    BY <1>1 DEF Post
  <2>3. /\ \A k \in Job : k # j => stage'[k] = stage[k]
        /\ stage'[j] = "preflight" /\ collector[j] = "none"
    BY <2>2 DEF JobInv, JobTypes, OwnTarballs, NotSpawned
  <2> QED
    BY <2>1, <2>3 DEF Room
<1>2. ASSUME NEW j \in Job, JobStep(j) PROVE Room'
  BY <1>2, RoomInJobStep
<1>3. ASSUME NEW j \in Job, CollectorWrites(j) PROVE Room'
  <2>1. /\ undisturbed /\ collector[j] = "collecting" /\ stage[j] = "run"
        /\ Cardinality(tarballs) <= RETENTION - 1
        /\ tarballs' = tarballs \cup {Own(j)} /\ UNCHANGED stage
        /\ collector' = [collector EXCEPT ![j] = "written"]
    BY <1>3 DEF CollectorWrites, jobVars, Room
  <2>2. Cardinality(tarballs') <= RETENTION
    <3>1. IsFiniteSet(tarballs) /\ Cardinality(tarballs) \in Nat
      BY TarballsFinite DEF JobInv, JobTypes
    <3>2. Cardinality(tarballs \cup {Own(j)})
            = IF Own(j) \in tarballs THEN Cardinality(tarballs) ELSE Cardinality(tarballs) + 1
      BY <3>1, FS_AddElement
    <3>3. Cardinality(tarballs \cup {Own(j)}) <= Cardinality(tarballs) + 1
      BY <3>1, <3>2
    <3>4. Cardinality(tarballs \cup {Own(j)}) \in Nat
      BY <3>1, <3>2
    <3> QED
      BY <2>1, <3>1, <3>3, <3>4
  <2>3. \A k \in Job : k # j => stage[k] \in Before
    BY <2>1 DEF JobInv, JobOrder, Active, Before, Job
  <2>4. \A k \in Job : collector'[k] # "collecting"
    BY <2>1, <2>3 DEF JobInv, JobTypes, Room, Before
  <2> QED
    BY <2>1, <2>2, <2>3, <2>4 DEF Room, Before
<1>4. ASSUME NEW j \in Job, CollectorExits(j) PROVE Room'
  <2>1. PICK code \in {"exit0", "exit1"} : collector' = [collector EXCEPT ![j] = code]
    BY <1>4 DEF CollectorExits
  <2>2. UNCHANGED <<stage, victims, tarballs, undisturbed>>
    BY <1>4 DEF CollectorExits, jobVars
  <2>3. \A k \in Job : collector'[k] = "collecting" => collector[k] = "collecting"
    BY <2>1 DEF JobInv, JobTypes
  <2> QED
    BY <2>2, <2>3 DEF Room
<1>5. ASSUME NEW t \in Tarball, Removed(t) PROVE Room'
  <2>1. /\ tarballs \in SUBSET Tarball /\ tarballs' \in SUBSET tarballs
        /\ UNCHANGED <<stage, victims, collector, undisturbed>>
    BY <1>5 DEF Removed, jobVars, JobInv, JobTypes
  <2>2. /\ tarballs' \ victims' \in SUBSET (tarballs \ victims)
        /\ tarballs \ victims \in SUBSET Tarball
    BY <2>1
  <2>3. \A n \in Int : /\ Cardinality(tarballs) <= n => Cardinality(tarballs') <= n
                       /\ Cardinality(tarballs \ victims) <= n
                            => Cardinality(tarballs' \ victims') <= n
    BY <2>1, <2>2, FewerTarballs
  <2>4. RETENTION \in Int /\ RETENTION - 1 \in Int
    OBVIOUS
  <2> QED
    BY <2>1, <2>3, <2>4 DEF Room
<1>6. CASE DoctorDies
  <2>1. /\ UNCHANGED <<collector, tarballs>> /\ undisturbed
        /\ \A j \in Job : collector[j] # "collecting"
    BY <1>6, Zenon DEF DoctorDies
  <2>2. \A j \in Job : stage'[j] \in Before
    BY <1>6 DEF DoctorDies, Active, Before
  <2> QED
    BY <2>1, <2>2 DEF Room, Before
<1>7. CASE UNCHANGED reportVars
  BY <1>7 DEF reportVars, jobVars, hostVars, Room
<1> QED
  BY <1>1, <1>2, <1>3, <1>4, <1>5, <1>6, <1>7 DEF ReportNext

(* The directory never holds more than RETENTION tarballs, for any         *)
(* retention and any number there at first, unless a prune failed or a     *)
(* collector outlived its job (src/src/bug-report.ts:353-368).             *)
THEOREM RetentionAlways == ReportSpec => []RetentionHolds
<1>1. ReportInit => Room
  BY DEF ReportInit, Room
<1>2. Room => RetentionHolds
  BY DEF Room, RetentionHolds
<1> QED
  BY <1>1, <1>2, RoomKept, JobCorrect, PTL DEF ReportSpec

(* Of two collectors at work one at least is that of a job that is over.   *)
CollectorsApart ==
  \A j, k \in Job :
    collector[j] = "collecting" /\ collector[k] = "collecting" /\ j # k
      => ~Active(j) \/ ~Active(k)

(* A second collector is at work only where one has outlived its job: while *)
(* every job waits for its collector and the doctor lives, the comment on  *)
(* startBugReportJob() is true (src/src/bug-report-jobs.ts:63-84).         *)
THEOREM OnlyOutlivingCollide == ReportSpec => []CollectorsApart
<1>1. ASSUME JobInv PROVE CollectorsApart
  <2> SUFFICES ASSUME NEW j \in Job, NEW k \in Job, Active(j), Active(k)
               PROVE  j = k
    BY DEF CollectorsApart
  <2>1. k <= j /\ j <= k
    BY <1>1 DEF JobInv, JobOrder, Active, Before
  <2> QED
    BY <2>1 DEF Job
<1> QED
  BY <1>1, JobCorrect, PTL

-----------------------------------------------------------------------------
(* The job registry's types, of which the parts that are not types are: a  *)
(* job that is done has a tarball, and the registry keeps to its capacity. *)

LEMMA NewestIsThere ==
  ASSUME NEW S \in SUBSET Tarball, S # {}
  PROVE  \E t \in S : \A u \in S : u <= t
<1> DEFINE Newer(t) == {u \in S : u > t}
           Family == {Newer(t) : t \in S}
<1>1. Tarball \subseteq Nat /\ IsFiniteSet(Tarball)
  BY FS_Interval DEF Tarball
<1>2. IsFiniteSet(S)
  BY <1>1, FS_Subset
<1>3. Family \subseteq FiniteSubsetsOf(S) /\ Family # {}
  <2>1. ASSUME NEW t \in S PROVE Newer(t) \in SUBSET S /\ IsFiniteSet(Newer(t))
    <3>1. Newer(t) \in SUBSET S
      OBVIOUS
    <3> QED
      BY <1>2, <3>1, FS_Subset
  <2> QED
    BY <2>1 DEF FiniteSubsetsOf
<1>4. PICK x \in Family : \A y \in Family : <<y, x>> \notin StrictSubsetOrdering(S)
  BY <1>3, FS_StrictSubsetOrderingWellFounded, WFMin
<1>5. PICK t \in S : x = Newer(t)
  OBVIOUS
<1>6. ASSUME NEW u \in S, u > t PROVE FALSE
  <2>1. Newer(u) \subseteq Newer(t) /\ u \in Newer(t) /\ u \notin Newer(u)
    <3>1. \A v \in S : v > u => v > t
      BY <1>1, <1>6
    <3>2. ~(u > u)
      BY <1>1
    <3> QED
      BY <1>6, <3>1, <3>2
  <2>2. Newer(u) \in Family /\ Newer(t) \in SUBSET S
    OBVIOUS
  <2>3. <<Newer(u), Newer(t)>> \in StrictSubsetOrdering(S)
    BY <2>1, <2>2 DEF StrictSubsetOrdering
  <2> QED
    BY <1>4, <1>5, <2>2, <2>3
<1> QED
  BY <1>1, <1>5, <1>6

ReportTyped ==
  /\ Len(jobs) <= MAX_JOBS
  /\ victims \in SUBSET Tarball /\ before \in SUBSET Tarball
  /\ result \in [Job -> Tarball \cup {0}]
  /\ \A j \in Job : status[j] = "done" => result[j] # 0

LEMMA ReportTypedInPost ==
  ASSUME JobInv, ReportTyped, Post
  PROVE  ReportTyped'
<1>1. PICK j \in Job :
        /\ jobs' = IF Len(Append(jobs, j)) > MAX_JOBS THEN Tail(Append(jobs, j))
                                                      ELSE Append(jobs, j)
        /\ status' = [k \in Job |-> IF k \notin ToSet(jobs') THEN "absent"
                                    ELSE IF k = j THEN "running" ELSE status[k]]
  BY DEF Post
<1>2. Len(jobs') <= MAX_JOBS
  <2> DEFINE all == Append(jobs, j)
  <2>1. all \in Seq(Job) /\ Len(all) = Len(jobs) + 1 /\ Len(jobs) \in Nat
    BY DEF JobInv, JobTypes
  <2>2. jobs' = IF Len(all) > MAX_JOBS THEN Tail(all) ELSE all
    BY <1>1
  <2> HIDE DEF all
  <2>3. Len(all) > MAX_JOBS => Len(Tail(all)) = Len(all) - 1
    BY <2>1
  <2> QED
    BY <2>1, <2>2, <2>3 DEF ReportTyped
<1>3. \A k \in Job : status'[k] = "done" => status[k] = "done"
  BY <1>1
<1> QED
  BY <1>2, <1>3 DEF Post, ReportTyped

LEMMA ReportTypedInJobStep ==
  ASSUME JobInv, ReportTyped, NEW j \in Job, JobStep(j)
  PROVE  ReportTyped'
<1>1. jobs' = jobs
  BY DEF JobStep, Preflight, Prune, UnlinkVictims, ListBefore, Spawn, Closes, TimesOut,
         ListAfter, StatResult, Finalize, Continues, Goes
<1>2. victims' \in SUBSET Tarball /\ before' \in SUBSET Tarball
  BY DEF JobStep, Preflight, Prune, UnlinkVictims, ListBefore, Spawn, Closes, TimesOut,
         ListAfter, StatResult, Finalize, Continues, Goes, Oldest, ReportTyped, JobInv, JobTypes
<1>3. /\ result' \in [Job -> Tarball \cup {0}]
      /\ \A k \in Job : result[k] # 0 => result'[k] # 0
  <2>1. CASE UNCHANGED result
    BY <2>1 DEF ReportTyped
  <2>2. CASE result' # result
    <3> DEFINE newest == CHOOSE t \in Fresh : \A u \in Fresh : u <= t
    <3>1. Fresh # {} /\ result' = [result EXCEPT ![j] = newest]
      BY <2>2, Zenon DEF JobStep, Preflight, Prune, UnlinkVictims, ListBefore, Spawn, Closes,
         TimesOut, ListAfter, StatResult
    <3>2. newest \in Fresh
      BY <3>1, NewestIsThere DEF Fresh, JobInv, JobTypes
    <3> HIDE DEF newest
    <3>3. newest \in Tarball /\ newest # 0
      BY <3>2 DEF Fresh, JobInv, JobTypes, Tarball
    <3> QED
      BY <3>1, <3>3 DEF ReportTyped
  <2> QED
    BY <2>1, <2>2
<1>4. ASSUME NEW k \in Job, status'[k] = "done" PROVE result'[k] # 0
  <2>1. CASE status[k] = "done"
    BY <1>3, <2>1 DEF ReportTyped
  <2>2. CASE status[k] # "done"
    <3>1. StatResult(j) /\ k = j /\ result[j] \in tarballs
      BY <1>4, <2>2 DEF JobStep, Preflight, Prune, UnlinkVictims, ListBefore, Spawn, Closes,
         TimesOut, ListAfter, StatResult, Finalize, Continues, Goes, JobInv, JobTypes
    <3> QED
      BY <1>3, <3>1 DEF JobInv, JobTypes, Tarball
  <2> QED
    BY <2>1, <2>2
<1> QED
  BY <1>1, <1>2, <1>3, <1>4 DEF ReportTyped

LEMMA ReportTypedKept == JobInv /\ ReportTyped /\ [ReportNext]_reportVars => ReportTyped'
<1> SUFFICES ASSUME JobInv, ReportTyped, [ReportNext]_reportVars PROVE ReportTyped'
  OBVIOUS
<1>1. CASE \E j \in Job : JobStep(j)
  BY <1>1, ReportTypedInJobStep
<1>2. CASE (\E j \in Job : CollectorWrites(j) \/ CollectorExits(j)) \/ (\E t \in Tarball : Removed(t))
  BY <1>2 DEF CollectorWrites, CollectorExits, Removed, jobVars, ReportTyped
<1>3. CASE DoctorDies
  BY <1>3 DEF DoctorDies, ReportTyped
<1>4. CASE UNCHANGED reportVars
  BY <1>4 DEF reportVars, jobVars, ReportTyped
<1> QED
  BY <1>1, <1>2, <1>3, <1>4, ReportTypedInPost DEF ReportNext

(* The registry and the run are well typed, the registry keeps to its      *)
(* capacity, and a job that is done has the tarball it reports, for any    *)
(* capacity and retention (src/src/bug-report-jobs.ts:40-116).             *)
THEOREM ReportTypeCorrect == ReportSpec => []ReportTypeOK
<1>1. ReportInit => ReportTyped
  BY DEF ReportInit, ReportTyped
<1>2. JobInv /\ ReportTyped => ReportTypeOK
  BY DEF JobInv, JobTypes, ReportTyped, ReportTypeOK
<1> QED
  BY <1>1, <1>2, ReportTypedKept, JobCorrect, PTL DEF ReportSpec

-----------------------------------------------------------------------------
(* A step of the page is a step of the broker, or leaves it alone.         *)

LEMMA ViewIsBroker == [ViewNext]_viewVars => [Next]_vars
<1> SUFFICES ASSUME [ViewNext]_viewVars PROVE [Next]_vars
  OBVIOUS
<1>1. CASE Connects
  BY <1>1 DEF Connects, Next
<1>2. ASSUME NEW s \in Stream, ViewDelivers(s) PROVE [Next]_vars
  BY <1>2 DEF ViewDelivers, Next
<1>3. CASE Behind
  BY <1>3 DEF Behind, Next
<1>4. CASE Appears \/ TogglePause \/ Clear \/ Breaks \/ Hides
  BY <1>4 DEF Appears, TogglePause, Clear, Breaks, Hides
<1>5. CASE UNCHANGED viewVars
  BY <1>5 DEF viewVars
<1> QED
  BY <1>1, <1>2, <1>3, <1>4, <1>5 DEF ViewNext

-----------------------------------------------------------------------------
(* The broker's streams: those that are not NoStream are at work, and the  *)
(* broker knows of each.                                                   *)

StreamType ==
  /\ tail \in Stream \cup {0}
  /\ warm \in BOOLEAN /\ timer \in BOOLEAN
  /\ stream \in [Stream -> [state : {"none", "opening", "open"}, to : Nat, pos : Nat]]
  /\ first \in Nat /\ last \in Nat

FeedInv == StreamType /\ OneFeed /\ NeverCold

LEMMA FeedInit == Init => FeedInv
<1> SUFFICES ASSUME Init PROVE FeedInv
  OBVIOUS
<1>1. NeverCold
  BY Zenon DEF Init, NeverCold
<1>2. StreamType
  <2>1. warm \in BOOLEAN /\ timer \in BOOLEAN
    BY Zenon DEF Init
  <2> QED
    BY <2>1 DEF Init, StreamType, NoStream
<1>3. OneFeed
  BY DEF Init, OneFeed
<1> QED
  BY <1>1, <1>2, <1>3 DEF FeedInv

LEMMA SpawnFeeds ==
  ASSUME StreamType, OneFeed, SpawnIfNeeded
  PROVE  /\ tail' \in Stream
         /\ stream' \in [Stream -> [state : {"none", "opening", "open"}, to : Nat, pos : Nat]]
         /\ OneFeed'
<1> USE DEF StreamType, OneFeed, NoStream
<1>1. CASE tail # 0 /\ UNCHANGED <<tail, stream>>
  BY <1>1
<1>2. ASSUME tail = 0, NEW s \in Stream, stream[s] = NoStream, tail' = s,
             stream' = [stream EXCEPT ![s].state = "opening"]
      PROVE  /\ tail' \in Stream
             /\ stream' \in [Stream -> [state : {"none", "opening", "open"}, to : Nat, pos : Nat]]
             /\ OneFeed'
  <2>1. \A t \in Stream : stream[t] = NoStream
    BY <1>2 DEF Stream
  <2>2. \A t \in Stream : t # s => stream'[t] = NoStream
    BY <1>2, <2>1
  <2> QED
    BY <1>2, <2>2
<1> QED
  BY <1>1, <1>2 DEF SpawnIfNeeded

LEMMA ExitFeeds ==
  ASSUME FeedInv, NEW s \in Stream, Exit(s), first' \in Nat, last' \in Nat
  PROVE  FeedInv'
<1> USE DEF FeedInv, StreamType, OneFeed, NeverCold, NoStream
<1>1. /\ stream' = [stream EXCEPT ![s] = NoStream]
      /\ tail' = IF tail = s THEN 0 ELSE tail
      /\ timer' = (timer \/ tail = s) /\ warm' = warm
  BY DEF Exit
<1>2. StreamType'
  BY <1>1
<1>3. OneFeed'
  BY <1>1
<1>4. NeverCold'
  BY <1>1, Zenon
<1> QED
  BY <1>2, <1>3, <1>4

LEMMA FeedStep == FeedInv /\ [Next]_vars => FeedInv'
<1> SUFFICES ASSUME FeedInv, [Next]_vars PROVE FeedInv'
  OBVIOUS
<1> USE DEF FeedInv, StreamType
<1>1. CASE Subscribe
  <2>1. tail' # 0
    BY <1>1, SpawnFeeds DEF Subscribe, Stream
  <2> QED
    BY <1>1, <2>1, SpawnFeeds DEF Subscribe, NeverCold, worldVars
<1>2. CASE TimerFires
  <2>1. tail' # 0
    BY <1>2, SpawnFeeds DEF TimerFires, Stream
  <2> QED
    BY <1>2, <2>1, SpawnFeeds DEF TimerFires, NeverCold, worldVars
<1>3. ASSUME NEW s \in Stream, Opens(s) PROVE FeedInv'
  <2>1. Newest \in Nat
    BY DEF Newest
  <2>2. tail = s
    BY <1>3 DEF Opens, OneFeed, NoStream
  <2>3. Following \in Nat
    BY LogBoundsAssumption DEF LogBoundsAssumption, Following
  <2> QED
    BY <1>3, <2>1, <2>2, <2>3 DEF Opens, OneFeed, NeverCold, NoStream, worldVars
<1>4. ASSUME NEW s \in Stream, OpenFails(s) \/ Ends(s) PROVE FeedInv'
  BY <1>4, ExitFeeds DEF OpenFails, Ends, Glitch, worldVars
<1>5. ASSUME NEW s \in Stream, Delivers(s) PROVE FeedInv'
  <2>1. tail = s
    BY <1>5 DEF Delivers, OneFeed, NoStream
  <2> QED
    BY <1>5, <2>1 DEF Delivers, OneFeed, NeverCold, worldVars
<1>6. CASE Writes \/ Vanishes \/ Starts
  BY <1>6 DEF Writes, Vanishes, Starts, brokerVars, OneFeed, NeverCold
<1>7. CASE Stops
  <2>1. ASSUME NEW s \in Stream
        PROVE  /\ stream'[s] \in [state : {"none", "opening", "open"}, to : Nat, pos : Nat]
               /\ stream[s] = NoStream => stream'[s] = NoStream
    BY <1>7, LogBoundsAssumption DEF LogBoundsAssumption, Stops, Following, NoStream
  <2>2. /\ \A s \in Stream : stream[s] = NoStream => stream'[s] = NoStream
        /\ \A s \in Stream :
             stream'[s] \in [state : {"none", "opening", "open"}, to : Nat, pos : Nat]
        /\ stream' = [s \in Stream |-> stream'[s]]
    BY <1>7, <2>1 DEF Stops
  <2>3. UNCHANGED <<tail, warm, timer, first, last>>
    BY <1>7 DEF Stops
  <2> QED
    BY <2>2, <2>3 DEF OneFeed, NeverCold
<1>8. CASE UNCHANGED vars
  BY <1>8 DEF vars, worldVars, brokerVars, OneFeed, NeverCold
<1> QED
  BY <1>1, <1>2, <1>3, <1>4, <1>5, <1>6, <1>7, <1>8 DEF Next

LEMMA FeedCorrect == ViewSpec => []FeedInv
<1>1. ViewInit => FeedInv
  BY FeedInit DEF ViewInit
<1>2. FeedInv /\ [ViewNext]_viewVars => FeedInv'
  BY FeedStep, ViewIsBroker
<1> QED
  BY <1>1, <1>2, PTL DEF ViewSpec

(* However many subscribers come and whatever breaks, one stream at most   *)
(* is read and the broker knows it (src/src/log-stream-broker.ts:191-221). *)
THEOREM OneFeedAlways == ViewSpec => []OneFeed
<1>1. FeedInv => OneFeed
  BY DEF FeedInv
<1> QED
  BY <1>1, FeedCorrect, PTL

(* A broker that has once been asked for its log has a stream, or a timer  *)
(* that will start one (src/src/log-stream-broker.ts:191-221).             *)
THEOREM NeverColdAlways == ViewSpec => []NeverCold
<1>1. FeedInv => NeverCold
  BY DEF FeedInv
<1> QED
  BY <1>1, FeedCorrect, PTL

-----------------------------------------------------------------------------
(* The page.  A line that is delivered becomes the newest of the history;  *)
(* the others were in it before, also when the ring has to drop one.       *)

LEMMA HistoryAfterPush ==
  ASSUME NEW L, ring \in Seq(L), NEW l \in L, PushHistory(l)
  PROVE  ring' \in Seq(L) /\ History(TAIL)' \subseteq History(TAIL) \cup {l}
<1> DEFINE all == Append(ring, l)
           cut == Len(all) > BACKFILL_LIMIT
<1>1. /\ all \in Seq(L) /\ Len(all) = Len(ring) + 1 /\ Len(ring) \in Nat
      /\ \A i \in 1 .. Len(ring) : all[i] = ring[i]
      /\ all[Len(ring) + 1] = l
  OBVIOUS
<1>2. ring' = IF cut THEN Tail(all) ELSE all
  BY DEF PushHistory
<1>3. Len(ring) \in Nat /\ DOMAIN ring = 1 .. Len(ring)
  OBVIOUS
<1>6. Len(ring) \in Nat
  OBVIOUS
<1> HIDE DEF all
<1>4. CASE cut
  <2>1. /\ ring' \in Seq(L) /\ Len(ring') = Len(ring)
        /\ \A i \in 1 .. Len(ring) : ring'[i] = all[i + 1]
    BY <1>1, <1>2, <1>4
  <2>2. ASSUME NEW i \in 1 .. Len(ring), i > Len(ring) - TAIL
        PROVE  ring'[i] \in History(TAIL) \cup {l}
    <3>0. i = Len(ring) \/ i < Len(ring)
      BY <2>2, <1>6
    <3>1. CASE i = Len(ring)
      BY <1>1, <2>1, <3>1
    <3>2. CASE i < Len(ring)
      <4>1. i + 1 \in 1 .. Len(ring) /\ i + 1 > Len(ring) - TAIL
        BY <2>2, <3>2, <1>3
      <4>2. ring'[i] = ring[i + 1]
        BY <1>1, <2>1, <4>1
      <4> QED
        BY <4>1, <4>2, <1>3 DEF History
    <3> QED
      BY Zenon, <3>0, <3>1, <3>2
  <2>3. DOMAIN ring' = 1 .. Len(ring)
    BY <2>1
  <2> QED
    BY <2>1, <2>2, <2>3 DEF History
<1>5. CASE ~cut
  <2>1. ring' \in Seq(L) /\ Len(ring') = Len(ring) + 1 /\ ring' = all
    BY <1>1, <1>2, <1>5
  <2>2. ASSUME NEW i \in 1 .. Len(ring) + 1, i > Len(ring) + 1 - TAIL
        PROVE  ring'[i] \in History(TAIL) \cup {l}
    <3>1. CASE i = Len(ring) + 1
      BY <1>1, <2>1, <3>1
    <3>2. CASE i < Len(ring) + 1
      <4>1. i \in 1 .. Len(ring) /\ i > Len(ring) - TAIL
        BY <2>2, <3>2, <1>3
      <4>2. ring'[i] = ring[i]
        BY <1>1, <2>1, <4>1
      <4> QED
        BY <4>1, <4>2, <1>3 DEF History
    <3> QED
      BY <2>2, <3>1, <3>2, <1>3
  <2>3. DOMAIN ring' = 1 .. Len(ring) + 1
    BY <2>1
  <2> QED
    BY <2>1, <2>2, <2>3 DEF History
<1> QED
  BY <1>4, <1>5

RingType == ring \in Seq(Nat)

PageInv == RingType /\ PageShowsHistory

LEMMA RingKept ==
  ASSUME [ViewNext]_viewVars
  PROVE  ring' = ring \/ \E s \in Stream : ViewDelivers(s)
<1>1. ASSUME Subscribe PROVE ring' = ring
  BY <1>1 DEF Subscribe
<1>2. CASE Connects
  BY <1>1, <1>2 DEF Connects
<1>3. CASE Behind
  BY <1>1, <1>3 DEF Behind, TimerFires, Writes, Stops, Vanishes, Starts, brokerVars,
                    Opens, OpenFails, Ends, Exit
<1>4. CASE Appears \/ TogglePause \/ Clear \/ Breaks \/ Hides
  BY <1>4 DEF Appears, TogglePause, Clear, Breaks, Hides, vars, brokerVars
<1>5. CASE UNCHANGED viewVars
  BY <1>5 DEF viewVars, vars, brokerVars
<1> QED
  BY <1>2, <1>3, <1>4, <1>5 DEF ViewNext

LEMMA PageStep == PageInv /\ StreamType /\ [ViewNext]_viewVars => PageInv'
<1> SUFFICES ASSUME PageInv, StreamType, [ViewNext]_viewVars PROVE PageInv'
  OBVIOUS
<1> USE DEF PageInv, RingType, PageShowsHistory
<1>1. ASSUME NEW s \in Stream, ViewDelivers(s) PROVE PageInv'
  <2>1. stream[s].pos \in Nat /\ PushHistory(stream[s].pos)
    BY <1>1 DEF ViewDelivers, Delivers, StreamType
  <2>2. ring' \in Seq(Nat) /\ History(TAIL)' \subseteq History(TAIL) \cup {stream[s].pos}
    BY <2>1, HistoryAfterPush
  <2> QED
    BY <1>1, <2>2 DEF ViewDelivers
<1>2. ASSUME ring' = ring, ~\E s \in Stream : ViewDelivers(s) PROVE PageInv'
  <2>1. History(TAIL)' = History(TAIL)
    BY <1>2 DEF History
  <2>2. CASE Connects
    BY <1>2, <2>1, <2>2 DEF Connects
  <2>3. CASE Behind
    BY <1>2, <2>1, <2>3 DEF Behind, pageVars
  <2>4. CASE Appears \/ TogglePause \/ Clear \/ Breaks \/ Hides
    BY <1>2, <2>1, <2>4 DEF Appears, TogglePause, Clear, Breaks, Hides
  <2>5. CASE UNCHANGED viewVars
    BY <1>2, <2>1, <2>5 DEF viewVars, pageVars
  <2> QED
    BY <1>2, <2>2, <2>3, <2>4, <2>5 DEF ViewNext
<1> QED
  BY <1>1, <1>2, RingKept

(* A connected page that has dropped nothing since has no hole where the   *)
(* history and the live lines meet, for any size of the ring and of the    *)
(* history asked for (src/src/routes/logs-stream.ts:107-125).              *)
THEOREM NoHoleInPage == ViewSpec => []PageShowsHistory
<1>1. ViewInit => PageInv
  BY DEF ViewInit, Init, PageInv, RingType, PageShowsHistory
<1>2. FeedInv => StreamType
  BY DEF FeedInv
<1>3. PageInv => PageShowsHistory
  BY DEF PageInv
<1> QED
  BY <1>1, <1>2, <1>3, FeedCorrect, PageStep, PTL DEF ViewSpec

-----------------------------------------------------------------------------
(* Types of the broker and the page.  An open stream is at a line.         *)

AtALine == \A s \in Stream : stream[s].state = "open" => stream[s].pos >= 1

ViewType == ViewTypeOK /\ AtALine

LEMMA NewestIsALine == TypeOK => Newest \in 1 .. MaxLines + 1
  BY DEF TypeOK, Newest

LEMMA StreamFields ==
  ASSUME TypeOK, NEW s \in Stream
  PROVE  /\ stream[s] = NoStream \/ stream[s].state \in {"opening", "open"}
         /\ stream[s].pos \in 0 .. MaxLines + 1
         /\ stream[s] = [state |-> stream[s].state, to |-> stream[s].to, pos |-> stream[s].pos]
         /\ stream[s].to \in 0 .. MaxLines + 1
<1>1. stream[s] \in StreamState
  BY DEF TypeOK
<1> QED
  BY <1>1 DEF StreamState, NoStream

LEMMA SpawnTyped ==
  ASSUME TypeOK, AtALine, SpawnIfNeeded
  PROVE  tail' \in Stream \cup {0} /\ stream' \in [Stream -> StreamState] /\ AtALine'
<1>1. CASE tail # 0 /\ UNCHANGED <<tail, stream>>
  BY <1>1 DEF TypeOK, AtALine
<1>2. ASSUME NEW s \in Stream, stream[s] = NoStream, tail' = s,
             stream' = [stream EXCEPT ![s].state = "opening"]
      PROVE  tail' \in Stream \cup {0} /\ stream' \in [Stream -> StreamState] /\ AtALine'
  <2>0. [NoStream EXCEPT !.state = "opening"] = [state |-> "opening", to |-> 0, pos |-> 0]
    BY DEF NoStream
  <2>1. stream' = [stream EXCEPT ![s] = [state |-> "opening", to |-> 0, pos |-> 0]]
    BY <1>2, <2>0
  <2>2. [state |-> "opening", to |-> 0, pos |-> 0] \in StreamState
    BY DEF StreamState
  <2> QED
    BY <1>2, <2>1, <2>2 DEF TypeOK, AtALine
<1> QED
  BY <1>1, <1>2 DEF SpawnIfNeeded

LEMMA ExitTyped ==
  ASSUME TypeOK, AtALine, NEW s \in Stream, Exit(s)
  PROVE  /\ tail' \in Stream \cup {0} /\ timer' \in BOOLEAN
         /\ stream' \in [Stream -> StreamState] /\ AtALine'
<1>1. timer' \in BOOLEAN
  BY Zenon DEF Exit, TypeOK
<1>2. NoStream \in StreamState /\ NoStream.state # "open"
  BY DEF StreamState, NoStream
<1> QED
  BY <1>1, <1>2 DEF Exit, TypeOK, AtALine

LEMMA PushTyped ==
  ASSUME NEW l \in Line, ring \in Seq(Line), Len(ring) <= BACKFILL_LIMIT, PushHistory(l)
  PROVE  ring' \in Seq(Line) /\ Len(ring') <= BACKFILL_LIMIT
<1> DEFINE all == Append(ring, l)
<1>1. all \in Seq(Line) /\ Len(all) = Len(ring) + 1 /\ Len(ring) \in Nat
  OBVIOUS
<1>2. ring' = IF Len(all) > BACKFILL_LIMIT THEN Tail(all) ELSE all
  BY DEF PushHistory
<1> HIDE DEF all
<1>3. Len(all) > BACKFILL_LIMIT => Tail(all) \in Seq(Line) /\ Len(Tail(all)) = Len(all) - 1
  BY <1>1
<1> QED
  BY <1>1, <1>2, <1>3

LEMMA DeliversTyped ==
  ASSUME TypeOK, AtALine, NEW s \in Stream, Delivers(s)
  PROVE  stream[s].pos \in Line /\ TypeOK' /\ AtALine'
<1>0. stream[s].pos \in 0 .. MaxLines + 1 /\ stream[s].to \in 0 .. MaxLines + 1
  BY StreamFields, Zenon
<1>1. stream[s].pos \in Line
  <2>1. stream[s].pos >= 1 /\ stream[s].pos <= last /\ last \in 0 .. MaxLines
    BY DEF Delivers, TypeOK, AtALine
  <2> QED
    BY <1>0, <2>1 DEF Line
<1>2. ring' \in Seq(Line) /\ Len(ring') <= BACKFILL_LIMIT
  BY <1>1, PushTyped DEF Delivers, TypeOK
<1>3. stream' = [stream EXCEPT ![s] = [state |-> "open", to |-> stream[s].to,
                                       pos |-> stream[s].pos + 1]]
  <2> DEFINE o == stream[s].to
             p == stream[s].pos
  <2>1. stream[s] = [state |-> "open", to |-> o, pos |-> p]
    BY StreamFields DEF Delivers
  <2>2. stream' = [stream EXCEPT ![s] = [stream[s] EXCEPT !.pos = p + 1]]
    BY DEF Delivers
  <2> HIDE DEF o, p
  <2>3. [stream[s] EXCEPT !.pos = p + 1] = [state |-> "open", to |-> o, pos |-> p + 1]
    BY <2>1
  <2>4. stream' = [stream EXCEPT ![s] = [state |-> "open", to |-> o, pos |-> p + 1]]
    BY <2>2, <2>3
  <2> QED
    BY <2>4 DEF o, p
<1>4. /\ [state |-> "open", to |-> stream[s].to, pos |-> stream[s].pos + 1] \in StreamState
      /\ stream[s].pos + 1 >= 1
  <2>1. stream[s].to \in 0 .. MaxLines + 1 /\ stream[s].pos + 1 \in 0 .. MaxLines + 1
    BY <1>0, <1>1 DEF Line
  <2> QED
    BY <1>1, <2>1 DEF StreamState, Line
<1>5. stream' \in [Stream -> StreamState] /\ AtALine'
  BY <1>3, <1>4 DEF TypeOK, AtALine
<1> QED
  BY <1>1, <1>2, <1>5 DEF Delivers, TypeOK, worldVars

LEMMA OpensTyped ==
  ASSUME TypeOK, AtALine, NEW s \in Stream, Opens(s)
  PROVE  TypeOK' /\ AtALine'
<1>1. /\ [state |-> "open", to |-> IF up THEN Following ELSE last, pos |-> Newest] \in StreamState
      /\ Newest >= 1
  BY NewestIsALine, LogBoundsAssumption DEF LogBoundsAssumption, StreamState, TypeOK, Following
<1>2. stream' \in [Stream -> StreamState] /\ AtALine'
  BY <1>1 DEF Opens, TypeOK, AtALine
<1> QED
  BY <1>2 DEF Opens, TypeOK, worldVars

LEMMA BrokerTyped == TypeOK /\ AtALine /\ [Next]_vars => TypeOK' /\ AtALine'
<1> SUFFICES ASSUME TypeOK, AtALine, [Next]_vars PROVE TypeOK' /\ AtALine'
  OBVIOUS
<1>1. CASE Subscribe \/ TimerFires
  <2>1. warm' \in BOOLEAN /\ timer' \in BOOLEAN /\ UNCHANGED <<worldVars, ring>>
    BY <1>1 DEF Subscribe, TimerFires, TypeOK
  <2> QED
    BY <1>1, <2>1, SpawnTyped DEF Subscribe, TimerFires, TypeOK, worldVars
<1>2. ASSUME NEW s \in Stream, OpenFails(s) \/ Ends(s) PROVE TypeOK' /\ AtALine'
  <2>1. Exit(s) /\ UNCHANGED <<up, there, first, last, outages, warm, ring>>
    BY <1>2 DEF OpenFails, Ends, Exit, Glitch, worldVars
  <2>2. glitches' \in 0 .. MaxGlitches
    BY <1>2 DEF OpenFails, Ends, Glitch, worldVars, TypeOK
  <2> QED
    BY <2>1, <2>2, ExitTyped DEF TypeOK
<1>3. CASE Writes \/ Vanishes \/ Starts
  <2>1. up' \in BOOLEAN /\ there' \in BOOLEAN
    BY <1>3, Zenon DEF Writes, Vanishes, Starts, TypeOK
  <2>2. /\ first' \in 1 .. MaxLines + 1 /\ last' \in 0 .. MaxLines
        /\ outages' \in 0 .. MaxOutages
    BY <1>3 DEF Writes, Vanishes, Starts, TypeOK
  <2> QED
    BY <1>3, <2>1, <2>2 DEF Writes, Vanishes, Starts, TypeOK, AtALine, brokerVars
<1>4. CASE Stops
  <2>1. ASSUME NEW s \in Stream
        PROVE  /\ stream'[s] \in StreamState
               /\ stream'[s].state = stream[s].state /\ stream'[s].pos = stream[s].pos
    <3>1. /\ stream[s] \in StreamState
          /\ stream[s] = NoStream \/ stream[s].state \in {"opening", "open"}
          /\ stream[s] = [state |-> stream[s].state, to |-> stream[s].to, pos |-> stream[s].pos]
          /\ stream[s].pos \in 0 .. MaxLines + 1
      BY StreamFields DEF TypeOK
    <3>2. CASE stream[s].to # Following
      BY <1>4, <3>1, <3>2 DEF Stops
    <3>3. CASE stream[s].to = Following
      <4>1. stream'[s] = [state |-> stream[s].state, to |-> last, pos |-> stream[s].pos]
        BY <1>4, <3>1, <3>3 DEF Stops
      <4>2. stream[s] # NoStream
        BY <3>3, LogBoundsAssumption DEF LogBoundsAssumption, Following, NoStream
      <4>3. last \in 0 .. MaxLines + 1
        BY LogBoundsAssumption DEF LogBoundsAssumption, TypeOK
      <4> QED
        BY <3>1, <4>1, <4>2, <4>3 DEF StreamState
    <3> QED
      BY <3>2, <3>3
  <2>2. stream' \in [Stream -> StreamState] /\ AtALine'
    BY <1>4, <2>1 DEF Stops, AtALine
  <2>3. up' \in BOOLEAN
    BY <1>4, Zenon DEF Stops
  <2> QED
    BY <1>4, <2>2, <2>3 DEF Stops, TypeOK
<1>5. CASE UNCHANGED vars
  BY <1>5 DEF vars, worldVars, brokerVars, TypeOK, AtALine
<1> QED
  BY <1>1, <1>2, <1>3, <1>4, <1>5, DeliversTyped, OpensTyped DEF Next

LEMMA ViewTyped == ViewType /\ [ViewNext]_viewVars => ViewType'
<1> SUFFICES ASSUME ViewType, [ViewNext]_viewVars PROVE ViewType'
  OBVIOUS
<1>1. TypeOK' /\ AtALine'
  BY BrokerTyped, ViewIsBroker DEF ViewType, ViewTypeOK
<1>2. History(TAIL) \subseteq Line
  BY DEF ViewType, ViewTypeOK, TypeOK, History
<1>3. shown' \subseteq Line
  <2>1. ASSUME NEW s \in Stream, ViewDelivers(s) PROVE shown' \subseteq Line
    BY <2>1, DeliversTyped DEF ViewDelivers, ViewType, ViewTypeOK
  <2> QED
    BY <1>2, <2>1 DEF ViewNext, Appears, Connects, TogglePause, Clear, Breaks, Hides, Behind,
       ViewType, ViewTypeOK, pageVars, viewVars
<1>4. conn' \in {"closed", "connecting", "open", "retrying"} /\ breaks' \in 0 .. MaxBreaks
  BY DEF ViewNext, Appears, Connects, TogglePause, Clear, Breaks, Hides, Behind, ViewDelivers,
     ViewType, ViewTypeOK, pageVars, viewVars
<1>5. paused' \in BOOLEAN /\ whole' \in BOOLEAN
  BY Zenon DEF ViewNext, Appears, Connects, TogglePause, Clear, Breaks, Hides, Behind,
     ViewDelivers, ViewType, ViewTypeOK, pageVars, viewVars
<1> QED
  BY <1>1, <1>3, <1>4, <1>5 DEF ViewType, ViewTypeOK

(* The broker and the page are well typed: the ring never exceeds the      *)
(* limit, and what arrives and is shown are lines of the log, for any      *)
(* limits (src/src/log-stream-broker.ts:148-221).                          *)
THEOREM ViewTypeCorrect == ViewSpec => []ViewTypeOK
<1>1. ViewInit => ViewType
  <2> SUFFICES ASSUME ViewInit PROVE ViewType
    OBVIOUS
  <2>1. /\ up \in BOOLEAN /\ there \in BOOLEAN /\ warm \in BOOLEAN /\ timer \in BOOLEAN
        /\ paused \in BOOLEAN /\ whole \in BOOLEAN
    BY Zenon DEF ViewInit, Init
  <2>2. first \in 1 .. MaxLines + 1 /\ last \in 0 .. MaxLines
    BY DEF ViewInit, Init
  <2>3. stream \in [Stream -> StreamState] /\ AtALine
    BY DEF ViewInit, Init, StreamState, NoStream, AtALine
  <2> QED
    BY <2>1, <2>2, <2>3 DEF ViewInit, Init, ViewType, ViewTypeOK, TypeOK
<1>2. ViewType => ViewTypeOK
  BY DEF ViewType
<1> QED
  BY <1>1, <1>2, ViewTyped, PTL DEF ViewSpec

-----------------------------------------------------------------------------
(* What a step of each of the three pages is.                              *)

LEMMA WebSteps ==
  ASSUME [WebNext]_webVars
  PROVE  \/ HookStep /\ UNCHANGED <<page, whyVars, healVars, bundleVars>>
         \/ WhyStep /\ UNCHANGED <<page, hookVars, healVars, bundleVars>>
         \/ HealPageStep /\ UNCHANGED <<page, hookVars, whyVars, bundleVars>>
         \/ BundleStep /\ UNCHANGED <<page, hookVars, whyVars, healVars>>
         \/ UNCHANGED webVars
  BY DEF WebNext

-----------------------------------------------------------------------------
(* The hook.                                                               *)

LEMMA RefreshStep == RefreshShowsNew /\ [WebNext]_webVars => RefreshShowsNew'
<1> SUFFICES ASSUME RefreshShowsNew, [WebNext]_webVars PROVE RefreshShowsNew'
  OBVIOUS
<1> USE DEF RefreshShowsNew
<1>1. CASE Refresh
  BY <1>1 DEF Refresh
<1>2. CASE IntervalTicks
  BY <1>2 DEF IntervalTicks
<1>3. ASSUME NEW a \in asked, TickEnds(a) PROVE RefreshShowsNew'
  <2>1. CASE a[1] = effect
    <3>1. PICK ok \in BOOLEAN : Settle(a, ok)
      BY <1>3, <2>1 DEF TickEnds
    <3>2. effect' = effect
      BY <1>3 DEF TickEnds
    <3> QED
      BY <2>1, <3>1, <3>2 DEF Settle
  <2>2. CASE a[1] # effect
    BY <1>3, <2>2 DEF TickEnds
  <2> QED
    BY <2>1, <2>2
<1>4. CASE UNCHANGED hookVars
  BY <1>4 DEF hookVars
<1> QED
  BY <1>1, <1>2, <1>3, <1>4, WebSteps DEF HookStep, webVars

(* After a refresh no answer to an earlier effect ends the waiting, however *)
(* many refreshes and ticks of the interval are under way                  *)
(* (src/webapp/src/useApi.ts:29-62).                                       *)
THEOREM RefreshIsNew == WebSpec => []RefreshShowsNew
<1>1. WebInit => RefreshShowsNew
  BY DEF WebInit, RefreshShowsNew
<1> QED
  BY <1>1, RefreshStep, PTL DEF WebSpec

-----------------------------------------------------------------------------
(* The lookups of the Drift page.  Those under way have different numbers, *)
(* and the last one is for the package clicked last.                       *)

WhyType ==
  /\ whySeq \in Nat
  /\ lookups \subseteq Nat \X Dependency

LastLookup ==
  \A l \in lookups : l[1] <= whySeq /\ (l[1] = whySeq => l[2] = clicked)

WhyInv == WhyType /\ LastLookup /\ LookupIsLatest

LEMMA WhyInit == WebInit => WhyInv
  BY DEF WebInit, WhyInv, WhyType, LastLookup, LookupIsLatest

LEMMA WhyKept == WhyInv /\ [WebNext]_webVars => WhyInv'
<1> SUFFICES ASSUME WhyInv, [WebNext]_webVars PROVE WhyInv'
  OBVIOUS
<1> USE DEF WhyInv, WhyType, LastLookup, LookupIsLatest
<1>1. ASSUME NEW d \in Dependency, LookupWhy(d) PROVE WhyInv'
  <2>1. /\ whySeq' = whySeq + 1 /\ lookups' = lookups \cup {<<whySeq + 1, d>>}
        /\ clicked' = d /\ whyBusy' = d /\ why' = NoDependency
    BY <1>1 DEF LookupWhy
  <2>2. WhyType' /\ LastLookup'
    BY <2>1
  <2>3. LookupIsLatest'
    BY <2>1
  <2> QED
    BY <2>2, <2>3
<1>2. ASSUME NEW l \in lookups, LookupEnds(l) PROVE WhyInv'
  <2>1. lookups' = lookups \ {l} /\ UNCHANGED <<whySeq, clicked, dismissed>>
    BY <1>2 DEF LookupEnds
  <2>2. WhyType' /\ LastLookup'
    BY <2>1
  <2>3. CASE l[1] = whySeq
    <3>1. l[2] = clicked
      BY <2>3
    <3>2. whyBusy' = NoDependency /\ (why' = l[2] \/ (whyErr' = TRUE /\ why' = why))
      BY <1>2, <2>3 DEF LookupEnds
    <3>3. LookupIsLatest'
      BY <2>1, <3>1, <3>2
    <3> QED
      BY <2>2, <3>3
  <2>4. CASE l[1] # whySeq
    <3>1. UNCHANGED <<whyBusy, why, whyErr>>
      BY <1>2, <2>4 DEF LookupEnds
    <3>2. l # <<whySeq, clicked>>
      BY <2>4
    <3>3. LookupIsLatest'
      BY <2>1, <3>1, <3>2
    <3> QED
      BY <2>2, <3>3
  <2> QED
    BY <2>3, <2>4
<1>3. CASE DismissWhy
  <2>1. /\ dismissed' = TRUE /\ why' \in {why, NoDependency}
        /\ UNCHANGED <<whySeq, lookups, whyBusy, clicked>>
    BY <1>3 DEF DismissWhy
  <2> QED
    BY <2>1
<1>4. CASE UNCHANGED whyVars
  BY <1>4 DEF whyVars
<1> QED
  BY <1>1, <1>2, <1>3, <1>4, WebSteps DEF WhyStep, webVars

(* The spinner and the explanation are those of the package clicked last,  *)
(* in whatever order the lookups come back, and nothing but the user takes *)
(* away what the last one has left                                         *)
(* (src/webapp/src/views/Drift.tsx:376-391 and 502-510).                   *)
THEOREM LatestLookupIsShown == WebSpec => []LookupIsLatest
<1>1. WhyInv => LookupIsLatest
  BY DEF WhyInv
<1> QED
  BY <1>1, WhyInit, WhyKept, PTL DEF WebSpec

-----------------------------------------------------------------------------
(* The Bug report page.  Unless an upload and a generation were under way  *)
(* at the same time, there is neither upload nor link while a bundle is    *)
(* generated, and what is uploaded is the bundle shown.                    *)

BundleType == bundle \in Nat /\ bundles \in Nat /\ crossed \in BOOLEAN

BundleInv ==
  /\ BundleType
  /\ generating = "yes" => crossed \/ (link = 0 /\ uploading = 0)
  /\ uploading # 0 => crossed \/ uploading = bundle
  /\ LinkIsOfBundle

LEMMA BundleInit == WebInit => BundleInv
<1> SUFFICES ASSUME WebInit PROVE BundleInv
  OBVIOUS
<1>1. crossed \in BOOLEAN
  BY Zenon DEF WebInit
<1>2. link = 0 /\ uploading = 0 /\ bundle = 0 /\ bundles = 0
  BY DEF WebInit
<1> QED
  BY <1>1, <1>2 DEF BundleInv, BundleType, LinkIsOfBundle

LEMMA BundleKept == BundleInv /\ [WebNext]_webVars => BundleInv'
<1> SUFFICES ASSUME BundleInv, [WebNext]_webVars PROVE BundleInv'
  OBVIOUS
<1> USE DEF BundleInv, BundleType, LinkIsOfBundle
<1>1. CASE Generate
  BY <1>1 DEF Generate
<1>2. CASE Generated
  BY <1>2 DEF Generated
<1>3. CASE Upload
  BY <1>3 DEF Upload
<1>4. CASE Uploaded
  BY <1>4 DEF Uploaded
<1>5. CASE UNCHANGED bundleVars
  BY <1>5 DEF bundleVars
<1> QED
  BY <1>1, <1>2, <1>3, <1>4, <1>5, WebSteps DEF BundleStep, webVars

(* An issue names the bundle that its link leads to, unless the two were   *)
(* made at the same time (src/webapp/src/views/BugReport.tsx:35-97).       *)
THEOREM LinkBelongsToBundle == WebSpec => []LinkIsOfBundle
<1>1. BundleInv => LinkIsOfBundle
  BY DEF BundleInv
<1> QED
  BY <1>1, BundleInit, BundleKept, PTL DEF WebSpec

-----------------------------------------------------------------------------
(* Types of the pages.  What is generated has still its number to get.     *)

HookTyped ==
  /\ effect \in Nat /\ requests \in 0 .. MaxRequests /\ asked \subseteq Nat \X Nat
  /\ data \in 0 .. effect /\ loading \in BOOLEAN /\ error \in BOOLEAN

WhyTyped ==
  /\ whySeq \in 0 .. MaxRequests /\ lookups \subseteq Nat \X Dependency
  /\ {whyBusy, why, clicked} \subseteq Dependency \cup {NoDependency}
  /\ whyErr \in BOOLEAN /\ dismissed \in BOOLEAN

HealPageTyped ==
  /\ healing \in {"no", "post", "poll", "sleep", "pull"}
  /\ healResult \in {"none", "result", "error"} /\ polls \in 0 .. MaxPolls

BundleTyped ==
  /\ generating \in {"no", "yes"} /\ bundles \in 0 .. MaxRequests
  /\ generating = "yes" => bundles < MaxRequests
  /\ {bundle, uploading, link} \subseteq 0 .. bundles
  /\ crossed \in BOOLEAN

WebTyped ==
  /\ page \in {"health", "drift", "bug-report"}
  /\ HookTyped /\ WhyTyped /\ HealPageTyped /\ BundleTyped

LEMMA HookTypes == HookTyped /\ HookStep => HookTyped'
<1> SUFFICES ASSUME HookTyped, HookStep PROVE HookTyped'
  OBVIOUS
<1> USE DEF HookTyped
<1>1. loading' \in BOOLEAN /\ error' \in BOOLEAN
  BY Zenon DEF HookStep, Refresh, IntervalTicks, TickEnds, Settle
<1>2. CASE Refresh \/ IntervalTicks
  BY <1>1, <1>2 DEF Refresh, IntervalTicks, Ask
<1>3. ASSUME NEW a \in asked, TickEnds(a) PROVE HookTyped'
  <2>1. asked' \subseteq asked /\ UNCHANGED <<effect, requests>>
    BY <1>3 DEF TickEnds
  <2>2. data' \in {data, effect}
    BY <1>3 DEF TickEnds, Settle
  <2> QED
    BY <1>1, <2>1, <2>2
<1> QED
  BY <1>2, <1>3 DEF HookStep

LEMMA WhyTypes == WhyTyped /\ WhyStep => WhyTyped'
<1> SUFFICES ASSUME WhyTyped, WhyStep PROVE WhyTyped'
  OBVIOUS
<1> USE DEF WhyTyped
<1>1. whyErr' \in BOOLEAN /\ dismissed' \in BOOLEAN
  BY Zenon DEF WhyStep, LookupWhy, LookupEnds, DismissWhy
<1>2. ASSUME NEW d \in Dependency, LookupWhy(d) PROVE WhyTyped'
  BY <1>1, <1>2 DEF LookupWhy
<1>3. ASSUME NEW l \in lookups, LookupEnds(l) PROVE WhyTyped'
  <2>1. l[2] \in Dependency
    OBVIOUS
  <2>2. /\ lookups' \subseteq lookups /\ UNCHANGED <<whySeq, clicked>>
        /\ whyBusy' \in {whyBusy, NoDependency} /\ why' \in {why, l[2]}
    BY <1>3 DEF LookupEnds
  <2> QED
    BY <1>1, <2>1, <2>2
<1>4. CASE DismissWhy
  <2>1. why' \in {why, NoDependency} /\ UNCHANGED <<whySeq, lookups, whyBusy, clicked>>
    BY <1>4 DEF DismissWhy
  <2> QED
    BY <1>1, <2>1
<1> QED
  BY <1>2, <1>3, <1>4 DEF WhyStep

LEMMA HealPageTypes == HealPageTyped /\ HealPageStep => HealPageTyped'
  BY DEF HealPageTyped, HealPageStep, ConfirmHeal, HealPosted, HealPolled, HopTimesOut,
         HealWakes, Pulled, DismissOutcome, HealFails

LEMMA BundleTypes == BundleTyped /\ BundleStep => BundleTyped'
<1> SUFFICES ASSUME BundleTyped, BundleStep PROVE BundleTyped'
  OBVIOUS
<1> USE DEF BundleTyped
<1>1. crossed' \in BOOLEAN
  BY Zenon DEF BundleStep, Generate, Generated, Upload, Uploaded
<1>2. CASE Generate
  BY <1>1, <1>2 DEF Generate
<1>3. CASE Generated
  BY <1>1, <1>3 DEF Generated
<1>4. CASE Upload
  BY <1>1, <1>4 DEF Upload
<1>5. CASE Uploaded
  BY <1>1, <1>5 DEF Uploaded
<1> QED
  BY <1>2, <1>3, <1>4, <1>5 DEF BundleStep

LEMMA WebTypes == WebTyped /\ [WebNext]_webVars => WebTyped'
<1> SUFFICES ASSUME WebTyped, [WebNext]_webVars PROVE WebTyped'
  OBVIOUS
<1>1. UNCHANGED page
  BY DEF WebNext, webVars
<1>2. HookTyped'
  <2>1. CASE UNCHANGED hookVars
    BY <2>1 DEF hookVars, WebTyped, HookTyped
  <2> QED
    BY <2>1, HookTypes, WebSteps DEF WebTyped, webVars
<1>3. WhyTyped'
  <2>1. CASE UNCHANGED whyVars
    BY <2>1 DEF whyVars, WebTyped, WhyTyped
  <2> QED
    BY <2>1, WhyTypes, WebSteps DEF WebTyped, webVars
<1>4. HealPageTyped'
  <2>1. CASE UNCHANGED healVars
    BY <2>1 DEF healVars, WebTyped, HealPageTyped
  <2> QED
    BY <2>1, HealPageTypes, WebSteps DEF WebTyped, webVars
<1>5. BundleTyped'
  <2>1. CASE UNCHANGED bundleVars
    BY <2>1 DEF bundleVars, WebTyped, BundleTyped
  <2> QED
    BY <2>1, BundleTypes, WebSteps DEF WebTyped, webVars
<1> QED
  BY <1>1, <1>2, <1>3, <1>4, <1>5 DEF WebTyped

(* The pages are well typed: the answer shown is of an effect that was,    *)
(* the bundle, the upload and the link are of bundles that have arrived    *)
(* (src/webapp/src/useApi.ts, views/Drift.tsx, views/BugReport.tsx).       *)
THEOREM WebTypeCorrect == WebSpec => []WebTypeOK
<1>1. WebInit => WebTyped
  <2> SUFFICES ASSUME WebInit PROVE WebTyped
    OBVIOUS
  <2>1. /\ loading \in BOOLEAN /\ error \in BOOLEAN /\ whyErr \in BOOLEAN
        /\ dismissed \in BOOLEAN /\ crossed \in BOOLEAN
    BY Zenon DEF WebInit
  <2>2. HookTyped
    BY <2>1 DEF WebInit, HookTyped
  <2> QED
    BY <2>1, <2>2 DEF WebInit, WebTyped, WhyTyped, HealPageTyped, BundleTyped
<1>2. WebTyped => WebTypeOK
  BY DEF WebTyped, HookTyped, WhyTyped, HealPageTyped, BundleTyped, WebTypeOK
<1> QED
  BY <1>1, <1>2, WebTypes, PTL DEF WebSpec
=============================================================================
