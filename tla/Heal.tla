-------------------------------- MODULE Heal --------------------------------
(***************************************************************************)
(* The data-dir heal: POST /api/drift/heal (src/src/routes/drift.ts) starts *)
(* a job (src/src/drift/heal-jobs.ts) that takes the operation lock, runs  *)
(* `npm update` in the signalk-server container (src/src/drift/heal.ts     *)
(* over src/src/podman/exec.ts) and gives the lock back only when npm is   *)
(* known to have stopped.  npm is a process of the container: it goes on   *)
(* when its stream closes, when the job gives up and when the doctor dies. *)
(*                                                                         *)
(* The module extends OperationLock: a job takes the lock as one of        *)
(* DoctorOp, and the doctor's other operations, the updater, crashes and   *)
(* the operator do what they do there.                                     *)
(***************************************************************************)
EXTENDS OperationLock, Sequences, SequencesExt

CONSTANTS
  Request,      \* POSTs of /api/drift/heal
  MaxHealJobs,  \* bound on the number of jobs ever started
  MAX_JOBS      \* the registry's capacity

HealJob == 1 .. MaxHealJobs

ASSUME HealJobAssumption == MaxHealJobs \in Nat /\ HealJob \subseteq DoctorOp
ASSUME MaxJobsAssumption == MAX_JOBS \in Nat \ {0}

VARIABLES
  jobs,     \* the registry: job ids in insertion order
  status,   \* what the registry says of each job
  stage,    \* where each job's promise chain is
  npm,      \* each job's `npm update` in the container
  result,   \* what the heal runner returned
  still,    \* did it say that npm may still be running?
  rpc,      \* where each request's handler is
  saw,      \* did its readLock() see a lock?
  answer    \* what it answered

healVars == <<jobs, status, stage, npm, result, still, rpc, saw, answer>>
requestVars == <<rpc, saw, answer>>
jobVarsButNpm == <<jobs, status, stage, result, still>>
jobVars == <<jobVarsButNpm, npm>>
vars == <<lockVars, healVars>>

Status == {"absent", "running", "done", "error"}
Before == {"none", "over", "dead"}
JobStage == Before \cup {"acquire", "write", "load", "exec", "stream", "probe",
                         "settle", "linger", "rescan", "release", "releasing"}
Npm == {"none", "pending", "running", "late", "exit0", "exit1"}
Answer == {"none", "started", "reused", "busy", "dropped"}

Active(j) == stage[j] \notin Before

Running == {j \in HealJob : status[j] = "running"}

OtherDoctorOp == DoctorOp \ HealJob

-----------------------------------------------------------------------------
HealInit ==
  /\ Init
  /\ jobs = << >>
  /\ status = [j \in HealJob |-> "absent"]
  /\ stage = [j \in HealJob |-> "none"]
  /\ npm = [j \in HealJob |-> "none"]
  /\ result = [j \in HealJob |-> "none"]
  /\ still = [j \in HealJob |-> FALSE]
  /\ rpc = [r \in Request |-> "idle"]
  /\ saw = [r \in Request |-> FALSE]
  /\ answer = [r \in Request |-> "none"]

-----------------------------------------------------------------------------
(* The registry.                                                           *)

(* startHealJob() adds a running job and prunes the oldest beyond the      *)
(* capacity, whatever their status.                                        *)
Register(j) ==
  LET all == Append(jobs, j)
      kept == IF Len(all) > MAX_JOBS THEN Tail(all) ELSE all
  IN /\ jobs' = kept
     /\ status' = [k \in HealJob |->
                     IF k \notin ToSet(kept) THEN "absent"
                     ELSE IF k = j THEN "running" ELSE status[k]]
     /\ stage' = [stage EXCEPT ![j] = "acquire"]

(* finalize(): a job that has been pruned is left alone.                   *)
Finalize(j, ok) ==
  /\ status' = IF j \in ToSet(jobs)
               THEN [status EXCEPT ![j] = IF ok THEN "done" ELSE "error"]
               ELSE status
  /\ stage' = [stage EXCEPT ![j] = "over"]
  /\ UNCHANGED jobs

To(j, s) == stage' = [stage EXCEPT ![j] = s] /\ UNCHANGED <<jobs, status>>

-----------------------------------------------------------------------------
(* The handler of POST /api/drift/heal.                                    *)

Answered(r, a) ==
  /\ rpc' = [rpc EXCEPT ![r] = "answered"]
  /\ answer' = [answer EXCEPT ![r] = a]
  /\ UNCHANGED saw

(* A running job is reused before anything else; otherwise the handler     *)
(* waits for readLock().                                                   *)
Post(r) ==
  /\ rpc[r] = "idle"
  /\ IF Running # {}
     THEN Answered(r, "reused")
     ELSE rpc' = [rpc EXCEPT ![r] = "reading"] /\ UNCHANGED <<saw, answer>>
  /\ UNCHANGED <<lockVars, jobVars>>

(* readLock() answers null for a file it cannot read or parse.             *)
ReadLock(r) ==
  /\ rpc[r] = "reading"
  /\ \E see \in {FALSE, Exists /\ lock.written} : saw' = [saw EXCEPT ![r] = see]
  /\ rpc' = [rpc EXCEPT ![r] = "read"]
  /\ UNCHANGED <<lockVars, jobVars, answer>>

(* A fault: without the second look for a running job.                     *)
RefuseUnchecked(r) ==
  /\ rpc[r] = "read" /\ saw[r]
  /\ Answered(r, "busy")
  /\ UNCHANGED <<lockVars, jobVars>>

(* A lock was there: it may be that of a heal that started meanwhile.      *)
Refuse(r) ==
  /\ rpc[r] = "read" /\ saw[r]
  /\ Answered(r, IF Running # {} THEN "reused" ELSE "busy")
  /\ UNCHANGED <<lockVars, jobVars>>

(* A fault: startHealJob() without its look for a running job.             *)
StartUnchecked(r) ==
  /\ rpc[r] = "read" /\ ~saw[r]
  /\ \E j \in HealJob :
       /\ stage[j] = "none" /\ \A k \in HealJob : k < j => stage[k] # "none"
       /\ Register(j)
  /\ Answered(r, "started")
  /\ UNCHANGED <<lockVars, npm, result, still>>

(* No lock was seen: startHealJob() reuses a running job or starts one.    *)
Start(r) ==
  /\ rpc[r] = "read" /\ ~saw[r]
  /\ \/ /\ Running # {}
        /\ Answered(r, "reused")
        /\ UNCHANGED <<jobs, status, stage>>
     \/ /\ Running = {}
        /\ \E j \in HealJob :
             /\ stage[j] = "none" /\ \A k \in HealJob : k < j => stage[k] # "none"
             /\ Register(j)
        /\ Answered(r, "started")
  /\ UNCHANGED <<lockVars, npm, result, still>>

-----------------------------------------------------------------------------
(* The job takes the lock.                                                 *)

JobCreate(j) ==
  /\ stage[j] = "acquire"
  /\ Create(j)
  /\ To(j, "write")
  /\ UNCHANGED <<npm, result, still, requestVars>>

(* A fault: a lock that is there is taken to be stale and replaced.        *)
JobBusyTakesOver(j) ==
  /\ stage[j] = "acquire"
  /\ Exists
  /\ CreateWithoutExclusion(j)
  /\ To(j, "write")
  /\ UNCHANGED <<npm, result, still, requestVars>>

(* The lock is held (EEXIST): the job ends with an error result.           *)
JobBusy(j) ==
  /\ stage[j] = "acquire"
  /\ Exists
  /\ Finalize(j, FALSE)
  /\ UNCHANGED <<lockVars, npm, result, still, requestVars>>

JobWrite(j) ==
  /\ stage[j] = "write"
  /\ Write(j)
  /\ To(j, "load")
  /\ UNCHANGED <<npm, result, still, requestVars>>

JobWriteFails(j) ==
  /\ stage[j] = "write"
  /\ WriteFails(j)
  /\ Finalize(j, FALSE)
  /\ UNCHANGED <<npm, result, still, requestVars>>

-----------------------------------------------------------------------------
(* runDataDirHeal() and the exec it runs.                                  *)

OnlyJob == UNCHANGED <<lockVars, requestVars>>

Returns(j, res, on) ==
  /\ result' = [result EXCEPT ![j] = res]
  /\ still' = [still EXCEPT ![j] = on]

(* No report, or nothing in it to heal: npm does not run.                  *)
LoadReport(j) ==
  /\ stage[j] = "load"
  /\ \/ \E res \in {"failed", "ok"} : Returns(j, res, FALSE) /\ To(j, "release")
     \/ To(j, "exec") /\ UNCHANGED <<result, still>>
  /\ UNCHANGED npm
  /\ OnlyJob

(* No runtime socket: npm never started and nothing is rescanned.          *)
ExecUnreachable(j) ==
  /\ stage[j] = "exec"
  /\ Returns(j, "failed", FALSE)
  /\ To(j, "release")
  /\ UNCHANGED npm
  /\ OnlyJob

ExecCreateFails(j) ==
  /\ stage[j] = "exec"
  /\ Returns(j, "failed", FALSE)
  /\ To(j, "rescan")
  /\ UNCHANGED npm
  /\ OnlyJob

ExecStart(j) ==
  /\ stage[j] = "exec"
  /\ npm' = [npm EXCEPT ![j] = "running"]
  /\ To(j, "stream")
  /\ UNCHANGED <<result, still>>
  /\ OnlyJob

(* start() fails on the way: the daemon has begun the process, never will, *)
(* or is still going to.                                                   *)
ExecStartFails(j) ==
  /\ stage[j] = "exec"
  /\ \E s \in {"none", "running", "pending"} : npm' = [npm EXCEPT ![j] = s]
  /\ To(j, "probe")
  /\ UNCHANGED <<result, still>>
  /\ OnlyJob

(* The attached stream ends with the process.                              *)
StreamEnds(j) ==
  /\ stage[j] = "stream"
  /\ npm[j] # "running"
  /\ To(j, "settle")
  /\ UNCHANGED <<npm, result, still>>
  /\ OnlyJob

(* The connection is closed under the stream, or fails, while npm runs on. *)
StreamBreaks(j) ==
  /\ stage[j] = "stream"
  /\ \E s \in {"settle", "probe"} : To(j, s)
  /\ UNCHANGED <<npm, result, still>>
  /\ OnlyJob

(* A fault: no timer on the stream.                                        *)
StreamNeverTimesOut(j) == FALSE /\ UNCHANGED vars

StreamTimesOut(j) ==
  /\ stage[j] = "stream"
  /\ To(j, "linger")
  /\ UNCHANGED <<npm, result, still>>
  /\ OnlyJob

(* A fault: after a timeout the process is taken to be dead, because its   *)
(* stream has been destroyed.                                              *)
WaitForExitAssumingStopped(j) ==
  /\ stage[j] \in {"probe", "settle", "linger"}
  /\ \/ /\ npm[j] \in {"exit0", "exit1"} /\ stage[j] # "probe"
        /\ \E code \in {npm[j], "exit1"} :
             Returns(j, IF code = "exit0" THEN "ok" ELSE "failed", FALSE)
     \/ Returns(j, "failed", stage[j] # "linger")
  /\ To(j, "rescan")
  /\ UNCHANGED npm
  /\ OnlyJob

(* waitForExit(): the exec record says that npm does not run; or it is     *)
(* still running when the wait is over; or it cannot be read.  The exit    *)
(* code counts, late or not, unless the start or the stream had failed;    *)
(* a record that has lost it counts as 1.                                  *)
WaitForExit(j) ==
  /\ stage[j] \in {"probe", "settle", "linger"}
  /\ \/ /\ npm[j] # "running"
        /\ IF stage[j] = "probe"
           THEN Returns(j, "failed", FALSE)
           ELSE \E code \in {npm[j], "exit1"} :
                  Returns(j, IF code = "exit0" THEN "ok" ELSE "failed", FALSE)
     \/ npm[j] = "running" /\ Returns(j, "failed", TRUE)
     \/ Returns(j, "failed", TRUE)
  /\ To(j, "rescan")
  /\ UNCHANGED npm
  /\ OnlyJob

(* Drift is rescanned and the outcomes are computed (module DriftHeal);    *)
(* neither can fail the heal.                                              *)
Rescan(j) ==
  /\ stage[j] = "rescan"
  /\ To(j, "release")
  /\ UNCHANGED <<npm, result, still>>
  /\ OnlyJob

-----------------------------------------------------------------------------
(* The job's finally, and the registry's last word.                        *)

JobReleases(j) ==
  /\ stage[j] = "release" /\ ~still[j]
  /\ Finish(j)
  /\ To(j, "releasing")
  /\ UNCHANGED <<npm, result, still, requestVars>>

JobRetains(j) ==
  /\ stage[j] = "release" /\ still[j]
  /\ Retain(j, npm[j] = "running")
  /\ Finalize(j, FALSE)
  /\ UNCHANGED <<npm, result, still, requestVars>>

JobReadsOwn(j) ==
  /\ stage[j] = "releasing"
  /\ ReadOwn(j)
  /\ UNCHANGED healVars

JobReleased(j) ==
  /\ stage[j] = "releasing"
  /\ ReadOther(j) \/ Unlink(j) \/ UnlinkFails(j)
  /\ Finalize(j, result[j] = "ok")
  /\ UNCHANGED <<npm, result, still, requestVars>>

-----------------------------------------------------------------------------
(* The container, the rest of the doctor, the updater, crashes, operator.  *)

NpmExits(j) ==
  /\ npm[j] \in {"running", "late"}
  /\ \E code \in {"exit0", "exit1"} : npm' = [npm EXCEPT ![j] = code]
  /\ IF mine[j] \in lingering THEN Settle(mine[j]) ELSE UNCHANGED lockVars
  /\ UNCHANGED <<jobVarsButNpm, requestVars>>

(* The daemon begins the process after start() has failed.  If the job no  *)
(* longer asks, npm is "late": it was told that nothing runs, it could not *)
(* read the record and keeps its lock, or the doctor has died meanwhile.   *)
NpmBeginsLate(j) ==
  /\ npm[j] = "pending"
  /\ npm' = [npm EXCEPT ![j] = IF stage[j] = "probe" THEN "running" ELSE "late"]
  /\ UNCHANGED <<lockVars, jobVarsButNpm, requestVars>>

(* The doctor dies: registry, handlers and chains are gone, npm is not.    *)
DoctorCrash ==
  /\ \/ /\ Crash(DoctorOp)
        /\ lingering' = lingering \cup
             {mine[j] : j \in {k \in HealJob : pc[k] = "working" /\ npm[k] = "running"}}
     \/ (\A p \in DoctorOp : pc[p] = "idle") /\ UNCHANGED lockVars
  /\ jobs' = << >>
  /\ status' = [j \in HealJob |-> "absent"]
  /\ stage' = [j \in HealJob |-> IF Active(j) THEN "dead" ELSE stage[j]]
  /\ rpc' = [r \in Request |-> IF rpc[r] = "idle" THEN "idle" ELSE "answered"]
  /\ answer' = [r \in Request |-> IF rpc[r] \in {"reading", "read"} THEN "dropped"
                                  ELSE answer[r]]
  /\ UNCHANGED <<npm, result, still, saw>>

(* Part of the bound: other operations leave the jobs their acquisitions.  *)
RoomForJobs == next' # next => next + MaxHealJobs <= MaxAcquisitions

Elsewhere ==
  /\ \/ (\E p \in OtherDoctorOp : WithMutexStep(p)) /\ RoomForJobs
     \/ (\E p \in UpdaterOp : UpdaterStep(p)) /\ RoomForJobs
     \/ Crash(UpdaterOp)
     \/ \E i \in lingering \ {mine[j] : j \in HealJob} : Settle(i)
     \/ ForceClear
  /\ UNCHANGED healVars

JobNext(j) ==
  \/ JobCreate(j) \/ JobBusy(j) \/ JobWrite(j) \/ JobWriteFails(j)
  \/ LoadReport(j) \/ ExecUnreachable(j) \/ ExecCreateFails(j)
  \/ ExecStart(j) \/ ExecStartFails(j)
  \/ StreamEnds(j) \/ StreamBreaks(j) \/ StreamTimesOut(j) \/ WaitForExit(j)
  \/ Rescan(j)
  \/ JobReleases(j) \/ JobRetains(j) \/ JobReadsOwn(j) \/ JobReleased(j)

HealNext ==
  \/ \E r \in Request : Post(r) \/ ReadLock(r) \/ Refuse(r) \/ Start(r)
  \/ \E j \in HealJob : JobNext(j) \/ NpmExits(j) \/ NpmBeginsLate(j)
  \/ DoctorCrash
  \/ Elsewhere

HealSpec == HealInit /\ [][HealNext]_vars

(* The doctor's own steps happen, and the runtime API answers every call.  *)
(* npm need not end, the stream need not break, and nobody has to crash.   *)
HealFairness ==
  /\ \A r \in Request : WF_vars(ReadLock(r)) /\ WF_vars(Refuse(r) \/ Start(r))
  /\ \A j \in HealJob :
       /\ WF_vars(JobCreate(j) \/ JobBusy(j))
       /\ WF_vars(JobWrite(j))
       /\ WF_vars(LoadReport(j) \/ ExecUnreachable(j) \/ ExecStart(j))
       /\ WF_vars(StreamEnds(j) \/ StreamTimesOut(j))
       /\ WF_vars(WaitForExit(j))
       /\ WF_vars(Rescan(j))
       /\ WF_vars(JobReleases(j) \/ JobRetains(j))
       /\ WF_vars(JobReadsOwn(j) \/ JobReleased(j))

HealFairSpec == HealSpec /\ HealFairness

-----------------------------------------------------------------------------
HealTypeOK ==
  /\ TypeOK
  /\ jobs \in Seq(HealJob) /\ Len(jobs) <= MAX_JOBS
  /\ status \in [HealJob -> Status]
  /\ stage \in [HealJob -> JobStage]
  /\ npm \in [HealJob -> Npm]
  /\ result \in [HealJob -> {"none", "ok", "failed"}]
  /\ still \in [HealJob -> BOOLEAN]
  /\ rpc \in [Request -> {"idle", "reading", "read", "answered"}]
  /\ saw \in [Request -> BOOLEAN]
  /\ answer \in [Request -> Answer]

(* While an `npm update` runs in the container, the lock on disk is the    *)
(* one its job took, whatever became of the job, its stream or the doctor. *)
(* So neither a second heal nor the updater changes the tree under it.     *)
(* It holds when the operator clears only locks that nobody uses, and does *)
(* not cover an npm that begins so late that its job no longer asks for it *)
(* (src/src/podman/exec.ts:124-136).                                       *)
NpmUnderLock ==
  \A j \in HealJob : npm[j] = "running" => lock.id = mine[j]

(* A heal uses the lock as an operation of module OperationLock does.      *)
HealUsesLock == Spec

(* The registry shows a job as running exactly while its chain is alive:   *)
(* the capacity never evicts the running job, and none stays a corpse.     *)
RunningJobIsRegistered ==
  \A j \in HealJob : Active(j) <=> status[j] = "running"

(* No POST is refused (409) while a heal runs: it would bounce off the     *)
(* lock of the very job it should be given.                                *)
NoRefusalOffOwnHeal ==
  [][\A r \in Request :
       answer'[r] = "busy" /\ answer[r] # "busy" => Running = {}]_vars

(* A job ends, even if npm never does.                                     *)
JobEnds == \A j \in HealJob : Active(j) ~> ~Active(j)
=============================================================================
