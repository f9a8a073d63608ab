----------------------------- MODULE HealProofs -----------------------------
(***************************************************************************)
(* Theorems about Heal, for every number of requests and jobs, every       *)
(* capacity of the registry and every other operation on the lock.         *)
(***************************************************************************)
EXTENDS Heal, OperationLockProofs

USE HealJobAssumption, MaxJobsAssumption

-----------------------------------------------------------------------------
(* The heal jobs are operations of module OperationLock, and every step of *)
(* the heal is a step of the lock or leaves it alone.                      *)

LEMMA JobIsDoctorOp == \A j \in HealJob : j \in DoctorOp /\ j \in Op
  BY DEF Op

LEMMA HealLockStep == [HealNext]_vars => [LockNext]_lockVars
<1> SUFFICES ASSUME [HealNext]_vars PROVE [LockNext]_lockVars
  OBVIOUS
<1> DEFINE Goal == LockNext \/ UNCHANGED lockVars
<1>1. ASSUME NEW p \in DoctorOp, DoctorStep(p) PROVE Goal
  BY <1>1 DEF LockNext
<1>2. ASSUME NEW r \in Request, Post(r) \/ ReadLock(r) \/ Refuse(r) \/ Start(r)
      PROVE  Goal
  BY <1>2 DEF Post, ReadLock, Refuse, Start
<1>3. ASSUME NEW j \in HealJob, JobNext(j) PROVE Goal
  <2>1. CASE JobCreate(j) \/ JobWrite(j) \/ JobWriteFails(j) \/ JobReleases(j)
             \/ JobReadsOwn(j) \/ JobReleased(j)
    <3>1. WithMutexStep(j)
      BY <2>1 DEF JobCreate, JobWrite, JobWriteFails, JobReleases, JobReadsOwn,
                  JobReleased, WithMutexStep
    <3> QED
      BY <3>1, <1>1, JobIsDoctorOp DEF DoctorStep
  <2>2. CASE JobRetains(j)
    <3>1. Retain(j, npm[j] = "running") /\ (npm[j] = "running") \in BOOLEAN
      BY <2>2 DEF JobRetains
    <3> QED
      BY <3>1, <1>1, JobIsDoctorOp DEF DoctorStep
  <2>3. CASE JobBusy(j)
    BY <2>3 DEF JobBusy
  <2>4. CASE LoadReport(j) \/ ExecUnreachable(j) \/ ExecCreateFails(j)
             \/ ExecStart(j) \/ ExecStartFails(j) \/ StreamEnds(j)
             \/ StreamBreaks(j) \/ StreamTimesOut(j) \/ WaitForExit(j) \/ Rescan(j)
    BY <2>4 DEF LoadReport, ExecUnreachable, ExecCreateFails, ExecStart,
                ExecStartFails, StreamEnds, StreamBreaks, StreamTimesOut,
                WaitForExit, Rescan, OnlyJob
  <2> QED
    BY <1>3, <2>1, <2>2, <2>3, <2>4 DEF JobNext
<1>4. ASSUME NEW j \in HealJob, NpmExits(j) \/ NpmBeginsLate(j) PROVE Goal
  BY <1>4 DEF NpmExits, NpmBeginsLate, LockNext
<1>5. CASE DoctorCrash
  BY <1>5 DEF DoctorCrash, LockNext
<1>6. CASE Elsewhere
  <2>1. ASSUME NEW p \in OtherDoctorOp, WithMutexStep(p) PROVE Goal
    BY <2>1, <1>1 DEF DoctorStep, OtherDoctorOp
  <2> QED
    BY <1>6, <2>1 DEF Elsewhere, LockNext
<1>7. CASE UNCHANGED vars
  BY <1>7 DEF vars
<1> QED
  BY <1>2, <1>3, <1>4, <1>5, <1>6, <1>7 DEF HealNext

(* A heal uses the operation lock as the doctor's operations do: what is   *)
(* proved of the lock holds with heals in the system.                      *)
THEOREM HealImplementsLock == HealSpec => HealUsesLock
<1>1. HealInit => Init
  BY DEF HealInit
<1> QED
  BY <1>1, HealLockStep, PTL DEF HealSpec, HealUsesLock, Spec

-----------------------------------------------------------------------------
(* The registry and the shape of the state.                                *)

LEMMA Kept ==
  ASSUME NEW s \in Seq(HealJob), Len(s) <= MAX_JOBS, NEW j \in HealJob,
         NEW kept, kept = IF Len(Append(s, j)) > MAX_JOBS
                          THEN Tail(Append(s, j)) ELSE Append(s, j)
  PROVE  /\ kept \in Seq(HealJob) /\ Len(kept) <= MAX_JOBS
         /\ j \in ToSet(kept)
<1> DEFINE all == Append(s, j)
<1>1. all \in Seq(HealJob) /\ Len(all) = Len(s) + 1 /\ all[Len(all)] = j
  OBVIOUS
<1>2. CASE Len(all) > MAX_JOBS
  <2>1. Len(all) >= 2
    BY <1>1, <1>2
  <2>2. Tail(all) \in Seq(HealJob) /\ Len(Tail(all)) = Len(all) - 1
    BY <1>1, <2>1
  <2>3. Tail(all)[Len(all) - 1] = j
    BY <1>1, <2>1
  <2>4. Len(all) - 1 \in DOMAIN Tail(all)
    BY <1>1, <2>1, <2>2
  <2> QED
    BY <1>1, <1>2, <2>2, <2>3, <2>4 DEF ToSet
<1>3. CASE ~(Len(all) > MAX_JOBS)
  <2>1. Len(all) \in DOMAIN all
    BY <1>1
  <2> QED
    BY <1>1, <1>3, <2>1 DEF ToSet
<1> QED
  BY <1>2, <1>3

LEMMA RegisterType ==
  ASSUME HealTypeOK, NEW j \in HealJob, Register(j)
  PROVE  /\ jobs' \in Seq(HealJob) /\ Len(jobs') <= MAX_JOBS
         /\ status' \in [HealJob -> Status]
         /\ stage' = [stage EXCEPT ![j] = "acquire"]
<1>1. jobs \in Seq(HealJob) /\ Len(jobs) <= MAX_JOBS /\ status \in [HealJob -> Status]
  BY DEF HealTypeOK
<1>2. jobs' \in Seq(HealJob) /\ Len(jobs') <= MAX_JOBS
  BY <1>1, Kept DEF Register
<1>3. status' \in [HealJob -> Status]
  BY <1>1 DEF Register, Status
<1> QED
  BY <1>2, <1>3 DEF Register

LEMMA FinalizeType ==
  ASSUME HealTypeOK, NEW j \in HealJob, NEW ok \in BOOLEAN, Finalize(j, ok)
  PROVE  /\ jobs' = jobs
         /\ status' \in [HealJob -> Status]
         /\ stage' \in [HealJob -> JobStage]
  BY DEF HealTypeOK, Finalize, Status, JobStage, Before

LEMMA HealTypeInit == HealInit => HealTypeOK
<1> SUFFICES ASSUME HealInit PROVE HealTypeOK
  OBVIOUS
<1>1. TypeOK
  BY TypeInit DEF HealInit
<1>2. jobs \in Seq(HealJob) /\ Len(jobs) <= MAX_JOBS
  BY DEF HealInit
<1> QED
  BY <1>1, <1>2 DEF HealInit, HealTypeOK, Status, JobStage, Before, Npm, Answer

LEMMA HealTypeStep == HealTypeOK /\ [HealNext]_vars => HealTypeOK'
<1> SUFFICES ASSUME HealTypeOK, [HealNext]_vars PROVE HealTypeOK'
  OBVIOUS
<1>0. TypeOK'
  BY HealLockStep, TypeStep DEF HealTypeOK
<1> USE <1>0 DEF HealTypeOK
<1>1. ASSUME NEW r \in Request, Post(r) \/ ReadLock(r) \/ Refuse(r) PROVE HealTypeOK'
  BY <1>1 DEF Post, ReadLock, Refuse, Answered, Answer, jobVars, jobVarsButNpm
<1>2. ASSUME NEW r \in Request, Start(r) PROVE HealTypeOK'
  <2> DEFINE Typed == /\ jobs' \in Seq(HealJob) /\ Len(jobs') <= MAX_JOBS
                      /\ status' \in [HealJob -> Status]
                      /\ stage' \in [HealJob -> JobStage]
  <2>1. Typed
    <3>1. CASE UNCHANGED <<jobs, status, stage>>
      BY <3>1
    <3>2. ASSUME NEW j \in HealJob, Register(j) PROVE Typed
      BY <3>2, RegisterType DEF JobStage
    <3>3. UNCHANGED <<jobs, status, stage>> \/ \E j \in HealJob : Register(j)
      BY <1>2 DEF Start
    <3> QED
      BY <3>1, <3>2, <3>3
  <2>2. rpc' \in [Request -> {"idle", "reading", "read", "answered"}]
        /\ saw' \in [Request -> BOOLEAN] /\ answer' \in [Request -> Answer]
    BY <1>2 DEF Start, Answered, Answer
  <2> QED
    BY <1>2, <2>1, <2>2 DEF Start
<1>3. ASSUME NEW j \in HealJob, JobNext(j) PROVE HealTypeOK'
  <2>1. CASE JobBusy(j) \/ JobWriteFails(j) \/ JobRetains(j) \/ JobReleased(j)
    <3>1. PICK ok \in BOOLEAN : Finalize(j, ok)
      BY <2>1 DEF JobBusy, JobWriteFails, JobRetains, JobReleased
    <3>2. jobs' = jobs /\ status' \in [HealJob -> Status]
          /\ stage' \in [HealJob -> JobStage]
      BY <3>1, FinalizeType
    <3> QED
      BY <2>1, <3>2 DEF JobBusy, JobWriteFails, JobRetains, JobReleased, requestVars
  <2>2. CASE JobReadsOwn(j)
    BY <2>2 DEF JobReadsOwn, healVars
  <2>3. CASE JobCreate(j) \/ JobWrite(j) \/ JobReleases(j)
    BY <2>3 DEF JobCreate, JobWrite, JobReleases, To, JobStage, requestVars
  <2>4. CASE LoadReport(j) \/ ExecUnreachable(j) \/ ExecCreateFails(j)
             \/ WaitForExit(j) \/ Rescan(j)
    <3>1. stage' \in [HealJob -> JobStage] /\ UNCHANGED <<jobs, status, npm, requestVars>>
      BY <2>4 DEF LoadReport, ExecUnreachable, ExecCreateFails, WaitForExit, Rescan,
                  To, JobStage, OnlyJob
    <3>2. result' \in [HealJob -> {"none", "ok", "failed"}]
          /\ still' \in [HealJob -> BOOLEAN]
      BY <2>4 DEF LoadReport, ExecUnreachable, ExecCreateFails, WaitForExit, Rescan,
                  Returns
    <3> QED
      BY <3>1, <3>2 DEF requestVars
  <2>5. CASE ExecStart(j) \/ ExecStartFails(j) \/ StreamEnds(j) \/ StreamBreaks(j)
             \/ StreamTimesOut(j)
    BY <2>5 DEF ExecStart, ExecStartFails, StreamEnds, StreamBreaks, StreamTimesOut,
                To, JobStage, OnlyJob, requestVars, Npm
  <2> QED
    BY <1>3, <2>1, <2>2, <2>3, <2>4, <2>5 DEF JobNext
<1>4. ASSUME NEW j \in HealJob, NpmExits(j) \/ NpmBeginsLate(j) PROVE HealTypeOK'
  BY <1>4 DEF NpmExits, NpmBeginsLate, jobVarsButNpm, requestVars, Npm
<1>5. CASE DoctorCrash
  <2>1. jobs' \in Seq(HealJob) /\ Len(jobs') <= MAX_JOBS
    BY <1>5 DEF DoctorCrash
  <2>2. rpc' \in [Request -> {"idle", "reading", "read", "answered"}]
        /\ answer' \in [Request -> Answer]
    BY <1>5 DEF DoctorCrash, Answer
  <2>3. status' \in [HealJob -> Status] /\ stage' \in [HealJob -> JobStage]
    BY <1>5 DEF DoctorCrash, Status, JobStage, Before
  <2> QED
    BY <1>5, <2>1, <2>2, <2>3 DEF DoctorCrash
<1>6. CASE Elsewhere
  BY <1>6 DEF Elsewhere, healVars
<1>7. CASE UNCHANGED vars
  BY <1>7 DEF vars, healVars
<1> QED
  BY <1>1, <1>2, <1>3, <1>4, <1>5, <1>6, <1>7 DEF HealNext

(* Every reachable state of a heal is well typed, and the registry never   *)
(* exceeds its capacity.                                                   *)
THEOREM HealTypeCorrect == HealSpec => []HealTypeOK
  BY HealTypeInit, HealTypeStep, PTL DEF HealSpec

-----------------------------------------------------------------------------
(* The registry and the promise chains.                                    *)

RegistryInv ==
  /\ HealTypeOK
  /\ RunningJobIsRegistered
  /\ \A k \in HealJob : status[k] = "running" => k \in ToSet(jobs)

LEMMA RegistryInit == HealInit => RegistryInv
  BY HealTypeInit
  DEF HealInit, RegistryInv, RunningJobIsRegistered, Active, Before

LEMMA RegistryStep == RegistryInv /\ [HealNext]_vars => RegistryInv'
<1> SUFFICES ASSUME RegistryInv, [HealNext]_vars PROVE RegistryInv'
  OBVIOUS
<1>0. HealTypeOK /\ HealTypeOK'
  BY HealTypeStep DEF RegistryInv
<1> DEFINE Goal == /\ RunningJobIsRegistered'
                   /\ \A k \in HealJob : status'[k] = "running" => k \in ToSet(jobs')
<1> USE DEF RegistryInv, RunningJobIsRegistered, Active, Before
<1>1. ASSUME UNCHANGED <<jobs, status, stage>> PROVE Goal
  BY <1>1
<1>2. ASSUME NEW j \in HealJob, NEW s \in JobStage \ Before, Active(j), To(j, s)
      PROVE  Goal
  BY <1>0, <1>2 DEF To, HealTypeOK
<1>3. ASSUME NEW j \in HealJob, NEW ok \in BOOLEAN, Active(j), Finalize(j, ok)
      PROVE  Goal
  BY <1>0, <1>3 DEF Finalize, HealTypeOK
<1>4. ASSUME NEW r \in Request, Start(r) PROVE Goal
  <2>1. ASSUME NEW j \in HealJob, Register(j), Running = {} PROVE Goal
    <3>1. jobs \in Seq(HealJob) /\ Len(jobs) <= MAX_JOBS
      BY <1>0 DEF HealTypeOK
    <3>2. j \in ToSet(jobs')
      BY <2>1, <3>1, Kept DEF Register
    <3>3. \A k \in HealJob : status'[k] = "running" <=> k = j
      BY <2>1, <3>2 DEF Register, Running
    <3>4. \A k \in HealJob : stage'[k] \notin Before <=> k = j
      BY <1>0, <2>1 DEF Register, Running, HealTypeOK
    <3> QED
      BY <3>2, <3>3, <3>4
  <2>2. UNCHANGED <<jobs, status, stage>>
        \/ \E j \in HealJob : Register(j) /\ Running = {}
    BY <1>4 DEF Start
  <2> QED
    BY <1>1, <2>1, <2>2
<1> HIDE DEF Goal
<1>5. ASSUME NEW r \in Request, Post(r) \/ ReadLock(r) \/ Refuse(r) PROVE Goal
  BY <1>5, <1>1 DEF Post, ReadLock, Refuse, jobVars, jobVarsButNpm
<1>6. ASSUME NEW j \in HealJob, JobNext(j) PROVE Goal
  <2>1. CASE JobBusy(j) \/ JobWriteFails(j) \/ JobRetains(j) \/ JobReleased(j)
    <3>1. \E ok \in BOOLEAN : Finalize(j, ok)
      BY <2>1 DEF JobBusy, JobWriteFails, JobRetains, JobReleased
    <3>2. Active(j)
      BY <2>1 DEF JobBusy, JobWriteFails, JobRetains, JobReleased
    <3> QED
      BY <3>1, <3>2, <1>3
  <2>2. CASE JobReadsOwn(j)
    BY <2>2, <1>1 DEF JobReadsOwn, healVars
  <2>3. CASE ~(JobBusy(j) \/ JobWriteFails(j) \/ JobRetains(j) \/ JobReleased(j)
               \/ JobReadsOwn(j))
    <3>1. Active(j)
      BY <1>6, <2>3 DEF JobNext, JobCreate, JobWrite, LoadReport, ExecUnreachable,
         ExecCreateFails, ExecStart, ExecStartFails, StreamEnds, StreamBreaks,
         StreamTimesOut, WaitForExit, Rescan, JobReleases
    <3>2. \E s \in JobStage \ Before : To(j, s)
      BY <1>6, <2>3 DEF JobNext, JobCreate, JobWrite, LoadReport, ExecUnreachable,
         ExecCreateFails, ExecStart, ExecStartFails, StreamEnds, StreamBreaks,
         StreamTimesOut, WaitForExit, Rescan, JobReleases, JobStage
    <3> QED
      BY <3>1, <3>2, <1>2
  <2> QED
    BY <2>1, <2>2, <2>3
<1>7. ASSUME NEW j \in HealJob, NpmExits(j) \/ NpmBeginsLate(j) PROVE Goal
  BY <1>7, <1>1 DEF NpmExits, NpmBeginsLate, jobVarsButNpm
<1>8. ASSUME DoctorCrash PROVE Goal
  BY <1>8, <1>0 DEF DoctorCrash, HealTypeOK, Goal
<1>9. ASSUME Elsewhere PROVE Goal
  BY <1>9, <1>1 DEF Elsewhere, healVars
<1>10. ASSUME UNCHANGED vars PROVE Goal
  BY <1>10, <1>1 DEF vars, healVars
<1>11. Goal
  BY <1>4, <1>5, <1>6, <1>7, <1>8, <1>9, <1>10 DEF HealNext
<1> QED
  BY <1>0, <1>11 DEF Goal

(* The registry shows a job as running exactly while its chain is alive,   *)
(* however small its capacity and however many jobs there have been.       *)
THEOREM RegistryIsTrue == HealSpec => []RunningJobIsRegistered
<1>1. RegistryInv => RunningJobIsRegistered
  BY DEF RegistryInv
<1> QED
  BY <1>1, RegistryInit, RegistryStep, PTL DEF HealSpec

(* A handler answers busy only in Refuse, whose look at the registry comes *)
(* after the wait for readLock().                                          *)
LEMMA OnlyRefuseSaysBusy ==
  ASSUME HealTypeOK, [HealNext]_vars,
         NEW r \in Request, answer'[r] = "busy", answer[r] # "busy"
  PROVE  Running = {}
<1> USE DEF HealTypeOK
<1>1. ~UNCHANGED answer
  OBVIOUS
<1>2. ASSUME NEW q \in Request, Post(q) \/ ReadLock(q) \/ Start(q)
      PROVE  FALSE
  BY <1>2 DEF Post, ReadLock, Start, Answered
<1>3. ASSUME NEW q \in Request, Refuse(q)
      PROVE  Running = {}
  BY <1>3 DEF Refuse, Answered
<1>4. ~DoctorCrash
  BY DEF DoctorCrash
<1>5. ~Elsewhere
  BY <1>1 DEF Elsewhere, healVars, requestVars
<1>6. ASSUME NEW j \in HealJob, JobNext(j) \/ NpmExits(j) \/ NpmBeginsLate(j)
      PROVE  UNCHANGED answer
  BY <1>6 DEF JobNext, JobCreate, JobBusy, JobWrite, JobWriteFails, LoadReport,
     ExecUnreachable, ExecCreateFails, ExecStart, ExecStartFails, StreamEnds, StreamBreaks,
     StreamTimesOut, WaitForExit, Rescan, JobReleases, JobRetains, JobReadsOwn, JobReleased,
     NpmExits, NpmBeginsLate, OnlyJob, requestVars, healVars
<1> QED
  BY <1>1, <1>2, <1>3, <1>4, <1>5, <1>6 DEF HealNext, vars, requestVars, healVars

(* No POST is refused with 409 while a heal of this doctor runs, for any   *)
(* number of requests and jobs and whatever happens during the wait for    *)
(* readLock() (src/src/routes/drift.ts).                                   *)
THEOREM BusyIsNotOwn == HealSpec => NoRefusalOffOwnHeal
<1>1. HealTypeOK /\ [HealNext]_vars =>
        [\A r \in Request : answer'[r] = "busy" /\ answer[r] # "busy" => Running = {}]_vars
  BY OnlyRefuseSaysBusy
<1> QED
  BY <1>1, HealTypeCorrect, PTL DEF HealSpec, NoRefusalOffOwnHeal

-----------------------------------------------------------------------------
(* Where a job's chain is tells what it has of the lock, and a running npm *)
(* belongs to an operation at work or to a lock that has been retained.    *)

AtWork == {"load", "exec", "stream", "probe", "settle", "linger", "rescan", "release"}

ChainInv ==
  /\ \A j \in HealJob : stage[j] \in Before \cup {"acquire"} => pc[j] = "idle"
  /\ \A j \in HealJob : stage[j] = "write" => pc[j] = "created"
  /\ \A j \in HealJob : stage[j] \in AtWork => pc[j] = "working"
  /\ \A j \in HealJob : stage[j] = "releasing" => pc[j] \in {"releasing", "unlinking"}

NpmInv ==
  /\ \A p, q \in Op : mine[p] = mine[q] /\ mine[p] # 0 => p = q
  /\ \A j \in HealJob :
       stage[j] \in {"none", "acquire", "write", "load", "exec"} => npm[j] = "none"
  /\ \A j \in HealJob :
       stage[j] \in {"rescan", "release"} /\ ~still[j] => npm[j] # "running"
  /\ \A j \in HealJob :
       npm[j] = "running" => pc[j] = "working" \/ mine[j] \in lingering

HealInv == HealTypeOK /\ HolderInv /\ ChainInv /\ NpmInv

LEMMA HealInvInit == HealInit => HealInv
<1> SUFFICES ASSUME HealInit PROVE HealInv
  OBVIOUS
<1>1. HealTypeOK /\ HolderInv
  BY HealTypeInit, HolderInit DEF HealInit
<1>2. ChainInv
  BY JobIsDoctorOp DEF HealInit, Init, ChainInv, Before, AtWork
<1>3. NpmInv
  BY DEF HealInit, Init, NpmInv
<1> QED
  BY <1>1, <1>2, <1>3 DEF HealInv

(* Operations other than a job's leave its place in the protocol alone.    *)
LEMMA OthersPlace ==
  ASSUME TypeOK, NEW p \in Op,
         WithMutexStep(p) \/ UpdaterRelease(p) \/ \E on \in BOOLEAN : Retain(p, on)
  PROVE  /\ \A q \in Op \ {p} : pc'[q] = pc[q] /\ mine'[q] = mine[q]
         /\ lingering \subseteq lingering'
  BY DEF TypeOK, WithMutexStep, UpdaterRelease, Retain, Create, Write, WriteFails,
         Finish, ReadOwn, ReadOther, Unlink, UnlinkFails

LEMMA AcquisitionsDiffer ==
  ASSUME HolderInv, [LockNext]_lockVars,
         \A p, q \in Op : mine[p] = mine[q] /\ mine[p] # 0 => p = q
  PROVE  \A p, q \in Op : mine'[p] = mine'[q] /\ mine'[p] # 0 => p = q
<1> USE DEF HolderInv, TypeOK, Acquisition
<1>1. ASSUME NEW p \in Op, Create(p)
      PROVE  \A q, r \in Op : mine'[q] = mine'[r] /\ mine'[q] # 0 => q = r
  BY <1>1 DEF Create
<1>2. (\E p \in Op : Create(p)) \/ mine' = mine
  BY DEF LockNext, DoctorStep, UpdaterStep, WithMutexStep, UpdaterRelease, Retain,
         Write, WriteFails, Finish, ReadOwn, ReadOther, Unlink, UnlinkFails, Crash,
         Settle, ForceClear, lockVars, Op
<1> QED
  BY <1>1, <1>2

LEMMA ChainStep == HealInv /\ [HealNext]_vars => ChainInv'
<1> SUFFICES ASSUME HealInv, [HealNext]_vars PROVE ChainInv'
  OBVIOUS
<1>0. HealTypeOK /\ TypeOK /\ ChainInv
  BY DEF HealInv, HealTypeOK
<1> DEFINE Goal == ChainInv'
<1> USE <1>0, JobIsDoctorOp DEF ChainInv, AtWork, Before, HealTypeOK, TypeOK
<1>1. ASSUME UNCHANGED <<pc, stage>> PROVE Goal
  BY <1>1
<1>2. ASSUME NEW r \in Request, Start(r) PROVE Goal
  <2>1. ASSUME NEW j \in HealJob, stage[j] = "none", Register(j), UNCHANGED lockVars
        PROVE  Goal
    BY <2>1 DEF Register, lockVars
  <2> QED
    BY <1>1, <1>2, <2>1 DEF Start, lockVars
<1>3. ASSUME NEW j \in HealJob, UNCHANGED lockVars, stage[j] \in AtWork,
             NEW s \in AtWork, To(j, s)
      PROVE  Goal
  BY <1>3 DEF lockVars, To
<1>4. ASSUME NEW j \in HealJob, JobCreate(j) \/ JobWrite(j) \/ JobReleases(j)
      PROVE  Goal
  <2>1. CASE JobCreate(j)
    BY <2>1 DEF JobCreate, To, Create
  <2>2. CASE JobWrite(j)
    BY <2>2 DEF JobWrite, To, Write
  <2>3. CASE JobReleases(j)
    BY <2>3 DEF JobReleases, To, Finish
  <2> QED
    BY <1>4, <2>1, <2>2, <2>3
<1>5. ASSUME NEW j \in HealJob,
             JobBusy(j) \/ JobWriteFails(j) \/ JobRetains(j) \/ JobReleased(j)
      PROVE  Goal
  <2>1. PICK ok \in BOOLEAN : Finalize(j, ok)
    BY <1>5 DEF JobBusy, JobWriteFails, JobRetains, JobReleased
  <2>2. stage' = [stage EXCEPT ![j] = "over"]
    BY <2>1 DEF Finalize
  <2>3. pc'[j] = "idle" /\ \A k \in Op \ {j} : pc'[k] = pc[k]
    BY <1>5 DEF JobBusy, JobWriteFails, JobRetains, JobReleased, lockVars, WriteFails,
                Retain, ReadOther, Unlink, UnlinkFails
  <2> QED
    BY <2>2, <2>3
<1>6. ASSUME NEW j \in HealJob, JobReadsOwn(j) PROVE Goal
  BY <1>6 DEF JobReadsOwn, ReadOwn, healVars
<1>7. ASSUME NEW j \in HealJob,
             LoadReport(j) \/ ExecUnreachable(j) \/ ExecCreateFails(j)
             \/ ExecStart(j) \/ ExecStartFails(j) \/ StreamEnds(j)
             \/ StreamBreaks(j) \/ StreamTimesOut(j) \/ WaitForExit(j) \/ Rescan(j)
      PROVE  Goal
  <2>1. UNCHANGED lockVars /\ stage[j] \in AtWork /\ \E s \in AtWork : To(j, s)
    BY <1>7 DEF LoadReport, ExecUnreachable, ExecCreateFails, ExecStart,
                ExecStartFails, StreamEnds, StreamBreaks, StreamTimesOut,
                WaitForExit, Rescan, OnlyJob
  <2> QED
    BY <2>1, <1>3
<1>8. ASSUME DoctorCrash PROVE Goal
  <2>1. \A p \in DoctorOp : pc'[p] = "idle"
    BY <1>8 DEF DoctorCrash, Crash, lockVars, Op
  <2> QED
    BY <1>8, <2>1 DEF DoctorCrash, Active
<1>9. ASSUME Elsewhere PROVE Goal
  <2> DEFINE Same == \A j \in HealJob : pc'[j] = pc[j]
  <2>1. Same
    <3>1. ASSUME NEW p \in Op \ HealJob, WithMutexStep(p) \/ UpdaterRelease(p)
          PROVE  Same
      BY <3>1, OthersPlace
    <3>2. CASE Crash(UpdaterOp) \/ ForceClear \/ \E i \in lingering : Settle(i)
      BY <3>2, OpAssumption DEF Crash, ForceClear, Settle
    <3> QED
      BY <1>9, <3>1, <3>2, OpAssumption
      DEF Elsewhere, OtherDoctorOp, UpdaterStep, WithMutexStep, Op
  <2> QED
    BY <1>9, <2>1 DEF Elsewhere, healVars
<1> HIDE DEF Goal
<1>10. ASSUME NEW r \in Request, Post(r) \/ ReadLock(r) \/ Refuse(r) PROVE Goal
  BY <1>10, <1>1 DEF Post, ReadLock, Refuse, jobVars, jobVarsButNpm, lockVars
<1>11. ASSUME NEW j \in HealJob, NpmExits(j) \/ NpmBeginsLate(j) PROVE Goal
  BY <1>11, <1>1 DEF NpmExits, NpmBeginsLate, jobVarsButNpm, Settle, lockVars
<1>12. ASSUME UNCHANGED vars PROVE Goal
  BY <1>12, <1>1 DEF vars, healVars, lockVars
<1>13. Goal
  BY <1>2, <1>4, <1>5, <1>6, <1>7, <1>8, <1>9, <1>10, <1>11, <1>12
  DEF HealNext, JobNext
<1> QED
  BY <1>13 DEF Goal

LEMMA NpmStep == HealInv /\ [HealNext]_vars => NpmInv'
<1> SUFFICES ASSUME HealInv, [HealNext]_vars PROVE NpmInv'
  OBVIOUS
<1>0. HealTypeOK /\ TypeOK /\ ChainInv /\ NpmInv /\ HolderInv
  BY DEF HealInv, HealTypeOK
<1>d. \A p, q \in Op : mine'[p] = mine'[q] /\ mine'[p] # 0 => p = q
  BY <1>0, HealLockStep, AcquisitionsDiffer DEF NpmInv
<1> DEFINE Goal ==
      /\ \A j \in HealJob :
           stage'[j] \in {"none", "acquire", "write", "load", "exec"} => npm'[j] = "none"
      /\ \A j \in HealJob :
           stage'[j] \in {"rescan", "release"} /\ ~still'[j] => npm'[j] # "running"
      /\ \A j \in HealJob :
           npm'[j] = "running" => pc'[j] = "working" \/ mine'[j] \in lingering'
<1> USE <1>0, JobIsDoctorOp DEF ChainInv, NpmInv, AtWork, Before, HealTypeOK, TypeOK
<1>1. ASSUME UNCHANGED <<pc, mine, lingering, stage, npm, still>> PROVE Goal
  BY <1>1
<1>2. ASSUME NEW r \in Request, Start(r) PROVE Goal
  <2>1. ASSUME NEW j \in HealJob, stage[j] = "none", Register(j),
               UNCHANGED <<lockVars, npm, still>>
        PROVE  Goal
    BY <2>1 DEF Register, lockVars
  <2> QED
    BY <1>1, <1>2, <2>1 DEF Start, lockVars
<1>3. ASSUME NEW j \in HealJob, JobCreate(j) \/ JobWrite(j) PROVE Goal
  BY <1>3 DEF JobCreate, JobWrite, To, Create, Write
<1>4. ASSUME NEW j \in HealJob, JobBusy(j) \/ JobWriteFails(j) PROVE Goal
  BY <1>4 DEF JobBusy, JobWriteFails, Finalize, WriteFails, lockVars
<1>5. ASSUME NEW j \in HealJob, JobReleases(j) PROVE Goal
  BY <1>5 DEF JobReleases, To, Finish
<1>6. ASSUME NEW j \in HealJob, JobRetains(j) PROVE Goal
  BY <1>6 DEF JobRetains, Finalize, Retain
<1>7. ASSUME NEW j \in HealJob, JobReleased(j) \/ JobReadsOwn(j) PROVE Goal
  <2>1. npm' = npm /\ still' = still /\ mine' = mine /\ lingering' = lingering
    BY <1>7 DEF JobReleased, JobReadsOwn, ReadOther, Unlink, UnlinkFails, ReadOwn,
                healVars
  <2>2. \A k \in Op \ {j} : pc'[k] = pc[k]
    BY <1>7 DEF JobReleased, JobReadsOwn, ReadOther, Unlink, UnlinkFails, ReadOwn
  <2>3. stage' = stage \/ stage' = [stage EXCEPT ![j] = "over"]
    BY <1>7 DEF JobReleased, JobReadsOwn, Finalize, healVars
  <2>4. pc[j] # "working"
    BY <1>7 DEF JobReleased, JobReadsOwn
  <2> QED
    BY <2>1, <2>2, <2>3, <2>4
<1>8. ASSUME NEW j \in HealJob, LoadReport(j) \/ ExecUnreachable(j) \/ ExecCreateFails(j)
      PROVE  Goal
  BY <1>8 DEF LoadReport, ExecUnreachable, ExecCreateFails, To, OnlyJob, lockVars, Returns
<1>9. ASSUME NEW j \in HealJob,
             ExecStart(j) \/ ExecStartFails(j) \/ StreamEnds(j) \/ StreamBreaks(j)
             \/ StreamTimesOut(j)
      PROVE  Goal
  BY <1>9 DEF ExecStart, ExecStartFails, StreamEnds, StreamBreaks, StreamTimesOut,
              To, OnlyJob, lockVars
<1>10. ASSUME NEW j \in HealJob, WaitForExit(j) \/ Rescan(j) PROVE Goal
  BY <1>10 DEF WaitForExit, Rescan, To, OnlyJob, lockVars, Returns
<1>11. ASSUME NEW j \in HealJob, NpmBeginsLate(j) PROVE Goal
  BY <1>11 DEF NpmBeginsLate, lockVars, jobVarsButNpm
<1>12. ASSUME NEW j \in HealJob, NpmExits(j) PROVE Goal
  <2>1. UNCHANGED <<pc, mine, stage, still>> /\ npm'[j] \in {"exit0", "exit1"}
        /\ \A k \in HealJob \ {j} : npm'[k] = npm[k]
    BY <1>12 DEF NpmExits, jobVarsButNpm, lockVars, Settle
  <2>2. lingering' = lingering \/ lingering' = lingering \ {mine[j]}
    BY <1>12 DEF NpmExits, lockVars, Settle
  <2>3. \A k \in HealJob \ {j} : mine[k] \in lingering => mine[k] \in lingering'
    <3>1. \A i \in lingering : i # 0
      BY DEF HolderInv
    <3> QED
      BY <2>2, <3>1
  <2>4. npm[j] # "none"
    BY <1>12 DEF NpmExits
  <2> QED
    BY <2>1, <2>3, <2>4
<1>13. ASSUME DoctorCrash PROVE Goal
  <2>1. \A j \in HealJob : npm[j] = "running" => mine[j] \in lingering'
    <3>1. CASE Crash(DoctorOp)
      <4>1. lingering \subseteq lingering'
        BY <3>1 DEF Crash
      <4>2. CASE lingering' = lingering \cup
                 {mine[j] : j \in {k \in HealJob : pc[k] = "working" /\ npm[k] = "running"}}
        BY <4>2
      <4>3. CASE (\A p \in DoctorOp : pc[p] = "idle") /\ UNCHANGED lockVars
        BY <4>3 DEF lockVars
      <4> QED
        BY <1>13, <4>2, <4>3 DEF DoctorCrash
    <3>2. CASE (\A p \in DoctorOp : pc[p] = "idle") /\ UNCHANGED lockVars
      BY <3>2 DEF lockVars
    <3> QED
      BY <1>13, <3>1, <3>2 DEF DoctorCrash
  <2>2. mine' = mine
    BY <1>13 DEF DoctorCrash, Crash, lockVars
  <2> QED
    BY <1>13, <2>1, <2>2 DEF DoctorCrash, Active
<1>14. ASSUME Elsewhere PROVE Goal
  <2> DEFINE Same == \A j \in HealJob :
                       /\ pc'[j] = pc[j] /\ mine'[j] = mine[j]
                       /\ mine[j] \in lingering => mine[j] \in lingering'
  <2>1. ASSUME NEW p \in Op \ HealJob, WithMutexStep(p) \/ UpdaterRelease(p) PROVE Same
    BY <2>1, OthersPlace
  <2>2. ASSUME Crash(UpdaterOp) PROVE Same
    BY <2>2, OpAssumption DEF Crash
  <2>3. ASSUME NEW i \in lingering \ {mine[j] : j \in HealJob}, Settle(i) PROVE Same
    BY <2>3 DEF Settle
  <2>4. ASSUME ForceClear PROVE Same
    BY <2>4 DEF ForceClear
  <2>5. Same
    BY <1>14, <2>1, <2>2, <2>3, <2>4, OpAssumption
    DEF Elsewhere, OtherDoctorOp, UpdaterStep, WithMutexStep, Op
  <2> QED
    BY <1>14, <2>5 DEF Elsewhere, healVars
<1> HIDE DEF Goal
<1>15. ASSUME NEW r \in Request, Post(r) \/ ReadLock(r) \/ Refuse(r) PROVE Goal
  BY <1>15, <1>1 DEF Post, ReadLock, Refuse, jobVars, jobVarsButNpm, lockVars
<1>16. ASSUME UNCHANGED vars PROVE Goal
  BY <1>16, <1>1 DEF vars, healVars, lockVars
<1>17. Goal
  BY <1>2, <1>3, <1>4, <1>5, <1>6, <1>7, <1>8, <1>9, <1>10, <1>11, <1>12, <1>13,
     <1>14, <1>15, <1>16 DEF HealNext, JobNext
<1> QED
  BY <1>17, <1>d DEF Goal, NpmInv

LEMMA NpmHoldsLock == HealInv => NpmUnderLock
  BY JobIsDoctorOp DEF HealInv, HolderInv, NpmInv, NpmUnderLock

(* With a careful operator, an npm that runs in the container has the lock *)
(* of its job on disk, through timeouts, broken streams, jobs that have    *)
(* given up and deaths of the doctor.                                      *)
THEOREM NpmAlwaysUnderLock == ~ClearsLiveLock => (HealSpec => []NpmUnderLock)
<1> SUFFICES ASSUME ~ClearsLiveLock PROVE HealSpec => []NpmUnderLock
  OBVIOUS
<1>1. HealInv /\ [HealNext]_vars => HealInv'
  BY HealTypeStep, HealLockStep, HolderStep, ChainStep, NpmStep DEF HealInv
<1> QED
  BY <1>1, HealInvInit, NpmHoldsLock, PTL DEF HealSpec
=============================================================================
