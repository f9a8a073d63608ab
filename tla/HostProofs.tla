------------------------------- MODULE HostProofs -------------------------------
(***************************************************************************)
(* Theorems about the installer refresh and the prune of images beside the *)
(* updater, for any number of refreshes, artifacts, releases and other     *)
(* operations: the lock is used as it is meant to be; while nobody clears  *)
(* it under an operation, what a refresh leaves behind is whole; and the   *)
(* prune spares the image that runs and a version to roll back to.         *)
(***************************************************************************)
EXTENDS HostOperations, OperationLockProofs, FiniteSetTheorems

USE RefreshOpAssumption, ArtifactAssumption, MaxBodyAssumption, PruneOpAssumption,
    SeparateAssumption
    DEF RefreshOpAssumption, ArtifactAssumption, MaxBodyAssumption, PruneOpAssumption,
        SeparateAssumption

-----------------------------------------------------------------------------
(* Every step is a step of the lock or leaves it alone.                    *)

LEMMA IsDoctorOp == /\ \A r \in RefreshOp : r \in DoctorOp /\ r \in Op /\ r \notin UpdaterOp
                    /\ PruneOp \in Op /\ PruneOp \notin UpdaterOp
  BY OpAssumption DEF Op, OpAssumption

LEMMA HostLockStep == [HostNext]_hostVars => [LockNext]_lockVars
<1> SUFFICES ASSUME [HostNext]_hostVars PROVE [LockNext]_lockVars
  OBVIOUS
<1> DEFINE Goal == LockNext \/ UNCHANGED lockVars
<1>1. ASSUME NEW p \in DoctorOp, WithMutexStep(p) PROVE Goal
  BY <1>1 DEF LockNext, DoctorStep
<1>2. ASSUME NEW r \in RefreshOp, RefreshStep(r) PROVE Goal
  <2>1. WithMutexStep(r) \/ UNCHANGED lockVars
    BY <1>2 DEF RefreshStep, Begins, Answers, WithMutexStep
  <2> QED
    BY <2>1, <1>1, IsDoctorOp
<1>3. CASE PruneStep
  <2>1. WithMutexStep(PruneOp) \/ UNCHANGED lockVars
    BY <1>3 DEF PruneStep, PruneBegins, PruneEnds, WithMutexStep
  <2> QED
    BY <2>1, <1>1
<1>4. CASE DoctorDies
  BY <1>4 DEF DoctorDies, LockNext
<1>5. CASE Elsewhere
  BY <1>5 DEF Elsewhere, LockNext
<1>6. CASE UNCHANGED hostVars
  BY <1>6 DEF hostVars
<1> QED
  BY <1>2, <1>3, <1>4, <1>5, <1>6 DEF HostNext, HostGoesOn

(* Refreshes and the prune use the operation lock as the doctor's          *)
(* operations do: what is proved of the lock holds with them in the system.*)
THEOREM HostImplementsLock == HostSpec => HostUsesLock
<1>1. HostInit => Init
  BY DEF HostInit
<1> QED
  BY <1>1, HostLockStep, PTL DEF HostSpec, HostUsesLock

(* So, with a careful operator, whatever changes the host does so under    *)
(* the lock file of its own acquisition, refreshes and prunes included ... *)
THEOREM HostSingleWriter == ~ClearsLiveLock => (HostSpec => []MutatorHoldsLock)
<1> SUFFICES ASSUME ~ClearsLiveLock PROVE HostSpec => []MutatorHoldsLock
  OBVIOUS
<1>1. HostInit => HolderInv
  BY HolderInit DEF HostInit
<1>2. HolderInv /\ [HostNext]_hostVars => HolderInv'
  BY HostLockStep, HolderStep
<1> QED
  BY <1>1, <1>2, HolderMutates, PTL DEF HostSpec

(* ... and the lock file is the abstract token for them too.               *)
THEOREM HostImplementsToken == ~ClearsLiveLock => (HostSpec => ImplementsSingleWriter)
<1> SUFFICES ASSUME ~ClearsLiveLock PROVE HostSpec => ImplementsSingleWriter
  OBVIOUS
<1>1. HostInit => HolderInv /\ SW!AbsInit
  BY HolderInit, RefinesInit DEF HostInit
<1>2. HolderInv /\ [HostNext]_hostVars => HolderInv' /\ [SW!AbsNext]_(SW!absVars)
  BY HostLockStep, HolderStep, RefinesStep
<1> QED
  BY <1>1, <1>2, PTL DEF HostSpec, ImplementsSingleWriter, SW!AbsSpec

-----------------------------------------------------------------------------
(* The invariant of the refresh.                                           *)

LEMMA Contents ==
  /\ \A b \in Body : b \in Content \ {0, Torn, Short}
  /\ Torn \in Content /\ Torn # 0 /\ Short \in Content /\ Short # 0 /\ Short # Torn
  /\ 0 \in Content
  BY DEF Body, Content, Torn, Short

HasBody == {"compare", "snapshot", "open", "write", "rename", "fsync"}

(* What a refresh knows at each point of the loop, and what its results    *)
(* say of the artifacts it is past.                                        *)
Knows(r) ==
  /\ stage[r] \in HasBody => body[r] \in Body
  /\ stage[r] \in HasBody \cup {"fetch"} => (at[r] \in HostScript => mounted)
  /\ stage[r] \in {"open", "write", "rename"} => dest[at[r]] \in snapshots[at[r]] \cup {0}
  /\ stage[r] = "rename" => tmp[at[r]] \in {body[r], Short}
  /\ stage[r] = "fsync" => dest[at[r]] \in {body[r], Short}

Reports(r) ==
  \A a \in Artifact :
    /\ stage[r] = "idle" => result[r][a].status = "none"
    /\ result[r][a].status # "none" => a < at[r] \/ stage[r] = "over"
    /\ result[r][a].status \in {"updated", "unchanged"} =>
         /\ dest[a] \in {result[r][a].sha, Short}
         /\ a \in HostScript => mounted

HoldsLock(r) == stage[r] # "idle" => pc[r] = "working"

FileInv ==
  /\ RefreshTypeOK /\ NoTornArtifact
  /\ \A r \in RefreshOp : HoldsLock(r) /\ Knows(r) /\ Reports(r)

LEMMA FileInit == HostInit => FileInv
<1> SUFFICES ASSUME HostInit PROVE FileInv
  OBVIOUS
<1> USE DEF HostInit, RefreshInit
<1>1. 0 .. published \subseteq Content /\ Torn \notin 0 .. published
  BY DEF Body, Content, Torn, Short
<1>2. dest \in [Artifact -> Content] /\ NoTornArtifact
  BY <1>1 DEF NoTornArtifact
<1>3. /\ tmp \in [Artifact -> Content] /\ snapshots \in [Artifact -> SUBSET (Content \ {0})]
  BY Contents
<1>4. NoResults \in [Artifact -> [status : Status, sha : Body \cup {0}]]
  BY DEF NoResults, NoResult, Status
<1>5. /\ stage \in [RefreshOp -> RefreshStage] /\ at \in [RefreshOp -> Artifact]
      /\ body \in [RefreshOp -> Body \cup {0}]
      /\ \A r \in RefreshOp : stage[r] = "idle"
  BY DEF RefreshStage, Artifact
<1>6. result \in [RefreshOp -> [Artifact -> [status : Status, sha : Body \cup {0}]]]
  BY <1>4
<1>7. RefreshTypeOK
  BY <1>2, <1>3, <1>5, <1>6 DEF RefreshTypeOK
<1>8. \A r \in RefreshOp, a \in Artifact : result[r][a].status = "none"
  BY DEF NoResults, NoResult
<1> QED
  BY <1>2, <1>5, <1>7, <1>8 DEF FileInv, HoldsLock, Knows, Reports, HasBody

-----------------------------------------------------------------------------
(* The two ways a step of the loop ends.                                   *)

LEMMA GoesTyped ==
  ASSUME RefreshTypeOK, NEW r \in RefreshOp, NEW s \in RefreshStage, Goes(r, s), Same(r)
  PROVE  /\ stage' \in [RefreshOp -> RefreshStage] /\ stage'[r] = s
         /\ \A q \in RefreshOp \ {r} : stage'[q] = stage[q]
         /\ UNCHANGED <<at, body, result>>
  BY DEF RefreshTypeOK, Goes, Same

LEMMA PushesTyped ==
  ASSUME RefreshTypeOK, NEW r \in RefreshOp, NEW st \in Status, NEW sha \in Body \cup {0},
         Pushes(r, st, sha)
  PROVE  /\ stage' \in [RefreshOp -> RefreshStage] /\ at' \in [RefreshOp -> Artifact]
         /\ body' \in [RefreshOp -> Body \cup {0}]
         /\ result' \in [RefreshOp -> [Artifact -> [status : Status, sha : Body \cup {0}]]]
         /\ stage'[r] = (IF at[r] < ArtifactCount THEN "mount" ELSE "over")
         /\ at'[r] = (IF at[r] < ArtifactCount THEN at[r] + 1 ELSE at[r])
         /\ result'[r][at[r]] = [status |-> st, sha |-> sha]
         /\ \A a \in Artifact \ {at[r]} : result'[r][a] = result[r][a]
         /\ \A q \in RefreshOp \ {r} : stage'[q] = stage[q]
<1> USE DEF RefreshTypeOK, Pushes
<1>1. at[r] \in Artifact /\ at[r] \in Nat /\ (at[r] < ArtifactCount => at[r] + 1 \in Artifact)
  BY DEF Artifact
<1>2. stage' \in [RefreshOp -> RefreshStage]
      /\ stage'[r] = (IF at[r] < ArtifactCount THEN "mount" ELSE "over")
      /\ \A q \in RefreshOp \ {r} : stage'[q] = stage[q]
  BY DEF Goes, RefreshStage
<1>3. at' \in [RefreshOp -> Artifact]
      /\ at'[r] = (IF at[r] < ArtifactCount THEN at[r] + 1 ELSE at[r])
  BY <1>1
<1>4. body' \in [RefreshOp -> Body \cup {0}]
  OBVIOUS
<1>5. [status |-> st, sha |-> sha] \in [status : Status, sha : Body \cup {0}]
  OBVIOUS
<1>6. result' = [result EXCEPT ![r] = [result[r] EXCEPT ![at[r]] = [status |-> st, sha |-> sha]]]
  BY DEF Pushes
<1>7. [result[r] EXCEPT ![at[r]] = [status |-> st, sha |-> sha]]
        \in [Artifact -> [status : Status, sha : Body \cup {0}]]
  BY <1>5
<1>8. result' \in [RefreshOp -> [Artifact -> [status : Status, sha : Body \cup {0}]]]
  BY <1>6, <1>7
<1>9. /\ result'[r][at[r]] = [status |-> st, sha |-> sha]
      /\ \A a \in Artifact \ {at[r]} : result'[r][a] = result[r][a]
  BY <1>1, <1>6
<1> QED
  BY <1>2, <1>3, <1>4, <1>8, <1>9

LEMMA GoesShape ==
  ASSUME FileInv, NEW r \in RefreshOp, NEW s \in RefreshStage, Goes(r, s), Same(r)
  PROVE  /\ stage' \in [RefreshOp -> RefreshStage] /\ stage'[r] = s
         /\ \A q \in RefreshOp \ {r} : stage'[q] = stage[q]
         /\ UNCHANGED <<at, body, result>>
  BY GoesTyped DEF FileInv

LEMMA PushesShape ==
  ASSUME FileInv, NEW r \in RefreshOp, NEW st \in Status, NEW sha \in Body \cup {0},
         Pushes(r, st, sha)
  PROVE  /\ stage' \in [RefreshOp -> RefreshStage] /\ at' \in [RefreshOp -> Artifact]
         /\ body' \in [RefreshOp -> Body \cup {0}]
         /\ result' \in [RefreshOp -> [Artifact -> [status : Status, sha : Body \cup {0}]]]
         /\ stage'[r] = (IF at[r] < ArtifactCount THEN "mount" ELSE "over")
         /\ at'[r] = (IF at[r] < ArtifactCount THEN at[r] + 1 ELSE at[r])
         /\ result'[r][at[r]] = [status |-> st, sha |-> sha]
         /\ \A a \in Artifact \ {at[r]} : result'[r][a] = result[r][a]
         /\ \A q \in RefreshOp \ {r} : stage'[q] = stage[q]
  BY PushesTyped DEF FileInv

(* A result is pushed that is true of the destination.                     *)
LEMMA PushesKeep ==
  ASSUME FileInv, NEW r \in RefreshOp, NEW st \in Status, NEW sha \in Body \cup {0},
         Pushes(r, st, sha), stage[r] \notin {"idle", "over", "thrown"},
         UNCHANGED fileVars,
         st \in {"updated", "unchanged"} =>
           dest[at[r]] \in {sha, Short} /\ (at[r] \in HostScript => mounted)
  PROVE  RefreshTypeOK' /\ NoTornArtifact' /\ Knows(r)' /\ Reports(r)'
         /\ \A q \in RefreshOp \ {r} : stage'[q] = stage[q]
<1> USE DEF fileVars
<1>1. RefreshTypeOK' /\ NoTornArtifact'
  BY PushesShape DEF FileInv, RefreshTypeOK, NoTornArtifact
<1>2. Knows(r)'
  BY PushesShape DEF Knows, HasBody
<1>3. Reports(r)'
  <2> SUFFICES ASSUME NEW a \in Artifact
               PROVE  /\ stage'[r] = "idle" => result'[r][a].status = "none"
                      /\ result'[r][a].status # "none" => a < at'[r] \/ stage'[r] = "over"
                      /\ result'[r][a].status \in {"updated", "unchanged"} =>
                           /\ dest[a] \in {result'[r][a].sha, Short}
                           /\ a \in HostScript => mounted
    BY DEF Reports
  <2>1. at[r] \in Nat /\ a \in Nat
    BY DEF FileInv, RefreshTypeOK, Artifact
  <2>0. /\ at[r] < ArtifactCount => at'[r] = at[r] + 1
        /\ ~(at[r] < ArtifactCount) => stage'[r] = "over"
        /\ stage'[r] # "idle"
        /\ dest' = dest /\ mounted' = mounted
    BY PushesShape
  <2>2. CASE a = at[r]
    <3>1. result'[r][a] = [status |-> st, sha |-> sha]
      BY <2>2, PushesShape
    <3>2. a < at'[r] \/ stage'[r] = "over"
      BY <2>0, <2>1, <2>2
    <3> QED
      BY <2>0, <2>2, <3>1, <3>2
  <2>3. CASE a # at[r]
    <3>1. result'[r][a] = result[r][a]
      BY <2>3, PushesShape
    <3>2. /\ result[r][a].status # "none" => a < at[r]
          /\ result[r][a].status \in {"updated", "unchanged"} =>
               /\ dest[a] \in {result[r][a].sha, Short}
               /\ a \in HostScript => mounted
      BY DEF FileInv, Reports
    <3>3. a < at[r] => a < at'[r] \/ stage'[r] = "over"
      BY <2>0, <2>1
    <3> QED
      BY <3>1, <3>2, <3>3, <2>0
  <2> QED
    BY <2>2, <2>3
<1> QED
  BY <1>1, <1>2, <1>3, PushesShape

LEMMA FailedKeeps ==
  ASSUME FileInv, NEW r \in RefreshOp, WriteFailed(r),
         stage[r] \notin {"idle", "over", "thrown"}, UNCHANGED fileVars
  PROVE  RefreshTypeOK' /\ NoTornArtifact' /\ Knows(r)' /\ Reports(r)'
         /\ \A q \in RefreshOp \ {r} : stage'[q] = stage[q]
  BY PushesKeep DEF WriteFailed, Status

LEMMA WorkKeeps ==
  ASSUME FileInv, NEW r \in RefreshOp, RefreshWork(r)
  PROVE  RefreshTypeOK' /\ NoTornArtifact' /\ Knows(r)' /\ Reports(r)'
         /\ (\A q \in RefreshOp \ {r} : stage'[q] = stage[q])
         /\ stage[r] # "idle"
<1> DEFINE Goal == RefreshTypeOK' /\ NoTornArtifact' /\ Knows(r)' /\ Reports(r)'
                   /\ (\A q \in RefreshOp \ {r} : stage'[q] = stage[q])
                   /\ stage[r] # "idle"
<1>0. /\ Knows(r) /\ Reports(r) /\ RefreshTypeOK /\ NoTornArtifact
      /\ at[r] \in Artifact /\ body[r] \in Body \cup {0}
  BY DEF FileInv, RefreshTypeOK
<1>1. CASE CheckMount(r)
  <2>1. stage[r] = "mount" /\ UNCHANGED fileVars
    BY <1>1 DEF CheckMount
  <2>2. CASE Pushes(r, "mount-missing", 0)
    BY <2>1, <2>2, PushesKeep DEF Status
  <2>3. CASE Goes(r, "fetch") /\ Same(r) /\ ~(at[r] \in HostScript /\ ~mounted)
    <3>1. /\ stage' \in [RefreshOp -> RefreshStage] /\ stage'[r] = "fetch"
          /\ \A q \in RefreshOp \ {r} : stage'[q] = stage[q]
          /\ UNCHANGED <<at, body, result>>
      BY <2>3, GoesShape DEF RefreshStage
    <3> QED
      BY <1>0, <2>1, <2>3, <3>1
      DEF fileVars, RefreshTypeOK, NoTornArtifact, Knows, Reports, HasBody
  <2> QED
    BY <1>1, <2>2, <2>3 DEF CheckMount
<1>2. CASE Fetch(r)
  <2>1. stage[r] = "fetch" /\ UNCHANGED fileVars
    BY <1>2 DEF Fetch
  <2>2. CASE Pushes(r, "fetch-failed", 0)
    BY <2>1, <2>2, PushesKeep DEF Status
  <2>3. CASE /\ body' = [body EXCEPT ![r] = published] /\ Goes(r, "compare")
             /\ UNCHANGED <<at, result>>
    <3>1. /\ stage' \in [RefreshOp -> RefreshStage] /\ stage'[r] = "compare"
          /\ \A q \in RefreshOp \ {r} : stage'[q] = stage[q]
          /\ body' \in [RefreshOp -> Body \cup {0}] /\ body'[r] \in Body
      BY <1>0, <2>3 DEF RefreshTypeOK, RefreshStage, Goes
    <3> QED
      BY <1>0, <2>1, <2>3, <3>1
      DEF fileVars, RefreshTypeOK, NoTornArtifact, Knows, Reports, HasBody
  <2> QED
    BY <1>2, <2>2, <2>3 DEF Fetch
<1>3. CASE Compare(r)
  <2>1. stage[r] = "compare" /\ UNCHANGED fileVars
    BY <1>3 DEF Compare
  <2>2. CASE dest[at[r]] = body[r] /\ Pushes(r, "unchanged", body[r])
    BY <1>0, <2>1, <2>2, PushesKeep DEF Status, Knows, HasBody
  <2>3. ASSUME NEW s \in {"snapshot", "thrown"}, Goes(r, s), Same(r) PROVE Goal
    <3>1. /\ stage' \in [RefreshOp -> RefreshStage] /\ stage'[r] = s
          /\ \A q \in RefreshOp \ {r} : stage'[q] = stage[q]
          /\ UNCHANGED <<at, body, result>>
      BY <2>3, GoesShape DEF RefreshStage
    <3> QED
      BY <1>0, <2>1, <3>1
      DEF fileVars, RefreshTypeOK, NoTornArtifact, Knows, Reports, HasBody
  <2> QED
    BY <1>3, <2>1, <2>2, <2>3 DEF Compare, Throws
<1>4. CASE Snapshot(r)
  <2>1. stage[r] = "snapshot" /\ UNCHANGED <<published, mounted, dest, tmp>>
    BY <1>4 DEF Snapshot
  <2>2. CASE /\ snapshots' = [snapshots EXCEPT ![at[r]] = @ \cup ({dest[at[r]]} \ {0})]
             /\ Goes(r, "open") /\ Same(r)
    <3>1. /\ stage' \in [RefreshOp -> RefreshStage] /\ stage'[r] = "open"
          /\ \A q \in RefreshOp \ {r} : stage'[q] = stage[q]
          /\ UNCHANGED <<at, body, result>>
      BY <2>2, GoesShape DEF RefreshStage
    <3>2. /\ snapshots' \in [Artifact -> SUBSET (Content \ {0})]
          /\ dest[at[r]] \in snapshots'[at[r]] \cup {0}
      BY <1>0, <2>2 DEF RefreshTypeOK
    <3> QED
      BY <1>0, <2>1, <3>1, <3>2 DEF RefreshTypeOK, NoTornArtifact, Knows, Reports, HasBody
  <2>3. CASE UNCHANGED snapshots /\ Throws(r)
    <3>1. /\ stage' \in [RefreshOp -> RefreshStage] /\ stage'[r] = "thrown"
          /\ \A q \in RefreshOp \ {r} : stage'[q] = stage[q]
          /\ UNCHANGED <<at, body, result>>
      BY <2>3, GoesShape DEF RefreshStage, Throws
    <3> QED
      BY <1>0, <2>1, <2>3, <3>1 DEF RefreshTypeOK, NoTornArtifact, Knows, Reports, HasBody
  <2> QED
    BY <1>4, <2>2, <2>3 DEF Snapshot
<1>5. CASE Open(r)
  <2>1. stage[r] = "open" /\ UNCHANGED <<published, mounted, dest, snapshots>>
    BY <1>5 DEF Open
  <2>2. CASE UNCHANGED tmp /\ WriteFailed(r)
    BY <2>1, <2>2, FailedKeeps DEF fileVars
  <2>3. CASE tmp' = [tmp EXCEPT ![at[r]] = Torn] /\ Goes(r, "write") /\ Same(r)
    <3>1. /\ stage' \in [RefreshOp -> RefreshStage] /\ stage'[r] = "write"
          /\ \A q \in RefreshOp \ {r} : stage'[q] = stage[q]
          /\ UNCHANGED <<at, body, result>>
      BY <2>3, GoesShape DEF RefreshStage
    <3>2. tmp' \in [Artifact -> Content]
      BY <1>0, <2>3, Contents DEF RefreshTypeOK
    <3> QED
      BY <1>0, <2>1, <3>1, <3>2 DEF RefreshTypeOK, NoTornArtifact, Knows, Reports, HasBody
  <2> QED
    BY <1>5, <2>2, <2>3 DEF Open
<1>6. CASE WriteBody(r)
  <2>1. stage[r] = "write" /\ UNCHANGED <<published, mounted, dest, snapshots>>
    BY <1>6 DEF WriteBody
  <2>2. CASE UNCHANGED tmp /\ WriteFailed(r)
    BY <2>1, <2>2, FailedKeeps DEF fileVars
  <2>3. CASE /\ \E c \in {body[r], Short} : tmp' = [tmp EXCEPT ![at[r]] = c]
             /\ Goes(r, "rename") /\ Same(r)
    <3>1. /\ stage' \in [RefreshOp -> RefreshStage] /\ stage'[r] = "rename"
          /\ \A q \in RefreshOp \ {r} : stage'[q] = stage[q]
          /\ UNCHANGED <<at, body, result>>
      BY <2>3, GoesShape DEF RefreshStage
    <3>2. body[r] \in Content /\ Short \in Content
      BY <1>0, Contents
    <3>3. tmp' \in [Artifact -> Content] /\ tmp'[at[r]] \in {body[r], Short}
      BY <1>0, <2>3, <3>2 DEF RefreshTypeOK
    <3> QED
      BY <1>0, <2>1, <3>1, <3>3 DEF RefreshTypeOK, NoTornArtifact, Knows, Reports, HasBody
  <2> QED
    BY <1>6, <2>2, <2>3 DEF WriteBody
<1>7. CASE Rename(r)
  <2>1. stage[r] = "rename" /\ UNCHANGED <<published, mounted, snapshots>>
    BY <1>7 DEF Rename
  <2>2. CASE UNCHANGED <<dest, tmp>> /\ WriteFailed(r)
    BY <2>1, <2>2, FailedKeeps DEF fileVars
  <2>3. CASE /\ dest' = [dest EXCEPT ![at[r]] = tmp[at[r]]]
             /\ tmp' = [tmp EXCEPT ![at[r]] = 0]
             /\ Goes(r, "fsync") /\ Same(r)
    <3>1. /\ stage' \in [RefreshOp -> RefreshStage] /\ stage'[r] = "fsync"
          /\ \A q \in RefreshOp \ {r} : stage'[q] = stage[q]
          /\ UNCHANGED <<at, body, result>>
      BY <2>3, GoesShape DEF RefreshStage
    <3>2. tmp[at[r]] \in {body[r], Short} /\ body[r] \in Body /\ tmp[at[r]] # Torn
      BY <1>0, <2>1, Contents DEF Knows, HasBody
    <3>3. /\ dest' \in [Artifact -> Content] /\ dest'[at[r]] \in {body[r], Short}
          /\ \A a \in Artifact \ {at[r]} : dest'[a] = dest[a]
          /\ tmp' \in [Artifact -> Content]
      BY <1>0, <2>3, <3>2, Contents DEF RefreshTypeOK
    <3>4. RefreshTypeOK'
      BY <1>0, <2>1, <3>1, <3>3 DEF RefreshTypeOK
    <3>5. NoTornArtifact'
      BY <1>0, <2>3, <3>2, <3>3 DEF NoTornArtifact, RefreshTypeOK
    <3>6. Knows(r)'
      BY <1>0, <2>1, <3>1, <3>3 DEF Knows, HasBody
    <3>7. Reports(r)'
      <4> SUFFICES ASSUME NEW a \in Artifact
                   PROVE  /\ result[r][a].status # "none" => a < at[r]
                          /\ result[r][a].status \in {"updated", "unchanged"} =>
                               /\ dest'[a] \in {result[r][a].sha, Short}
                               /\ a \in HostScript => mounted
        BY <2>1, <3>1 DEF Reports
      <4>1. result[r][a].status # "none" => a < at[r]
        BY <1>0, <2>1 DEF Reports
      <4>2. ~(at[r] < at[r])
        BY <1>0 DEF Artifact
      <4>3. CASE result[r][a].status \in {"updated", "unchanged"}
        <5>1. a # at[r]
          BY <4>1, <4>2, <4>3
        <5> QED
          BY <1>0, <2>1, <3>3, <4>1, <4>3, <5>1 DEF Reports
      <4> QED
        BY <4>1, <4>3
    <3> QED
      BY <2>1, <3>1, <3>4, <3>5, <3>6, <3>7
  <2> QED
    BY <1>7, <2>2, <2>3 DEF Rename
<1>8. CASE Fsync(r)
  <2>1. stage[r] = "fsync" /\ UNCHANGED fileVars
    BY <1>8 DEF Fsync
  <2>2. CASE Pushes(r, "updated", body[r])
    BY <1>0, <2>1, <2>2, PushesKeep DEF Status, Knows, HasBody
  <2>3. CASE WriteFailed(r)
    BY <2>1, <2>3, FailedKeeps
  <2> QED
    BY <1>8, <2>2, <2>3 DEF Fsync
<1> QED
  BY <1>1, <1>2, <1>3, <1>4, <1>5, <1>6, <1>7, <1>8 DEF RefreshWork

-----------------------------------------------------------------------------
(* The steps of everybody else.                                            *)

PcKept == \A r \in RefreshOp : pc[r] = "working" => pc'[r] = "working"

LEMMA LockKeepsPc ==
  ASSUME TypeOK, NEW p \in Op,
         \/ Create(p) \/ Write(p) \/ WriteFails(p) \/ ReadOwn(p) \/ ReadOther(p)
         \/ Unlink(p) \/ UnlinkFails(p)
         \/ p \notin RefreshOp /\ (Finish(p) \/ UpdaterRelease(p))
  PROVE  PcKept
  BY IsDoctorOp
  DEF PcKept, TypeOK, Create, Write, WriteFails, ReadOwn, ReadOther, Unlink, UnlinkFails,
      Finish, UpdaterRelease

(* A step that leaves the refreshes where they are and their files alone.  *)
LEMMA QuietKeeps ==
  ASSUME FileInv, PcKept, published' \in Body,
         UNCHANGED <<mounted, dest, tmp, snapshots, loopVars>>
  PROVE  FileInv'
<1> USE DEF loopVars
<1>1. RefreshTypeOK' /\ NoTornArtifact'
  BY DEF FileInv, RefreshTypeOK, NoTornArtifact
<1>2. ASSUME NEW r \in RefreshOp PROVE HoldsLock(r)' /\ Knows(r)' /\ Reports(r)'
  <2>1. HoldsLock(r) /\ Knows(r) /\ Reports(r)
    BY DEF FileInv
  <2>2. HoldsLock(r)'
    BY <2>1 DEF HoldsLock, PcKept
  <2>3. Knows(r)'
    BY <2>1 DEF Knows
  <2>4. Reports(r)'
    BY <2>1 DEF Reports
  <2> QED
    BY <2>2, <2>3, <2>4
<1> QED
  BY <1>1, <1>2 DEF FileInv

LEMMA RefreshKeeps ==
  ASSUME FileInv, HolderInv, NEW r \in RefreshOp, RefreshStep(r)
  PROVE  FileInv'
<1>0. /\ TypeOK /\ r \in Op /\ HoldsLock(r) /\ Knows(r) /\ Reports(r)
      /\ RefreshTypeOK /\ NoTornArtifact
  BY IsDoctorOp DEF HolderInv, FileInv
<1>1. CASE Begins(r)
  <2>1. /\ pc[r] = "created" /\ pc' = [pc EXCEPT ![r] = "working"]
        /\ stage' = [stage EXCEPT ![r] = "mount"]
        /\ UNCHANGED <<fileVars, at, body, result>>
    BY <1>1 DEF Begins, Write, Goes
  <2>2. stage[r] = "idle"
    BY <1>0, <2>1 DEF HoldsLock
  <2>3. /\ stage' \in [RefreshOp -> RefreshStage] /\ stage'[r] = "mount"
        /\ \A q \in RefreshOp \ {r} : stage'[q] = stage[q]
        /\ pc'[r] = "working" /\ \A q \in RefreshOp \ {r} : pc'[q] = pc[q]
    BY <1>0, <2>1, IsDoctorOp DEF RefreshTypeOK, RefreshStage, TypeOK
  <2>4. RefreshTypeOK' /\ NoTornArtifact'
    BY <1>0, <2>1, <2>3 DEF RefreshTypeOK, NoTornArtifact, fileVars
  <2>5. HoldsLock(r)' /\ Knows(r)' /\ Reports(r)'
    BY <1>0, <2>1, <2>2, <2>3 DEF HoldsLock, Knows, Reports, HasBody
  <2>6. ASSUME NEW q \in RefreshOp \ {r} PROVE HoldsLock(q)' /\ Knows(q)' /\ Reports(q)'
    BY <2>1, <2>3 DEF FileInv, HoldsLock, Knows, Reports, fileVars
  <2> QED
    BY <2>4, <2>5, <2>6 DEF FileInv
<1>2. CASE Answers(r)
  <2>1. /\ stage[r] # "idle" /\ pc[r] = "working"
        /\ pc' = [pc EXCEPT ![r] = "releasing"]
        /\ stage' = [stage EXCEPT ![r] = "idle"]
        /\ at' = [at EXCEPT ![r] = 1] /\ body' = [body EXCEPT ![r] = 0]
        /\ result' = [result EXCEPT ![r] = NoResults]
        /\ UNCHANGED fileVars
    BY <1>2 DEF Answers, Finish, Goes
  <2>2. /\ stage' \in [RefreshOp -> RefreshStage] /\ stage'[r] = "idle"
        /\ at' \in [RefreshOp -> Artifact] /\ body' \in [RefreshOp -> Body \cup {0}]
        /\ \A q \in RefreshOp \ {r} : stage'[q] = stage[q] /\ at'[q] = at[q]
              /\ body'[q] = body[q] /\ result'[q] = result[q]
    BY <1>0, <2>1 DEF RefreshTypeOK, RefreshStage, Artifact
  <2>3. /\ NoResults \in [Artifact -> [status : Status, sha : Body \cup {0}]]
        /\ \A a \in Artifact : NoResults[a].status = "none"
    BY DEF NoResults, NoResult, Status
  <2>4. /\ result' \in [RefreshOp -> [Artifact -> [status : Status, sha : Body \cup {0}]]]
        /\ result'[r] = NoResults
    BY <1>0, <2>1, <2>3 DEF RefreshTypeOK
  <2>5. RefreshTypeOK' /\ NoTornArtifact'
    BY <1>0, <2>1, <2>2, <2>4 DEF RefreshTypeOK, NoTornArtifact, fileVars
  <2>6. HoldsLock(r)' /\ Knows(r)' /\ Reports(r)'
    BY <2>2, <2>3, <2>4 DEF HoldsLock, Knows, Reports, HasBody
  <2>7. \A q \in RefreshOp \ {r} : pc'[q] = pc[q]
    BY <1>0, <2>1, IsDoctorOp DEF TypeOK
  <2>8. ASSUME NEW q \in RefreshOp \ {r} PROVE HoldsLock(q)' /\ Knows(q)' /\ Reports(q)'
    BY <2>1, <2>2, <2>7 DEF FileInv, HoldsLock, Knows, Reports, fileVars
  <2> QED
    BY <2>5, <2>6, <2>8 DEF FileInv
<1>3. CASE RefreshWork(r) /\ UNCHANGED lockVars
  <2>1. /\ RefreshTypeOK' /\ NoTornArtifact' /\ Knows(r)' /\ Reports(r)'
        /\ (\A q \in RefreshOp \ {r} : stage'[q] = stage[q])
        /\ stage[r] # "idle" /\ pc[r] = "working" /\ pc' = pc
    BY <1>0, <1>3, WorkKeeps DEF HoldsLock, lockVars
  <2>2. ASSUME NEW q \in RefreshOp \ {r} PROVE HoldsLock(q)' /\ Knows(q)' /\ Reports(q)'
    <3>1. stage[q] = "idle"
      BY <2>1, IsDoctorOp DEF FileInv, HoldsLock, HolderInv
    <3>2. stage'[q] = "idle"
      BY <2>1, <3>1
    <3>3. \A a \in Artifact : result[q][a].status = "none"
      BY <3>1 DEF FileInv, Reports
    <3>4. result'[q] = result[q]
      BY <1>0, <1>3 DEF RefreshWork, CheckMount, Fetch, Compare, Snapshot, Open, WriteBody,
         Rename, Fsync, Pushes, Same, Throws, WriteFailed, RefreshTypeOK
    <3> QED
      BY <3>2, <3>3, <3>4 DEF HoldsLock, Knows, Reports, HasBody
  <2> QED
    BY <2>1, <2>2 DEF FileInv, HoldsLock
<1>4. CASE /\ \/ Create(r) \/ WriteFails(r) \/ ReadOwn(r) \/ ReadOther(r)
              \/ Unlink(r) \/ UnlinkFails(r)
           /\ UNCHANGED refreshVars
  <2>1. PcKept
    BY <1>0, <1>4, LockKeepsPc
  <2> QED
    BY <1>0, <1>4, <2>1, QuietKeeps DEF refreshVars, fileVars, RefreshTypeOK
<1> QED
  BY <1>1, <1>2, <1>3, <1>4 DEF RefreshStep

LEMMA DeathKeeps ==
  ASSUME FileInv, DoctorDies
  PROVE  FileInv'
<1> USE DEF DoctorDies, RefreshForgotten, fileVars
<1>1. /\ NoResults \in [Artifact -> [status : Status, sha : Body \cup {0}]]
      /\ \A a \in Artifact : NoResults[a].status = "none"
  BY DEF NoResults, NoResult, Status
<1>2. \A r \in RefreshOp : stage'[r] = "idle" /\ result'[r] = NoResults
  OBVIOUS
<1>3. RefreshTypeOK'
  BY <1>1 DEF FileInv, RefreshTypeOK, RefreshStage, Artifact
<1>4. NoTornArtifact'
  BY DEF FileInv, NoTornArtifact
<1> QED
  BY <1>1, <1>2, <1>3, <1>4 DEF FileInv, HoldsLock, Knows, Reports, HasBody

LEMMA FileStep ==
  ASSUME FileInv, HolderInv, [HostNext]_hostVars
  PROVE  FileInv'
<1>0. TypeOK /\ published \in Body
  BY DEF HolderInv, FileInv, RefreshTypeOK
<1>1. ASSUME NEW r \in RefreshOp, RefreshStep(r) PROVE FileInv'
  BY <1>1, RefreshKeeps
<1>2. CASE PruneStep /\ UNCHANGED refreshVars
  <2>1. PcKept
    <3>1. CASE UNCHANGED lockVars
      BY <3>1 DEF lockVars, PcKept
    <3>2. CASE ~UNCHANGED lockVars
      BY <1>0, <1>2, <3>2, LockKeepsPc, IsDoctorOp DEF PruneStep, PruneBegins, PruneEnds
    <3> QED
      BY <3>1, <3>2
  <2> QED
    BY <1>0, <1>2, <2>1, QuietKeeps DEF refreshVars, fileVars
<1>3. CASE Publish /\ UNCHANGED <<lockVars, retentionVars>>
  <2>1. PcKept
    BY <1>3 DEF lockVars, PcKept
  <2>2. published' \in Body
    BY <1>0, <1>3 DEF Publish, Body
  <2> QED
    BY <1>3, <2>1, <2>2, QuietKeeps DEF Publish
<1>4. CASE (Pull \/ StartFrom) /\ UNCHANGED <<lockVars, refreshVars>>
  <2>1. PcKept
    BY <1>4 DEF lockVars, PcKept
  <2> QED
    BY <1>0, <1>4, <2>1, QuietKeeps DEF refreshVars, fileVars
<1>5. CASE DoctorDies
  BY <1>5, DeathKeeps
<1>6. CASE Elsewhere
  <2>1. ASSUME NEW p \in UpdaterOp, UpdaterStep(p) PROVE PcKept
    <3>1. p \in Op /\ p \notin RefreshOp
      BY IsDoctorOp DEF Op
    <3> QED
      BY <1>0, <2>1, <3>1, LockKeepsPc DEF UpdaterStep
  <2>2. ASSUME Crash(UpdaterOp) PROVE PcKept
    BY <2>2, IsDoctorOp DEF Crash, PcKept
  <2>3. ASSUME (\E i \in lingering : Settle(i)) \/ ForceClear PROVE PcKept
    BY <2>3 DEF Settle, ForceClear, PcKept
  <2>4. PcKept
    BY <1>6, <2>1, <2>2, <2>3 DEF Elsewhere
  <2> QED
    BY <1>0, <1>6, <2>4, QuietKeeps DEF Elsewhere, refreshVars, fileVars
<1>7. CASE UNCHANGED hostVars
  <2>1. PcKept
    BY <1>7 DEF hostVars, lockVars, PcKept
  <2> QED
    BY <1>0, <1>7, <2>1, QuietKeeps DEF hostVars, refreshVars, fileVars
<1> QED
  BY <1>1, <1>2, <1>3, <1>4, <1>5, <1>6, <1>7 DEF HostNext, HostGoesOn

LEMMA FileCorrect == ~ClearsLiveLock => (HostSpec => [](FileInv /\ HolderInv))
<1> SUFFICES ASSUME ~ClearsLiveLock PROVE HostSpec => [](FileInv /\ HolderInv)
  OBVIOUS
<1>1. HostInit => FileInv /\ HolderInv
  BY FileInit, HolderInit DEF HostInit
<1>2. FileInv /\ HolderInv /\ [HostNext]_hostVars => (FileInv /\ HolderInv)'
  BY FileStep, HostLockStep, HolderStep
<1> QED
  BY <1>1, <1>2, PTL DEF HostSpec

-----------------------------------------------------------------------------
(* The types of a refresh need no lock.                                    *)

LEMMA WorkTyped ==
  ASSUME RefreshTypeOK, NEW r \in RefreshOp, RefreshWork(r)
  PROVE  RefreshTypeOK'
<1>0. /\ at[r] \in Artifact /\ body[r] \in Body \cup {0} /\ 0 \in Body \cup {0}
      /\ Body \cup {0} \subseteq Content /\ published \in Body
  BY Contents DEF RefreshTypeOK
<1>1. ASSUME NEW st \in Status, NEW sha \in Body \cup {0}, Pushes(r, st, sha),
             UNCHANGED fileVars
      PROVE  RefreshTypeOK'
  BY <1>1, PushesTyped DEF RefreshTypeOK, fileVars
<1>2. ASSUME NEW s \in RefreshStage, Goes(r, s), Same(r), UNCHANGED <<published, mounted>>,
             /\ dest' \in [Artifact -> Content] /\ tmp' \in [Artifact -> Content]
             /\ snapshots' \in [Artifact -> SUBSET (Content \ {0})]
      PROVE  RefreshTypeOK'
  BY <1>2, GoesTyped DEF RefreshTypeOK
<1>3. WriteFailed(r) /\ UNCHANGED fileVars => RefreshTypeOK'
  BY <1>0, <1>1 DEF WriteFailed, Status
<1> USE DEF RefreshStage, Status, fileVars, Throws
<1>4. CASE CheckMount(r)
  BY <1>0, <1>1, <1>2, <1>4 DEF CheckMount, RefreshTypeOK
<1>5. CASE Fetch(r)
  <2>1. CASE body' = [body EXCEPT ![r] = published] /\ Goes(r, "compare")
             /\ UNCHANGED <<at, result>> /\ UNCHANGED fileVars
    BY <1>0, <2>1 DEF Goes, RefreshTypeOK
  <2> QED
    BY <1>0, <1>1, <1>5, <2>1 DEF Fetch
<1>6. CASE Compare(r)
  <2>1. CASE Pushes(r, "unchanged", body[r])
    BY <1>0, <1>1, <1>6, <2>1 DEF Compare
  <2>2. ASSUME NEW s \in RefreshStage, Goes(r, s), Same(r) PROVE RefreshTypeOK'
    BY <1>2, <1>6, <2>2 DEF Compare, RefreshTypeOK
  <2> QED
    BY <1>6, <2>1, <2>2 DEF Compare
<1>7. CASE Snapshot(r)
  <2>1. snapshots[at[r]] \cup ({dest[at[r]]} \ {0}) \in SUBSET (Content \ {0})
    BY <1>0 DEF RefreshTypeOK
  <2>2. snapshots' \in [Artifact -> SUBSET (Content \ {0})]
    BY <1>0, <1>7, <2>1 DEF Snapshot, RefreshTypeOK
  <2> QED
    BY <1>2, <1>7, <2>2 DEF Snapshot, RefreshTypeOK
<1>8. ASSUME NEW c \in Content, tmp' = [tmp EXCEPT ![at[r]] = c]
      PROVE  tmp' \in [Artifact -> Content]
  BY <1>0, <1>8 DEF RefreshTypeOK
<1>9. CASE Open(r)
  <2>1. CASE tmp' = [tmp EXCEPT ![at[r]] = Torn] /\ Goes(r, "write") /\ Same(r)
    <3>1. tmp' \in [Artifact -> Content]
      BY <1>8, <2>1, Contents
    <3> QED
      BY <1>2, <1>9, <2>1, <3>1 DEF Open, RefreshTypeOK
  <2> QED
    BY <1>3, <1>9, <2>1 DEF Open
<1>10. CASE WriteBody(r)
  <2>1. ASSUME NEW c \in {body[r], Short}, tmp' = [tmp EXCEPT ![at[r]] = c],
               Goes(r, "rename"), Same(r)
        PROVE  RefreshTypeOK'
    <3>1. tmp' \in [Artifact -> Content]
      BY <1>0, <1>8, <2>1, Contents
    <3> QED
      BY <1>2, <1>10, <2>1, <3>1 DEF WriteBody, RefreshTypeOK
  <2> QED
    BY <1>3, <1>10, <2>1 DEF WriteBody
<1>11. CASE Rename(r)
  <2>1. tmp' \in [Artifact -> Content] /\ dest' \in [Artifact -> Content]
    BY <1>0, <1>11, Contents DEF Rename, RefreshTypeOK
  <2> QED
    BY <1>2, <1>3, <1>11, <2>1 DEF Rename, RefreshTypeOK
<1>12. CASE Fsync(r)
  BY <1>0, <1>1, <1>3, <1>12 DEF Fsync
<1> QED
  BY <1>4, <1>5, <1>6, <1>7, <1>9, <1>10, <1>11, <1>12 DEF RefreshWork

LEMMA RefreshTyped == RefreshTypeOK /\ [HostNext]_hostVars => RefreshTypeOK'
<1> SUFFICES ASSUME RefreshTypeOK, [HostNext]_hostVars PROVE RefreshTypeOK'
  OBVIOUS
<1>1. CASE UNCHANGED refreshVars
  BY <1>1 DEF refreshVars, fileVars, loopVars, RefreshTypeOK
<1>2. ASSUME NEW r \in RefreshOp, RefreshWork(r) PROVE RefreshTypeOK'
  BY <1>2, WorkTyped
<1>3. NoResults \in [Artifact -> [status : Status, sha : Body \cup {0}]] /\ 1 \in Artifact
  BY ArtifactAssumption DEF NoResults, NoResult, Status, Artifact, ArtifactAssumption
<1>4. ASSUME NEW r \in RefreshOp, Begins(r) \/ Answers(r) PROVE RefreshTypeOK'
  <2>1. CASE Begins(r)
    BY <2>1 DEF Begins, Goes, fileVars, RefreshTypeOK, RefreshStage
  <2>2. CASE Answers(r)
    BY <1>3, <2>2 DEF Answers, Goes, fileVars, RefreshTypeOK, RefreshStage
  <2> QED
    BY <1>4, <2>1, <2>2
<1>5. CASE Publish
  BY <1>5 DEF Publish, loopVars, RefreshTypeOK, Body
<1>6. CASE RefreshForgotten
  BY <1>3, <1>6 DEF RefreshForgotten, fileVars, RefreshTypeOK, RefreshStage
<1> QED
  BY <1>1, <1>2, <1>4, <1>5, <1>6 DEF HostNext, HostGoesOn, hostVars, RefreshStep, DoctorDies, Elsewhere

(* The refresh's state is well typed whatever the operator clears: two     *)
(* refreshes in the loop at once may write over one another, but each      *)
(* stays within the table and leaves whole results                         *)
(* (src/src/installer/refresh.ts:219-347).                                 *)
THEOREM RefreshTypeCorrect == HostSpec => []RefreshTypeOK
<1>1. HostInit => RefreshTypeOK
  BY FileInit DEF FileInv
<1> QED
  BY <1>1, RefreshTyped, PTL DEF HostSpec

-----------------------------------------------------------------------------
(* While nobody clears the lock under an operation, no command on the      *)
(* host's PATH is ever half of one, whatever dies, fails or runs beside it *)
(* (src/src/installer/refresh.ts:219-243).                                 *)
THEOREM NeverTorn == ~ClearsLiveLock => (HostSpec => []NoTornArtifact)
<1>1. FileInv => NoTornArtifact
  BY DEF FileInv
<1> QED
  BY <1>1, FileCorrect, PTL

(* The hash beside "updated" or "unchanged" is that of the bytes at the    *)
(* destination, or of what a short write was given, at the moment the      *)
(* answer is given (src/src/installer/refresh.ts:293-347).                 *)
THEOREM RefreshTellsTruth == ~ClearsLiveLock => (HostSpec => []AnswerIsTrue)
<1>1. FileInv => AnswerIsTrue
  BY DEF FileInv, Reports, AnswerIsTrue
<1> QED
  BY <1>1, FileCorrect, PTL

(* Whatever a refresh replaces has been copied away before                 *)
(* (src/src/installer/refresh.ts:245-252).                                 *)
THEOREM ReplacedIsSaved == ~ClearsLiveLock => (HostSpec => NothingReplacedUnsaved)
<1>1. ASSUME FileInv, [HostNext]_hostVars
      PROVE  [\A a \in Artifact :
                dest'[a] # dest[a] => dest[a] \in snapshots[a] \cup {0}]_refreshVars
  <2> SUFFICES ASSUME NEW a \in Artifact, dest'[a] # dest[a]
               PROVE  dest[a] \in snapshots[a] \cup {0}
    OBVIOUS
  <2>1. PICK r \in RefreshOp : Rename(r)
    BY <1>1 DEF HostNext, HostGoesOn, hostVars, refreshVars, fileVars, RefreshStep, Begins, Answers,
       RefreshWork, CheckMount, Fetch, Compare, Snapshot, Open, WriteBody, Fsync, Publish,
       DoctorDies, RefreshForgotten, Elsewhere
  <2>2. dest[at[r]] \in snapshots[at[r]] \cup {0}
    BY <1>1, <2>1 DEF FileInv, Knows, Rename
  <2>3. a = at[r]
    BY <1>1, <2>1 DEF FileInv, RefreshTypeOK, Rename
  <2> QED
    BY <2>2, <2>3
<1> QED
  BY <1>1, FileCorrect, PTL DEF HostSpec, NothingReplacedUnsaved

-----------------------------------------------------------------------------
(* The files implement the abstract store.  What Knows leaves out is their *)
(* age: what is there was served once, and is older than the body that is  *)
(* about to replace it.                                                    *)

Ages ==
  /\ \A a \in Artifact : dest[a] \in 0 .. published \cup {Short}
  /\ \A r \in RefreshOp :
       stage[r] \in HasBody =>
         body[r] <= published /\ (dest[at[r]] # Short => dest[at[r]] <= body[r])
  /\ \A r \in RefreshOp :
       stage[r] \in {"snapshot", "open", "write", "rename"} => dest[at[r]] # body[r]

LEMMA AgesInit == HostInit => Ages
  BY DEF HostInit, RefreshInit, Ages, HasBody

(* Whoever works on the artifacts does so alone.                           *)
LEMMA OthersAtRest ==
  ASSUME FileInv, HolderInv, NEW r \in RefreshOp, stage[r] # "idle"
  PROVE  \A q \in RefreshOp \ {r} : stage[q] = "idle"
  BY IsDoctorOp DEF FileInv, HoldsLock, HolderInv

(* A step of one refresh that leaves the destinations alone.               *)
LEMMA AgesInLoop ==
  ASSUME FileInv, HolderInv, Ages, NEW r \in RefreshOp, stage[r] # "idle",
         \A q \in RefreshOp \ {r} : stage'[q] = stage[q],
         UNCHANGED <<published, dest>>,
         stage'[r] \in HasBody =>
           /\ at'[r] = at[r] /\ body'[r] <= published
           /\ dest[at[r]] # Short => dest[at[r]] <= body'[r],
         stage'[r] \in {"snapshot", "open", "write", "rename"} => dest[at[r]] # body'[r]
  PROVE  Ages'
<1>1. \A q \in RefreshOp \ {r} : stage'[q] = "idle"
  BY OthersAtRest
<1> QED
  BY <1>1 DEF Ages, HasBody

LEMMA AgesInWork ==
  ASSUME FileInv, HolderInv, Ages, NEW r \in RefreshOp, RefreshWork(r)
  PROVE  Ages'
<1>0. /\ RefreshTypeOK /\ Knows(r) /\ stage[r] # "idle" /\ at[r] \in Artifact
      /\ body[r] \in Body \cup {0} /\ published \in Body
      /\ \A q \in RefreshOp \ {r} : stage'[q] = stage[q]
  BY WorkKeeps DEF FileInv, RefreshTypeOK
<1>1. /\ stage[r] \in HasBody =>
           body[r] <= published /\ (dest[at[r]] # Short => dest[at[r]] <= body[r])
      /\ stage[r] \in {"snapshot", "open", "write", "rename"} => dest[at[r]] # body[r]
      /\ dest[at[r]] \in 0 .. published \cup {Short}
  BY <1>0 DEF Ages
<1>2. ASSUME NEW st \in Status, NEW sha \in Body \cup {0}, Pushes(r, st, sha),
             UNCHANGED <<published, dest>>
      PROVE  Ages'
  <2>1. stage'[r] \in {"mount", "over"}
    BY <1>2, PushesShape
  <2> QED
    BY <1>0, <1>2, <2>1, AgesInLoop DEF HasBody
<1>3. ASSUME NEW s \in RefreshStage, Goes(r, s), Same(r), UNCHANGED <<published, dest>>,
             s \in HasBody => stage[r] \in HasBody,
             s \in {"snapshot", "open", "write", "rename"} => dest[at[r]] # body[r]
      PROVE  Ages'
  <2>1. stage'[r] = s /\ UNCHANGED <<at, body>>
    BY <1>3, GoesShape
  <2> QED
    BY <1>0, <1>1, <1>3, <2>1, AgesInLoop
<1> USE DEF HasBody, RefreshStage, Status
<1>4. CASE CheckMount(r)
  BY <1>2, <1>3, <1>4 DEF CheckMount, fileVars
<1>5. CASE Fetch(r)
  <2>1. CASE /\ body' = [body EXCEPT ![r] = published] /\ Goes(r, "compare")
             /\ UNCHANGED <<at, result, published, dest>>
    <3>1. stage'[r] = "compare" /\ body'[r] = published /\ at'[r] = at[r]
      BY <1>0, <2>1 DEF Goes, RefreshTypeOK
    <3>2. published \in Nat /\ dest[at[r]] # Short => dest[at[r]] <= published
      BY <1>0, <1>1
    <3> QED
      BY <1>0, <2>1, <3>1, <3>2, AgesInLoop DEF Body
  <2> QED
    BY <1>2, <1>5, <2>1 DEF Fetch, fileVars
<1>6. CASE Compare(r)
  BY <1>0, <1>2, <1>3, <1>6 DEF Compare, Throws, fileVars
<1>7. CASE Snapshot(r)
  BY <1>1, <1>3, <1>7 DEF Snapshot, Throws
<1>8. CASE Open(r)
  BY <1>1, <1>2, <1>3, <1>8 DEF Open, WriteFailed
<1>9. CASE WriteBody(r)
  BY <1>1, <1>2, <1>3, <1>9 DEF WriteBody, WriteFailed
<1>10. CASE Rename(r)
  <2>1. CASE UNCHANGED <<published, dest>> /\ WriteFailed(r)
    BY <1>2, <2>1 DEF WriteFailed
  <2>2. CASE /\ dest' = [dest EXCEPT ![at[r]] = tmp[at[r]]]
             /\ Goes(r, "fsync") /\ Same(r) /\ published' = published
    <3>1. /\ stage'[r] = "fsync" /\ UNCHANGED <<at, body>>
          /\ \A q \in RefreshOp \ {r} : stage'[q] = "idle"
      BY <1>0, <2>2, GoesShape, OthersAtRest
    <3>2. tmp[at[r]] \in {body[r], Short} /\ body[r] \in Body /\ body[r] <= published
      BY <1>0, <1>1, <1>10 DEF Knows, Rename
    <3>3. /\ dest'[at[r]] = tmp[at[r]]
          /\ \A a \in Artifact \ {at[r]} : dest'[a] = dest[a]
      BY <1>0, <2>2 DEF RefreshTypeOK
    <3>4. \A a \in Artifact : dest'[a] \in 0 .. published \cup {Short}
      BY <1>0, <3>2, <3>3 DEF Ages, Body
    <3>5. dest'[at[r]] # Short => dest'[at[r]] <= body[r]
      BY <3>2, <3>3 DEF Body
    <3> QED
      BY <2>2, <3>1, <3>2, <3>4, <3>5 DEF Ages
  <2> QED
    BY <1>10, <2>1, <2>2 DEF Rename
<1>11. CASE Fsync(r)
  BY <1>0, <1>2, <1>11 DEF Fsync, WriteFailed, fileVars
<1> QED
  BY <1>4, <1>5, <1>6, <1>7, <1>8, <1>9, <1>10, <1>11 DEF RefreshWork

LEMMA AgesStep ==
  ASSUME FileInv, HolderInv, Ages, [HostNext]_hostVars
  PROVE  Ages'
<1>0. published \in Body /\ stage \in [RefreshOp -> RefreshStage] /\ body \in [RefreshOp -> Body \cup {0}]
      /\ dest \in [Artifact -> Content] /\ at \in [RefreshOp -> Artifact]
  BY DEF FileInv, RefreshTypeOK
<1>1. CASE UNCHANGED refreshVars
  BY <1>1 DEF refreshVars, fileVars, loopVars, Ages
<1>2. ASSUME NEW r \in RefreshOp, RefreshWork(r) PROVE Ages'
  BY <1>2, AgesInWork
<1>3. ASSUME NEW r \in RefreshOp, Begins(r) \/ Answers(r) PROVE Ages'
  <2>1. /\ \A q \in RefreshOp : stage'[q] \in HasBody => stage'[q] = stage[q] /\ q # r
        /\ \A q \in RefreshOp \ {r} : at'[q] = at[q] /\ body'[q] = body[q]
        /\ UNCHANGED <<published, dest>>
    BY <1>0, <1>3 DEF Begins, Answers, Goes, fileVars, HasBody
  <2> QED
    BY <2>1 DEF Ages, HasBody
<1>4. CASE Publish
  <2>1. /\ published' = published + 1 /\ UNCHANGED <<dest, stage, at, body>>
        /\ published \in Nat
    BY <1>0, <1>4 DEF Publish, loopVars, Body
  <2>2. \A a \in Artifact : dest'[a] \in 0 .. published' \cup {Short}
    BY <2>1 DEF Ages
  <2>3. \A r \in RefreshOp : stage[r] \in HasBody => body[r] <= published'
    BY <1>0, <2>1 DEF Ages, Body
  <2> QED
    BY <2>1, <2>2, <2>3 DEF Ages
<1>5. CASE RefreshForgotten
  BY <1>5 DEF RefreshForgotten, fileVars, Ages, HasBody
<1> QED
  BY <1>1, <1>2, <1>3, <1>4, <1>5 DEF HostNext, HostGoesOn, hostVars, RefreshStep, DoctorDies, Elsewhere

(* A step writes to the files and their copies in one way or none.         *)
LEMMA WhoWritesFiles ==
  ASSUME [HostNext]_hostVars
  PROVE  \/ UNCHANGED <<published, dest, snapshots>>
         \/ Publish
         \/ \E r \in RefreshOp : Snapshot(r) \/ Rename(r)
  BY DEF HostNext, HostGoesOn, hostVars, refreshVars, fileVars, RefreshStep, Begins, Answers,
     RefreshWork, CheckMount, Fetch, Compare, Open, WriteBody, Fsync, DoctorDies,
     RefreshForgotten, Elsewhere

LEMMA StoreRefined ==
  ASSUME FileInv, Ages, [HostNext]_hostVars
  PROVE  [AS!StoreNext]_(AS!storeVars)
<1> USE DEF AS!storeVars, AS!StoreNext
<1>1. CASE UNCHANGED <<published, dest, snapshots>>
  BY <1>1
<1>2. CASE Publish
  BY <1>2 DEF Publish, AS!Publish
<1>3. ASSUME NEW r \in RefreshOp, Snapshot(r) PROVE [AS!StoreNext]_(AS!storeVars)
  <2>1. /\ at[r] \in Artifact /\ UNCHANGED <<published, dest>>
        /\ \/ snapshots' = snapshots
           \/ snapshots' = [snapshots EXCEPT ![at[r]] = @ \cup ({dest[at[r]]} \ {0})]
        /\ snapshots \in [Artifact -> SUBSET (Content \ {0})]
    BY <1>3 DEF Snapshot, FileInv, RefreshTypeOK
  <2>2. CASE dest[at[r]] = 0
    <3>1. snapshots[at[r]] \cup ({dest[at[r]]} \ {0}) = snapshots[at[r]]
      BY <2>2
    <3>2. snapshots' = snapshots
      BY <2>1, <3>1
    <3> QED
      BY <2>1, <3>2
  <2>3. CASE dest[at[r]] # 0
    <3>1. {dest[at[r]]} \ {0} = {dest[at[r]]}
      BY <2>3
    <3> QED
      BY <2>1, <2>3, <3>1 DEF AS!Save
  <2> QED
    BY <2>2, <2>3
<1>4. ASSUME NEW r \in RefreshOp, Rename(r) PROVE [AS!StoreNext]_(AS!storeVars)
  <2>1. /\ at[r] \in Artifact /\ published \in Nat /\ UNCHANGED <<published, snapshots>>
        /\ dest' = dest \/ dest' = [dest EXCEPT ![at[r]] = tmp[at[r]]]
    BY <1>4 DEF Rename, FileInv, RefreshTypeOK, Body
  <2>2. /\ tmp[at[r]] \in {body[r], Short} /\ body[r] \in Body
        /\ dest[at[r]] \in snapshots[at[r]] \cup {0}
    BY <1>4 DEF Rename, FileInv, Knows, HasBody
  <2>3. /\ body[r] <= published /\ dest[at[r]] \in 0 .. published \cup {Short}
        /\ dest[at[r]] # Short => dest[at[r]] <= body[r] /\ dest[at[r]] # body[r]
    BY <1>4, <2>1 DEF Rename, Ages, HasBody
  <2>4. tmp[at[r]] \in 1 .. published \cup {Short}
    BY <2>1, <2>2, <2>3 DEF Body
  <2>5. AS!Newer(tmp[at[r]], dest[at[r]])
    BY <2>1, <2>2, <2>3 DEF AS!Newer, Body
  <2> QED
    BY <2>1, <2>2, <2>4, <2>5 DEF AS!Replace
<1> QED
  BY <1>1, <1>2, <1>3, <1>4, WhoWritesFiles

(* While nobody clears the lock under an operation, all a refresh does to  *)
(* the host, its deaths, failures and rejections included, are steps of    *)
(* the abstract store: whole bodies in place of saved ones, and never an   *)
(* older one for a newer (src/src/installer/refresh.ts:219-347).           *)
THEOREM RefreshImplementsStore == ~ClearsLiveLock => (HostSpec => ImplementsArtifactStore)
<1> SUFFICES ASSUME ~ClearsLiveLock PROVE HostSpec => ImplementsArtifactStore
  OBVIOUS
<1>1. HostInit => AS!StoreInit /\ Ages
  BY AgesInit DEF HostInit, RefreshInit, AS!StoreInit, Body
<1>2. FileInv /\ HolderInv /\ Ages /\ [HostNext]_hostVars => Ages'
  BY AgesStep
<1>3. FileInv /\ Ages /\ [HostNext]_hostVars => [AS!StoreNext]_(AS!storeVars)
  BY StoreRefined
<1> QED
  BY <1>1, <1>2, <1>3, FileCorrect, PTL DEF HostSpec, ImplementsArtifactStore, AS!StoreSpec

-----------------------------------------------------------------------------
(* The prune.                                                              *)

StoreInv == tags \in Store /\ moves \in Nat

(* Only the prune and the operator's shell write to the store of images.   *)
LEMMA WhoWritesStore ==
  ASSUME [HostNext]_hostVars
  PROVE  \/ UNCHANGED storeVars
         \/ Pull
         \/ StartFrom
         \/ \E t \in todo : RemoveTag(t)
  BY DEF HostNext, HostGoesOn, hostVars, retentionVars, storeVars, RefreshStep, PruneStep, PruneBegins,
     PruneEnds, PruneForgets, PruneWork, ListImages, Inspect, DoctorDies, Elsewhere, Publish

LEMMA StoreStep ==
  ASSUME StoreInv, [HostNext]_hostVars
  PROVE  StoreInv'
<1> USE DEF StoreInv, Store
<1>1. CASE UNCHANGED storeVars
  BY <1>1 DEF storeVars
<1>2. CASE Pull
  <2>1. Release \subseteq Image
    BY DEF Release, Image
  <2> QED
    BY <1>2, <2>1 DEF Pull
<1>3. CASE StartFrom
  BY <1>3 DEF StartFrom
<1>4. ASSUME NEW t \in todo, RemoveTag(t) PROVE StoreInv'
  BY <1>4 DEF RemoveTag
<1> QED
  BY <1>1, <1>2, <1>3, <1>4, WhoWritesStore

(* Whatever the prune has learnt of the container, and wherever it has     *)
(* been moved since, its image keeps a tag: the engine refuses to take the *)
(* last one (src/src/image-retention.ts:194-206).                          *)
THEOREM RunningImageKeepsTag == HostSpec => RunningImageStays
<1>1. HostInit => StoreInv
  BY DEF HostInit, RetentionInit, StoreInv
<1>2. StoreInv /\ [HostNext]_hostVars => StoreInv'
  BY StoreStep
<1>3. ASSUME StoreInv, [HostNext]_hostVars
      PROVE  [moves' = moves /\ (\E t \in ImageTag : tags[t] = container)
                => \E t \in ImageTag : tags'[t] = container]_retentionVars
  <2> SUFFICES ASSUME moves' = moves, NEW u \in ImageTag, tags[u] = container
               PROVE  \E t \in ImageTag : tags'[t] = container
    OBVIOUS
  <2>1. CASE UNCHANGED storeVars
    BY <2>1 DEF storeVars
  <2>2. ~Pull /\ ~StartFrom
    BY <1>3 DEF StoreInv, Pull, StartFrom
  <2>3. ASSUME NEW t \in todo, RemoveTag(t)
        PROVE  \E v \in ImageTag : tags'[v] = container
    <3>1. CASE tags' = tags
      BY <3>1
    <3>2. CASE ~EngineRefuses(t) /\ tags' = [tags EXCEPT ![t] = NoImage]
      <4>1. PICK v \in ImageTag \ {t} : tags[v] = container
        BY <3>2 DEF EngineRefuses
      <4>2. tags'[v] = tags[v]
        BY <1>3, <3>2, <4>1 DEF StoreInv, Store
      <4> QED
        BY <4>1, <4>2
    <3> QED
      BY <2>3, <3>1, <3>2 DEF RemoveTag
  <2> QED
    BY <1>3, <2>1, <2>2, <2>3, WhoWritesStore
<1> QED
  BY <1>1, <1>2, <1>3, PTL DEF HostSpec, RunningImageStays

-----------------------------------------------------------------------------
(* The versions that are kept for a rollback.                              *)

LEMMA NewestExists ==
  ASSUME NEW R \in SUBSET Release, R # {}
  PROVE  \E m \in R : \A q \in R : ~(q > m)
<1> DEFINE Above(r) == {q \in R : q > r}
           All == {Above(r) : r \in R}
<1>1. Release \subseteq Nat /\ IsFiniteSet(Release)
  BY FS_Interval, ReleaseAssumption DEF Release, ReleaseAssumption
<1>2. IsFiniteSet(R)
  BY <1>1, FS_Subset
<1>3. All \subseteq FiniteSubsetsOf(R) /\ All # {}
  <2>1. ASSUME NEW r \in R PROVE Above(r) \in FiniteSubsetsOf(R)
    <3>1. Above(r) \in SUBSET R
      OBVIOUS
    <3>2. IsFiniteSet(Above(r))
      BY <1>2, <3>1, FS_Subset
    <3> QED
      BY <3>1, <3>2 DEF FiniteSubsetsOf
  <2> QED
    BY <2>1
<1>4. PICK least \in All : \A other \in All : <<other, least>> \notin StrictSubsetOrdering(R)
  BY <1>3, FS_StrictSubsetOrderingWellFounded, WFMin
<1>5. PICK m \in R : least = Above(m)
  OBVIOUS
<1>6. ASSUME NEW q \in R, q > m PROVE FALSE
  <2>1. Above(q) \subseteq Above(m)
    <3>1. \A x \in R : x > q => x > m
      BY <1>1, <1>6
    <3> QED
      BY <3>1
  <2>2. q \in Above(m) /\ q \notin Above(q)
    BY <1>1, <1>6
  <2>3. <<Above(q), Above(m)>> \in StrictSubsetOrdering(R)
    BY <2>1, <2>2 DEF StrictSubsetOrdering
  <2> QED
    BY <1>4, <1>5, <2>3
<1> QED
  BY <1>6

(* What stays: a protected version other than the one that was seen to run.*)
KeptVersion(r) ==
  listed[r] = r /\ tags[r] = r /\ r \in protected /\ r # inspected

PruneInv ==
  /\ StoreInv /\ listed \in Store /\ todo \in SUBSET ImageTag
  /\ \A r \in Release : tags[r] \in {NoImage, r} /\ listed[r] \in {NoImage, r}
  /\ prune \in {"idle", "list"} => todo = {}
  /\ todo \subseteq Tagged(listed)
  /\ prune = "inspect" => \A r \in Release : listed[r] = r => tags[r] = r
  /\ prune = "remove" /\ todo # {} =>
       /\ {inspected, listed[Rolling]} \ {NoImage} \subseteq protected
       /\ (\E t \in Release : listed[t] = t /\ t \notin protected)
            => \E r \in Release : KeptVersion(r)

LEMMA PruneInit == HostInit => PruneInv
<1> SUFFICES ASSUME HostInit PROVE PruneInv
  OBVIOUS
<1>1. NothingListed \in Store /\ \A r \in ImageTag : NothingListed[r] = NoImage
  BY DEF NothingListed, Store
<1> QED
  BY <1>1 DEF HostInit, RetentionInit, PruneInv, StoreInv, ImageTag

LEMMA InspectKeeps ==
  ASSUME Keep # 0, PruneInv, Inspect
  PROVE  PruneInv'
<1> DEFINE ids == {inspected', listed[Rolling]} \ {NoImage}
           other == {r \in Release \cap Tagged(listed) : listed[r] \notin ids}
           newer(r) == {listed[q] : q \in {p \in other : p > r}}
<1>1. protected' = ids \cup Rollbacks(ids) /\ UNCHANGED <<storeVars, listed, todo>>
      /\ prune' = "remove" /\ prune = "inspect"
  BY DEF Inspect
<1>2. ASSUME NEW t \in Release, listed[t] = t, t \notin protected'
      PROVE  \E r \in Release : KeptVersion(r)'
  <2>1. t \in other
    BY <1>1, <1>2 DEF Tagged, ImageTag, Release, NoImage
  <2>2. PICK m \in other : \A q \in other : ~(q > m)
    BY <2>1, NewestExists
  <2>3. newer(m) = {}
    BY <2>2
  <2>4. Cardinality(newer(m) \ {listed[m]}) = 0
    BY <2>3, FS_EmptySet
  <2>5. listed[m] \in Rollbacks(ids)
    <3>1. Rollbacks(ids) =
            {listed[r] : r \in {q \in other : Cardinality(newer(q) \ {listed[q]}) < Keep}}
      BY DEF Rollbacks
    <3>2. Cardinality(newer(m) \ {listed[m]}) < Keep
      BY <2>4, KeepAssumption DEF KeepAssumption
    <3> HIDE DEF other, newer, ids
    <3> QED
      BY <2>2, <3>1, <3>2
  <2>6. listed[m] = m /\ m # NoImage
    BY <2>2 DEF PruneInv, Tagged, Release, NoImage
  <2>7. tags'[m] = m /\ listed'[m] = m /\ m \in protected' /\ m # inspected'
    BY <1>1, <2>2, <2>5, <2>6 DEF PruneInv, storeVars
  <2> QED
    BY <2>2, <2>7 DEF KeptVersion
<1> QED
  BY <1>1, <1>2 DEF PruneInv, StoreInv, storeVars, Tagged

(* The prune is at work only while its operation is.                       *)
AtWork == TypeOK /\ (prune # "idle" => pc[PruneOp] = "working")

LEMMA AtWorkKept == AtWork /\ [HostNext]_hostVars => AtWork'
<1> SUFFICES ASSUME AtWork, [HostNext]_hostVars PROVE AtWork'
  OBVIOUS
<1>1. TypeOK'
  BY HostLockStep, TypeStep DEF AtWork
<1> SUFFICES ASSUME prune' # "idle" PROVE pc'[PruneOp] = "working"
  BY <1>1 DEF AtWork
<1>2. pc \in [Op -> Stage] /\ PruneOp \in Op /\ PruneOp \notin UpdaterOp
  BY IsDoctorOp DEF AtWork, TypeOK
<1>3. ASSUME pc'[PruneOp] = pc[PruneOp], prune # "idle" PROVE pc'[PruneOp] = "working"
  BY <1>3 DEF AtWork
<1>4. ASSUME NEW r \in RefreshOp, RefreshStep(r), UNCHANGED retentionVars
      PROVE  pc'[PruneOp] = "working"
  <2>1. r \in Op /\ r # PruneOp
    BY IsDoctorOp
  <2>2. pc'[PruneOp] = pc[PruneOp]
    BY <1>2, <1>4, <2>1 DEF RefreshStep, Begins, Answers, Create, Write, WriteFails, Finish,
       ReadOwn, ReadOther, Unlink, UnlinkFails, lockVars
  <2> QED
    BY <1>3, <1>4, <2>2 DEF retentionVars, pruneVars
<1>5. CASE PruneStep
  <2>1. CASE PruneBegins
    BY <1>2, <2>1 DEF PruneBegins, Write
  <2>2. CASE PruneEnds
    BY <2>2 DEF PruneEnds, PruneForgets
  <2>3. CASE PruneWork /\ UNCHANGED lockVars
    BY <1>3, <2>3 DEF PruneWork, ListImages, Inspect, RemoveTag, lockVars
  <2>4. CASE /\ \/ Create(PruneOp) \/ WriteFails(PruneOp) \/ ReadOwn(PruneOp)
                \/ ReadOther(PruneOp) \/ Unlink(PruneOp) \/ UnlinkFails(PruneOp)
             /\ UNCHANGED retentionVars
    <3>1. pc[PruneOp] # "working" /\ prune # "idle"
      BY <2>4 DEF Create, WriteFails, ReadOwn, ReadOther, Unlink, UnlinkFails, retentionVars,
         pruneVars
    <3> QED
      BY <3>1 DEF AtWork
  <2> QED
    BY <1>5, <2>1, <2>2, <2>3, <2>4 DEF PruneStep
<1>6. CASE Elsewhere
  <2>1. ASSUME NEW p \in UpdaterOp, UpdaterStep(p) PROVE pc'[PruneOp] = pc[PruneOp]
    BY <1>2, <2>1 DEF UpdaterStep, Create, Write, WriteFails, Finish, UpdaterRelease
  <2>2. CASE Crash(UpdaterOp)
    BY <1>2, <1>3, <1>6, <2>2 DEF Crash, Elsewhere, retentionVars, pruneVars
  <2>3. CASE (\E i \in lingering : Settle(i)) \/ ForceClear
    BY <1>3, <1>6, <2>3 DEF Settle, ForceClear, Elsewhere, retentionVars, pruneVars
  <2> QED
    BY <1>3, <1>6, <2>1, <2>2, <2>3 DEF Elsewhere, retentionVars, pruneVars
<1>7. CASE Publish /\ UNCHANGED <<lockVars, retentionVars>>
  BY <1>3, <1>7 DEF lockVars, retentionVars, pruneVars
<1>8. CASE (Pull \/ StartFrom) /\ UNCHANGED <<lockVars, refreshVars>>
  BY <1>3, <1>8 DEF Pull, StartFrom, lockVars, pruneVars
<1>9. CASE DoctorDies
  BY <1>9 DEF DoctorDies, PruneForgets
<1>10. CASE UNCHANGED hostVars
  BY <1>3, <1>10 DEF hostVars, lockVars, retentionVars, pruneVars
<1> QED
  BY <1>4, <1>5, <1>6, <1>7, <1>8, <1>9, <1>10 DEF HostNext, HostGoesOn

LEMMA WhatPruneKnows ==
  ASSUME [HostNext]_hostVars, AtWork
  PROVE  \/ UNCHANGED retentionVars
         \/ ListImages \/ Inspect \/ Pull \/ StartFrom
         \/ \E t \in todo : RemoveTag(t)
         \/ PruneForgets
         \/ prune' = "list" /\ prune = "idle" /\ UNCHANGED <<storeVars, listed, protected, todo, inspected>>
<1>1. PruneBegins => prune = "idle"
  BY DEF PruneBegins, Write, AtWork
<1> QED
  BY <1>1 DEF HostNext, HostGoesOn, hostVars, RefreshStep, PruneStep, PruneBegins, PruneEnds, PruneWork,
     DoctorDies, Elsewhere

LEMMA PruneKept ==
  ASSUME Keep # 0, PruneInv, AtWork, [HostNext]_hostVars
  PROVE  PruneInv'
<1>1. StoreInv'
  BY StoreStep DEF PruneInv
<1>2. CASE UNCHANGED retentionVars
  BY <1>2 DEF retentionVars, storeVars, pruneVars, PruneInv, StoreInv, KeptVersion, Tagged
<1>3. CASE ListImages
  <2>1. UNCHANGED <<storeVars, protected, inspected>> /\ todo = {} /\ prune = "list"
    BY <1>3 DEF ListImages, PruneInv
  <2>2. CASE listed' = tags /\ todo' = Tagged(tags) /\ prune' = "inspect"
    BY <2>1, <2>2 DEF PruneInv, StoreInv, storeVars, Tagged
  <2>3. CASE prune' = "remove" /\ UNCHANGED <<listed, todo>>
    BY <2>1, <2>3 DEF PruneInv, StoreInv, storeVars, Tagged
  <2> QED
    BY <1>3, <2>2, <2>3 DEF ListImages
<1>4. CASE Inspect
  BY <1>4, InspectKeeps
<1>5. CASE Pull
  <2>1. PICK r \in Release, too \in BOOLEAN :
          tags' = [t \in ImageTag |-> IF t = r \/ (too /\ t = Rolling) THEN r ELSE tags[t]]
    BY <1>5, Zenon DEF Pull
  <2>2. UNCHANGED pruneVars
    BY <1>5 DEF Pull
  <2>3. \A q \in Release : tags'[q] = IF q = r THEN r ELSE tags[q]
    BY <2>1, ReleaseAssumption DEF ImageTag, ReleaseAssumption
  <2>4. \A q \in Release : KeptVersion(q) => KeptVersion(q)'
    BY <2>2, <2>3 DEF KeptVersion, pruneVars
  <2> QED
    BY <1>1, <2>2, <2>3, <2>4 DEF PruneInv, pruneVars, Tagged
<1>6. CASE StartFrom
  BY <1>1, <1>6 DEF StartFrom, PruneInv, pruneVars, KeptVersion, Tagged
<1>7. ASSUME NEW t \in todo, RemoveTag(t) PROVE PruneInv'
  <2>1. /\ prune = "remove" /\ todo' = todo \ {t}
        /\ UNCHANGED <<prune, listed, protected, inspected>>
        /\ tags' = tags \/ (listed[t] \notin protected /\ tags' = [tags EXCEPT ![t] = NoImage])
    BY <1>7 DEF RemoveTag
  <2>2. \A q \in Release : tags'[q] \in {NoImage, tags[q]}
    BY <2>1 DEF PruneInv, StoreInv, Store, ImageTag
  <2>3. \A q \in Release : KeptVersion(q) => KeptVersion(q)'
    BY <2>1 DEF KeptVersion, PruneInv, StoreInv, Store, ImageTag
  <2> QED
    BY <1>1, <2>1, <2>2, <2>3 DEF PruneInv, Tagged
<1>8. CASE PruneForgets
  <2>1. NothingListed \in Store /\ \A r \in ImageTag : NothingListed[r] = NoImage
    BY DEF NothingListed, Store
  <2> QED
    BY <1>1, <1>8, <2>1 DEF PruneForgets, PruneInv, storeVars, ImageTag, Tagged
<1>9. CASE prune' = "list" /\ prune = "idle"
           /\ UNCHANGED <<storeVars, listed, protected, todo, inspected>>
  BY <1>1, <1>9 DEF PruneInv, storeVars, Tagged
<1> QED
  BY <1>2, <1>3, <1>4, <1>5, <1>6, <1>7, <1>8, <1>9, WhatPruneKnows

(* What a step that takes a tag away leaves to roll back to.               *)
RollbackLeft ==
  prune = "remove" /\ SawWhatRan /\ Others # {} /\ tags' # tags /\ moves' = moves
    => Others' # {}

LEMMA RemovalLeaves ==
  ASSUME PruneInv, prune = "remove", SawWhatRan, NEW t \in todo, RemoveTag(t), tags' # tags
  PROVE  Others' # {}
<1>1. /\ listed[t] \notin protected /\ tags' = [tags EXCEPT ![t] = NoImage]
      /\ UNCHANGED container
  BY DEF RemoveTag
<1>2. \A u \in ImageTag : u # t => tags'[u] = tags[u]
  BY <1>1 DEF PruneInv, StoreInv, Store
<1>3. t \in Release /\ listed[t] = t /\ t # NoImage
  BY <1>1 DEF PruneInv, Tagged, ImageTag, Release, NoImage
<1>4. PICK r \in Release : KeptVersion(r)
  BY <1>1, <1>3 DEF PruneInv
<1>5. r # t /\ tags'[r] = r /\ r # NoImage
  BY <1>1, <1>2, <1>3, <1>4 DEF KeptVersion, ImageTag, Release, NoImage
<1>6. ASSUME NEW u \in ImageTag, tags'[u] # NoImage, tags'[u] # container
      PROVE  Others' # {}
  BY <1>1, <1>6 DEF Others, Tagged
<1>7. CASE inspected = container
  BY <1>4, <1>5, <1>6, <1>7 DEF KeptVersion, ImageTag
<1>8. CASE inspected # container
  <2>1. PICK u \in ImageTag : tags[u] = inspected /\ inspected # NoImage
    BY <1>8 DEF SawWhatRan
  <2>2. u # t
    BY <1>1, <1>3, <2>1 DEF PruneInv
  <2> QED
    BY <1>2, <1>6, <1>8, <2>1, <2>2
<1> QED
  BY <1>7, <1>8

(* If anything is kept at all, the last other version there is to roll     *)
(* back to survives the prune, whatever the operator pulls or starts       *)
(* meanwhile (src/src/image-retention.ts:178-206).                         *)
THEOREM RollbackIsKept == Keep # 0 => (HostSpec => RollbackSurvives)
<1> SUFFICES ASSUME Keep # 0 PROVE HostSpec => RollbackSurvives
  OBVIOUS
<1>1. HostInit => PruneInv /\ AtWork
  BY PruneInit, TypeInit DEF HostInit, RetentionInit, AtWork
<1>2. PruneInv /\ AtWork /\ [HostNext]_hostVars => (PruneInv /\ AtWork)'
  BY PruneKept, AtWorkKept
<1>3. PruneInv /\ [HostNext]_hostVars => RollbackLeft
  <2> SUFFICES ASSUME PruneInv, [HostNext]_hostVars, prune = "remove", SawWhatRan,
                      tags' # tags, moves' = moves
               PROVE  Others' # {}
    BY DEF RollbackLeft
  <2>1. ~Pull /\ ~StartFrom /\ ~UNCHANGED storeVars
    BY DEF PruneInv, StoreInv, Pull, StartFrom, storeVars
  <2> QED
    BY <2>1, WhoWritesStore, RemovalLeaves
<1>4. RollbackLeft =>
        (prune = "remove" /\ SawWhatRan /\ Others # {} /\ tags' # tags /\ moves' = moves
           => Others' # {})
  BY DEF RollbackLeft
<1> QED
  BY <1>1, <1>2, <1>3, <1>4, PTL DEF HostSpec, RollbackSurvives
-----------------------------------------------------------------------------
(* The prune's state has its type.                                         *)
RetentionTyped == RetentionTypeOK /\ AtWork

LEMMA RetentionInitially == HostInit => RetentionTyped
<1>1. NothingListed \in Store
  BY DEF NothingListed, Store
<1> QED
  BY <1>1, TypeInit, MaxMovesAssumption DEF HostInit, RetentionInit, RetentionTyped,
     RetentionTypeOK, AtWork, MaxMovesAssumption, PruneStage, Store, Tagged, Image, NoImage

LEMMA RetentionTypedStep == RetentionTyped /\ [HostNext]_hostVars => RetentionTyped'
<1> SUFFICES ASSUME RetentionTyped, [HostNext]_hostVars PROVE RetentionTypeOK'
  BY AtWorkKept DEF RetentionTyped
<1> USE DEF RetentionTyped, RetentionTypeOK
<1>1. StoreInv' /\ \A s \in Store : \A t \in Tagged(s) : s[t] \in Image
  BY StoreStep DEF StoreInv, Store, Tagged
<1>2. CASE UNCHANGED retentionVars
  BY <1>2 DEF retentionVars, storeVars, pruneVars
<1>3. CASE ListImages
  BY <1>3 DEF ListImages, storeVars, PruneStage, Tagged
<1>4. CASE Inspect
  <2>1. /\ inspected' \in Image \cup {NoImage} /\ prune' \in PruneStage
        /\ UNCHANGED <<storeVars, listed, todo>>
    BY <1>4 DEF Inspect, PruneStage
  <2>2. {inspected', listed[Rolling]} \ {NoImage} \subseteq Image
    BY <2>1 DEF Store, ImageTag
  <2>3. \A ids : Rollbacks(ids) \subseteq Image
    BY <1>1 DEF Rollbacks
  <2>4. protected' \subseteq Image
    BY <1>4, <2>2, <2>3 DEF Inspect
  <2> QED
    BY <2>1, <2>4 DEF storeVars
<1>5. CASE Pull
  BY <1>1, <1>5, MaxMovesAssumption DEF Pull, pruneVars, StoreInv, MaxMovesAssumption
<1>6. CASE StartFrom
  <2>1. container' \in Image
    BY <1>1, <1>6 DEF StartFrom
  <2> QED
    BY <1>6, <2>1, MaxMovesAssumption DEF StartFrom, pruneVars, MaxMovesAssumption
<1>7. ASSUME NEW t \in todo, RemoveTag(t) PROVE RetentionTypeOK'
  BY <1>1, <1>7 DEF RemoveTag, StoreInv
<1>8. CASE PruneForgets
  BY <1>8 DEF PruneForgets, storeVars, PruneStage, NothingListed, Store
<1>9. CASE prune' = "list" /\ UNCHANGED <<storeVars, listed, protected, todo, inspected>>
  BY <1>9 DEF storeVars, PruneStage
<1> QED
  BY <1>2, <1>3, <1>4, <1>5, <1>6, <1>7, <1>8, <1>9, WhatPruneKnows

(* What the prune knows, protects and has still to look at is always of    *)
(* the images and tags there are, whatever the engine answers, the         *)
(* operator does, or dies (src/src/image-retention.ts:116-206).            *)
THEOREM RetentionTypeCorrect == HostSpec => []RetentionTypeOK
<1>1. RetentionTyped => RetentionTypeOK
  BY DEF RetentionTyped
<1> QED
  BY <1>1, RetentionInitially, RetentionTypedStep, PTL DEF HostSpec
=============================================================================
