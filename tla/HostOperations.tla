---------------------------- MODULE HostOperations ----------------------------
(***************************************************************************)
(* The doctor's operations that use withMutex() as it is, side by side     *)
(* with the updater: requests for an installer refresh and the boot-time   *)
(* prune.  Both keep their state in one process, so they die together.     *)
(***************************************************************************)
EXTENDS InstallerRefresh, ImageRetention

ASSUME SeparateAssumption == PruneOp \notin RefreshOp

hostVars == <<lockVars, refreshVars, retentionVars>>

HostInit == Init /\ RefreshInit /\ RetentionInit

DoctorDies ==
  /\ Crash(DoctorOp)
  /\ RefreshForgotten
  /\ PruneForgets

(* The updater, its death, what outlives it, and the operator.             *)
Elsewhere ==
  /\ \/ \E p \in UpdaterOp : UpdaterStep(p)
     \/ Crash(UpdaterOp)
     \/ \E i \in lingering : Settle(i)
     \/ ForceClear
  /\ UNCHANGED <<refreshVars, retentionVars>>

HostGoesOn ==
  \/ (\E r \in RefreshOp : RefreshStep(r)) /\ UNCHANGED retentionVars
  \/ PruneStep /\ UNCHANGED refreshVars
  \/ Publish /\ UNCHANGED <<lockVars, retentionVars>>
  \/ (Pull \/ StartFrom) /\ UNCHANGED <<lockVars, refreshVars>>
  \/ Elsewhere

HostNext == HostGoesOn \/ DoctorDies

HostSpec == HostInit /\ [][HostNext]_hostVars

(* Files, the container runtime and the pages answer (fetch gives up by    *)
(* itself after minutes of silence).  Nobody has to start an operation,    *)
(* and nobody clears a lock.                                               *)
HostFairness ==
  /\ \A r \in RefreshOp :
       /\ WF_hostVars(Begins(r) /\ UNCHANGED retentionVars)
       /\ WF_hostVars(RefreshWork(r) /\ UNCHANGED <<lockVars, retentionVars>>)
       /\ WF_hostVars(Answers(r) /\ UNCHANGED retentionVars)
  /\ WF_hostVars((PruneBegins \/ PruneEnds \/ (PruneWork /\ UNCHANGED lockVars))
                   /\ UNCHANGED refreshVars)
  /\ \A p \in DoctorOp :
       WF_hostVars((ReadOwn(p) \/ ReadOther(p) \/ Unlink(p) \/ UnlinkFails(p))
                     /\ UNCHANGED <<refreshVars, retentionVars>>)
  /\ \A p \in UpdaterOp :
       WF_hostVars((Write(p) \/ Finish(p) \/ UpdaterRelease(p))
                     /\ UNCHANGED <<refreshVars, retentionVars>>)

HostFairSpec == HostSpec /\ HostFairness

(* Both use the operation lock as its own operations do.                   *)
HostUsesLock == [][LockNext]_lockVars
=============================================================================
